------------------------------ MODULE MCStore -------------------------------
\* Instances of Store for TLC; the processes and contents are interchangeable.
EXTENDS StoreSafety, TLC

Symmetry == Permutations(Proc) \cup Permutations(Bytes)
              \cup Permutations(DirIno) \cup Permutations(FileIno)
=============================================================================
