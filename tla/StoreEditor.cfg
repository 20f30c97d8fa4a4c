SPECIFICATION Spec
CONSTANTS
  Proc = {p1, p2}
  Id = {i1}
  Bytes = {b1, b2}
  DirIno = {d1, d2}
  FileIno = {f1, f2, f3}
  MaxAttempt = 1
  MaxOps = 2
  MaxEdits = 2
  Commands = {"find", "new", "set"}
  Env = {"editor", "io", "stat", "crash"}
  Nil = Nil
  Partial = Partial
SYMMETRY Symmetry
INVARIANTS
  GInv
  NeverTorn
PROPERTIES
  GuardedRename
