------------------------------ MODULE Database ------------------------------
(***************************************************************************)
(* What the storage layer promises the commands that use it together.      *)
(*                                                                         *)
(* A task is a cell: absent, a reserved directory without a TASK.md yet,   *)
(* or complete content.  A process replaces content only by compare and    *)
(* swap against what it last read, and creates a task by reserving an      *)
(* absent cell that only it may publish or release.  A reservation whose   *)
(* owner died, or could not undo it, stays reserved: nobody takes it over  *)
(* and nobody removes it.                                                  *)
(* Nothing here says lock, inode or temporary file; module Store does, and *)
(* implements this specification.                                          *)
(***************************************************************************)
CONSTANTS Proc,      \* processes
          Id,        \* task ids
          Bytes,     \* contents a TASK.md can have
          Absent,    \* no directory of that name
          Reserved,  \* a directory without a TASK.md
          None       \* "nothing read" and "nothing claimed"

VARIABLES db,     \* the cells
          seen,   \* what each process last read of each task
          claim   \* the task each process has reserved and not yet published

vars == <<db, seen, claim>>

Cell == Bytes \cup {Absent, Reserved}

TypeOK == /\ db \in [Id -> Cell]
          /\ seen \in [Proc -> [Id -> Bytes \cup {None}]]
          /\ claim \in [Proc -> Id \cup {None}]

Init == /\ db \in [Id -> Bytes \cup {Absent}]
        /\ seen = [p \in Proc |-> [i \in Id |-> None]]
        /\ claim = [p \in Proc |-> None]

Observe(p, i) == /\ db[i] \in Bytes
                 /\ seen' = [seen EXCEPT ![p][i] = db[i]]
                 /\ UNCHANGED <<db, claim>>

Forget(p, i) == /\ seen' = [seen EXCEPT ![p][i] = None]
                /\ UNCHANGED <<db, claim>>

Swap(p, i, b) == /\ db[i] \in Bytes
                 /\ seen[p][i] = db[i]
                 /\ db' = [db EXCEPT ![i] = b]
                 /\ UNCHANGED <<seen, claim>>

Reserve(p, i) == /\ db[i] = Absent
                 /\ claim[p] = None
                 /\ db' = [db EXCEPT ![i] = Reserved]
                 /\ claim' = [claim EXCEPT ![p] = i]
                 /\ UNCHANGED seen

Publish(p, b) == /\ claim[p] # None
                 /\ db[claim[p]] = Reserved
                 /\ db' = [db EXCEPT ![claim[p]] = b]
                 /\ claim' = [claim EXCEPT ![p] = None]
                 /\ UNCHANGED seen

Release(p) == /\ claim[p] # None
              /\ db[claim[p]] = Reserved
              /\ db' = [db EXCEPT ![claim[p]] = Absent]
              /\ claim' = [claim EXCEPT ![p] = None]
              /\ UNCHANGED seen

Abandon(p) == /\ claim' = [claim EXCEPT ![p] = None]
              /\ UNCHANGED <<db, seen>>

Leave(p) == /\ seen' = [seen EXCEPT ![p] = [i \in Id |-> None]]
            /\ claim' = [claim EXCEPT ![p] = None]
            /\ UNCHANGED db

Next == \E p \in Proc :
          \/ \E i \in Id : Observe(p, i) \/ Forget(p, i) \/ Reserve(p, i)
          \/ \E i \in Id, b \in Bytes : Swap(p, i, b)
          \/ \E b \in Bytes : Publish(p, b)
          \/ Release(p) \/ Abandon(p) \/ Leave(p)

Spec == Init /\ [][Next]_vars
=============================================================================
