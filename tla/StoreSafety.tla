----------------------------- MODULE StoreSafety -----------------------------
(***************************************************************************)
(* What module Store must guarantee, and how it implements Database.       *)
(***************************************************************************)
EXTENDS Store

\* The content other processes find under the name of task i.
Visible(i) == IF taskdir[i] = Nil THEN Nil ELSE node[taskdir[i]].bytes

\* Types of the state: who holds which lock, where each store call stands, and
\* what the directories and temporary files hold.
TypeOK ==
  /\ taskdir \in [Id -> DirIno \cup {Nil}]
  /\ node \in [DirIno -> Node]
  /\ stuck \subseteq DirIno \X (TempName \cup {Nil})
  /\ lock \in [Proc -> {"none", "sh", "ex"}]
  /\ cmd \in [Proc -> Commands \cup {Nil}]
  /\ pc \in [Proc -> PC]
  /\ call \in [Proc -> Call]
  /\ loaded \in [Proc -> [Id -> Loaded]]
  /\ reply \in [Proc -> Reply]
  /\ budget \in [Proc -> 0 .. MaxOps]
  /\ window \in [Proc -> BOOLEAN]
  /\ edits \in 0 .. MaxEdits

\* While a command is inside store_replace or store_create, no other command is
\* anywhere between store_open and store_close: what it checked stays true, and
\* no reader sees it half way.
InWrite(p) == call[p].op \in {"replace", "create"} /\ pc[p] \notin {"idle", "ready"}
WriterAlone == \A p, q \in Proc : p # q /\ InWrite(p) => pc[q] = "idle"

\* No lost update: renameat overwrites the very bytes the command loaded (for a
\* creation, nothing), in the directory the task's name leads to, unless a
\* program without the lock edited after the check that would have noticed.
Renames(p) == pc[p] = "rename" /\ pc'[p] = "sync"
Guarded(p) == /\ taskdir[call[p].id] = call[p].dfd
              /\ Visible(call[p].id) = IF call[p].op = "create" THEN Nil
                                       ELSE Old(p).bytes
GuardedRename == [][\A p \in Proc : Renames(p) => window[p] \/ Guarded(p)]_vars

\* Atomic replacement: whatever dies or fails, and whenever, nobody can find or
\* read a TASK.md that was not completely written.
NeverTorn == /\ \A i \in Id : Visible(i) # Partial
             /\ \A p \in Proc, i \in Id : loaded[p][i].bytes # Partial

\* The result tells the truth while the lock is held: a reply that says committed
\* means the new bytes are in place, even when the directory sync failed; a failure
\* of store_replace means the bytes the command loaded still are.
HonestReply == \A p \in Proc :
  pc[p] = "done" /\ call[p].op # "read" =>
    /\ reply[p].committed => Visible(call[p].id) = call[p].next
    /\ ~reply[p].committed /\ call[p].op = "replace" =>
         Visible(call[p].id) = Old(p).bytes

\* A handled failure leaves nothing behind but what its cleanup tried to remove
\* and could not: a temporary file exists only while the call that made it is under
\* way, or if its own removal failed; a directory without TASK.md only while the
\* call that reserved it is, or if its removal failed or such a file is in it.
NoLeftovers ==
  /\ \A i \in Id : taskdir[i] # Nil /\ ~HasFile(taskdir[i]) =>
       \/ \E p \in Proc : call[p].made /\ call[p].id = i
       \/ \E t \in TempName \cup {Nil} : <<taskdir[i], t>> \in stuck
  /\ \A d \in LiveDirs \ {Nil} : \A t \in node[d].temps :
       (call[t[1]].dfd = d /\ call[t[1]].tmp = t[2]) \/ <<d, t>> \in stuck

\* Dead processes do not stop later ones: with no failing system call, a write
\* gives up only when its dead namesakes left every temporary name taken.
FailsOnlyWhenFull == \A p \in Proc :
  pc[p] = "done" /\ reply[p].code = "io_error" =>
    \A a \in Attempt : <<p, a>> \in Dir(p).temps

\* Nobody waits: locks are taken without blocking and every command that got one
\* ends and gives it back.
CommandsEnd == \A p \in Proc : pc[p] # "idle" ~> pc[p] = "idle"

-----------------------------------------------------------------------------
(* The inductive invariant behind the proofs.                                *)

InCall == PC \ {"idle", "ready"}
\* Where the directory is open, and where the temporary is there, and complete.
Opened == {"open_file", "read_bytes", "compare", "vacant", "make_temp", "write_temp",
           "check_dir", "check_file", "check_bytes", "vacant_again", "rename", "sync"}
Complete == {"check_dir", "check_file", "check_bytes", "vacant_again", "rename"}
CreateOnly == {"mkdir", "find_dir", "vacant", "vacant_again"}
ReplaceOnly == {"compare", "check_file", "check_bytes"}
WriteOnly == {"make_temp", "write_temp", "check_dir", "rename", "sync"}

\* What a process's program counter says about its lock, arguments and locals.
Control(p) ==
  LET c == call[p] l == pc[p] IN
  /\ l = "idle" <=> lock[p] = "none"
  /\ l = "idle" <=> cmd[p] = Nil
  /\ l # "idle" => lock[p] = Mode(cmd[p])
  /\ c.op = "replace" => MayReplace(cmd[p])
  /\ c.op = "create" => MayCreate(cmd[p])
  /\ l \in InCall => c.id \in Id /\ c.op # Nil
  /\ l \in InCall /\ c.op \in {"replace", "create"} => c.next \in Bytes
  /\ l \in Opened => c.dfd \in DirIno /\ c.taskst = c.dfd
  /\ l \in Opened \ {"open_file"} /\ c.op # "create" => c.ffd \in FileIno
  /\ l \in Complete \cup {"write_temp"} => c.tmp \in Attempt /\ c.tino \in FileIno
  /\ l \in Complete => c.tbytes = c.next
  /\ c.tmp # Nil => c.dfd \in DirIno
  /\ l \in CreateOnly => c.op = "create"
  /\ l \in ReplaceOnly => c.op = "replace"
  /\ l \in WriteOnly => c.op \in {"replace", "create"}
  /\ l \in {"open_file", "read_bytes"} => c.op # "create"
  /\ l = "read_bytes" => c.op = "read"

\* No process shares the database with one that holds it exclusively.
LockTable == \A p, q \in Proc : p # q /\ lock[p] = "ex" => lock[q] = "none"

IInv == /\ TypeOK
        /\ \A p \in Proc : Control(p)
        /\ LockTable
        /\ \A d \in DirIno : node[d].bytes # Partial
        /\ \A p \in Proc, i \in Id : loaded[p][i].bytes # Partial

\* What the checks before renameat established, and only an edit can undo.
NameChecked == {"check_file", "check_bytes", "vacant_again", "rename"}
Checked(p) ==
  LET c == call[p] IN
  /\ pc[p] \in NameChecked => window[p] \/ taskdir[c.id] = c.dfd
  /\ pc[p] = "rename" =>
       window[p] \/ node[c.dfd].bytes = IF c.op = "create" THEN Nil ELSE Old(p).bytes

GInv == /\ IInv
        /\ \A p \in Proc : Checked(p)
        /\ \A d \in DirIno : ~HasFile(d) => node[d].bytes = Nil

-----------------------------------------------------------------------------
(* The abstract database: a directory is the cell, what store_read returned  *)
(* is what the process has seen, and a directory it made and has not filled  *)
(* is its claim.                                                             *)
AbsentCell == "absent"
ReservedCell == "reserved"

DbCell(i) == IF taskdir[i] = Nil THEN AbsentCell
             ELSE IF ~HasFile(taskdir[i]) THEN ReservedCell
             ELSE node[taskdir[i]].bytes

D == INSTANCE Database WITH
       Absent <- AbsentCell, Reserved <- ReservedCell, None <- Nil,
       db <- [i \in Id |-> DbCell(i)],
       seen <- [p \in Proc |-> [i \in Id |-> loaded[p][i].bytes]],
       claim <- [p \in Proc |-> IF call[p].made /\ ~reply[p].committed
                                THEN call[p].id ELSE Nil]

\* Under the lock, the system calls of store.c behave as compare-and-swap and
\* reserve-then-publish on whole tasks.
Implements == D!Spec
=============================================================================
