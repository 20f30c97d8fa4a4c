------------------------------- MODULE Store --------------------------------
(***************************************************************************)
(* The storage layer (src/src/store.c): an advisory lock on the database   *)
(* directory, and store_read, store_replace and store_create under it.     *)
(*                                                                         *)
(* A step is what one system call, or a run of calls nothing can tell      *)
(* apart, does to the file system.  Directories and files have identities  *)
(* (device and inode in the code) that are reused once nothing refers to   *)
(* them.  Every call may fail, a process may die between any two steps,    *)
(* and an editor that takes no lock may change the same files: the set     *)
(* Env says which of these an instance allows.                             *)
(***************************************************************************)
EXTENDS Naturals, FiniteSets

CONSTANTS Proc,        \* processes; a process identifier is reused after exit
          Id,          \* task ids (names of directories in the database)
          Bytes,       \* contents a TASK.md can have
          DirIno,      \* identities of task directories
          FileIno,     \* identities of regular files
          MaxAttempt,  \* names make_temp tries (100 in the code)
          MaxOps,      \* bound on the store calls of one command
          MaxEdits,    \* bound on the editor's edits
          Commands,    \* the commands processes run
          Env,         \* subset of EnvKinds
          Nil, Partial

\* The spelling "-update=OPS" is listed apart: dispatch does not recognise it.
AllCommands == {"find", "new", "set", "ls-update", "ls-update="}
\* "io": a call fails; "stat": the fstat after creating a file or directory
\* fails; "cleanup": a call that cleans up after a failure fails itself, which
\* nobody notices; "crash": a process dies; "editor": a program without the
\* lock edits.
EnvKinds == {"io", "stat", "cleanup", "crash", "editor"}

ASSUME ConstantsAssumption ==
  /\ MaxAttempt \in Nat \ {0} /\ MaxOps \in Nat \ {0} /\ MaxEdits \in Nat
  /\ Commands \subseteq AllCommands /\ Env \subseteq EnvKinds
  /\ Nil \notin Id \cup Bytes \cup DirIno \cup FileIno \cup Nat
  /\ Nil \notin AllCommands \cup {"read", "replace", "create", "absent", "reserved",
                                 "busy", "conflict", "io_error", "task_not_found"}
  /\ Partial \notin Bytes \cup {Nil}

VARIABLES taskdir,  \* Id -> the directory the name leads to
          node,     \* DirIno -> its TASK.md (identity and bytes) and temporaries
          stuck,    \* the temporaries and directories a cleanup failed to remove
          lock,     \* Proc -> the flock it holds
          cmd,      \* Proc -> the command it runs
          pc,       \* Proc -> the next step of its store call
          call,     \* Proc -> arguments, descriptors and locals of that call
          loaded,   \* Proc -> Id -> what store_read last returned
          reply,    \* Proc -> store->code and store->write_state
          budget,   \* Proc -> store calls left to the command
          window,   \* Proc -> an edit came after the check that would see it
          edits     \* edits left to the editor

fs == <<taskdir, node, stuck>>
env == <<window, edits>>
vars == <<fs, lock, cmd, pc, call, loaded, reply, budget, env>>

-----------------------------------------------------------------------------
Attempt == 0 .. MaxAttempt - 1
TempName == Proc \X Attempt
Node == [ino: FileIno \cup {Nil}, bytes: Bytes \cup {Nil, Partial},
         temps: SUBSET TempName]
EmptyNode == [ino |-> Nil, bytes |-> Nil, temps |-> {}]

Call == [op: {Nil, "read", "replace", "create"}, id: Id \cup {Nil},
         next: Bytes \cup {Nil}, made: BOOLEAN, taskst: DirIno \cup {Nil},
         dfd: DirIno \cup {Nil}, ffd: FileIno \cup {Nil},
         tmp: Attempt \cup {Nil}, tino: FileIno \cup {Nil},
         tbytes: Bytes \cup {Nil, Partial}]
NoCall == [op |-> Nil, id |-> Nil, next |-> Nil, made |-> FALSE, taskst |-> Nil,
           dfd |-> Nil, ffd |-> Nil, tmp |-> Nil, tino |-> Nil, tbytes |-> Nil]

Loaded == [ino: FileIno \cup {Nil}, bytes: Bytes \cup {Nil, Partial}]
NotLoaded == [ino |-> Nil, bytes |-> Nil]

Codes == {Nil, "busy", "conflict", "io_error", "task_not_found"}
Reply == [code: Codes, committed: BOOLEAN]
NoReply == [code |-> Nil, committed |-> FALSE]

PC == {"idle", "ready", "mkdir", "find_dir", "open_dir", "open_file", "read_bytes",
       "compare", "vacant", "make_temp", "write_temp", "check_dir", "check_file",
       "check_bytes", "vacant_again", "rename", "sync", "done"}

\* Slip: set does not raise the mutation flag.
Mode_SetShares(c) == IF c \in {"new", "ls-update"} THEN "ex" ELSE "sh"

\* The lock scheduler_dispatch asks for: the mutation flag.
Mode(c) == IF c \in {"new", "set", "ls-update"} THEN "ex" ELSE "sh"
MayReplace(c) == c \in {"set", "ls-update", "ls-update="}
MayCreate(c) == c = "new"

\* Identities nothing refers to, which the file system may hand out next.
LiveDirs == {taskdir[i] : i \in Id} \cup {call[p].dfd : p \in Proc}
               \cup {call[p].taskst : p \in Proc}
FreeDirs == {d \in DirIno : d \notin LiveDirs}
FreeFiles == {f \in FileIno : /\ \A d \in DirIno : d \in LiveDirs => node[d].ino # f
                              /\ \A p \in Proc : f \notin {call[p].ffd, call[p].tino}}

HasFile(d) == node[d].ino # Nil
\* The directory and the file the process's descriptors refer to.
Dir(p) == node[call[p].dfd]
Old(p) == loaded[p][call[p].id]

-----------------------------------------------------------------------------
Init ==
  /\ taskdir \in [Id -> DirIno \cup {Nil}]
  /\ \A i, j \in Id : i # j /\ taskdir[i] # Nil => taskdir[i] # taskdir[j]
  /\ \E f \in [Id -> FileIno], b \in [Id -> Bytes] :
       /\ \A i, j \in Id : i # j => f[i] # f[j]
       /\ node = [d \in DirIno |->
                    IF \E i \in Id : taskdir[i] = d
                    THEN LET i == CHOOSE i \in Id : taskdir[i] = d
                         IN [ino |-> f[i], bytes |-> b[i], temps |-> {}]
                    ELSE EmptyNode]
  /\ stuck = {}
  /\ lock = [p \in Proc |-> "none"]
  /\ cmd = [p \in Proc |-> Nil]
  /\ pc = [p \in Proc |-> "idle"]
  /\ call = [p \in Proc |-> NoCall]
  /\ loaded = [p \in Proc |-> [i \in Id |-> NotLoaded]]
  /\ reply = [p \in Proc |-> NoReply]
  /\ budget = [p \in Proc |-> 0]
  /\ window = [p \in Proc |-> FALSE]
  /\ edits = MaxEdits

-----------------------------------------------------------------------------
(* Commands: open and lock the database, call the store, close. *)

LockFree(p, mode) ==
  \A q \in Proc \ {p} : lock[q] = "none" \/ (mode = "sh" /\ lock[q] = "sh")

\* The command ends before it reads anything.
Refuse(p, code) == /\ reply' = [reply EXCEPT ![p] = [code |-> code, committed |-> FALSE]]
                   /\ UNCHANGED <<lock, cmd, pc, budget>>

\* The database may be missing, or a component of its path unsafe or unreadable.
Open(p, c) ==
  /\ pc[p] = "idle"
  /\ \/ /\ LockFree(p, Mode(c))
        /\ lock' = [lock EXCEPT ![p] = Mode(c)]
        /\ cmd' = [cmd EXCEPT ![p] = c]
        /\ pc' = [pc EXCEPT ![p] = "ready"]
        /\ reply' = [reply EXCEPT ![p] = NoReply]
        /\ budget' = [budget EXCEPT ![p] = MaxOps]
     \/ ~LockFree(p, Mode(c)) /\ Refuse(p, "busy")
     \/ "io" \in Env /\ Refuse(p, "io_error")
  /\ UNCHANGED <<fs, call, loaded, env>>

\* A command stops at its first failed write.
Start(p, op, i, b, first) ==
  /\ pc[p] = "ready" /\ budget[p] > 0
  /\ call[p].op \in {"replace", "create"} => reply[p].code = Nil
  /\ pc' = [pc EXCEPT ![p] = first]
  /\ call' = [call EXCEPT ![p] = [NoCall EXCEPT !.op = op, !.id = i, !.next = b]]
  /\ reply' = [reply EXCEPT ![p] = NoReply]
  /\ budget' = [budget EXCEPT ![p] = @ - 1]
  /\ window' = [window EXCEPT ![p] = FALSE]
  /\ UNCHANGED <<fs, lock, cmd, edits>>

StartRead(p, i) ==
  /\ Start(p, "read", i, Nil, "open_dir")
  /\ loaded' = [loaded EXCEPT ![p][i] = NotLoaded]

StartReplace(p, i, b) ==
  /\ MayReplace(cmd[p]) /\ loaded[p][i].ino # Nil
  /\ Start(p, "replace", i, b, "open_dir")
  /\ UNCHANGED loaded

StartCreate(p, i, b) ==
  /\ MayCreate(cmd[p])
  /\ Start(p, "create", i, b, "mkdir")
  /\ UNCHANGED loaded

Leave(p) ==
  /\ lock' = [lock EXCEPT ![p] = "none"]
  /\ cmd' = [cmd EXCEPT ![p] = Nil]
  /\ pc' = [pc EXCEPT ![p] = "idle"]
  /\ call' = [call EXCEPT ![p] = NoCall]
  /\ loaded' = [loaded EXCEPT ![p] = [i \in Id |-> NotLoaded]]
  /\ reply' = [reply EXCEPT ![p] = NoReply]
  /\ budget' = [budget EXCEPT ![p] = 0]
  /\ window' = [window EXCEPT ![p] = FALSE]
  /\ UNCHANGED <<fs, edits>>

Close(p) == pc[p] = "ready" /\ Leave(p)

\* The kernel drops the lock and the descriptors; files stay as they are.
Crash(p) == "crash" \in Env /\ pc[p] # "idle" /\ Leave(p)

-----------------------------------------------------------------------------
(* The steps of the store calls. *)

At(p, l) == pc[p] = l /\ UNCHANGED <<lock, cmd, budget, env>>
Goto(p, l) == pc' = [pc EXCEPT ![p] = l]

\* Slip: store_replace starts over when a call fails.
Fail_Retries(p, c) ==
  /\ reply' = [reply EXCEPT ![p].code = c]
  /\ Goto(p, IF c = "io_error" /\ call[p].op = "replace" THEN "open_dir" ELSE "done")

Fail(p, c) == /\ reply' = [reply EXCEPT ![p].code = c]
              /\ Goto(p, "done")
FailIf(p, kind, c) == kind \in Env /\ Fail(p, c) /\ UNCHANGED <<fs, call, loaded>>
\* A check that reads the file system, keeps going to l or is a conflict.
Check(p, ok, l) == /\ IF ok THEN Goto(p, l) /\ UNCHANGED reply
                            ELSE Fail(p, "conflict")
                   /\ UNCHANGED <<fs, call, loaded>>

Mkdir(p) ==
  /\ At(p, "mkdir")
  /\ UNCHANGED loaded
  /\ LET i == call[p].id IN
     \/ /\ taskdir[i] # Nil
        /\ Fail(p, "conflict") /\ UNCHANGED <<fs, call>>
     \/ /\ taskdir[i] = Nil
        /\ \E d \in FreeDirs : /\ taskdir' = [taskdir EXCEPT ![i] = d]
                               /\ node' = [node EXCEPT ![d] = EmptyNode]
        /\ UNCHANGED stuck
        /\ call' = [call EXCEPT ![p].made = TRUE]
        /\ Goto(p, "find_dir") /\ UNCHANGED reply
     \/ "io" \in Env /\ Fail(p, "io_error") /\ UNCHANGED <<fs, call>>

FindDir(p) ==
  /\ At(p, "find_dir")
  /\ \/ /\ taskdir[call[p].id] # Nil
        /\ call' = [call EXCEPT ![p].taskst = taskdir[call[p].id]]
        /\ Goto(p, "open_dir") /\ UNCHANGED <<fs, loaded, reply>>
     \/ taskdir[call[p].id] = Nil /\ Fail(p, "io_error") /\ UNCHANGED <<fs, call, loaded>>
     \/ FailIf(p, "stat", "io_error")

OpenDir(p) ==
  /\ At(p, "open_dir")
  /\ LET d == taskdir[call[p].id] IN
     \/ /\ d # Nil
        /\ call' = [call EXCEPT ![p] = [@ EXCEPT !.dfd = d, !.taskst = d]]
        /\ Goto(p, IF call[p].op = "create" THEN "vacant" ELSE "open_file")
        /\ UNCHANGED <<fs, loaded, reply>>
     \/ d = Nil /\ Fail(p, "task_not_found") /\ UNCHANGED <<fs, call, loaded>>
     \/ FailIf(p, "io", "io_error")
     \/ FailIf(p, "editor", "conflict")

OpenFile(p) ==
  /\ At(p, "open_file")
  /\ \/ /\ Dir(p).ino # Nil
        /\ call' = [call EXCEPT ![p].ffd = Dir(p).ino]
        /\ Goto(p, IF call[p].op = "read" THEN "read_bytes" ELSE "compare")
        /\ UNCHANGED <<fs, loaded, reply>>
     \/ Dir(p).ino = Nil /\ Fail(p, "task_not_found") /\ UNCHANGED <<fs, call, loaded>>
     \/ FailIf(p, "io", "io_error")
     \/ FailIf(p, "editor", "conflict")

\* The opened file still has a link: it is still the TASK.md of its directory.
Linked(p) == Dir(p).ino = call[p].ffd

ReadBytes(p) ==
  /\ At(p, "read_bytes")
  /\ \/ /\ Linked(p)
        /\ loaded' = [loaded EXCEPT ![p][call[p].id] =
                        [ino |-> Dir(p).ino, bytes |-> Dir(p).bytes]]
        /\ Goto(p, "done") /\ UNCHANGED <<fs, call, reply>>
     \/ ~Linked(p) /\ Fail(p, "conflict") /\ UNCHANGED <<fs, call, loaded>>
     \/ FailIf(p, "io", "io_error")

\* Slip: the length and the identity are compared, the bytes are not.
ContentIs_SameFile(p) == Linked(p)

ContentIs(p) == Linked(p) /\ Dir(p).bytes = Old(p).bytes

Compare(p) == /\ At(p, "compare")
              /\ Check(p, call[p].ffd = Old(p).ino /\ ContentIs(p), "make_temp")

Vacant(p) == At(p, "vacant") /\ Check(p, ~HasFile(call[p].dfd), "make_temp")

\* Slip: no second name.
FreeNames_FirstOnly(p) == {a \in {0} : <<p, a>> \notin Dir(p).temps}

\* Names of this process identifier that O_EXCL would accept.
FreeNames(p) == {a \in Attempt : <<p, a>> \notin Dir(p).temps}

\* fstat failing on the new file leaves it behind, with nobody to remove it.
MakeTemp(p) ==
  /\ At(p, "make_temp")
  /\ UNCHANGED <<taskdir, stuck, loaded>>
  /\ LET d == call[p].dfd IN
     \/ \E a \in FreeNames(p) :
          /\ \A b \in FreeNames(p) : a <= b
          /\ node' = [node EXCEPT ![d].temps = @ \cup {<<p, a>>}]
          /\ \/ /\ \E f \in FreeFiles :
                     call' = [call EXCEPT ![p] =
                       [@ EXCEPT !.tmp = a, !.tino = f, !.tbytes = Partial]]
                /\ Goto(p, "write_temp") /\ UNCHANGED reply
             \/ "stat" \in Env /\ Fail(p, "io_error") /\ UNCHANGED call
     \/ FreeNames(p) = {} /\ Fail(p, "io_error") /\ UNCHANGED <<node, call>>
     \/ "io" \in Env /\ Fail(p, "io_error") /\ UNCHANGED <<node, call>>

NoTemp(c) == [c EXCEPT !.tmp = Nil, !.tino = Nil, !.tbytes = Nil]
WithoutTemp(p) == node[call[p].dfd].temps \ {<<p, call[p].tmp>>}

\* A call of the cleanup may fail, what it was to remove stays, and nobody is told.
TempStays(p) == /\ "cleanup" \in Env /\ UNCHANGED node
                /\ stuck' = stuck \cup {<<call[p].dfd, <<p, call[p].tmp>>>>}
DirStays(p) == /\ "cleanup" \in Env /\ UNCHANGED taskdir
               /\ stuck' = stuck \cup {<<call[p].taskst, Nil>>}

\* Slip: a short write is taken for a complete one.
WriteTemp_Short(p) == /\ At(p, "write_temp")
                      /\ Goto(p, "check_dir")
                      /\ UNCHANGED <<fs, call, loaded, reply>>

WriteTemp(p) ==
  /\ At(p, "write_temp")
  /\ UNCHANGED <<taskdir, loaded>>
  /\ \/ /\ call' = [call EXCEPT ![p].tbytes = call[p].next]
        /\ Goto(p, "check_dir") /\ UNCHANGED <<node, stuck, reply>>
     \/ /\ "io" \in Env /\ Fail(p, "io_error")
        /\ \/ /\ node' = [node EXCEPT ![call[p].dfd].temps = WithoutTemp(p)]
              /\ UNCHANGED stuck
           \/ TempStays(p)
        /\ call' = [call EXCEPT ![p] = NoTemp(@)]

\* Slip: the name is not looked up again.
CheckDir_Trusting(p) ==
  /\ At(p, "check_dir")
  /\ Check(p, TRUE, IF call[p].op = "create" THEN "vacant_again" ELSE "check_file")

CheckDir(p) ==
  /\ At(p, "check_dir")
  /\ Check(p, taskdir[call[p].id] = call[p].taskst,
           IF call[p].op = "create" THEN "vacant_again" ELSE "check_file")

CheckFile(p) == At(p, "check_file") /\ Check(p, Linked(p), "check_bytes")

CheckBytes(p) == At(p, "check_bytes") /\ Check(p, ContentIs(p), "rename")

VacantAgain(p) == At(p, "vacant_again") /\ Check(p, ~HasFile(call[p].dfd), "rename")

Rename(p) ==
  /\ At(p, "rename")
  /\ \/ /\ node' = [node EXCEPT ![call[p].dfd] =
                      [ino |-> call[p].tino, bytes |-> call[p].tbytes,
                       temps |-> WithoutTemp(p)]]
        /\ call' = [call EXCEPT ![p] = NoTemp(@)]
        /\ reply' = [reply EXCEPT ![p].committed = TRUE]
        /\ Goto(p, "sync") /\ UNCHANGED <<taskdir, stuck, loaded>>
     \/ FailIf(p, "io", "io_error")

\* Slip: a failed sync is reported like any other failure, without "committed".
Sync_Forgets(p) ==
  /\ At(p, "sync")
  /\ Goto(p, "done")
  /\ reply' \in {reply, [reply EXCEPT ![p] = [code |-> "io_error", committed |-> FALSE]]}
  /\ UNCHANGED <<fs, call, loaded>>

Sync(p) ==
  /\ At(p, "sync")
  /\ \/ Goto(p, "done") /\ UNCHANGED <<fs, call, loaded, reply>>
     \/ FailIf(p, "io", "io_error")

\* Slips: only a conflict undoes the reservation; or any empty directory is removed.
Releases_OnConflict(p, n) ==
  LET c == call[p] IN /\ c.made /\ reply[p].code = "conflict"
                      /\ c.taskst # Nil /\ taskdir[c.id] = c.taskst
                      /\ n[c.taskst].ino = Nil /\ n[c.taskst].temps = {}
Releases_Anybodys(p, n) ==
  LET c == call[p] IN /\ c.taskst # Nil /\ taskdir[c.id] = c.taskst
                      /\ n[c.taskst].ino = Nil /\ n[c.taskst].temps = {}

\* An uncommitted reservation that is still ours and, in n, empty.
Releases(p, n) ==
  LET c == call[p] IN /\ c.made /\ ~reply[p].committed
                      /\ c.taskst # Nil /\ taskdir[c.id] = c.taskst
                      /\ n[c.taskst].ino = Nil /\ n[c.taskst].temps = {}

\* The cleanup both writers share: remove the owned temporary, close the
\* descriptors, and undo the reservation, which fails while the temporary stays.
\* Callers free what they loaded after one store_replace.
Done(p) ==
  /\ At(p, "done")
  /\ LET c == call[p]
         swept == IF c.tmp = Nil THEN node
                  ELSE [node EXCEPT ![c.dfd].temps = WithoutTemp(p)]
     IN /\ \/ /\ node' = swept
              /\ taskdir' = IF Releases(p, swept) THEN [taskdir EXCEPT ![c.id] = Nil]
                                                 ELSE taskdir
              /\ UNCHANGED stuck
           \/ c.tmp # Nil /\ TempStays(p) /\ UNCHANGED taskdir
           \/ Releases(p, swept) /\ DirStays(p) /\ node' = swept
        /\ call' = [call EXCEPT ![p] = [NoCall EXCEPT !.op = c.op, !.id = c.id,
                                                      !.next = c.next]]
        /\ loaded' = IF c.op = "replace"
                     THEN [loaded EXCEPT ![p][c.id] = NotLoaded] ELSE loaded
  /\ Goto(p, "ready")
  /\ UNCHANGED reply

Step(p) == \/ Mkdir(p) \/ FindDir(p) \/ OpenDir(p) \/ OpenFile(p) \/ ReadBytes(p)
           \/ Compare(p) \/ Vacant(p) \/ MakeTemp(p) \/ WriteTemp(p) \/ CheckDir(p)
           \/ CheckFile(p) \/ CheckBytes(p) \/ VacantAgain(p) \/ Rename(p)
           \/ Sync(p) \/ Done(p)

-----------------------------------------------------------------------------
(* A program that takes no lock, the human editor of the documentation. *)

\* Edits of the name after check_dir, or of the file after its last check.
NameWindow(i) ==
  {p \in Proc : /\ call[p].id = i
                /\ pc[p] \in {"check_file", "check_bytes", "vacant_again", "rename"}}
FileWindow(d) == {p \in Proc : call[p].dfd = d /\ pc[p] = "rename"}

Edit(blind) ==
  /\ "editor" \in Env /\ edits > 0
  /\ edits' = edits - 1
  /\ window' = [p \in Proc |-> window[p] \/ p \in blind]
  /\ UNCHANGED <<lock, cmd, pc, call, loaded, reply, budget>>

EditInPlace(i, b) ==
  /\ taskdir[i] # Nil /\ HasFile(taskdir[i])
  /\ node' = [node EXCEPT ![taskdir[i]].bytes = b]
  /\ Edit(FileWindow(taskdir[i]))
  /\ UNCHANGED <<taskdir, stuck>>

EditAndRename(i, b) ==
  /\ taskdir[i] # Nil
  /\ \E f \in FreeFiles :
       node' = [node EXCEPT ![taskdir[i]].ino = f, ![taskdir[i]].bytes = b]
  /\ Edit(FileWindow(taskdir[i]))
  /\ UNCHANGED <<taskdir, stuck>>

MoveAway(i) ==
  /\ taskdir[i] # Nil
  /\ taskdir' = [taskdir EXCEPT ![i] = Nil]
  /\ Edit(NameWindow(i))
  /\ UNCHANGED <<node, stuck>>

PutBack(i, b) ==
  /\ taskdir[i] = Nil
  /\ \E d \in FreeDirs, f \in FreeFiles :
       /\ taskdir' = [taskdir EXCEPT ![i] = d]
       /\ node' = [node EXCEPT ![d] = [ino |-> f, bytes |-> b, temps |-> {}]]
  /\ Edit(NameWindow(i))
  /\ UNCHANGED stuck

Editor == \E i \in Id : \/ MoveAway(i)
                        \/ \E b \in Bytes : \/ EditInPlace(i, b)
                                            \/ EditAndRename(i, b)
                                            \/ PutBack(i, b)

-----------------------------------------------------------------------------
Begin(p) == \E i \in Id : \/ StartRead(p, i)
                          \/ \E b \in Bytes : StartReplace(p, i, b) \/ StartCreate(p, i, b)

Next == \/ \E p \in Proc : \/ \E c \in Commands : Open(p, c)
                           \/ Begin(p) \/ Step(p) \/ Close(p) \/ Crash(p)
        \/ Editor

Spec == Init /\ [][Next]_vars

\* A running process is scheduled: it finishes the call it is in, and after its
\* last call it closes the database.  Nothing makes a command start, a process
\* die, or an editor edit.
Fairness == \A p \in Proc : WF_vars(Step(p)) /\ WF_vars(Close(p))
FairSpec == Spec /\ Fairness
=============================================================================
