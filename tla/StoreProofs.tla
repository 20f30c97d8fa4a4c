----------------------------- MODULE StoreProofs -----------------------------
(***************************************************************************)
(* Proofs about Store, for any processes, tasks, contents, identities and  *)
(* bounds, calls that fail and processes that die.                         *)
(*                                                                         *)
(* First what holds whoever edits without the lock.  IInv is inductive by  *)
(* itself: types, what each program counter says about the call's locals,  *)
(* the lock table and "no partial content in sight".  The theorems on      *)
(* exclusion and lost updates add what the checks before renameat          *)
(* establish.                                                              *)
(*                                                                         *)
(* Then what store.c promises to the commands that use it, as long as      *)
(* everybody takes the lock: its replies are true, and its system calls    *)
(* implement Database.  Without an editor more is true than GInv says.  A  *)
(* name leads to the directory a process has open, and what it has loaded  *)
(* is what is there, from the moment of the call until it lets go of the   *)
(* lock.                                                                   *)
(***************************************************************************)
EXTENDS StoreSafety, TLAPS

\* Complete content, and none without a file.
Whole(n) == n.bytes # Partial /\ (n.ino = Nil => n.bytes = Nil)

\* A database of complete tasks and no process is well typed.
LEMMA TypeInit ==
  Init => TypeOK /\ \A d \in DirIno : Whole(node[d])
<1> SUFFICES ASSUME Init PROVE TypeOK /\ \A d \in DirIno : Whole(node[d])
    OBVIOUS
<1> USE ConstantsAssumption
<1>1. node \in [DirIno -> Node] /\ \A d \in DirIno : Whole(node[d])
  <2>1. PICK f \in [Id -> FileIno], b \in [Id -> Bytes] :
          node = [d \in DirIno |->
                    IF \E i \in Id : taskdir[i] = d
                    THEN LET i == CHOOSE i \in Id : taskdir[i] = d
                         IN [ino |-> f[i], bytes |-> b[i], temps |-> {}]
                    ELSE EmptyNode]
    BY DEF Init
  <2>2. EmptyNode \in Node /\ Whole(EmptyNode)
    BY DEF EmptyNode, Node, Whole
  <2>3. ASSUME NEW d \in DirIno, \E i \in Id : taskdir[i] = d
        PROVE  node[d] \in Node /\ Whole(node[d])
    <3> DEFINE i == CHOOSE i \in Id : taskdir[i] = d
    <3>1. i \in Id
      BY <2>3
    <3>2. node[d] = [ino |-> f[i], bytes |-> b[i], temps |-> {}]
      BY <2>1, <2>3
    <3> QED BY <3>1, <3>2 DEF Node, Whole
  <2>4. ASSUME NEW d \in DirIno PROVE node[d] \in Node /\ Whole(node[d])
    <3>1. CASE \E i \in Id : taskdir[i] = d
      BY <2>3, <3>1
    <3>2. CASE ~ \E i \in Id : taskdir[i] = d
      BY <2>1, <2>2, <3>2
    <3> QED BY <3>1, <3>2
  <2> QED BY <2>1, <2>4
<1>2. call \in [Proc -> Call]
  BY DEF Init, NoCall, Call
<1>3. /\ loaded \in [Proc -> [Id -> Loaded]]
      /\ reply \in [Proc -> Reply]
  BY DEF Init, NotLoaded, Loaded, NoReply, Reply, Codes
<1>4. /\ pc \in [Proc -> PC]
      /\ lock \in [Proc -> {"none", "sh", "ex"}]
      /\ cmd \in [Proc -> Commands \cup {Nil}]
      /\ budget \in [Proc -> 0 .. MaxOps]
      /\ window \in [Proc -> BOOLEAN]
      /\ edits \in 0 .. MaxEdits
      /\ taskdir \in [Id -> DirIno \cup {Nil}]
      /\ stuck \subseteq DirIno \X (TempName \cup {Nil})
  BY DEF Init, PC
<1> QED BY <1>1, <1>2, <1>3, <1>4 DEF TypeOK

\* Updating one process's call record keeps its type.
LEMMA CallFields ==
  ASSUME NEW c \in Call
  PROVE  /\ [c EXCEPT !.made = TRUE] \in Call
         /\ \A d \in DirIno : [c EXCEPT !.taskst = d] \in Call
         /\ \A d \in DirIno : [c EXCEPT !.dfd = d, !.taskst = d] \in Call
         /\ \A f \in FileIno : [c EXCEPT !.ffd = f] \in Call
         /\ \A a \in Attempt, f \in FileIno :
              [c EXCEPT !.tmp = a, !.tino = f, !.tbytes = Partial] \in Call
         /\ [c EXCEPT !.tbytes = c.next] \in Call
         /\ NoTemp(c) \in Call
         /\ [NoCall EXCEPT !.op = c.op, !.id = c.id, !.next = c.next] \in Call
         /\ NoCall \in Call
<1>1. [c EXCEPT !.made = TRUE] \in Call
  BY DEF Call
<1>2. \A d \in DirIno : [c EXCEPT !.taskst = d] \in Call
  BY DEF Call
<1>3. \A d \in DirIno : [c EXCEPT !.dfd = d, !.taskst = d] \in Call
  BY DEF Call
<1>4. \A f \in FileIno : [c EXCEPT !.ffd = f] \in Call
  BY DEF Call
<1>5. \A a \in Attempt, f \in FileIno :
        [c EXCEPT !.tmp = a, !.tino = f, !.tbytes = Partial] \in Call
  BY DEF Call
<1>6. [c EXCEPT !.tbytes = c.next] \in Call
  BY DEF Call
<1>7. NoTemp(c) \in Call
  BY DEF Call, NoTemp
<1>8. [NoCall EXCEPT !.op = c.op, !.id = c.id, !.next = c.next] \in Call
  BY DEF Call, NoCall
<1>9. NoCall \in Call
  BY DEF Call, NoCall
<1> QED BY <1>1, <1>2, <1>3, <1>4, <1>5, <1>6, <1>7, <1>8, <1>9

\* A step of a store call moves only its own process, and never its lock.
LEMMA StepFrame ==
  ASSUME TypeOK, NEW p \in Proc, Step(p)
  PROVE  /\ UNCHANGED <<lock, cmd, budget, window, edits>>
         /\ pc' \in [Proc -> PC]
         /\ reply' \in [Proc -> Reply]
         /\ \A q \in Proc \ {p} : pc'[q] = pc[q] /\ call'[q] = call[q]
<1> USE DEF At, Goto, Fail, FailIf, Check, fs, env
<1>1. UNCHANGED <<lock, cmd, budget, window, edits>>
  BY DEF Step, Mkdir, FindDir, OpenDir, OpenFile, ReadBytes, Compare, Vacant,
           MakeTemp, WriteTemp, CheckDir, CheckFile, CheckBytes, VacantAgain,
           Rename, Sync, Done
<1>2. \E l \in PC : pc' = [pc EXCEPT ![p] = l]
  BY DEF Step, Mkdir, FindDir, OpenDir, OpenFile, ReadBytes, Compare, Vacant,
           MakeTemp, WriteTemp, CheckDir, CheckFile, CheckBytes, VacantAgain,
           Rename, Sync, Done, PC
<1>3. pc' \in [Proc -> PC] /\ \A q \in Proc \ {p} : pc'[q] = pc[q]
  BY <1>2 DEF TypeOK
<1>4. reply' \in [Proc -> Reply]
  <2>1. \/ UNCHANGED reply
        \/ \E c \in Codes : reply' = [reply EXCEPT ![p].code = c]
        \/ reply' = [reply EXCEPT ![p].committed = TRUE]
    BY DEF Step, Mkdir, FindDir, OpenDir, OpenFile, ReadBytes, Compare, Vacant,
           MakeTemp, WriteTemp, CheckDir, CheckFile, CheckBytes, VacantAgain,
           Rename, Sync, Done, Codes
  <2>2. \A c \in Codes : [reply[p] EXCEPT !.code = c] \in Reply
    BY DEF TypeOK, Reply
  <2>3. [reply[p] EXCEPT !.committed = TRUE] \in Reply
    BY DEF TypeOK, Reply
  <2> QED BY <2>1, <2>2, <2>3 DEF TypeOK
<1>5. \A q \in Proc \ {p} : call'[q] = call[q]
  <2>1. call \in [Proc -> Call]
    BY DEF TypeOK
  <2> QED
    BY <2>1 DEF Step, Mkdir, FindDir, OpenDir, OpenFile, ReadBytes, Compare, Vacant,
         MakeTemp, WriteTemp, CheckDir, CheckFile, CheckBytes, VacantAgain,
         Rename, Sync, Done
<1> QED BY <1>1, <1>3, <1>4, <1>5

\* Every step keeps what the program counter promises about the process's call.
LEMMA StepControl ==
  ASSUME IInv, NEW p \in Proc, Step(p)
  PROVE  call' \in [Proc -> Call] /\ Control(p)'
<1> DEFINE c == call[p]
           r == call'[p]
<1>1. /\ TypeOK /\ Control(p)
      /\ pc \in [Proc -> PC] /\ call \in [Proc -> Call] /\ c \in Call
      /\ c.op \in {Nil, "read", "replace", "create"}
      /\ lock'[p] = lock[p] /\ cmd'[p] = cmd[p]
  BY StepFrame DEF IInv, TypeOK, Call
<1>2. \A d : taskdir[c.id] = d /\ d # Nil /\ c.id \in Id => d \in DirIno
  BY <1>1 DEF TypeOK
<1>3. \A f : node[c.dfd].ino = f /\ f # Nil /\ c.dfd \in DirIno => f \in FileIno
  BY <1>1 DEF TypeOK, Node
<1> USE DEF At, Goto, Fail, FailIf, Check, fs, env
<1> USE DEF Control, InCall, Opened, Complete, CreateOnly, ReplaceOnly, WriteOnly
<1>Mkdir. CASE Mkdir(p)
  <2>1. CASE UNCHANGED call /\ pc'[p] = "done"
    BY <1>1, <1>Mkdir, <2>1 DEF Mkdir, PC
  <2>2. CASE call' = [call EXCEPT ![p] = [c EXCEPT !.made = TRUE]]
               /\ pc' = [pc EXCEPT ![p] = "find_dir"]
    <3>1. r = [c EXCEPT !.made = TRUE] /\ call' \in [Proc -> Call]
      BY <1>1, <2>2, CallFields
    <3>2. r.op = c.op /\ r.id = c.id /\ r.next = c.next /\ r.tmp = c.tmp /\ r.dfd = c.dfd
      BY <1>1, <3>1 DEF Call, NoTemp, NoCall
    <3>3. pc[p] = "mkdir" /\ pc'[p] = "find_dir"
      BY <1>1, <1>Mkdir, <2>2 DEF Mkdir
    <3> HIDE DEF c, r
    <3> QED BY <1>1, <2>2, <3>1, <3>2, <3>3 DEF PC, c, r
  <2> QED BY <1>1, <1>2, <1>3, <1>Mkdir, <2>1, <2>2 DEF Mkdir, InCall, Opened, PC
<1>FindDir. CASE FindDir(p)
  <2>1. CASE UNCHANGED call /\ pc'[p] = "done"
    BY <1>1, <1>FindDir, <2>1 DEF FindDir, PC
  <2>2. CASE call' = [call EXCEPT ![p] = [c EXCEPT !.taskst = taskdir[c.id]]]
               /\ pc' = [pc EXCEPT ![p] = "open_dir"] /\ taskdir[c.id] \in DirIno
    <3>1. r = [c EXCEPT !.taskst = taskdir[c.id]] /\ call' \in [Proc -> Call]
      BY <1>1, <2>2, CallFields
    <3>2. r.op = c.op /\ r.id = c.id /\ r.next = c.next /\ r.tmp = c.tmp /\ r.dfd = c.dfd
      BY <1>1, <3>1 DEF Call, NoTemp, NoCall
    <3>3. pc[p] = "find_dir" /\ pc'[p] = "open_dir"
      BY <1>1, <1>FindDir, <2>2 DEF FindDir
    <3> HIDE DEF c, r
    <3> QED BY <1>1, <2>2, <3>1, <3>2, <3>3 DEF PC, c, r
  <2> QED BY <1>1, <1>2, <1>3, <1>FindDir, <2>1, <2>2 DEF FindDir, InCall, Opened, PC
<1>OpenDir. CASE OpenDir(p)
  <2>1. CASE UNCHANGED call /\ pc'[p] = "done"
    BY <1>1, <1>OpenDir, <2>1 DEF OpenDir, PC
  <2>2. CASE call' = [call EXCEPT ![p] = [c EXCEPT !.dfd = taskdir[c.id], !.taskst = taskdir[c.id]]]
               /\ pc' = [pc EXCEPT ![p] = IF c.op = "create" THEN "vacant" ELSE "open_file"] /\ taskdir[c.id] \in DirIno
    <3>1. r = [c EXCEPT !.dfd = taskdir[c.id], !.taskst = taskdir[c.id]] /\ call' \in [Proc -> Call]
      BY <1>1, <2>2, CallFields
    <3>2. r.op = c.op /\ r.id = c.id /\ r.next = c.next /\ r.tmp = c.tmp /\ r.dfd = taskdir[c.id] /\ r.taskst = taskdir[c.id]
      BY <1>1, <3>1 DEF Call, NoTemp, NoCall
    <3>3. pc[p] = "open_dir" /\ pc'[p] = IF c.op = "create" THEN "vacant" ELSE "open_file"
      BY <1>1, <1>OpenDir, <2>2 DEF OpenDir
    <3> HIDE DEF c, r
    <3> QED BY <1>1, <2>2, <3>1, <3>2, <3>3 DEF PC, c, r
  <2> QED BY <1>1, <1>2, <1>3, <1>OpenDir, <2>1, <2>2 DEF OpenDir, InCall, Opened, PC
<1>OpenFile. CASE OpenFile(p)
  <2>1. CASE UNCHANGED call /\ pc'[p] = "done"
    BY <1>1, <1>OpenFile, <2>1 DEF OpenFile, Dir, PC
  <2>2. CASE call' = [call EXCEPT ![p] = [c EXCEPT !.ffd = node[c.dfd].ino]]
               /\ pc' = [pc EXCEPT ![p] = IF c.op = "read" THEN "read_bytes" ELSE "compare"] /\ node[c.dfd].ino \in FileIno
    <3>1. r = [c EXCEPT !.ffd = node[c.dfd].ino] /\ call' \in [Proc -> Call]
      BY <1>1, <2>2, CallFields
    <3>2. r.op = c.op /\ r.id = c.id /\ r.next = c.next /\ r.tmp = c.tmp /\ r.dfd = c.dfd /\ r.taskst = c.taskst /\ r.ffd = node[c.dfd].ino
      BY <1>1, <3>1 DEF Call, NoTemp, NoCall
    <3>3. pc[p] = "open_file" /\ pc'[p] = IF c.op = "read" THEN "read_bytes" ELSE "compare"
      BY <1>1, <1>OpenFile, <2>2 DEF OpenFile
    <3> HIDE DEF c, r
    <3> QED BY <1>1, <2>2, <3>1, <3>2, <3>3 DEF PC, c, r
  <2> QED BY <1>1, <1>2, <1>3, <1>OpenFile, <2>1, <2>2 DEF OpenFile, Dir, InCall, Opened, PC
<1>ReadBytes. CASE ReadBytes(p)
  BY <1>1, <1>ReadBytes DEF ReadBytes, PC
<1>Compare. CASE Compare(p)
  BY <1>1, <1>Compare DEF Compare, PC
<1>Vacant. CASE Vacant(p)
  BY <1>1, <1>Vacant DEF Vacant, PC
<1>MakeTemp. CASE MakeTemp(p)
  <2>1. CASE UNCHANGED call /\ pc'[p] = "done"
    BY <1>1, <1>MakeTemp, <2>1 DEF MakeTemp, PC
  <2>2. CASE \E a \in Attempt, f \in FileIno :
               /\ call' = [call EXCEPT ![p] = [c EXCEPT !.tmp = a, !.tino = f, !.tbytes = Partial]]
               /\ pc' = [pc EXCEPT ![p] = "write_temp"]
    <3>1. PICK a \in Attempt, f \in FileIno :
            call' = [call EXCEPT ![p] = [c EXCEPT !.tmp = a, !.tino = f, !.tbytes = Partial]]
      BY <2>2
    <3>2. r = [c EXCEPT !.tmp = a, !.tino = f, !.tbytes = Partial] /\ call' \in [Proc -> Call]
      BY <1>1, <3>1, CallFields
    <3>3. r.op = c.op /\ r.id = c.id /\ r.next = c.next /\ r.dfd = c.dfd
            /\ r.taskst = c.taskst /\ r.ffd = c.ffd /\ r.tmp = a /\ r.tino = f
      BY <1>1, <3>2 DEF Call
    <3>4. pc[p] = "make_temp" /\ pc'[p] = "write_temp"
      BY <1>1, <1>MakeTemp, <2>2 DEF MakeTemp
    <3> HIDE DEF c, r
    <3> QED BY <1>1, <3>2, <3>3, <3>4 DEF PC, c, r
  <2> QED
    BY <1>1, <1>MakeTemp, <2>1, <2>2 DEF MakeTemp, FreeFiles, FreeNames
<1>WriteTemp. CASE WriteTemp(p)
  <2>1. CASE call' = [call EXCEPT ![p] = [c EXCEPT !.tbytes = c.next]]
               /\ pc' = [pc EXCEPT ![p] = "check_dir"]
    <3>1. r = [c EXCEPT !.tbytes = c.next] /\ call' \in [Proc -> Call]
      BY <1>1, <2>1, CallFields
    <3>2. r.op = c.op /\ r.id = c.id /\ r.next = c.next /\ r.tmp = c.tmp /\ r.tino = c.tino /\ r.dfd = c.dfd /\ r.taskst = c.taskst /\ r.ffd = c.ffd /\ r.tbytes = c.next
      BY <1>1, <3>1 DEF Call, NoTemp, NoCall
    <3>3. pc[p] = "write_temp" /\ pc'[p] = "check_dir"
      BY <1>1, <1>WriteTemp, <2>1 DEF WriteTemp
    <3> HIDE DEF c, r
    <3> QED BY <1>1, <2>1, <3>1, <3>2, <3>3 DEF PC, c, r
  <2>2. CASE call' = [call EXCEPT ![p] = NoTemp(c)]
               /\ pc' = [pc EXCEPT ![p] = "done"]
    <3>1. r = NoTemp(c) /\ call' \in [Proc -> Call]
      BY <1>1, <2>2, CallFields
    <3>2. r.op = c.op /\ r.id = c.id /\ r.next = c.next /\ r.dfd = c.dfd /\ r.tmp = Nil
      BY <1>1, <3>1 DEF Call, NoTemp, NoCall
    <3>3. pc[p] = "write_temp" /\ pc'[p] = "done"
      BY <1>1, <1>WriteTemp, <2>2 DEF WriteTemp
    <3> HIDE DEF c, r
    <3> QED BY <1>1, <2>2, <3>1, <3>2, <3>3 DEF PC, c, r
  <2> QED BY <1>1, <1>2, <1>3, <1>WriteTemp, <2>1, <2>2 DEF WriteTemp, InCall, Opened, PC
<1>CheckDir. CASE CheckDir(p)
  <2>1. pc[p] = "check_dir" /\ UNCHANGED call
    BY <1>CheckDir DEF CheckDir
  <2>2. \/ pc'[p] = "done"
        \/ pc'[p] = "vacant_again" /\ c.op = "create"
        \/ pc'[p] = "check_file" /\ c.op # "create"
    BY <1>1, <1>CheckDir DEF CheckDir
  <2>3. CASE pc'[p] = "done"
    BY <1>1, <2>1, <2>3 DEF PC
  <2>4. CASE pc'[p] = "vacant_again" /\ c.op = "create"
    BY <1>1, <2>1, <2>4 DEF PC
  <2>5. CASE pc'[p] = "check_file" /\ c.op # "create"
    BY <1>1, <2>1, <2>5 DEF PC
  <2> QED BY <2>2, <2>3, <2>4, <2>5
<1>CheckFile. CASE CheckFile(p)
  BY <1>1, <1>CheckFile DEF CheckFile, PC
<1>CheckBytes. CASE CheckBytes(p)
  BY <1>1, <1>CheckBytes DEF CheckBytes, PC
<1>VacantAgain. CASE VacantAgain(p)
  BY <1>1, <1>VacantAgain DEF VacantAgain, PC
<1>Rename. CASE Rename(p)
  <2>1. CASE UNCHANGED call /\ pc'[p] = "done"
    BY <1>1, <1>Rename, <2>1 DEF Rename, PC
  <2>2. CASE call' = [call EXCEPT ![p] = NoTemp(c)]
               /\ pc' = [pc EXCEPT ![p] = "sync"]
    <3>1. r = NoTemp(c) /\ call' \in [Proc -> Call]
      BY <1>1, <2>2, CallFields
    <3>2. r.op = c.op /\ r.id = c.id /\ r.next = c.next /\ r.dfd = c.dfd /\ r.taskst = c.taskst /\ r.ffd = c.ffd /\ r.tmp = Nil
      BY <1>1, <3>1 DEF Call, NoTemp, NoCall
    <3>3. pc[p] = "rename" /\ pc'[p] = "sync"
      BY <1>1, <1>Rename, <2>2 DEF Rename
    <3> HIDE DEF c, r
    <3> QED BY <1>1, <2>2, <3>1, <3>2, <3>3 DEF PC, c, r
  <2> QED BY <1>1, <1>2, <1>3, <1>Rename, <2>1, <2>2 DEF Rename, InCall, Opened, PC
<1>Sync. CASE Sync(p)
  BY <1>1, <1>Sync DEF Sync, PC
<1>Done. CASE Done(p)
  <2>1. CASE call' = [call EXCEPT ![p] = [NoCall EXCEPT !.op = c.op, !.id = c.id, !.next = c.next]]
               /\ pc' = [pc EXCEPT ![p] = "ready"]
    <3>1. r = [NoCall EXCEPT !.op = c.op, !.id = c.id, !.next = c.next] /\ call' \in [Proc -> Call]
      BY <1>1, <2>1, CallFields
    <3>2. r.op = c.op /\ r.tmp = Nil
      BY <1>1, <3>1 DEF Call, NoTemp, NoCall
    <3>3. pc[p] = "done" /\ pc'[p] = "ready"
      BY <1>1, <1>Done, <2>1 DEF Done
    <3> HIDE DEF c, r
    <3> QED BY <1>1, <2>1, <3>1, <3>2, <3>3 DEF PC, c, r
  <2> QED BY <1>1, <1>2, <1>3, <1>Done, <2>1 DEF Done, InCall, Opened, PC
<1> QED BY <1>Mkdir, <1>FindDir, <1>OpenDir, <1>OpenFile, <1>ReadBytes, <1>Compare, <1>Vacant, <1>MakeTemp, <1>WriteTemp, <1>CheckDir, <1>CheckFile, <1>CheckBytes, <1>VacantAgain, <1>Rename, <1>Sync, <1>Done DEF Step

\* Every step keeps the types of the file system, and only complete bytes in it.
NoPartial == /\ \A d \in DirIno : node[d].bytes # Partial
             /\ \A p \in Proc, i \in Id : loaded[p][i].bytes # Partial

\* A step keeps directories, nodes and loaded bytes of their types, and partial content out of sight.
LEMMA StepFiles ==
  ASSUME IInv, NEW p \in Proc, Step(p)
  PROVE  /\ taskdir' \in [Id -> DirIno \cup {Nil}]
         /\ node' \in [DirIno -> Node]
         /\ loaded' \in [Proc -> [Id -> Loaded]]
         /\ NoPartial'
<1> DEFINE c == call[p]
<1>1. /\ Control(p) /\ NoPartial /\ c \in Call
      /\ taskdir \in [Id -> DirIno \cup {Nil}] /\ node \in [DirIno -> Node]
      /\ loaded \in [Proc -> [Id -> Loaded]]
  BY DEF IInv, TypeOK, NoPartial
<1>2. Nil # Partial /\ Partial \notin Bytes
  BY ConstantsAssumption
<1>node. ASSUME NEW d, NEW n, n \in Node, n.bytes # Partial,
                node' = [node EXCEPT ![d] = n]
         PROVE  node' \in [DirIno -> Node] /\ \A e \in DirIno : node'[e].bytes # Partial
  BY <1>1, <1>node DEF NoPartial
<1>temps. ASSUME c.dfd \in DirIno, NEW T, T \subseteq TempName,
                 node' = [node EXCEPT ![c.dfd].temps = T]
          PROVE  node' \in [DirIno -> Node] /\ \A e \in DirIno : node'[e].bytes # Partial
  <2> DEFINE n == [node[c.dfd] EXCEPT !.temps = T]
  <2>1. n \in Node /\ n.bytes # Partial
    BY <1>1, <1>temps DEF Node, NoPartial
  <2>2. node' = [node EXCEPT ![c.dfd] = n]
    BY <1>temps
  <2> QED BY <1>node, <2>1, <2>2
<1> USE DEF At, Goto, Fail, FailIf, Check, fs
<1>3. CASE UNCHANGED <<taskdir, node, loaded>>
  BY <1>1, <1>3 DEF NoPartial
<1>4. CASE Mkdir(p)
  <2>1. CASE UNCHANGED <<taskdir, node>>
    BY <1>3, <1>4, <2>1 DEF Mkdir
  <2>2. CASE \E d \in DirIno : /\ taskdir' = [taskdir EXCEPT ![c.id] = d]
                               /\ node' = [node EXCEPT ![d] = EmptyNode]
    <3>1. EmptyNode \in Node /\ EmptyNode.bytes # Partial
      BY <1>2 DEF EmptyNode, Node
    <3>2. PICK d \in DirIno : /\ taskdir' = [taskdir EXCEPT ![c.id] = d]
                              /\ node' = [node EXCEPT ![d] = EmptyNode]
      BY <2>2
    <3>3. taskdir' \in [Id -> DirIno \cup {Nil}] /\ UNCHANGED loaded
      BY <1>1, <1>4, <3>2 DEF Mkdir
    <3> QED BY <1>1, <1>node, <3>1, <3>2, <3>3 DEF NoPartial
  <2> QED BY <1>4, <2>1, <2>2 DEF Mkdir, FreeDirs
<1>5. CASE ReadBytes(p)
  <2>1. CASE UNCHANGED loaded
    BY <1>3, <1>5, <2>1 DEF ReadBytes
  <2>2. CASE loaded' = [loaded EXCEPT ![p][c.id] =
                          [ino |-> Dir(p).ino, bytes |-> Dir(p).bytes]]
    <3>1. c.dfd \in DirIno
      BY <1>1, <1>5 DEF ReadBytes, Control, Opened
    <3>2. [ino |-> Dir(p).ino, bytes |-> Dir(p).bytes] \in Loaded
          /\ Dir(p).bytes # Partial
      BY <1>1, <3>1 DEF Dir, Node, Loaded, NoPartial
    <3> QED BY <1>1, <1>5, <2>2, <3>2 DEF ReadBytes, NoPartial
  <2> QED BY <1>5, <2>1, <2>2 DEF ReadBytes
<1>6. CASE MakeTemp(p)
  <2>1. CASE UNCHANGED node
    BY <1>3, <1>6, <2>1 DEF MakeTemp
  <2>2. CASE \E a \in Attempt : node' = [node EXCEPT ![c.dfd].temps = @ \cup {<<p, a>>}]
    <3>1. c.dfd \in DirIno /\ UNCHANGED <<taskdir, loaded>>
      BY <1>1, <1>6 DEF MakeTemp, Control, Opened
    <3>2. PICK a \in Attempt :
            node' = [node EXCEPT ![c.dfd].temps = node[c.dfd].temps \cup {<<p, a>>}]
      BY <2>2
    <3>3. node[c.dfd].temps \cup {<<p, a>>} \subseteq TempName
      BY <1>1, <3>1 DEF Node, TempName
    <3> QED BY <1>1, <1>temps, <3>1, <3>2, <3>3 DEF NoPartial
  <2> QED BY <1>6, <2>1, <2>2 DEF MakeTemp, FreeNames
<1>7. CASE WriteTemp(p)
  <2>1. CASE UNCHANGED node
    BY <1>3, <1>7, <2>1 DEF WriteTemp
  <2>2. CASE node' = [node EXCEPT ![c.dfd].temps = WithoutTemp(p)]
    <3>1. c.dfd \in DirIno /\ UNCHANGED <<taskdir, loaded>>
      BY <1>1, <1>7 DEF WriteTemp, Control, Opened
    <3>2. WithoutTemp(p) \subseteq TempName
      BY <1>1, <3>1 DEF Node, WithoutTemp
    <3> QED BY <1>1, <1>temps, <2>2, <3>1, <3>2 DEF NoPartial
  <2> QED BY <1>7, <2>1, <2>2 DEF WriteTemp, TempStays
<1>8. CASE Rename(p)
  <2>1. CASE UNCHANGED node
    BY <1>3, <1>8, <2>1 DEF Rename
  <2>2. CASE node' = [node EXCEPT ![c.dfd] = [ino |-> c.tino, bytes |-> c.tbytes,
                                              temps |-> WithoutTemp(p)]]
    <3>1. c.tbytes \in Bytes /\ c.tino \in FileIno /\ c.dfd \in DirIno
      BY <1>1, <1>8 DEF Rename, Control, InCall, Opened, Complete, WriteOnly, PC
    <3>2. [ino |-> c.tino, bytes |-> c.tbytes, temps |-> WithoutTemp(p)] \in Node
      BY <1>1, <3>1 DEF WithoutTemp, Node
    <3> QED BY <1>1, <1>2, <1>8, <2>2, <3>1, <3>2 DEF Rename, NoPartial
  <2> QED BY <1>8, <2>1, <2>2 DEF Rename
<1>9. CASE Done(p)
  <2>1. taskdir' \in [Id -> DirIno \cup {Nil}]
    BY <1>1, <1>9 DEF Done, DirStays
  <2>2. loaded' \in [Proc -> [Id -> Loaded]]
        /\ \A q \in Proc, i \in Id : loaded'[q][i].bytes # Partial
    BY <1>1, <1>2, <1>9 DEF Done, NotLoaded, Loaded, NoPartial
  <2>3. node' = node \/ (/\ c.tmp # Nil
                         /\ node' = [node EXCEPT ![c.dfd].temps = WithoutTemp(p)])
    BY <1>9 DEF Done, TempStays
  <2>4. node' \in [DirIno -> Node] /\ \A d \in DirIno : node'[d].bytes # Partial
    <3>1. CASE node' = node
      BY <1>1, <3>1 DEF NoPartial
    <3>2. CASE c.tmp # Nil /\ node' = [node EXCEPT ![c.dfd].temps = WithoutTemp(p)]
      <4>1. c.dfd \in DirIno
        BY <1>1, <3>2 DEF Control
      <4>2. WithoutTemp(p) \subseteq TempName
        BY <1>1, <4>1 DEF Node, WithoutTemp
      <4> QED BY <1>temps, <3>2, <4>1, <4>2
    <3> QED BY <2>3, <3>1, <3>2
  <2> QED BY <2>1, <2>2, <2>4 DEF NoPartial
<1> QED
  BY <1>3, <1>4, <1>5, <1>6, <1>7, <1>8, <1>9
     DEF Step, FindDir, OpenDir, OpenFile, Compare, Vacant, CheckDir, CheckFile,
         CheckBytes, VacantAgain, Sync

\* What a cleanup leaves is only ever added to, and named.
LEMMA StepStuck ==
  ASSUME IInv, NEW p \in Proc, Step(p)
  PROVE  stuck \subseteq stuck' /\ stuck' \subseteq DirIno \X (TempName \cup {Nil})
<1> DEFINE c == call[p]
<1>1. /\ Control(p) /\ c \in Call /\ stuck \subseteq DirIno \X (TempName \cup {Nil})
      /\ taskdir \in [Id -> DirIno \cup {Nil}]
  BY DEF IInv, TypeOK
<1> USE DEF At, Goto, Fail, FailIf, Check, fs
<1>2. CASE stuck' = stuck
  BY <1>1, <1>2
<1>3. ASSUME c.tmp # Nil, TempStays(p)
      PROVE  stuck \subseteq stuck' /\ stuck' \subseteq DirIno \X (TempName \cup {Nil})
  <2>1. c.dfd \in DirIno /\ c.tmp \in Attempt
    BY <1>1, <1>3 DEF Control, Call
  <2>2. <<c.dfd, <<p, c.tmp>>>> \in DirIno \X (TempName \cup {Nil})
    BY <2>1 DEF TempName
  <2> QED BY <1>1, <1>3, <2>2 DEF TempStays
<1>4. CASE WriteTemp(p)
  <2>1. c.tmp # Nil
    BY <1>1, <1>4, ConstantsAssumption DEF WriteTemp, Control, Attempt
  <2> QED BY <1>2, <1>3, <1>4, <2>1 DEF WriteTemp
<1>5. CASE Done(p)
  <2>1. ASSUME c.taskst # Nil, DirStays(p)
        PROVE  stuck \subseteq stuck' /\ stuck' \subseteq DirIno \X (TempName \cup {Nil})
    <3>1. c.taskst \in DirIno
      BY <1>1, <2>1 DEF Call
    <3>2. <<c.taskst, Nil>> \in DirIno \X (TempName \cup {Nil})
      BY <3>1
    <3> QED BY <1>1, <2>1, <3>2 DEF DirStays
  <2> QED BY <1>2, <1>3, <1>5, <2>1 DEF Done, Releases
<1> QED BY <1>2, <1>4, <1>5
        DEF Step, Mkdir, FindDir, OpenDir, OpenFile, ReadBytes, Compare, Vacant, MakeTemp,
            CheckDir, CheckFile, CheckBytes, VacantAgain, Rename, Sync

\* The steps of the store calls keep the inductive invariant.
LEMMA StepInv ==
  ASSUME IInv, NEW p \in Proc, Step(p) PROVE IInv'
<1>1. TypeOK
  BY DEF IInv
<1>2. TypeOK'
  BY <1>1, StepFrame, StepControl, StepFiles, StepStuck DEF TypeOK
<1>3. \A q \in Proc : Control(q)'
  <2>1. Control(p)'
    BY StepControl
  <2>2. ASSUME NEW q \in Proc, q # p PROVE Control(q)'
    BY <1>1, <2>2, StepFrame DEF IInv, Control
  <2> QED BY <2>1, <2>2
<1>4. LockTable'
  BY <1>1, StepFrame DEF IInv, LockTable
<1> QED BY <1>2, <1>3, <1>4, StepFiles DEF IInv, NoPartial

\* Opening and locking the database (store_open) keeps it.
LEMMA OpenInv ==
  ASSUME IInv, NEW p \in Proc, NEW c \in Commands, Open(p, c) PROVE IInv'
<1>1. TypeOK /\ Control(p) /\ c \in AllCommands /\ Nil \notin AllCommands
  BY ConstantsAssumption DEF IInv, AllCommands
<1>2. Mode(c) \in {"sh", "ex"}
  BY DEF Mode
<1>3. UNCHANGED <<taskdir, node, stuck, call, loaded, window, edits>>
  BY DEF Open, fs, env
<1>4. reply' \in [Proc -> Reply]
  <2>1. NoReply \in Reply /\ \A e \in {"busy", "io_error"} :
                                [code |-> e, committed |-> FALSE] \in Reply
    BY DEF NoReply, Reply, Codes
  <2>2. reply' = [reply EXCEPT ![p] = NoReply]
        \/ \E e \in {"busy", "io_error"} :
              reply' = [reply EXCEPT ![p] = [code |-> e, committed |-> FALSE]]
    BY DEF Open, Refuse
  <2>3. reply \in [Proc -> Reply]
    BY <1>1 DEF TypeOK
  <2> QED BY <2>1, <2>2, <2>3
<1>5. CASE UNCHANGED <<lock, cmd, pc, budget>>
  <2>1. TypeOK'
    BY <1>1, <1>3, <1>4, <1>5 DEF TypeOK
  <2>2. \A q \in Proc : Control(q)'
    BY <1>3, <1>5 DEF IInv, Control
  <2> QED BY <1>3, <1>5, <2>1, <2>2 DEF IInv, LockTable
<1>6. CASE /\ LockFree(p, Mode(c))
           /\ lock' = [lock EXCEPT ![p] = Mode(c)]
           /\ cmd' = [cmd EXCEPT ![p] = c]
           /\ pc' = [pc EXCEPT ![p] = "ready"]
           /\ budget' = [budget EXCEPT ![p] = MaxOps]
  <2>1. TypeOK'
    <3>1. pc' \in [Proc -> PC] /\ lock' \in [Proc -> {"none", "sh", "ex"}]
          /\ cmd' \in [Proc -> Commands \cup {Nil}]
      BY <1>1, <1>2, <1>6 DEF TypeOK, PC
    <3>2. budget' \in [Proc -> 0 .. MaxOps]
      BY <1>1, <1>6, ConstantsAssumption DEF TypeOK
    <3> QED BY <1>1, <1>3, <1>4, <3>1, <3>2 DEF TypeOK
  <2>2. LockTable'
    BY <1>1, <1>2, <1>6 DEF IInv, TypeOK, LockTable, LockFree
  <2>3. ASSUME NEW q \in Proc PROVE Control(q)'
    <3>1. CASE q # p
      BY <1>1, <1>3, <1>6, <3>1 DEF IInv, TypeOK, Control
    <3>2. CASE q = p
      <4>1. lock'[p] = Mode(c) /\ cmd'[p] = c /\ pc'[p] = "ready" /\ call'[p] = call[p]
        BY <1>1, <1>3, <1>6 DEF TypeOK
      <4>2. call[p].op \notin {"replace", "create"} /\ (call[p].tmp # Nil => call[p].dfd \in DirIno)
        <5>1. cmd[p] = Nil
          BY <1>1 DEF Open, Control
        <5>2. ~MayReplace(Nil) /\ ~MayCreate(Nil)
          BY <1>1 DEF MayReplace, MayCreate, AllCommands
        <5>3. /\ call[p].op = "replace" => MayReplace(cmd[p])
              /\ call[p].op = "create" => MayCreate(cmd[p])
              /\ call[p].tmp # Nil => call[p].dfd \in DirIno
          BY <1>1 DEF Control
        <5> QED BY <5>1, <5>2, <5>3
      <4>3. pc'[p] \notin InCall \cup Opened \cup Complete \cup CreateOnly \cup ReplaceOnly
              \cup WriteOnly \cup {"read_bytes", "write_temp", "open_file", "idle"}
        BY <4>1 DEF InCall, Opened, Complete, CreateOnly, ReplaceOnly, WriteOnly
      <4>4. lock'[p] # "none" /\ cmd'[p] # Nil
        BY <1>1, <1>2, <4>1
      <4> QED BY <3>2, <4>1, <4>2, <4>3, <4>4 DEF Control
    <3> QED BY <3>1, <3>2
  <2> QED BY <1>3, <2>1, <2>2, <2>3 DEF IInv
<1> QED BY <1>5, <1>6 DEF Open, Refuse

\* So does beginning a store call.
LEMMA StartInv ==
  ASSUME IInv, NEW p \in Proc, Begin(p) PROVE IInv'
<1>1. TypeOK /\ Control(p)
  BY DEF IInv
<1>2. PICK op \in {"read", "replace", "create"}, i \in Id, b \in Bytes \cup {Nil},
           first \in {"open_dir", "mkdir"} :
        /\ Start(p, op, i, b, first)
        /\ op = "replace" => MayReplace(cmd[p]) /\ b \in Bytes
        /\ op = "create" => MayCreate(cmd[p]) /\ b \in Bytes
        /\ first = "mkdir" => op = "create"
        /\ \/ UNCHANGED loaded
           \/ loaded' = [loaded EXCEPT ![p][i] = NotLoaded]
  BY DEF Begin, StartRead, StartReplace, StartCreate
<1> DEFINE r == [NoCall EXCEPT !.op = op, !.id = i, !.next = b]
<1>3. /\ UNCHANGED <<taskdir, node, stuck, lock, cmd, edits>>
      /\ pc[p] = "ready"
      /\ pc' = [pc EXCEPT ![p] = first]
      /\ call' = [call EXCEPT ![p] = r]
      /\ reply' = [reply EXCEPT ![p] = NoReply]
      /\ budget' = [budget EXCEPT ![p] = budget[p] - 1] /\ budget[p] > 0
      /\ window' = [window EXCEPT ![p] = FALSE]
  BY <1>2 DEF Start, fs
<1>4. /\ r \in Call /\ r.op = op /\ r.id = i /\ r.next = b /\ r.tmp = Nil
  BY DEF Call, NoCall
<1>5. loaded' \in [Proc -> [Id -> Loaded]]
      /\ \A q \in Proc, j \in Id : loaded'[q][j].bytes # Partial
  <2>1. NotLoaded \in Loaded /\ NotLoaded.bytes # Partial
    BY ConstantsAssumption DEF NotLoaded, Loaded
  <2>2. CASE UNCHANGED loaded
    BY <1>1, <2>2 DEF IInv, TypeOK
  <2>3. CASE loaded' = [loaded EXCEPT ![p][i] = NotLoaded]
    <3>1. [loaded[p] EXCEPT ![i] = NotLoaded] \in [Id -> Loaded]
      BY <1>1, <2>1 DEF TypeOK
    <3>2. \A j \in Id : [loaded[p] EXCEPT ![i] = NotLoaded][j].bytes # Partial
      BY <1>1, <2>1 DEF IInv, TypeOK
    <3> QED BY <1>1, <2>3, <3>1, <3>2 DEF IInv, TypeOK
  <2> QED BY <1>2, <2>2, <2>3
<1>6. TypeOK'
  <2>1. reply' \in [Proc -> Reply] /\ pc' \in [Proc -> PC] /\ call' \in [Proc -> Call]
        /\ window' \in [Proc -> BOOLEAN]
    BY <1>1, <1>3, <1>4 DEF TypeOK, PC, NoReply, Reply, Codes
  <2>2. budget' \in [Proc -> 0 .. MaxOps]
    BY <1>1, <1>3, ConstantsAssumption DEF TypeOK
  <2> QED BY <1>1, <1>3, <1>5, <2>1, <2>2 DEF TypeOK
<1>7. ASSUME NEW q \in Proc PROVE Control(q)'
  <2>1. CASE q # p
    BY <1>1, <1>3, <2>1 DEF IInv, TypeOK, Control
  <2>2. CASE q = p
    <3>1. pc'[p] = first /\ call'[p] = r /\ lock'[p] = lock[p] /\ cmd'[p] = cmd[p]
      BY <1>1, <1>3 DEF TypeOK
    <3> HIDE DEF r
    <3>2. lock[p] = Mode(cmd[p]) /\ lock[p] # "none" /\ cmd[p] # Nil
      BY <1>1, <1>3 DEF Control
    <3>3. pc'[p] \notin Opened \cup Complete \cup ReplaceOnly \cup WriteOnly
            \cup {"read_bytes", "write_temp", "open_file", "idle"}
          /\ (pc'[p] \in CreateOnly => op = "create")
      BY <1>2, <3>1 DEF Opened, Complete, CreateOnly, ReplaceOnly, WriteOnly
    <3>4. op # Nil
      BY ConstantsAssumption
    <3> QED BY <1>2, <1>4, <2>2, <3>1, <3>2, <3>3, <3>4 DEF Control
  <2> QED BY <2>1, <2>2
<1> QED BY <1>3, <1>5, <1>6, <1>7 DEF IInv, LockTable

\* So does leaving: closing the database, or dying.
LEMMA LeaveInv ==
  ASSUME IInv, NEW p \in Proc, Leave(p) PROVE IInv'
<1>1. TypeOK /\ Nil # Partial
  BY ConstantsAssumption DEF IInv
<1>2. NoCall \in Call /\ NoReply \in Reply /\ NotLoaded \in Loaded
  BY DEF NoCall, Call, NoReply, Reply, Codes, NotLoaded, Loaded
<1>3. TypeOK'
  <2>1. pc' \in [Proc -> PC] /\ lock' \in [Proc -> {"none", "sh", "ex"}]
        /\ cmd' \in [Proc -> Commands \cup {Nil}] /\ window' \in [Proc -> BOOLEAN]
    BY <1>1 DEF TypeOK, Leave, PC
  <2>2. call' \in [Proc -> Call] /\ reply' \in [Proc -> Reply]
        /\ loaded' \in [Proc -> [Id -> Loaded]]
    BY <1>1, <1>2 DEF TypeOK, Leave
  <2>3. budget' \in [Proc -> 0 .. MaxOps]
    BY <1>1, ConstantsAssumption DEF TypeOK, Leave
  <2> QED BY <1>1, <2>1, <2>2, <2>3 DEF TypeOK, Leave, fs
<1>4. ASSUME NEW q \in Proc PROVE Control(q)'
  <2>1. CASE q # p
    BY <1>1, <2>1 DEF IInv, TypeOK, Control, Leave
  <2>2. CASE q = p
    <3>1. pc'[p] = "idle" /\ call'[p] = NoCall /\ lock'[p] = "none" /\ cmd'[p] = Nil
      BY <1>1 DEF TypeOK, Leave
    <3>2. NoCall.op = Nil /\ NoCall.tmp = Nil /\ Nil \notin {"read", "replace", "create"}
      BY ConstantsAssumption DEF NoCall
    <3>3. "idle" \notin InCall \cup Opened \cup Complete \cup CreateOnly \cup ReplaceOnly
            \cup WriteOnly \cup {"read_bytes", "write_temp", "open_file"}
      BY DEF InCall, Opened, Complete, CreateOnly, ReplaceOnly, WriteOnly
    <3> QED BY <2>2, <3>1, <3>2, <3>3 DEF Control
  <2> QED BY <2>1, <2>2
<1>5. LockTable'
  BY <1>1 DEF IInv, TypeOK, LockTable, Leave
<1>6. /\ \A d \in DirIno : node'[d].bytes # Partial
      /\ \A q \in Proc, i \in Id : loaded'[q][i].bytes # Partial
  BY <1>1 DEF IInv, TypeOK, Leave, fs, NotLoaded
<1> QED BY <1>3, <1>4, <1>5, <1>6 DEF IInv

\* So does an edit without the lock, which touches no process.
LEMMA EditInv ==
  ASSUME IInv, Editor PROVE IInv'
<1> USE DEF fs, env
<1>1. TypeOK /\ NoPartial /\ Partial \notin Bytes
  BY ConstantsAssumption DEF IInv, NoPartial
<1>2. ASSUME NEW B, Edit(B)
      PROVE  /\ UNCHANGED <<lock, cmd, pc, call, loaded, reply, budget>>
             /\ edits' \in 0 .. MaxEdits
             /\ window' \in [Proc -> BOOLEAN]
  <2>1. edits' \in 0 .. MaxEdits
    BY <1>1, <1>2, ConstantsAssumption DEF Edit, TypeOK
  <2>2. window' \in [Proc -> BOOLEAN]
    BY <1>2 DEF Edit
  <2> QED BY <1>2, <2>1, <2>2 DEF Edit
<1>3. PICK i \in Id : MoveAway(i) \/ \E b \in Bytes : EditInPlace(i, b) \/ EditAndRename(i, b)
                                                   \/ PutBack(i, b)
  BY DEF Editor
<1>4. PICK B : Edit(B)
  BY <1>3 DEF MoveAway, EditInPlace, EditAndRename, PutBack
<1>5. \A n \in Node, f \in FileIno, b \in Bytes :
        /\ [n EXCEPT !.bytes = b] \in Node
        /\ [n EXCEPT !.ino = f, !.bytes = b] \in Node
  BY DEF Node
<1>7. taskdir \in [Id -> DirIno \cup {Nil}] /\ node \in [DirIno -> Node]
  BY <1>1 DEF TypeOK
<1>8. ASSUME NEW d \in DirIno, NEW n \in Node, n.bytes # Partial,
             node' = [node EXCEPT ![d] = n]
      PROVE  node' \in [DirIno -> Node] /\ \A e \in DirIno : node'[e].bytes # Partial
  BY <1>1, <1>7, <1>8 DEF NoPartial
<1>9. /\ taskdir' \in [Id -> DirIno \cup {Nil}] /\ node' \in [DirIno -> Node]
      /\ \A e \in DirIno : node'[e].bytes # Partial
  <2>1. CASE MoveAway(i)
    BY <1>1, <1>7, <2>1 DEF MoveAway, NoPartial
  <2>2. ASSUME NEW b \in Bytes, EditInPlace(i, b)
        PROVE  taskdir' \in [Id -> DirIno \cup {Nil}] /\ node' \in [DirIno -> Node]
               /\ \A e \in DirIno : node'[e].bytes # Partial
    <3>1. taskdir[i] \in DirIno /\ UNCHANGED taskdir
          /\ node' = [node EXCEPT ![taskdir[i]] = [node[taskdir[i]] EXCEPT !.bytes = b]]
      BY <1>7, <2>2 DEF EditInPlace
    <3> DEFINE n == [node[taskdir[i]] EXCEPT !.bytes = b]
    <3>2. n \in Node /\ n.bytes = b
      <4>1. node[taskdir[i]] \in Node
        BY <1>7, <3>1
      <4> QED BY <1>5, <4>1 DEF Node
    <3> HIDE DEF n
    <3>3. node' = [node EXCEPT ![taskdir[i]] = n]
      BY <3>1 DEF n
    <3> QED BY <1>1, <1>7, <1>8, <3>1, <3>2, <3>3
  <2>3. ASSUME NEW b \in Bytes, EditAndRename(i, b)
        PROVE  taskdir' \in [Id -> DirIno \cup {Nil}] /\ node' \in [DirIno -> Node]
               /\ \A e \in DirIno : node'[e].bytes # Partial
    <3>1. PICK f \in FileIno :
            node' = [node EXCEPT ![taskdir[i]].ino = f, ![taskdir[i]].bytes = b]
      BY <2>3 DEF EditAndRename, FreeFiles
    <3>2. taskdir[i] \in DirIno /\ UNCHANGED taskdir
      BY <1>7, <2>3 DEF EditAndRename
    <3>3. node' = [node EXCEPT ![taskdir[i]] =
                     [node[taskdir[i]] EXCEPT !.ino = f, !.bytes = b]]
      BY <1>7, <3>1, <3>2 DEF Node
    <3> DEFINE n == [node[taskdir[i]] EXCEPT !.ino = f, !.bytes = b]
    <3>4. n \in Node /\ n.bytes = b
      <4>1. node[taskdir[i]] \in Node
        BY <1>7, <3>2
      <4>2. n \in Node
        BY <1>5, <4>1
      <4>3. n.bytes = b
        BY <4>1 DEF Node
      <4> QED BY <4>2, <4>3
    <3> HIDE DEF n
    <3>5. node' = [node EXCEPT ![taskdir[i]] = n]
      BY <3>3 DEF n
    <3> QED BY <1>1, <1>7, <1>8, <3>2, <3>4, <3>5
  <2>4. ASSUME NEW b \in Bytes, PutBack(i, b)
        PROVE  taskdir' \in [Id -> DirIno \cup {Nil}] /\ node' \in [DirIno -> Node]
               /\ \A e \in DirIno : node'[e].bytes # Partial
    <3>1. PICK d \in DirIno, f \in FileIno :
            /\ taskdir' = [taskdir EXCEPT ![i] = d]
            /\ node' = [node EXCEPT ![d] = [ino |-> f, bytes |-> b, temps |-> {}]]
      BY <2>4 DEF PutBack, FreeDirs, FreeFiles
    <3>2. taskdir' \in [Id -> DirIno \cup {Nil}]
      BY <1>7, <3>1
    <3> DEFINE n == [ino |-> f, bytes |-> b, temps |-> {}]
    <3>3. n \in Node /\ n.bytes # Partial
      BY <1>1 DEF Node
    <3> HIDE DEF n
    <3>4. node' = [node EXCEPT ![d] = n]
      BY <3>1 DEF n
    <3>5. node' \in [DirIno -> Node] /\ \A e \in DirIno : node'[e].bytes # Partial
      BY <1>8, <3>3, <3>4
    <3> QED BY <3>2, <3>5
  <2> QED BY <1>3, <2>1, <2>2, <2>3, <2>4
<1>10. UNCHANGED <<stuck, lock, cmd, pc, call, loaded, reply, budget>>
  BY <1>2, <1>3, <1>4 DEF MoveAway, EditInPlace, EditAndRename, PutBack
<1>11. TypeOK'
  BY <1>1, <1>2, <1>4, <1>9, <1>10 DEF TypeOK
<1>12. \A p \in Proc : Control(p)'
  BY <1>10 DEF IInv, Control
<1> QED BY <1>1, <1>9, <1>10, <1>11, <1>12 DEF IInv, LockTable, NoPartial

\* Every step keeps the inductive invariant.
LEMMA NextInv == IInv /\ [Next]_vars => IInv'
<1> SUFFICES ASSUME IInv, [Next]_vars PROVE IInv'
    OBVIOUS
<1>1. ASSUME NEW p \in Proc, NEW c \in Commands, Open(p, c) PROVE IInv'
  BY <1>1, OpenInv
<1>2. ASSUME NEW p \in Proc, Begin(p) PROVE IInv'
  BY <1>2, StartInv
<1>3. ASSUME NEW p \in Proc, Step(p) PROVE IInv'
  BY <1>3, StepInv
<1>4. ASSUME NEW p \in Proc, Close(p) \/ Crash(p) PROVE IInv'
  BY <1>4, LeaveInv DEF Close, Crash
<1>5. CASE Editor
  BY <1>5, EditInv
<1>6. CASE UNCHANGED vars
  BY <1>6 DEF vars, fs, env, IInv, TypeOK, Control, LockTable
<1> QED BY <1>1, <1>2, <1>3, <1>4, <1>5, <1>6 DEF Next

\* It holds when nothing has happened yet.
LEMMA InitInv == Init => IInv
<1> SUFFICES ASSUME Init PROVE IInv
    OBVIOUS
<1>1. TypeOK
  BY TypeInit
<1>2. \A p \in Proc : Control(p)
  BY ConstantsAssumption
     DEF Init, Control, NoCall, InCall, Opened, Complete, CreateOnly, ReplaceOnly, WriteOnly
<1>3. LockTable
  BY DEF Init, LockTable
<1>4. \A p \in Proc, i \in Id : loaded[p][i].bytes # Partial
  BY ConstantsAssumption DEF Init, NotLoaded
<1>5. \A d \in DirIno : node[d].bytes # Partial
  BY TypeInit DEF Whole
<1> QED BY <1>1, <1>2, <1>3, <1>4, <1>5 DEF IInv

\* The inductive invariant holds in every reachable state, for any number of
\* processes, tasks and contents and any failures, crashes and edits.
THEOREM InductiveInvariant == Spec => []IInv
<1>1. Init => IInv
  BY InitInv
<1>2. IInv /\ [Next]_vars => IInv'
  BY NextInv
<1> QED BY <1>1, <1>2, PTL DEF Spec

\* store.c keeps its state well typed.
THEOREM TypeCorrect == Spec => []TypeOK
<1>1. IInv => TypeOK
  BY DEF IInv
<1> QED BY <1>1, InductiveInvariant, PTL

\* Atomic replacement (make_temp, write_all, renameat): whatever fails, dies or
\* edits, nobody finds or reads a TASK.md that was not completely written.
THEOREM NoTornTask == Spec => []NeverTorn
<1>1. IInv => NeverTorn
  BY ConstantsAssumption DEF IInv, NeverTorn, Visible, TypeOK
<1> QED BY <1>1, InductiveInvariant, PTL

\* A writer holds the lock exclusively, so everyone else is outside the database.
LEMMA Alone ==
  ASSUME "ls-update=" \notin Commands, IInv PROVE WriterAlone
<1> SUFFICES ASSUME NEW p \in Proc, NEW q \in Proc, p # q, InWrite(p)
             PROVE  pc[q] = "idle"
    BY DEF WriterAlone
<1>1. Control(p) /\ Control(q) /\ LockTable /\ TypeOK
  BY DEF IInv
<1>2. MayReplace(cmd[p]) \/ MayCreate(cmd[p])
  BY <1>1 DEF Control, InWrite
<1>3. cmd[p] \in {"new", "set", "ls-update"}
  BY <1>1, <1>2, ConstantsAssumption DEF TypeOK, MayReplace, MayCreate, AllCommands
<1>4. lock[p] = "ex"
  BY <1>1, <1>3 DEF Control, Mode, InWrite
<1>5. lock[q] = "none"
  BY <1>1, <1>4 DEF LockTable
<1> QED BY <1>1, <1>5 DEF Control

\* If scheduler_dispatch recognises every spelling of the mutation flag, a command
\* inside store_replace or store_create shares the database with nobody.
THEOREM Exclusion == "ls-update=" \notin Commands => (Spec => []WriterAlone)
<1> SUFFICES ASSUME "ls-update=" \notin Commands PROVE Spec => []WriterAlone
    OBVIOUS
<1>1. IInv => WriterAlone
  BY Alone
<1> QED BY <1>1, InductiveInvariant, PTL

-----------------------------------------------------------------------------
(* No lost update.                                                           *)

\* A directory without a TASK.md has no content, after any step or edit.
LEMMA WholeInv ==
  ASSUME GInv, [Next]_vars, NEW d \in DirIno, ~HasFile(d)'
  PROVE  node'[d].bytes = Nil
<1>1. /\ TypeOK /\ (~HasFile(d) => node[d].bytes = Nil)
      /\ node \in [DirIno -> Node] /\ Nil \notin FileIno /\ \A p \in Proc : Control(p)
  BY ConstantsAssumption DEF GInv, IInv, TypeOK
<1>2. CASE node' = node
  BY <1>1, <1>2 DEF HasFile
<1>3. ASSUME NEW e, NEW T, node' = [node EXCEPT ![e].temps = T]
      PROVE  node'[d].bytes = Nil
  <2>1. node'[d].ino = node[d].ino /\ node'[d].bytes = node[d].bytes
    BY <1>1, <1>3 DEF Node
  <2> QED BY <1>1, <2>1 DEF HasFile
<1>4. ASSUME NEW e, NEW n, n.ino # Nil \/ n.bytes = Nil, node' = [node EXCEPT ![e] = n]
      PROVE  node'[d].bytes = Nil
  BY <1>1, <1>4 DEF HasFile
<1>5. ASSUME NEW p \in Proc, Step(p) PROVE node'[d].bytes = Nil
  <2>1. CASE Mkdir(p)
    <3>1. EmptyNode.bytes = Nil
      BY DEF EmptyNode
    <3>2. node' = node \/ \E e \in FreeDirs : node' = [node EXCEPT ![e] = EmptyNode]
      BY <2>1 DEF Mkdir, fs
    <3> QED BY <1>2, <1>4, <3>1, <3>2
  <2>2. CASE MakeTemp(p)
    <3>1. node' = node \/ \E a \in Attempt :
            node' = [node EXCEPT ![call[p].dfd].temps = node[call[p].dfd].temps \cup {<<p, a>>}]
      BY <2>2 DEF MakeTemp, FreeNames
    <3> QED BY <1>2, <1>3, <3>1
  <2>3. CASE WriteTemp(p)
    BY <1>2, <1>3, <2>3 DEF WriteTemp, TempStays
  <2>4. CASE Rename(p)
    <3>1. call[p].tino \in FileIno
      BY <1>1, <2>4 DEF Rename, At, Control, Complete
    <3>2. node' = node \/ node' = [node EXCEPT ![call[p].dfd] =
                      [ino |-> call[p].tino, bytes |-> call[p].tbytes,
                       temps |-> WithoutTemp(p)]]
      BY <2>4 DEF Rename, FailIf, fs
    <3> QED BY <1>1, <1>2, <1>4, <3>1, <3>2
  <2>5. CASE Done(p)
    BY <1>2, <1>3, <2>5 DEF Done, TempStays
  <2> QED BY <1>2, <1>5, <2>1, <2>2, <2>3, <2>4, <2>5
          DEF Step, FindDir, OpenDir, OpenFile, ReadBytes, Compare, Vacant, CheckDir,
              CheckFile, CheckBytes, VacantAgain, Sync, Check, FailIf, fs
<1>6. CASE Editor
  <2>1. PICK i \in Id : \/ MoveAway(i)
                        \/ \E b \in Bytes : \/ EditInPlace(i, b)
                                            \/ EditAndRename(i, b)
                                            \/ PutBack(i, b)
    BY <1>6 DEF Editor
  <2>2. CASE MoveAway(i)
    BY <1>2, <2>2 DEF MoveAway
  <2>3. ASSUME NEW b \in Bytes, EditInPlace(i, b) PROVE node'[d].bytes = Nil
    <3>1. node'[d].ino = node[d].ino /\ (d # taskdir[i] => node'[d] = node[d])
      BY <1>1, <2>3 DEF EditInPlace, Node
    <3> QED BY <1>1, <2>3, <3>1 DEF EditInPlace, HasFile
  <2>4. ASSUME NEW b \in Bytes, EditAndRename(i, b) PROVE node'[d].bytes = Nil
    <3>1. d # taskdir[i] => node'[d] = node[d]
      BY <1>1, <2>4 DEF EditAndRename
    <3>2. d = taskdir[i] => node'[d].ino \in FileIno
      BY <1>1, <2>4 DEF EditAndRename, FreeFiles, Node
    <3> QED BY <1>1, <3>1, <3>2 DEF HasFile
  <2>5. ASSUME NEW b \in Bytes, PutBack(i, b) PROVE node'[d].bytes = Nil
    <3>1. PICK e \in FreeDirs, f \in FileIno :
            node' = [node EXCEPT ![e] = [ino |-> f, bytes |-> b, temps |-> {}]]
      BY <2>5 DEF PutBack, FreeFiles
    <3> QED BY <1>1, <1>4, <3>1
  <2> QED BY <2>1, <2>2, <2>3, <2>4, <2>5
<1> QED BY <1>2, <1>5, <1>6
        DEF Next, vars, fs, Open, Begin, StartRead, StartReplace, StartCreate, Start,
            Close, Crash, Leave

\* Nothing but an edit, which marks the process, undoes what it has checked.
LEMMA CheckedInv ==
  ASSUME "ls-update=" \notin Commands, GInv, [Next]_vars, NEW p \in Proc
  PROVE  Checked(p)'
<1>1. TypeOK /\ Control(p) /\ Checked(p) /\ WriterAlone
  BY Alone DEF GInv, IInv
<1>2. pc[p] \in NameChecked => InWrite(p)
  BY <1>1 DEF NameChecked, InWrite, Control, ReplaceOnly, CreateOnly, WriteOnly
<1>3. "rename" \in NameChecked
  BY DEF NameChecked
<1>4. CASE /\ UNCHANGED <<taskdir, node>>
           /\ pc'[p] = pc[p] /\ call'[p] = call[p] /\ loaded'[p] = loaded[p]
           /\ window'[p] = window[p]
  BY <1>1, <1>4 DEF Checked, Old
<1>5. CASE pc'[p] \notin NameChecked
  BY <1>3, <1>5 DEF Checked
<1>6. ASSUME NEW q \in Proc, NEW c \in Commands, Open(q, c) PROVE Checked(p)'
  <2>1. /\ UNCHANGED <<taskdir, node, call, loaded, window>>
        /\ q # p => pc'[p] = pc[p]
        /\ q = p => pc'[p] \in {"idle", "ready"}
    BY <1>1, <1>6 DEF Open, Refuse, TypeOK, fs, env
  <2> QED BY <1>4, <1>5, <2>1 DEF NameChecked
<1>7. ASSUME NEW q \in Proc, q # p, Begin(q) \/ Step(q) \/ Close(q) \/ Crash(q)
      PROVE  Checked(p)'
  <2>1. pc[q] # "idle"
    BY <1>7 DEF Begin, StartRead, StartReplace, StartCreate, Start, Close, Crash, Step, At,
         Mkdir, FindDir, OpenDir, OpenFile, ReadBytes, Compare, Vacant, MakeTemp,
         WriteTemp, CheckDir, CheckFile, CheckBytes, VacantAgain, Rename, Sync, Done
  <2>2. pc[p] \notin NameChecked
    BY <1>1, <1>2, <1>7, <2>1 DEF WriterAlone
  <2>3. pc'[p] = pc[p]
    BY <1>1, <1>7, StepFrame DEF Begin, StartRead, StartReplace, StartCreate, Start,
         Close, Crash, Leave, TypeOK, GInv, IInv
  <2> QED BY <1>5, <2>2, <2>3
<1>8. CASE Begin(p) \/ Close(p) \/ Crash(p)
  BY <1>1, <1>5, <1>8 DEF Begin, StartRead, StartReplace, StartCreate, Start,
       Close, Crash, Leave, TypeOK, NameChecked
<1>9. CASE Step(p)
  <2>1. \/ pc'[p] \notin NameChecked
        \/ CheckDir(p) \/ CheckFile(p) \/ CheckBytes(p) \/ VacantAgain(p)
    BY <1>1, <1>9 DEF Step, Goto, Fail, FailIf, Check, TypeOK, NameChecked,
         Mkdir, FindDir, OpenDir, OpenFile, ReadBytes, Compare, Vacant, MakeTemp,
         WriteTemp, Rename, Sync, Done
  <2>2. ASSUME CheckDir(p) \/ CheckFile(p) \/ CheckBytes(p) \/ VacantAgain(p),
               pc'[p] \in NameChecked
        PROVE  Checked(p)'
    <3>1. UNCHANGED <<taskdir, node, call, loaded, window>>
      BY <2>2 DEF CheckDir, CheckFile, CheckBytes, VacantAgain, Check, At, fs, env
    <3>2. pc[p] \in {"check_dir", "check_file", "check_bytes", "vacant_again"}
          /\ call[p].taskst = call[p].dfd /\ call[p].dfd \in DirIno
      BY <1>1, <2>2 DEF CheckDir, CheckFile, CheckBytes, VacantAgain, At, Control, Opened
    <3>3. window[p] \/ taskdir[call[p].id] = call[p].dfd
      <4>1. CASE pc[p] \in NameChecked
        BY <1>1, <4>1 DEF Checked
      <4>2. CASE CheckDir(p)
        BY <1>1, <2>2, <3>2, <4>2 DEF CheckDir, Check, Fail, Goto, TypeOK, NameChecked
      <4> QED BY <2>2, <3>2, <4>1, <4>2
            DEF NameChecked, CheckFile, CheckBytes, VacantAgain, At
    <3>4. ASSUME pc'[p] = "rename"
          PROVE  node[call[p].dfd].bytes = IF call[p].op = "create" THEN Nil ELSE Old(p).bytes
      <4>1. CASE CheckBytes(p)
        BY <1>1, <3>4, <4>1 DEF CheckBytes, Check, Fail, Goto, At, TypeOK, ContentIs, Dir,
             Control, ReplaceOnly
      <4>2. CASE VacantAgain(p)
        BY <1>1, <3>2, <3>4, <4>2 DEF VacantAgain, Check, Fail, Goto, At, TypeOK,
             Control, CreateOnly, GInv
      <4>3. CASE CheckDir(p) \/ CheckFile(p)
        BY <1>1, <3>4, <4>3 DEF CheckDir, CheckFile, Check, Fail, Goto, At, TypeOK
      <4> QED BY <2>2, <4>1, <4>2, <4>3
    <3> QED BY <3>1, <3>3, <3>4 DEF Checked, Old
  <2> QED BY <1>5, <2>1, <2>2
<1>10. CASE Editor
  <2>1. PICK i \in Id : \/ MoveAway(i)
                        \/ \E b \in Bytes : \/ EditInPlace(i, b)
                                            \/ EditAndRename(i, b)
                                            \/ PutBack(i, b)
    BY <1>10 DEF Editor
  <2>2. \A B : Edit(B) => /\ UNCHANGED <<pc, call, loaded>>
                          /\ window'[p] = (window[p] \/ p \in B)
    BY DEF Edit
  <2>3. taskdir[i] = Nil \/ taskdir[i] \in DirIno
    BY <1>1 DEF TypeOK
  <2>4. CASE MoveAway(i)
    <3>1. /\ Edit(NameWindow(i)) /\ UNCHANGED node
          /\ \A j \in Id : j # i => taskdir'[j] = taskdir[j]
      BY <1>1, <2>4 DEF MoveAway, TypeOK
    <3>2. p \in NameWindow(i) \/ pc[p] \notin NameChecked \/ call[p].id # i
      BY DEF NameWindow, NameChecked
    <3>3. pc[p] \in NameChecked => call[p].id \in Id
      BY <1>1 DEF Control, InCall, NameChecked, PC
    <3> QED BY <1>1, <1>3, <2>2, <3>1, <3>2, <3>3 DEF Checked, Old
  <2>5. ASSUME NEW b \in Bytes, EditInPlace(i, b) \/ EditAndRename(i, b)
        PROVE  Checked(p)'
    <3>1. /\ Edit(FileWindow(taskdir[i])) /\ UNCHANGED taskdir
          /\ \A d \in DirIno : d # taskdir[i] => node'[d] = node[d]
      BY <1>1, <2>5 DEF EditInPlace, EditAndRename, TypeOK
    <3>2. p \in FileWindow(taskdir[i]) \/ pc[p] # "rename" \/ call[p].dfd # taskdir[i]
      BY DEF FileWindow
    <3>3. pc[p] = "rename" => call[p].dfd \in DirIno
      BY <1>1 DEF Control, Opened
    <3> QED BY <1>1, <2>2, <3>1, <3>2, <3>3 DEF Checked, Old
  <2>6. ASSUME NEW b \in Bytes, PutBack(i, b)
        PROVE  Checked(p)'
    <3>1. PICK d \in FreeDirs :
            /\ Edit(NameWindow(i))
            /\ \A j \in Id : j # i => taskdir'[j] = taskdir[j]
            /\ \A e \in DirIno : e # d => node'[e] = node[e]
      BY <1>1, <2>6 DEF PutBack, TypeOK
    <3>2. p \in NameWindow(i) \/ pc[p] \notin NameChecked \/ call[p].id # i
      BY DEF NameWindow, NameChecked
    <3>3. pc[p] \in NameChecked => call[p].id \in Id
      BY <1>1 DEF Control, InCall, NameChecked, PC
    <3>4. pc[p] = "rename" => call[p].dfd \in DirIno
      BY <1>1 DEF Control, Opened
    <3>5. call[p].dfd # d
      BY <3>1 DEF FreeDirs, LiveDirs
    <3> QED BY <1>1, <1>3, <2>2, <3>1, <3>2, <3>3, <3>4, <3>5 DEF Checked, Old
  <2> QED BY <2>1, <2>4, <2>5, <2>6
<1>11. CASE UNCHANGED vars
  BY <1>4, <1>11 DEF vars, fs, env
<1> QED BY <1>6, <1>7, <1>8, <1>9, <1>10, <1>11 DEF Next

\* What the checks before renameat established stays true until the rename, for any
\* process, as long as every spelling of the mutation flag takes the exclusive lock.
THEOREM GuardInvariant == "ls-update=" \notin Commands => (Spec => []GInv)
<1> SUFFICES ASSUME "ls-update=" \notin Commands PROVE Spec => []GInv
    OBVIOUS
<1>1. Init => GInv
  <2> SUFFICES ASSUME Init PROVE GInv
      OBVIOUS
  <2>1. \A p \in Proc : Checked(p)
    BY DEF Init, Checked, NameChecked
  <2>2. \A d \in DirIno : ~HasFile(d) => node[d].bytes = Nil
    BY TypeInit DEF Whole, HasFile
  <2> QED BY <2>1, <2>2, InitInv DEF GInv
<1>2. GInv /\ [Next]_vars => GInv'
  <2> SUFFICES ASSUME GInv, [Next]_vars PROVE GInv'
      OBVIOUS
  <2>1. IInv'
    BY NextInv DEF GInv
  <2>2. \A p \in Proc : Checked(p)'
    BY CheckedInv
  <2>3. \A d \in DirIno : ~HasFile(d)' => node'[d].bytes = Nil
    BY WholeInv
  <2> QED BY <2>1, <2>2, <2>3 DEF GInv
<1> QED BY <1>1, <1>2, PTL DEF Spec

\* No lost update (store_replace, store_create): if every spelling of the mutation
\* flag takes the exclusive lock, renameat overwrites exactly what the command
\* loaded, unless an editor without the lock came after the last check.
THEOREM NoLostUpdate == "ls-update=" \notin Commands => (Spec => GuardedRename)
<1> SUFFICES ASSUME "ls-update=" \notin Commands PROVE Spec => GuardedRename
    OBVIOUS
<1>1. Spec => []GInv
  BY GuardInvariant
<1>2. GInv => \A p \in Proc : Renames(p) => window[p] \/ Guarded(p)
  <2> SUFFICES ASSUME GInv, NEW p \in Proc, pc[p] = "rename", ~window[p]
               PROVE  Guarded(p)
      BY DEF Renames
  <2>1. Checked(p) /\ Control(p) /\ Nil \notin DirIno
    BY ConstantsAssumption DEF GInv, IInv
  <2>2. call[p].dfd \in DirIno
    BY <2>1 DEF Control, Opened
  <2> QED BY <2>1, <2>2 DEF Checked, NameChecked, Guarded, Visible
<1> QED BY <1>1, <1>2, PTL DEF GuardedRename

-----------------------------------------------------------------------------
\* Every spelling of the mutation flag locks, and nobody edits without the lock.
AllLock == "ls-update=" \notin Commands /\ "editor" \notin Env

\* Names lead to directories of their own, and files have content.
Apart == \A i, j \in Id : i # j /\ taskdir[i] # Nil => taskdir[i] # taskdir[j]
Filled == \A d \in DirIno : HasFile(d) => node[d].bytes # Nil

\* What a program counter says beyond Control: the reservation, what was loaded, and
\* whether anything has been published.
Progress(p) ==
  LET c == call[p] l == pc[p] IN
  /\ l = "idle" => \A i \in Id : loaded[p][i].ino = Nil
  /\ l \in {"idle", "ready", "mkdir"} => ~c.made
  /\ c.made => c.op = "create"
  /\ l \in InCall \ {"mkdir", "done"} /\ c.op = "create" => c.made
  /\ l \in InCall /\ c.op = "replace" => Old(p).ino # Nil
  /\ l \in InCall \ {"sync", "done"} => ~reply[p].committed
  /\ l \in InCall /\ c.op = "read" => ~reply[p].committed
  /\ l = "sync" => reply[p].committed

\* The name leads to the open directory.
Placed(p) == pc[p] \in Opened => taskdir[call[p].id] = call[p].dfd

\* The task i is a file with these bytes.
Stored(i, b) == taskdir[i] # Nil /\ HasFile(taskdir[i]) /\ node[taskdir[i]].bytes = b

\* What was published is there, and what was loaded and not replaced still is.
HasPublished(p) == pc[p] \in {"sync", "done"} /\ reply[p].committed
Published(p) == HasPublished(p) => Stored(call[p].id, call[p].next)
Current(p) == \A i \in Id :
  loaded[p][i].ino # Nil =>
    \/ Stored(i, loaded[p][i].bytes)
    \/ HasPublished(p) /\ call[p].op = "replace" /\ i = call[p].id

Local(p) == ~window[p] /\ Progress(p) /\ Placed(p) /\ Published(p) /\ Current(p)

RInv == GInv /\ Apart /\ Filled /\ \A p \in Proc : Local(p)
-----------------------------------------------------------------------------
(* What a step of a store call does, as far as the promises can tell.        *)

SameContent == /\ taskdir' = taskdir
               /\ \A d \in DirIno : node'[d].ino = node[d].ino /\ node'[d].bytes = node[d].bytes

SameCall(p) == /\ call'[p].op = call[p].op /\ call'[p].id = call[p].id
               /\ call'[p].next = call[p].next /\ call'[p].made = call[p].made

\* It moves on or fails, and changes no name and no task.
Moves(p, l) ==
  /\ SameContent /\ SameCall(p) /\ loaded' = loaded
  /\ pc[p] \in InCall \ {"done"} /\ l \in InCall \ {"mkdir", "sync"} /\ pc'[p] = l
  /\ pc[p] \in {"mkdir", "sync"} => l = "done"
  /\ reply'[p].committed = reply[p].committed
  /\ l \in Opened => taskdir[call[p].id] = call'[p].dfd

\* It makes the directory d,
Reserves(p, d) ==
  /\ pc[p] = "mkdir" /\ pc'[p] = "find_dir"
  /\ taskdir[call[p].id] = Nil /\ d \in FreeDirs
  /\ taskdir' = [taskdir EXCEPT ![call[p].id] = d]
  /\ node' = [node EXCEPT ![d] = EmptyNode]
  /\ call' = [call EXCEPT ![p].made = TRUE]
  /\ UNCHANGED <<loaded, reply>>

\* or reads,
Reads(p) ==
  /\ pc[p] = "read_bytes" /\ pc'[p] = "done"
  /\ Linked(p)
  /\ loaded' = [loaded EXCEPT ![p][call[p].id] = [ino |-> Dir(p).ino, bytes |-> Dir(p).bytes]]
  /\ UNCHANGED <<fs, call, reply>>

\* or renames.
Publishes(p) ==
  /\ pc[p] = "rename" /\ pc'[p] = "sync"
  /\ node' = [node EXCEPT ![call[p].dfd] =
                [ino |-> call[p].tino, bytes |-> call[p].tbytes, temps |-> WithoutTemp(p)]]
  /\ SameCall(p) /\ call'[p].dfd = call[p].dfd
  /\ reply' = [reply EXCEPT ![p].committed = TRUE]
  /\ UNCHANGED <<taskdir, loaded>>

\* A change of temporary names is none of content.
LEMMA TempsOnly ==
  ASSUME TypeOK, NEW d, NEW T, taskdir' = taskdir, node' = [node EXCEPT ![d].temps = T]
  PROVE  SameContent
<1> SUFFICES ASSUME NEW e \in DirIno
             PROVE  node'[e].ino = node[e].ino /\ node'[e].bytes = node[e].bytes
    BY DEF SameContent
<1>1. node \in [DirIno -> Node] /\ node[e] \in Node
  BY DEF TypeOK
<1> QED BY <1>1 DEF Node

\* Every step is one of these, or the cleanup at the end.
LEMMA Kinds ==
  ASSUME RInv, NEW p \in Proc, Step(p)
  PROVE  \/ \E l : Moves(p, l)
         \/ \E d : Reserves(p, d)
         \/ Reads(p) \/ Publishes(p) \/ Done(p)
<1> DEFINE c == call[p]
<1>1. /\ TypeOK /\ Control(p) /\ Progress(p) /\ Placed(p)
      /\ call \in [Proc -> Call] /\ c \in Call /\ pc \in [Proc -> PC] /\ reply \in [Proc -> Reply]
  BY DEF RInv, Local, GInv, IInv, TypeOK
<1>2. UNCHANGED fs => SameContent
  BY DEF fs, SameContent
<1>3. UNCHANGED call => SameCall(p)
  BY DEF SameCall
<1> USE DEF At, Goto
<1>fail. ASSUME NEW e, Fail(p, e), SameContent, SameCall(p), loaded' = loaded,
                pc[p] \in InCall \ {"done"}
         PROVE  Moves(p, "done")
  <2>1. pc'[p] = "done" /\ reply'[p].committed = reply[p].committed
    BY <1>1, <1>fail DEF Fail, Reply
  <2> QED BY <1>fail, <2>1 DEF Moves, InCall, PC, Opened
<1>check. ASSUME NEW b, NEW l, Check(p, b, l), pc[p] \in Opened \ {"sync"},
                 l \in Opened \ {"sync"}
          PROVE  \E m : Moves(p, m)
  <2>1. SameContent /\ SameCall(p) /\ loaded' = loaded /\ UNCHANGED call
    BY <1>2, <1>3, <1>check DEF Check
  <2>2. pc[p] \in InCall \ {"done", "mkdir", "sync"} /\ l \in InCall \ {"mkdir", "sync"}
    BY <1>check DEF InCall, Opened, PC
  <2>3. CASE pc' = [pc EXCEPT ![p] = l] /\ UNCHANGED reply
    <3>1. pc'[p] = l
      BY <1>1, <2>3
    <3> QED BY <1>1, <1>check, <2>1, <2>2, <2>3, <3>1 DEF Moves, Placed
  <2>4. CASE Fail(p, "conflict")
    BY <1>fail, <2>1, <2>2, <2>4
  <2> QED BY <1>check, <2>3, <2>4 DEF Check
<1>failif. ASSUME NEW k, NEW e, FailIf(p, k, e), pc[p] \in InCall \ {"done"}
           PROVE  \E m : Moves(p, m)
  BY <1>2, <1>3, <1>fail, <1>failif DEF FailIf
<1>Mkdir. CASE Mkdir(p)
  <2>1. pc[p] \in InCall \ {"done"} /\ pc[p] = "mkdir" /\ UNCHANGED loaded
    BY <1>Mkdir DEF Mkdir, InCall, PC
  <2>2. CASE \E e : Fail(p, e) /\ UNCHANGED <<fs, call>>
    BY <1>2, <1>3, <1>fail, <2>1, <2>2
  <2>3. CASE /\ taskdir[c.id] = Nil
             /\ \E d \in FreeDirs : /\ taskdir' = [taskdir EXCEPT ![c.id] = d]
                                    /\ node' = [node EXCEPT ![d] = EmptyNode]
             /\ call' = [call EXCEPT ![p].made = TRUE]
             /\ pc' = [pc EXCEPT ![p] = "find_dir"] /\ UNCHANGED reply
    BY <1>1, <2>1, <2>3 DEF Reserves
  <2> QED BY <1>Mkdir, <2>2, <2>3 DEF Mkdir
<1>FindDir. CASE FindDir(p)
  <2>1. pc[p] = "find_dir" /\ pc[p] \in InCall \ {"done", "mkdir", "sync"}
    BY <1>FindDir DEF FindDir, InCall, PC
  <2>2. CASE /\ call' = [call EXCEPT ![p].taskst = taskdir[c.id]]
             /\ pc' = [pc EXCEPT ![p] = "open_dir"] /\ UNCHANGED <<fs, loaded, reply>>
    <3>1. SameCall(p) /\ pc'[p] = "open_dir"
      BY <1>1, <2>2 DEF SameCall, Call
    <3> QED BY <1>2, <2>1, <2>2, <3>1 DEF Moves, InCall, PC, Opened
  <2>3. CASE Fail(p, "io_error") /\ UNCHANGED <<fs, call, loaded>>
    BY <1>2, <1>3, <1>fail, <2>1, <2>3
  <2> QED BY <1>failif, <1>FindDir, <2>1, <2>2, <2>3 DEF FindDir
<1>OpenDir. CASE OpenDir(p)
  <2>1. pc[p] = "open_dir" /\ pc[p] \in InCall \ {"done", "mkdir", "sync"}
    BY <1>OpenDir DEF OpenDir, InCall, PC
  <2>2. CASE /\ call' = [call EXCEPT ![p] = [c EXCEPT !.dfd = taskdir[c.id], !.taskst = taskdir[c.id]]]
             /\ pc' = [pc EXCEPT ![p] = IF c.op = "create" THEN "vacant" ELSE "open_file"]
             /\ UNCHANGED <<fs, loaded, reply>>
    <3>1. SameCall(p) /\ call'[p].dfd = taskdir[c.id]
      BY <1>1, <2>2 DEF SameCall, Call
    <3>2. PICK l \in {"vacant", "open_file"} : pc'[p] = l
      BY <1>1, <2>2
    <3>3. l \in InCall \ {"mkdir", "sync"}
      BY <3>2 DEF InCall, PC
    <3> QED BY <1>2, <2>1, <2>2, <3>1, <3>2, <3>3 DEF Moves
  <2>3. CASE Fail(p, "task_not_found") /\ UNCHANGED <<fs, call, loaded>>
    BY <1>2, <1>3, <1>fail, <2>1, <2>3
  <2> QED BY <1>failif, <1>OpenDir, <2>1, <2>2, <2>3 DEF OpenDir
<1>OpenFile. CASE OpenFile(p)
  <2>1. pc[p] = "open_file" /\ pc[p] \in InCall \ {"done", "mkdir", "sync"} /\ pc[p] \in Opened
    BY <1>OpenFile DEF OpenFile, InCall, PC, Opened
  <2>2. CASE /\ call' = [call EXCEPT ![p].ffd = Dir(p).ino]
             /\ pc' = [pc EXCEPT ![p] = IF c.op = "read" THEN "read_bytes" ELSE "compare"]
             /\ UNCHANGED <<fs, loaded, reply>>
    <3>1. SameCall(p) /\ call'[p].dfd = c.dfd
      BY <1>1, <2>2 DEF SameCall, Call
    <3>2. PICK l \in {"read_bytes", "compare"} : pc'[p] = l
      BY <1>1, <2>2
    <3>3. l \in InCall \ {"mkdir", "sync"} /\ taskdir[c.id] = c.dfd
      BY <1>1, <2>1, <3>2 DEF InCall, PC, Placed
    <3> QED BY <1>2, <2>1, <2>2, <3>1, <3>2, <3>3 DEF Moves
  <2>3. CASE Fail(p, "task_not_found") /\ UNCHANGED <<fs, call, loaded>>
    BY <1>2, <1>3, <1>fail, <2>1, <2>3
  <2> QED BY <1>failif, <1>OpenFile, <2>1, <2>2, <2>3 DEF OpenFile
<1>ReadBytes. CASE ReadBytes(p)
  <2>1. pc[p] = "read_bytes" /\ pc[p] \in InCall \ {"done", "mkdir", "sync"}
    BY <1>ReadBytes DEF ReadBytes, InCall, PC
  <2>2. CASE /\ Linked(p)
             /\ loaded' = [loaded EXCEPT ![p][c.id] = [ino |-> Dir(p).ino, bytes |-> Dir(p).bytes]]
             /\ pc' = [pc EXCEPT ![p] = "done"] /\ UNCHANGED <<fs, call, reply>>
    BY <1>1, <2>1, <2>2 DEF Reads
  <2>3. CASE Fail(p, "conflict") /\ UNCHANGED <<fs, call, loaded>>
    BY <1>2, <1>3, <1>fail, <2>1, <2>3
  <2> QED BY <1>failif, <1>ReadBytes, <2>1, <2>2, <2>3 DEF ReadBytes
<1>Compare. CASE Compare(p)
  BY <1>check, <1>Compare DEF Compare, Opened
<1>Vacant. CASE Vacant(p)
  BY <1>check, <1>Vacant DEF Vacant, Opened
<1>MakeTemp. CASE MakeTemp(p)
  <2>1. pc[p] = "make_temp" /\ pc[p] \in InCall \ {"done", "mkdir", "sync"} /\ pc[p] \in Opened
        /\ UNCHANGED <<taskdir, loaded>>
    BY <1>MakeTemp DEF MakeTemp, InCall, PC, Opened
  <2>2. SameContent
    <3>1. CASE UNCHANGED node
      BY <2>1, <3>1 DEF SameContent
    <3>2. CASE \E a : node' = [node EXCEPT ![c.dfd].temps = node[c.dfd].temps \cup {<<p, a>>}]
      BY <1>1, <2>1, <3>2, TempsOnly
    <3> QED BY <1>MakeTemp, <3>1, <3>2 DEF MakeTemp
  <2>3. CASE /\ \E a, f : call' = [call EXCEPT ![p] = [c EXCEPT !.tmp = a, !.tino = f, !.tbytes = Partial]]
             /\ pc' = [pc EXCEPT ![p] = "write_temp"] /\ UNCHANGED reply
    <3>1. SameCall(p) /\ call'[p].dfd = c.dfd /\ pc'[p] = "write_temp"
      BY <1>1, <2>3 DEF SameCall, Call
    <3> QED BY <1>1, <2>1, <2>2, <2>3, <3>1 DEF Moves, InCall, PC, Placed
  <2>4. CASE Fail(p, "io_error") /\ UNCHANGED call
    BY <1>3, <1>fail, <2>1, <2>2, <2>4
  <2> QED BY <1>MakeTemp, <2>3, <2>4 DEF MakeTemp
<1>WriteTemp. CASE WriteTemp(p)
  <2>1. pc[p] = "write_temp" /\ pc[p] \in InCall \ {"done", "mkdir", "sync"} /\ pc[p] \in Opened
        /\ UNCHANGED <<taskdir, loaded>>
    BY <1>WriteTemp DEF WriteTemp, InCall, PC, Opened
  <2>2. CASE /\ call' = [call EXCEPT ![p].tbytes = c.next]
             /\ pc' = [pc EXCEPT ![p] = "check_dir"] /\ UNCHANGED <<node, reply>>
    <3>1. SameCall(p) /\ call'[p].dfd = c.dfd /\ pc'[p] = "check_dir" /\ SameContent
      BY <1>1, <2>1, <2>2 DEF SameCall, Call, SameContent
    <3> QED BY <1>1, <2>1, <2>2, <3>1 DEF Moves, InCall, PC, Placed
  <2>3. CASE /\ Fail(p, "io_error")
             /\ node' = node \/ node' = [node EXCEPT ![c.dfd].temps = WithoutTemp(p)]
             /\ call' = [call EXCEPT ![p] = NoTemp(c)]
    <3>1. SameCall(p)
      BY <1>1, <2>3 DEF SameCall, Call, NoTemp
    <3>2. SameContent
      BY <1>1, <1>2, <2>1, <2>3, TempsOnly DEF SameContent
    <3> QED BY <1>fail, <2>1, <2>3, <3>1, <3>2
  <2> QED BY <1>WriteTemp, <2>2, <2>3 DEF WriteTemp, TempStays
<1>CheckDir. CASE CheckDir(p)
  BY <1>check, <1>CheckDir DEF CheckDir, Opened
<1>CheckFile. CASE CheckFile(p)
  BY <1>check, <1>CheckFile DEF CheckFile, Opened
<1>CheckBytes. CASE CheckBytes(p)
  BY <1>check, <1>CheckBytes DEF CheckBytes, Opened
<1>VacantAgain. CASE VacantAgain(p)
  BY <1>check, <1>VacantAgain DEF VacantAgain, Opened
<1>Rename. CASE Rename(p)
  <2>1. pc[p] = "rename" /\ pc[p] \in InCall \ {"done", "mkdir", "sync"}
    BY <1>Rename DEF Rename, InCall, PC
  <2>2. CASE /\ node' = [node EXCEPT ![c.dfd] = [ino |-> c.tino, bytes |-> c.tbytes,
                                                temps |-> WithoutTemp(p)]]
             /\ call' = [call EXCEPT ![p] = NoTemp(c)]
             /\ reply' = [reply EXCEPT ![p].committed = TRUE]
             /\ pc' = [pc EXCEPT ![p] = "sync"] /\ UNCHANGED <<taskdir, loaded>>
    <3>1. SameCall(p) /\ call'[p].dfd = c.dfd /\ pc'[p] = "sync"
      BY <1>1, <2>2 DEF SameCall, Call, NoTemp
    <3> QED BY <2>1, <2>2, <3>1 DEF Publishes
  <2> QED BY <1>failif, <1>Rename, <2>1, <2>2 DEF Rename
<1>Sync. CASE Sync(p)
  <2>1. pc[p] = "sync" /\ pc[p] \in InCall \ {"done"}
    BY <1>Sync DEF Sync, InCall, PC
  <2>2. CASE pc' = [pc EXCEPT ![p] = "done"] /\ UNCHANGED <<fs, call, loaded, reply>>
    <3>1. pc'[p] = "done"
      BY <1>1, <2>2
    <3> QED BY <1>2, <1>3, <2>1, <2>2, <3>1 DEF Moves, InCall, PC, Opened
  <2> QED BY <1>failif, <1>Sync, <2>1, <2>2 DEF Sync
<1> QED BY <1>Mkdir, <1>FindDir, <1>OpenDir, <1>OpenFile, <1>ReadBytes, <1>Compare, <1>Vacant,
           <1>MakeTemp, <1>WriteTemp, <1>CheckDir, <1>CheckFile, <1>CheckBytes,
           <1>VacantAgain, <1>Rename, <1>Sync DEF Step
-----------------------------------------------------------------------------
(* The invariant.                                                            *)

\* The facts a step starts from.
LEMMA Facts ==
  ASSUME AllLock, RInv, NEW p \in Proc
  PROVE  /\ TypeOK /\ Control(p) /\ Checked(p) /\ Local(p) /\ WriterAlone
         /\ Apart /\ Filled /\ \A d \in DirIno : ~HasFile(d) => node[d].bytes = Nil
         /\ call \in [Proc -> Call] /\ pc \in [Proc -> PC] /\ reply \in [Proc -> Reply]
         /\ loaded \in [Proc -> [Id -> Loaded]] /\ node \in [DirIno -> Node]
         /\ taskdir \in [Id -> DirIno \cup {Nil}]
         /\ pc[p] \in InCall => call[p].id \in Id
BY Alone DEF AllLock, RInv, GInv, IInv, TypeOK, Control

\* Who reads changes no content.
LEMMA ReadersKeep ==
  ASSUME AllLock, RInv, NEW p \in Proc, Step(p), ~InWrite(p)
  PROVE  SameContent
<1>1. /\ TypeOK /\ Control(p) /\ Progress(p)
  BY Facts DEF Local
<1>2. CASE \E l : Moves(p, l)
  BY <1>2 DEF Moves
<1>3. ASSUME NEW d PROVE ~Reserves(p, d)
  BY <1>1 DEF Reserves, Control, CreateOnly, InWrite
<1>4. CASE Reads(p)
  BY <1>4 DEF Reads, SameContent, fs
<1>5. ~Publishes(p)
  BY <1>1 DEF Publishes, Control, WriteOnly, InWrite
<1>6. CASE Done(p)
  <2>1. ~call[p].made
    BY <1>1, <1>6 DEF Done, At, Progress, InWrite
  <2>2. taskdir' = taskdir
    BY <1>6, <2>1 DEF Done, Releases
  <2>3. node' = node \/ node' = [node EXCEPT ![call[p].dfd].temps = WithoutTemp(p)]
    BY <1>6 DEF Done, TempStays
  <2> QED BY <1>1, <2>2, <2>3, TempsOnly DEF SameContent
<1> QED BY <1>2, <1>3, <1>4, <1>5, <1>6, Kinds

\* A process keeps what it knows while nothing changes for it.
LEMMA LocalKept ==
  ASSUME AllLock, RInv, NEW q \in Proc, pc[q] = "idle" \/ SameContent,
         pc'[q] = pc[q], call'[q] = call[q], loaded'[q] = loaded[q], reply'[q] = reply[q],
         window'[q] = window[q]
  PROVE  Local(q)'
<1>1. TypeOK /\ Local(q) /\ Control(q)
  BY Facts
<1>2. CASE pc[q] = "idle"
  BY <1>1, <1>2 DEF Local, Progress, Placed, Published, Current, HasPublished, InCall, PC,
       Opened, Old
<1>3. CASE SameContent
  <2>1. \A i \in Id : \A b : Stored(i, b) => Stored(i, b)'
    BY <1>1, <1>3 DEF Stored, SameContent, HasFile, TypeOK
  <2>2. Progress(q)'
    BY <1>1 DEF Local, Progress, Old
  <2>3. Placed(q)'
    BY <1>1, <1>3 DEF Local, Placed, SameContent
  <2>4. HasPublished(q)' = HasPublished(q)
    BY DEF HasPublished
  <2>5. Published(q)'
    <3>1. HasPublished(q) => call[q].id \in Id
      BY <1>1 DEF HasPublished, Control, InCall, PC
    <3> QED BY <1>1, <2>1, <2>4, <3>1 DEF Local, Published
  <2>6. Current(q)'
    BY <1>1, <2>1, <2>4 DEF Local, Current
  <2> QED BY <1>1, <2>2, <2>3, <2>5, <2>6 DEF Local
<1> QED BY <1>2, <1>3

\* A step of one process changes no other's replies or what it has read.
LEMMA OthersReply ==
  ASSUME TypeOK, NEW p \in Proc, Step(p)
  PROVE  \A q \in Proc \ {p} : loaded'[q] = loaded[q] /\ reply'[q] = reply[q]
<1>1. /\ loaded \in [Proc -> [Id -> Loaded]] /\ reply \in [Proc -> Reply]
  BY DEF TypeOK
<1> QED BY <1>1 DEF Step, At, Goto, Fail, FailIf, Check, Mkdir, FindDir, OpenDir, OpenFile,
      ReadBytes, Compare, Vacant, MakeTemp, WriteTemp, CheckDir, CheckFile, CheckBytes,
      VacantAgain, Rename, Sync, Done

\* A step of one process disturbs no other.
LEMMA OthersKept ==
  ASSUME AllLock, RInv, NEW p \in Proc, Step(p), NEW q \in Proc, q # p
  PROVE  Local(q)'
<1>1. TypeOK /\ WriterAlone
  BY Facts
<1>2. /\ pc'[q] = pc[q] /\ call'[q] = call[q] /\ window'[q] = window[q]
  BY <1>1, StepFrame
<1>3. loaded'[q] = loaded[q] /\ reply'[q] = reply[q]
  BY <1>1, OthersReply
<1>4. pc[q] = "idle" \/ SameContent
  <2>1. CASE InWrite(p)
    BY <1>1, <2>1 DEF WriterAlone
  <2>2. CASE ~InWrite(p)
    BY <2>2, ReadersKeep
  <2> QED BY <2>1, <2>2
<1> QED BY <1>2, <1>3, <1>4, LocalKept

\* The steps of a call keep what the process knows: those that only move on,
LEMMA MovesKeep ==
  ASSUME AllLock, RInv, NEW p \in Proc, NEW l, Moves(p, l), window'[p] = window[p]
  PROVE  Local(p)'
<1>1. TypeOK /\ Local(p) /\ Control(p) /\ call[p].id \in Id
  BY Facts DEF Moves
<1>2. \A i \in Id : \A b : Stored(i, b) => Stored(i, b)'
  BY <1>1 DEF Moves, Stored, SameContent, HasFile, TypeOK
<1>3. Progress(p)'
  BY <1>1 DEF Moves, SameCall, Local, Progress, Old, InCall, PC
<1>4. Placed(p)'
  BY <1>1 DEF Moves, SameContent, SameCall, Placed
<1>5. HasPublished(p)' => HasPublished(p)
  BY <1>1 DEF Moves, HasPublished, Local, Progress
<1>6. HasPublished(p) => HasPublished(p)'
  BY <1>1 DEF Moves, HasPublished
<1>7. Published(p)'
  BY <1>1, <1>2, <1>5 DEF Local, Published, Moves, SameCall
<1>8. Current(p)'
  BY <1>1, <1>2, <1>6 DEF Local, Current, Moves, SameCall
<1> QED BY <1>1, <1>3, <1>4, <1>7, <1>8 DEF Local

\* the one that makes the directory,
LEMMA ReserveKeeps ==
  ASSUME AllLock, RInv, NEW p \in Proc, NEW d, Reserves(p, d), window'[p] = window[p]
  PROVE  Local(p)'
<1> DEFINE c == call[p]
<1>1. /\ TypeOK /\ Local(p) /\ Control(p) /\ c.id \in Id /\ c.op = "create"
      /\ call \in [Proc -> Call] /\ node \in [DirIno -> Node]
      /\ taskdir \in [Id -> DirIno \cup {Nil}]
  BY Facts DEF Reserves, Control, CreateOnly, InCall, PC
<1>2. call'[p].op = c.op /\ call'[p].id = c.id /\ call'[p].next = c.next /\ call'[p].made = TRUE
  BY <1>1 DEF Reserves, Call
<1>3. \A i \in Id : taskdir[i] # d
  BY DEF Reserves, FreeDirs, LiveDirs
<1>4. \A i \in Id : \A b : Stored(i, b) => Stored(i, b)'
  <2> SUFFICES ASSUME NEW i \in Id, NEW b, Stored(i, b) PROVE Stored(i, b)'
      OBVIOUS
  <2>1. i # c.id /\ taskdir[i] # Nil
    BY DEF Reserves, Stored
  <2>2. taskdir'[i] = taskdir[i]
    BY <1>1, <2>1 DEF Reserves
  <2>3. node'[taskdir[i]] = node[taskdir[i]]
    BY <1>1, <1>3, <2>1 DEF Reserves
  <2> QED BY <2>2, <2>3 DEF Stored, HasFile
<1>5. pc[p] = "mkdir" /\ pc'[p] = "find_dir" /\ loaded' = loaded /\ reply' = reply
  BY DEF Reserves
<1>6. ~HasPublished(p) /\ ~HasPublished(p)'
  BY <1>5 DEF HasPublished
<1>7. Progress(p)'
  BY <1>1, <1>2, <1>5 DEF Local, Progress, InCall, PC, Old
<1>8. Placed(p)' /\ Published(p)'
  BY <1>5, <1>6 DEF Placed, Opened, Published
<1>9. Current(p)'
  BY <1>1, <1>4, <1>5, <1>6 DEF Local, Current
<1> QED BY <1>1, <1>7, <1>8, <1>9 DEF Local

\* the one that reads,
LEMMA ReadKeeps ==
  ASSUME AllLock, RInv, NEW p \in Proc, Reads(p), window'[p] = window[p]
  PROVE  Local(p)'
<1> DEFINE c == call[p]
<1>1. /\ TypeOK /\ Local(p) /\ Control(p) /\ c.id \in Id /\ c.op = "read"
      /\ loaded \in [Proc -> [Id -> Loaded]]
  BY Facts DEF Reads, Control, InCall, PC
<1>2. /\ pc[p] = "read_bytes" /\ pc'[p] = "done" /\ UNCHANGED <<taskdir, node, call, reply>>
  BY DEF Reads, fs
<1>3. c.dfd \in DirIno /\ c.ffd \in FileIno /\ taskdir[c.id] = c.dfd
  BY <1>1, <1>2 DEF Control, Opened, Local, Placed
<1>4. Nil \notin DirIno \cup FileIno
  BY ConstantsAssumption
<1>5. Stored(c.id, Dir(p).bytes)
  BY <1>3, <1>4 DEF Reads, Linked, Dir, Stored, HasFile
<1>6. \A i \in Id : \A b : Stored(i, b) => Stored(i, b)'
  BY <1>2 DEF Stored, HasFile
<1>7. ~HasPublished(p) /\ ~HasPublished(p)'
  BY <1>1, <1>2 DEF HasPublished, Local, Progress, InCall, PC
<1>8. Progress(p)'
  BY <1>1, <1>2 DEF Local, Progress, InCall, PC
<1>9. Placed(p)' /\ Published(p)'
  BY <1>2, <1>7 DEF Placed, Opened, Published
<1>10. Current(p)'
  <2> SUFFICES ASSUME NEW i \in Id, loaded'[p][i].ino # Nil
               PROVE  Stored(i, loaded[p][i].bytes)'
      BY DEF Current
  <2>1. CASE i = c.id
    <3>1. loaded'[p][i] = [ino |-> Dir(p).ino, bytes |-> Dir(p).bytes]
      BY <1>1, <2>1 DEF Reads
    <3>2. loaded'[p][i].bytes = Dir(p).bytes
      BY <3>1
    <3> QED BY <1>2, <1>5, <2>1, <3>2 DEF Stored, HasFile
  <2>2. CASE i # c.id
    <3>1. loaded'[p][i] = loaded[p][i]
      BY <1>1, <2>2 DEF Reads
    <3>2. Stored(i, loaded[p][i].bytes)
      BY <1>1, <1>7, <3>1 DEF Local, Current
    <3> QED BY <1>2, <3>1, <3>2 DEF Stored, HasFile
  <2> QED BY <2>1, <2>2
<1> QED BY <1>1, <1>8, <1>9, <1>10 DEF Local

\* the one that renames: it replaces what it loaded, or what holds nothing,
LEMMA BeforeRename ==
  ASSUME AllLock, RInv, NEW p \in Proc, pc[p] = "rename"
  PROVE  LET c == call[p] IN
         /\ c.id \in Id /\ c.dfd \in DirIno /\ taskdir[c.id] = c.dfd
         /\ c.tbytes = c.next /\ c.next \in Bytes /\ c.tino \in FileIno
         /\ c.op \in {"replace", "create"}
         /\ c.op = "replace" => Old(p).ino # Nil /\ Stored(c.id, Old(p).bytes)
         /\ c.op = "create" => c.made /\ ~HasFile(c.dfd)
         /\ ~reply[p].committed
<1> DEFINE c == call[p]
<1>1. /\ TypeOK /\ Local(p) /\ Control(p) /\ Checked(p) /\ Filled
  BY Facts
<1>2. pc[p] \in InCall \ {"mkdir", "sync", "done"} /\ pc[p] \in Opened /\ pc[p] \in Complete
      /\ pc[p] \in WriteOnly
  BY DEF InCall, PC, Opened, Complete, WriteOnly
<1>3. /\ c.id \in Id /\ c.dfd \in DirIno /\ taskdir[c.id] = c.dfd
      /\ c.tbytes = c.next /\ c.tino \in FileIno /\ c.op \in {"replace", "create"}
  BY <1>1, <1>2 DEF Control, Local, Placed
<1>4. c.next \in Bytes
  BY <1>1, <1>2, <1>3 DEF Control
<1>5. /\ c.op = "replace" => Old(p).ino # Nil
      /\ c.op = "create" => c.made
      /\ ~reply[p].committed
  BY <1>1, <1>2 DEF Local, Progress
<1>6. c.op = "replace" => Stored(c.id, Old(p).bytes)
  BY <1>1, <1>3, <1>5 DEF Local, Current, HasPublished, Old
<1>7. c.op = "create" => ~HasFile(c.dfd)
  <2>1. c.op = "create" => node[c.dfd].bytes = Nil
    BY <1>1 DEF Local, Checked
  <2> QED BY <1>1, <1>3, <2>1 DEF Filled
<1> QED BY <1>3, <1>4, <1>5, <1>6, <1>7

\* The rename publishes: who publishes knows what it published, where, and under which name.
LEMMA PublishKeeps ==
  ASSUME AllLock, RInv, NEW p \in Proc, Publishes(p), window'[p] = window[p]
  PROVE  Local(p)'
<1> DEFINE c == call[p]
           n == [ino |-> c.tino, bytes |-> c.tbytes, temps |-> WithoutTemp(p)]
<1>1. /\ TypeOK /\ Local(p) /\ Apart
      /\ node \in [DirIno -> Node] /\ reply \in [Proc -> Reply]
      /\ taskdir \in [Id -> DirIno \cup {Nil}]
  BY Facts
<1>2. /\ pc[p] = "rename" /\ pc'[p] = "sync" /\ UNCHANGED <<taskdir, loaded>>
      /\ call'[p].op = c.op /\ call'[p].id = c.id /\ call'[p].next = c.next
      /\ call'[p].made = c.made /\ call'[p].dfd = c.dfd
      /\ reply'[p].committed = TRUE
  BY <1>1 DEF Publishes, SameCall, Reply
<1>3. /\ c.id \in Id /\ c.dfd \in DirIno /\ taskdir[c.id] = c.dfd
      /\ c.tbytes = c.next /\ c.next \in Bytes /\ c.tino \in FileIno
      /\ c.op \in {"replace", "create"}
      /\ c.op = "create" => c.made /\ ~HasFile(c.dfd)
  BY <1>2, BeforeRename
<1>4. Nil \notin DirIno \cup FileIno
  BY ConstantsAssumption
<1>5. node' = [node EXCEPT ![c.dfd] = n]
  BY DEF Publishes
<1>6. Stored(c.id, c.next)'
  <2>1. node'[c.dfd].ino = c.tino /\ node'[c.dfd].bytes = c.next
    BY <1>1, <1>3, <1>5
  <2> QED BY <1>2, <1>3, <1>4, <2>1 DEF Stored, HasFile
<1>7. ASSUME NEW i \in Id, NEW b, Stored(i, b), i # c.id PROVE Stored(i, b)'
  <2>1. taskdir[i] # c.dfd
    BY <1>1, <1>3, <1>4, <1>7 DEF Apart
  <2>2. node'[taskdir[i]] = node[taskdir[i]]
    BY <1>1, <1>5, <1>7, <2>1 DEF Stored
  <2> QED BY <1>2, <1>7, <2>2 DEF Stored, HasFile
<1>8. ~HasPublished(p) /\ HasPublished(p)'
  BY <1>2 DEF HasPublished
<1>9. c.op = "create" => Old(p).ino = Nil
  BY <1>1, <1>3, <1>8 DEF Local, Current, Old, Stored
<1>10. Progress(p)'
  BY <1>1, <1>2, <1>3 DEF Local, Progress, InCall, PC, Old
<1>11. Placed(p)' /\ Published(p)'
  BY <1>2, <1>3, <1>6 DEF Placed, Published
<1>12. Current(p)'
  <2> SUFFICES ASSUME NEW i \in Id, loaded[p][i].ino # Nil
               PROVE  \/ Stored(i, loaded[p][i].bytes)'
                      \/ c.op = "replace" /\ i = c.id
      BY <1>2, <1>8 DEF Current
  <2>1. PICK b : b = loaded[p][i].bytes
    OBVIOUS
  <2>2. Stored(i, b)
    BY <1>1, <1>8, <2>1 DEF Local, Current
  <2>3. i = c.id => c.op = "replace"
    BY <1>3, <1>9 DEF Old
  <2>4. i # c.id => Stored(i, b)'
    BY <1>7, <2>2
  <2> QED BY <1>2, <2>1, <2>3, <2>4 DEF Stored
<1> QED BY <1>1, <1>10, <1>11, <1>12 DEF Local

\* The cleanup ends a call.  It takes back only a name that leads to no file.
LEMMA DoneEffect ==
  ASSUME AllLock, RInv, NEW p \in Proc, Done(p)
  PROVE  LET c == call[p] IN
         /\ pc[p] = "done" /\ pc'[p] = "ready" /\ UNCHANGED reply /\ c.id \in Id
         /\ call'[p].op = c.op /\ call'[p].id = c.id /\ ~call'[p].made
         /\ \A d \in DirIno : node'[d].ino = node[d].ino /\ node'[d].bytes = node[d].bytes
         /\ \/ taskdir' = taskdir
            \/ /\ c.made /\ ~reply[p].committed
               /\ taskdir[c.id] # Nil /\ ~HasFile(taskdir[c.id])
               /\ taskdir' = [taskdir EXCEPT ![c.id] = Nil]
         /\ loaded' = IF c.op = "replace" THEN [loaded EXCEPT ![p][c.id] = NotLoaded] ELSE loaded
<1> DEFINE c == call[p]
           swept == IF c.tmp = Nil THEN node ELSE [node EXCEPT ![c.dfd].temps = WithoutTemp(p)]
<1>1. /\ TypeOK /\ call \in [Proc -> Call] /\ pc \in [Proc -> PC] /\ node \in [DirIno -> Node]
      /\ taskdir \in [Id -> DirIno \cup {Nil}]
  BY Facts
<1>2. /\ pc[p] = "done" /\ pc'[p] = "ready" /\ UNCHANGED reply
      /\ node' \in {node, swept}
      /\ \/ taskdir' = taskdir
         \/ Releases(p, swept) /\ taskdir' = [taskdir EXCEPT ![c.id] = Nil]
      /\ call' = [call EXCEPT ![p] = [NoCall EXCEPT !.op = c.op, !.id = c.id, !.next = c.next]]
      /\ loaded' = IF c.op = "replace" THEN [loaded EXCEPT ![p][c.id] = NotLoaded] ELSE loaded
  BY <1>1 DEF Done, At, Goto, TempStays, DirStays
<1>3. c.id \in Id
  BY <1>2, Facts DEF InCall, PC
<1>4. call'[p].op = c.op /\ call'[p].id = c.id /\ ~call'[p].made
  BY <1>1, <1>2 DEF NoCall
<1>5. \A d \in DirIno : swept[d].ino = node[d].ino /\ swept[d].bytes = node[d].bytes
  BY <1>1 DEF Node
<1> HIDE DEF swept
<1>6. Releases(p, swept) => /\ c.made /\ ~reply[p].committed
                           /\ taskdir[c.id] # Nil /\ ~HasFile(taskdir[c.id])
  BY <1>1, <1>3, <1>5 DEF Releases, HasFile
<1> QED BY <1>2, <1>3, <1>4, <1>5, <1>6

\* A call that returns leaves its reply true of what it did.
LEMMA DoneKeeps ==
  ASSUME AllLock, RInv, NEW p \in Proc, Done(p), window'[p] = window[p]
  PROVE  Local(p)'
<1> DEFINE c == call[p]
<1>1. /\ TypeOK /\ Local(p) /\ Control(p)
      /\ taskdir \in [Id -> DirIno \cup {Nil}] /\ loaded \in [Proc -> [Id -> Loaded]]
  BY Facts
<1>2. /\ pc[p] = "done" /\ pc'[p] = "ready" /\ UNCHANGED reply /\ c.id \in Id
      /\ call'[p].op = c.op /\ call'[p].id = c.id /\ ~call'[p].made
      /\ \A d \in DirIno : node'[d].ino = node[d].ino /\ node'[d].bytes = node[d].bytes
      /\ \/ taskdir' = taskdir
         \/ /\ taskdir[c.id] # Nil /\ ~HasFile(taskdir[c.id])
            /\ taskdir' = [taskdir EXCEPT ![c.id] = Nil]
      /\ loaded' = IF c.op = "replace" THEN [loaded EXCEPT ![p][c.id] = NotLoaded] ELSE loaded
  BY DoneEffect
<1>3. ASSUME NEW i \in Id, NEW b, Stored(i, b) PROVE Stored(i, b)'
  <2>1. taskdir'[i] = taskdir[i] /\ taskdir[i] \in DirIno
    BY <1>1, <1>2, <1>3 DEF Stored
  <2> QED BY <1>2, <1>3, <2>1 DEF Stored, HasFile
<1>4. Progress(p)'
  BY <1>1, <1>2 DEF Progress, InCall, PC
<1>5. Placed(p)' /\ Published(p)' /\ ~HasPublished(p)'
  BY <1>2 DEF Placed, Opened, Published, HasPublished
<1>6. Current(p)'
  <2> SUFFICES ASSUME NEW i \in Id, loaded'[p][i].ino # Nil
               PROVE  Stored(i, loaded[p][i].bytes)'
      BY DEF Current
  <2>1. loaded'[p][i] = loaded[p][i] /\ ~(c.op = "replace" /\ i = c.id)
    <3>1. CASE c.op = "replace" /\ i = c.id
      BY <1>1, <1>2, <3>1 DEF NotLoaded
    <3>2. CASE ~(c.op = "replace" /\ i = c.id)
      BY <1>1, <1>2, <3>2
    <3> QED BY <3>1, <3>2
  <2>2. PICK b : b = loaded[p][i].bytes
    OBVIOUS
  <2>3. Stored(i, b)
    BY <1>1, <2>1, <2>2 DEF Local, Current
  <2>4. Stored(i, b)'
    BY <1>3, <2>3
  <2> QED BY <2>1, <2>2, <2>4 DEF Stored
<1> QED BY <1>1, <1>4, <1>5, <1>6 DEF Local

\* Every step of a call keeps what its process knows.
LEMMA StepKeeps ==
  ASSUME AllLock, RInv, NEW p \in Proc, Step(p)
  PROVE  Local(p)'
<1>1. window'[p] = window[p]
  BY Facts, StepFrame
<1> QED BY <1>1, Kinds, MovesKeep, ReserveKeeps, ReadKeeps, PublishKeeps, DoneKeeps

\* What beginning a call sets.
LEMMA BeginEffect ==
  ASSUME AllLock, RInv, NEW p \in Proc, Begin(p)
  PROVE  /\ pc[p] = "ready" /\ pc'[p] \in {"open_dir", "mkdir"}
         /\ UNCHANGED <<taskdir, node>> /\ ~reply'[p].committed
         /\ window' = [window EXCEPT ![p] = FALSE]
         /\ call'[p].id \in Id /\ ~call'[p].made
         /\ \A q \in Proc \ {p} : /\ pc'[q] = pc[q] /\ call'[q] = call[q]
                                  /\ loaded'[q] = loaded[q] /\ reply'[q] = reply[q]
         /\ \/ call'[p].op = "read" /\ pc'[p] = "open_dir"
               /\ loaded' = [loaded EXCEPT ![p][call'[p].id] = NotLoaded]
            \/ call'[p].op = "replace" /\ pc'[p] = "open_dir" /\ loaded' = loaded
               /\ loaded[p][call'[p].id].ino # Nil
            \/ call'[p].op = "create" /\ pc'[p] = "mkdir" /\ loaded' = loaded
<1>1. /\ TypeOK /\ call \in [Proc -> Call] /\ pc \in [Proc -> PC] /\ reply \in [Proc -> Reply]
      /\ loaded \in [Proc -> [Id -> Loaded]]
  BY Facts
<1>2. ASSUME NEW op, NEW i, NEW b, NEW first, Start(p, op, i, b, first)
      PROVE  /\ pc[p] = "ready" /\ pc'[p] = first /\ UNCHANGED <<taskdir, node>>
             /\ ~reply'[p].committed /\ window' = [window EXCEPT ![p] = FALSE]
             /\ call'[p].op = op /\ call'[p].id = i /\ ~call'[p].made
             /\ \A q \in Proc \ {p} : pc'[q] = pc[q] /\ call'[q] = call[q] /\ reply'[q] = reply[q]
  <2>1. /\ pc[p] = "ready" /\ UNCHANGED <<taskdir, node>>
        /\ pc' = [pc EXCEPT ![p] = first]
        /\ call' = [call EXCEPT ![p] = [NoCall EXCEPT !.op = op, !.id = i, !.next = b]]
        /\ reply' = [reply EXCEPT ![p] = NoReply]
        /\ window' = [window EXCEPT ![p] = FALSE]
    BY <1>2 DEF Start, fs
  <2>2. [NoCall EXCEPT !.op = op, !.id = i, !.next = b].op = op
        /\ [NoCall EXCEPT !.op = op, !.id = i, !.next = b].id = i
        /\ ~[NoCall EXCEPT !.op = op, !.id = i, !.next = b].made
    BY DEF NoCall
  <2>3. ~NoReply.committed
    BY DEF NoReply
  <2> QED BY <1>1, <2>1, <2>2, <2>3
<1>3. ASSUME NEW i \in Id, StartRead(p, i)
      PROVE  /\ Start(p, "read", i, Nil, "open_dir")
             /\ loaded' = [loaded EXCEPT ![p][i] = NotLoaded]
             /\ \A q \in Proc \ {p} : loaded'[q] = loaded[q]
  BY <1>1, <1>3 DEF StartRead
<1>4. ASSUME NEW i \in Id, NEW b \in Bytes, StartReplace(p, i, b)
      PROVE  /\ Start(p, "replace", i, b, "open_dir")
             /\ loaded[p][i].ino # Nil /\ loaded' = loaded
  BY <1>4 DEF StartReplace
<1>5. ASSUME NEW i \in Id, NEW b \in Bytes, StartCreate(p, i, b)
      PROVE  Start(p, "create", i, b, "mkdir") /\ loaded' = loaded
  BY <1>5 DEF StartCreate
<1>6. PICK i \in Id : StartRead(p, i) \/ \E b \in Bytes : StartReplace(p, i, b) \/ StartCreate(p, i, b)
  BY DEF Begin
<1>7. CASE StartRead(p, i)
  BY <1>2, <1>3, <1>7
<1>8. CASE \E b \in Bytes : StartReplace(p, i, b)
  BY <1>2, <1>4, <1>8
<1>9. CASE \E b \in Bytes : StartCreate(p, i, b)
  BY <1>2, <1>5, <1>9
<1> QED BY <1>6, <1>7, <1>8, <1>9

\* Beginning a call, opening, closing and dying keep it too.
LEMMA BeginKeeps ==
  ASSUME AllLock, RInv, NEW p \in Proc, Begin(p)
  PROVE  Local(p)'
<1>1. TypeOK /\ Local(p) /\ loaded \in [Proc -> [Id -> Loaded]]
  BY Facts
<1>2. /\ pc[p] = "ready" /\ pc'[p] \in {"open_dir", "mkdir"}
      /\ UNCHANGED <<taskdir, node>> /\ ~reply'[p].committed
      /\ ~window'[p] /\ call'[p].id \in Id /\ ~call'[p].made
      /\ \/ call'[p].op = "read" /\ pc'[p] = "open_dir"
            /\ loaded' = [loaded EXCEPT ![p][call'[p].id] = NotLoaded]
         \/ call'[p].op = "replace" /\ pc'[p] = "open_dir" /\ loaded' = loaded
            /\ loaded[p][call'[p].id].ino # Nil
         \/ call'[p].op = "create" /\ pc'[p] = "mkdir" /\ loaded' = loaded
  BY <1>1, BeginEffect DEF TypeOK
<1>3. Progress(p)'
  BY <1>2 DEF Progress, InCall, PC, Old
<1>4. Placed(p)' /\ Published(p)' /\ ~HasPublished(p) /\ ~HasPublished(p)'
  BY <1>2 DEF Placed, Opened, Published, HasPublished
<1>5. Current(p)'
  <2> SUFFICES ASSUME NEW i \in Id, loaded'[p][i].ino # Nil
               PROVE  Stored(i, loaded[p][i].bytes)'
      BY DEF Current
  <2>1. loaded'[p][i] = loaded[p][i]
    <3>1. CASE loaded' = [loaded EXCEPT ![p][call'[p].id] = NotLoaded]
      BY <1>1, <1>2, <3>1 DEF NotLoaded
    <3>2. CASE loaded' = loaded
      BY <3>2
    <3> QED BY <1>2, <3>1, <3>2
  <2>2. Stored(i, loaded[p][i].bytes)
    BY <1>1, <1>4, <2>1 DEF Local, Current
  <2> QED BY <1>2, <2>1, <2>2 DEF Stored, HasFile
<1> QED BY <1>2, <1>3, <1>4, <1>5 DEF Local

\* A command that ends, and one that dies, forgets what it knew.
LEMMA LeaveKeeps ==
  ASSUME AllLock, RInv, NEW p \in Proc, Leave(p)
  PROVE  Local(p)'
<1>1. TypeOK
  BY Facts
<1>2. /\ pc'[p] = "idle" /\ ~call'[p].made /\ call'[p].op = Nil /\ ~window'[p]
      /\ \A i \in Id : loaded'[p][i].ino = Nil
  BY <1>1 DEF Leave, TypeOK, NoCall, NotLoaded
<1>3. Progress(p)'
  BY <1>2 DEF Progress, InCall, PC
<1> QED BY <1>2, <1>3 DEF Local, Placed, Opened, Published, HasPublished, Current

\* A command that begins knows nothing yet.
LEMMA OpenKeeps ==
  ASSUME AllLock, RInv, NEW p \in Proc, NEW c \in Commands, Open(p, c)
  PROVE  Local(p)'
<1>1. TypeOK /\ Local(p)
  BY Facts
<1>2. /\ pc[p] = "idle" /\ pc'[p] \in {"idle", "ready"}
      /\ UNCHANGED <<taskdir, node, call, loaded, window>>
  BY <1>1 DEF Open, Refuse, TypeOK, fs, env
<1>3. Progress(p)'
  BY <1>1, <1>2 DEF Local, Progress, InCall, PC
<1>4. \A i \in Id : loaded'[p][i].ino = Nil
  BY <1>1, <1>2 DEF Local, Progress
<1> QED BY <1>1, <1>2, <1>3, <1>4 DEF Local, Placed, Opened, Published, HasPublished, Current

\* Nobody's directory is another's, and a file that is there has content.
LEMMA FilesKeep ==
  ASSUME AllLock, RInv, NEW p \in Proc, Step(p)
  PROVE  Apart' /\ Filled'
<1>1. /\ TypeOK /\ Apart /\ Filled /\ node \in [DirIno -> Node]
      /\ taskdir \in [Id -> DirIno \cup {Nil}]
  BY Facts
<1>2. CASE SameContent
  BY <1>1, <1>2 DEF SameContent, Apart, Filled, HasFile
<1>3. CASE \E l : Moves(p, l)
  BY <1>2, <1>3 DEF Moves
<1>4. ASSUME NEW d, Reserves(p, d) PROVE Apart' /\ Filled'
  <2>1. d \in DirIno /\ \A i \in Id : taskdir[i] # d
    BY <1>4 DEF Reserves, FreeDirs, LiveDirs
  <2>2. taskdir' = [taskdir EXCEPT ![call[p].id] = d] /\ node' = [node EXCEPT ![d] = EmptyNode]
    BY <1>4 DEF Reserves
  <2>3. Apart'
    BY <1>1, <2>1, <2>2 DEF Apart
  <2>4. Filled'
    BY <1>1, <2>1, <2>2 DEF Filled, HasFile, EmptyNode
  <2> QED BY <2>3, <2>4
<1>5. CASE Reads(p)
  BY <1>2, <1>5 DEF Reads, SameContent, fs
<1>6. CASE Publishes(p)
  <2>1. call[p].tbytes \in Bytes
    BY <1>6, BeforeRename DEF Publishes
  <2>2. call[p].tbytes # Nil
    BY <2>1, ConstantsAssumption
  <2> QED BY <1>1, <1>6, <2>2 DEF Publishes, Apart, Filled, HasFile
<1>7. CASE Done(p)
  <2>1. /\ \A d \in DirIno : node'[d].ino = node[d].ino /\ node'[d].bytes = node[d].bytes
        /\ taskdir' = taskdir \/ taskdir' = [taskdir EXCEPT ![call[p].id] = Nil]
    BY <1>7, DoneEffect
  <2> QED BY <1>1, <2>1 DEF Apart, Filled, HasFile
<1> QED BY <1>3, <1>4, <1>5, <1>6, <1>7, Kinds

\* The invariant is kept by every step,
LEMMA RNext == AllLock /\ RInv /\ [Next]_vars => RInv'
<1> SUFFICES ASSUME AllLock, RInv, [Next]_vars PROVE RInv'
    OBVIOUS
<1>1. GInv'
  <2>1. GInv /\ "ls-update=" \notin Commands
    BY DEF RInv, AllLock
  <2>2. IInv'
    BY <2>1, NextInv DEF GInv
  <2>3. \A p \in Proc : Checked(p)'
    BY <2>1, CheckedInv
  <2>4. \A d \in DirIno : ~HasFile(d)' => node'[d].bytes = Nil
    BY <2>1, WholeInv
  <2> QED BY <2>2, <2>3, <2>4 DEF GInv
<1>2. TypeOK /\ Apart /\ Filled
  BY DEF RInv, GInv, IInv
<1>others. ASSUME NEW p \in Proc, UNCHANGED <<taskdir, node>>,
                  \A q \in Proc \ {p} : /\ pc'[q] = pc[q] /\ call'[q] = call[q]
                                       /\ loaded'[q] = loaded[q] /\ reply'[q] = reply[q]
                                       /\ window'[q] = window[q],
                  Local(p)'
           PROVE  Apart' /\ Filled' /\ \A q \in Proc : Local(q)'
  <2>1. SameContent
    BY <1>others DEF SameContent
  <2>2. \A q \in Proc \ {p} : Local(q)'
    BY <1>others, <2>1, LocalKept
  <2>3. Apart' /\ Filled'
    BY <1>2, <1>others DEF Apart, Filled, HasFile
  <2> QED BY <1>others, <2>2, <2>3
<1>3. ASSUME NEW p \in Proc, NEW c \in Commands, Open(p, c)
      PROVE  Apart' /\ Filled' /\ \A q \in Proc : Local(q)'
  <2>1. /\ UNCHANGED <<taskdir, node, call, loaded, window>>
        /\ \A q \in Proc \ {p} : pc'[q] = pc[q] /\ reply'[q] = reply[q]
    BY <1>2, <1>3 DEF Open, Refuse, TypeOK, fs, env
  <2> QED BY <1>3, <1>others, <2>1, OpenKeeps
<1>4. ASSUME NEW p \in Proc, Begin(p)
      PROVE  Apart' /\ Filled' /\ \A q \in Proc : Local(q)'
  <2>1. \A q \in Proc \ {p} : window'[q] = window[q]
    BY <1>2, <1>4, BeginEffect DEF TypeOK
  <2> QED BY <1>4, <1>others, <2>1, BeginEffect, BeginKeeps
<1>5. ASSUME NEW p \in Proc, Step(p)
      PROVE  Apart' /\ Filled' /\ \A q \in Proc : Local(q)'
  BY <1>5, StepKeeps, OthersKept, FilesKeep
<1>6. ASSUME NEW p \in Proc, Close(p) \/ Crash(p)
      PROVE  Apart' /\ Filled' /\ \A q \in Proc : Local(q)'
  <2>1. Leave(p)
    BY <1>6 DEF Close, Crash
  <2>2. /\ UNCHANGED <<taskdir, node>>
        /\ \A q \in Proc \ {p} : /\ pc'[q] = pc[q] /\ call'[q] = call[q]
                                /\ loaded'[q] = loaded[q] /\ reply'[q] = reply[q]
                                /\ window'[q] = window[q]
    BY <1>2, <2>1 DEF Leave, TypeOK, fs
  <2> QED BY <1>others, <2>1, <2>2, LeaveKeeps
<1>7. ~Editor
  BY DEF AllLock, Editor, MoveAway, EditInPlace, EditAndRename, PutBack, Edit
<1>8. ASSUME UNCHANGED vars
      PROVE  Apart' /\ Filled' /\ \A q \in Proc : Local(q)'
  <2>1. UNCHANGED <<taskdir, node, pc, call, loaded, reply, window>>
    BY <1>8 DEF vars, fs, env
  <2>2. SameContent
    BY <2>1 DEF SameContent
  <2>3. \A q \in Proc : Local(q)'
    BY <2>1, <2>2, LocalKept
  <2> QED BY <1>2, <2>1, <2>3 DEF Apart, Filled, HasFile
<1>9. Apart' /\ Filled' /\ \A q \in Proc : Local(q)'
  BY <1>3, <1>4, <1>5, <1>6, <1>7, <1>8 DEF Next
<1> QED BY <1>1, <1>9 DEF RInv

\* At the start whole files stand under some names and no temporary ones anywhere.
LEMMA InitFiles ==
  ASSUME Init
  PROVE  /\ Filled
         /\ \A d \in DirIno : node[d].temps = {}
         /\ \A i \in Id : taskdir[i] # Nil => HasFile(taskdir[i])
<1>1. PICK f \in [Id -> FileIno], b \in [Id -> Bytes] :
        node = [d \in DirIno |->
                  IF \E i \in Id : taskdir[i] = d
                  THEN LET i == CHOOSE i \in Id : taskdir[i] = d
                       IN [ino |-> f[i], bytes |-> b[i], temps |-> {}]
                  ELSE EmptyNode]
  BY DEF Init
<1>2. ASSUME NEW d \in DirIno, NEW j \in Id, taskdir[j] = d
      PROVE  node[d].temps = {} /\ node[d].ino \in FileIno /\ node[d].bytes \in Bytes
  <2> DEFINE i == CHOOSE i \in Id : taskdir[i] = d
  <2>1. i \in Id
    BY <1>2
  <2>2. node[d] = [ino |-> f[i], bytes |-> b[i], temps |-> {}]
    BY <1>1, <1>2
  <2> HIDE DEF i
  <2> QED BY <2>1, <2>2
<1>3. ASSUME NEW d \in DirIno, ~ \E i \in Id : taskdir[i] = d PROVE node[d] = EmptyNode
  BY <1>1, <1>3
<1>4. Filled
  BY <1>2, <1>3, ConstantsAssumption DEF Filled, HasFile, EmptyNode
<1>5. \A d \in DirIno : node[d].temps = {}
  BY <1>2, <1>3 DEF EmptyNode
<1>6. \A i \in Id : taskdir[i] # Nil => HasFile(taskdir[i])
  BY <1>2, ConstantsAssumption DEF HasFile, Init
<1> QED BY <1>4, <1>5, <1>6

\* The invariant holds before anybody comes.
LEMMA RInit == Init => RInv
<1> SUFFICES ASSUME Init PROVE RInv
    OBVIOUS
<1>1. GInv
  <2>1. \A p \in Proc : Checked(p)
    BY DEF Init, Checked, NameChecked
  <2>2. \A d \in DirIno : ~HasFile(d) => node[d].bytes = Nil
    BY TypeInit DEF Whole, HasFile
  <2> QED BY <2>1, <2>2, InitInv DEF GInv
<1>2. Apart
  BY DEF Init, Apart
<1>3. Filled
  BY InitFiles
<1>4. ASSUME NEW p \in Proc PROVE Local(p)
  <2>1. /\ pc[p] = "idle" /\ ~call[p].made /\ call[p].op = Nil /\ ~window[p]
        /\ \A i \in Id : loaded[p][i].ino = Nil
    BY DEF Init, NoCall, NotLoaded
  <2>2. Progress(p)
    BY <2>1 DEF Progress, InCall
  <2> QED BY <2>1, <2>2 DEF Local, Placed, Opened, Published, HasPublished, Current
<1> QED BY <1>1, <1>2, <1>3, <1>4 DEF RInv

\* While everybody locks, what a command has loaded is what is there, and the name
\* leads to what it has open, in every reachable state.
THEOREM LockedInvariant == AllLock => (Spec => []RInv)
<1> SUFFICES ASSUME AllLock PROVE Spec => []RInv
    OBVIOUS
<1>1. Init => RInv
  BY RInit
<1>2. RInv /\ [Next]_vars => RInv'
  BY RNext
<1> QED BY <1>1, <1>2, PTL DEF Spec

\* True replies (store->code and store->write_state): committed means the new bytes are
\* in place, also when the directory sync failed, and a store_replace that failed has
\* left the bytes its command loaded, whatever calls fail and whoever dies.
THEOREM RepliesAreTrue == AllLock => (Spec => []HonestReply)
<1> SUFFICES ASSUME AllLock PROVE Spec => []HonestReply
    OBVIOUS
<1>1. RInv => HonestReply
  <2> SUFFICES ASSUME RInv, NEW p \in Proc, pc[p] = "done", call[p].op # "read"
               PROVE  /\ reply[p].committed => Visible(call[p].id) = call[p].next
                      /\ ~reply[p].committed /\ call[p].op = "replace" =>
                           Visible(call[p].id) = Old(p).bytes
      BY DEF HonestReply
  <2>1. Local(p) /\ call[p].id \in Id
    BY Facts DEF InCall, PC
  <2>2. CASE reply[p].committed
    BY <2>1, <2>2 DEF Local, Published, HasPublished, Stored, Visible
  <2>3. CASE ~reply[p].committed /\ call[p].op = "replace"
    BY <2>1, <2>3 DEF Local, Progress, InCall, PC, Current, HasPublished, Stored, Visible, Old
  <2> QED BY <2>2, <2>3
<1> QED BY <1>1, LockedInvariant, PTL

-----------------------------------------------------------------------------
(* The refinement: each system call is a step of Database or none.           *)

Cells == [i \in Id |-> DbCell(i)]
SeenBytes == [p \in Proc |-> [i \in Id |-> loaded[p][i].bytes]]
Claim(p) == IF call[p].made /\ ~reply[p].committed THEN call[p].id ELSE Nil
Claims == [p \in Proc |-> Claim(p)]

\* The cell of a name that leads to a file holds the bytes of the file.
LEMMA CellOfStored ==
  ASSUME NEW i \in Id, NEW b, Stored(i, b) PROVE DbCell(i) = b
BY DEF Stored, DbCell

\* What leaves content alone leaves the cells alone.
LEMMA SameCells ==
  ASSUME TypeOK, SameContent PROVE Cells' = Cells
<1> SUFFICES ASSUME NEW i \in Id PROVE DbCell(i)' = DbCell(i)
    BY DEF Cells
<1>1. taskdir'[i] = taskdir[i] /\ (taskdir[i] = Nil \/ taskdir[i] \in DirIno)
  BY DEF TypeOK, SameContent
<1> QED BY <1>1 DEF DbCell, HasFile, SameContent

\* Others neither see nor claim anything through a step of p.
LEMMA OthersSame ==
  ASSUME NEW p \in Proc,
         \A q \in Proc \ {p} : /\ call'[q] = call[q] /\ loaded'[q] = loaded[q]
                              /\ reply'[q] = reply[q]
  PROVE  /\ loaded'[p] = loaded[p] => SeenBytes' = SeenBytes
         /\ \A i \in Id : (\A j \in Id \ {i} : loaded'[p][j] = loaded[p][j])
                           => SeenBytes' = [SeenBytes EXCEPT ![p][i] = loaded'[p][i].bytes]
         /\ Claim(p)' = Claim(p) => Claims' = Claims
         /\ Claims' = [Claims EXCEPT ![p] = Claim(p)']
<1>1. loaded'[p] = loaded[p] => SeenBytes' = SeenBytes
  BY DEF SeenBytes
<1>2. ASSUME NEW i \in Id, \A j \in Id \ {i} : loaded'[p][j] = loaded[p][j]
      PROVE  SeenBytes' = [SeenBytes EXCEPT ![p][i] = loaded'[p][i].bytes]
  <2> DEFINE new == [q \in Proc |-> [j \in Id |-> IF q = p /\ j = i THEN loaded'[p][i].bytes
                                                ELSE loaded[q][j].bytes]]
  <2>1. SeenBytes' = new
    <3>1. ASSUME NEW q \in Proc
          PROVE  [j \in Id |-> loaded'[q][j].bytes]
                   = [j \in Id |-> IF q = p /\ j = i THEN loaded'[p][i].bytes
                                                 ELSE loaded[q][j].bytes]
      BY <1>2
    <3> QED BY <3>1 DEF SeenBytes
  <2>2. [SeenBytes EXCEPT ![p][i] = loaded'[p][i].bytes] = new
    <3>1. SeenBytes[p] = [j \in Id |-> loaded[p][j].bytes]
      BY DEF SeenBytes
    <3>2. [SeenBytes[p] EXCEPT ![i] = loaded'[p][i].bytes]
            = [j \in Id |-> IF j = i THEN loaded'[p][i].bytes ELSE loaded[p][j].bytes]
      BY <3>1
    <3> QED BY <3>2 DEF SeenBytes
  <2> QED BY <2>1, <2>2
<1>3. \A q \in Proc \ {p} : Claim(q)' = Claim(q)
  BY DEF Claim
<1>4. Claim(p)' = Claim(p) => Claims' = Claims
  BY <1>3 DEF Claims
<1>5. Claims' = [Claims EXCEPT ![p] = Claim(p)']
  BY <1>3 DEF Claims
<1> QED BY <1>1, <1>2, <1>4, <1>5

\* The initial states are initial states of Database.
LEMMA RefinesInit == Init => D!Init
<1> SUFFICES ASSUME Init PROVE D!Init
    OBVIOUS
<1>1. RInv
  BY RInit
<1>2. ASSUME NEW i \in Id PROVE DbCell(i) \in Bytes \cup {AbsentCell}
  <2>1. CASE taskdir[i] = Nil
    BY <2>1 DEF DbCell
  <2>2. CASE taskdir[i] # Nil
    <3>1. PICK f \in [Id -> FileIno], b \in [Id -> Bytes] :
            node = [d \in DirIno |->
                      IF \E k \in Id : taskdir[k] = d
                      THEN LET k == CHOOSE k \in Id : taskdir[k] = d
                           IN [ino |-> f[k], bytes |-> b[k], temps |-> {}]
                      ELSE EmptyNode]
      BY DEF Init
    <3>2. taskdir[i] \in DirIno
      BY <2>2 DEF Init
    <3> DEFINE k == CHOOSE k \in Id : taskdir[k] = taskdir[i]
    <3>3. k \in Id
      BY <1>2
    <3>4. node[taskdir[i]] = [ino |-> f[k], bytes |-> b[k], temps |-> {}]
      BY <1>2, <3>1, <3>2
    <3> HIDE DEF k
    <3>5. node[taskdir[i]].ino \in FileIno /\ node[taskdir[i]].bytes \in Bytes
      BY <3>3, <3>4
    <3> QED BY <2>2, <3>5, ConstantsAssumption DEF DbCell, HasFile
  <2> QED BY <2>1, <2>2
<1>3. Cells \in [Id -> Bytes \cup {AbsentCell}]
  BY <1>2 DEF Cells
<1>4. SeenBytes = [p \in Proc |-> [i \in Id |-> Nil]]
  BY DEF Init, SeenBytes, NotLoaded
<1>5. Claims = [p \in Proc |-> Nil]
  BY DEF Init, Claims, Claim, NoCall
<1> QED BY <1>3, <1>4, <1>5 DEF D!Init, Cells, SeenBytes, Claims, Claim

\* A step of a call is a step of Database or none.
LEMMA RefinesStep ==
  ASSUME AllLock, RInv, NEW p \in Proc, Step(p)
  PROVE  D!Next \/ UNCHANGED D!vars
<1> DEFINE c == call[p]
<1>k. PICK k \in Id : k = call[p].id
  BY Facts DEF Step, At, Mkdir, FindDir, OpenDir, OpenFile, ReadBytes, Compare, Vacant, MakeTemp,
       WriteTemp, CheckDir, CheckFile, CheckBytes, VacantAgain, Rename, Sync, Done, InCall, PC
<1>b. PICK b : b = call[p].next
  OBVIOUS
<1>1. /\ TypeOK /\ Local(p) /\ Control(p) /\ Apart /\ Filled
      /\ node \in [DirIno -> Node] /\ taskdir \in [Id -> DirIno \cup {Nil}]
      /\ loaded \in [Proc -> [Id -> Loaded]] /\ reply \in [Proc -> Reply]
      /\ call \in [Proc -> Call]
      /\ Nil \notin DirIno \cup FileIno \cup Id
  BY Facts, ConstantsAssumption
<1>2. \A q \in Proc \ {p} : call'[q] = call[q] /\ loaded'[q] = loaded[q] /\ reply'[q] = reply[q]
  BY <1>1, StepFrame, OthersReply
<1>stutter. ASSUME Cells' = Cells, SeenBytes' = SeenBytes, Claims' = Claims
            PROVE  UNCHANGED D!vars
  BY <1>stutter DEF D!vars, Cells, SeenBytes, Claims, Claim
<1>3. CASE \E l : Moves(p, l)
  <2>1. Cells' = Cells
    BY <1>1, <1>3, SameCells DEF Moves
  <2>2. SeenBytes' = SeenBytes /\ Claim(p)' = Claim(p)
    BY <1>2, <1>3, OthersSame DEF Moves, SameCall, Claim
  <2> QED BY <1>2, <1>stutter, <2>1, <2>2, OthersSame
<1>4. ASSUME NEW d, Reserves(p, d) PROVE D!Next
  <2>1. /\ k \in Id /\ taskdir[k] = Nil /\ ~c.made /\ d \in DirIno
        /\ \A i \in Id : taskdir[i] # d
        /\ ~reply[p].committed
    BY <1>1, <1>4, <1>k, <1>b, Facts DEF Reserves, Local, Progress, InCall, PC, FreeDirs, LiveDirs
  <2>2. /\ taskdir' = [taskdir EXCEPT ![k] = d] /\ node' = [node EXCEPT ![d] = EmptyNode]
        /\ call'[p].made /\ call'[p].id = k /\ UNCHANGED <<loaded, reply>>
    BY <1>1, <1>4, <1>k, <1>b DEF Reserves, Call
  <2>3. DbCell(k) = AbsentCell /\ DbCell(k)' = ReservedCell
    BY <1>1, <2>1, <2>2 DEF DbCell, HasFile, EmptyNode
  <2>4. ASSUME NEW i \in Id, i # k PROVE DbCell(i)' = DbCell(i)
    BY <1>1, <2>1, <2>2, <2>4 DEF DbCell, HasFile
  <2>5. Cells[k] = AbsentCell /\ Cells' = [Cells EXCEPT ![k] = ReservedCell]
    BY <2>1, <2>3, <2>4 DEF Cells
  <2>6. SeenBytes' = SeenBytes
    BY <2>2 DEF SeenBytes
  <2>7. Claims[p] = Nil /\ Claims' = [Claims EXCEPT ![p] = k]
    BY <1>2, <1>k, <1>b, <2>1, <2>2, OthersSame DEF Claims, Claim
  <2>8. D!Reserve(p, k)
    BY <2>5, <2>6, <2>7 DEF D!Reserve, Cells, SeenBytes, Claims, Claim
  <2> QED BY <2>1, <2>8 DEF D!Next
<1>5. CASE Reads(p)
  <2>1. /\ k \in Id /\ c.dfd \in DirIno /\ c.ffd \in FileIno /\ taskdir[k] = c.dfd
    BY <1>1, <1>5, <1>k, <1>b, Facts DEF Reads, Control, Opened, Local, Placed, InCall, PC
  <2>2. /\ node[c.dfd].ino = c.ffd /\ UNCHANGED <<taskdir, node, call, reply>>
        /\ loaded' = [loaded EXCEPT ![p][k] = [ino |-> Dir(p).ino, bytes |-> Dir(p).bytes]]
    BY <1>5, <1>k, <1>b DEF Reads, Linked, Dir, fs
  <2>3. node[c.dfd].bytes \in Bytes
    <3>1. node[c.dfd].bytes \in Bytes \cup {Nil, Partial}
      BY <1>1, <2>1 DEF Node
    <3>2. node[c.dfd].bytes # Partial
      BY <2>1 DEF RInv, GInv, IInv
    <3>3. node[c.dfd].bytes # Nil
      BY <1>1, <2>1, <2>2 DEF Filled, HasFile
    <3> QED BY <3>1, <3>2, <3>3
  <2>4. DbCell(k) = node[c.dfd].bytes
    BY <1>1, <2>1, <2>2 DEF DbCell, HasFile
  <2>5. Cells[k] = node[c.dfd].bytes /\ Cells' = Cells
    BY <2>1, <2>2, <2>4 DEF Cells, DbCell, HasFile
  <2>6. loaded'[p][k].bytes = node[c.dfd].bytes
    BY <1>1, <2>1, <2>2 DEF Dir
  <2>7. SeenBytes' = [SeenBytes EXCEPT ![p][k] = Cells[k]]
    BY <1>1, <1>2, <2>1, <2>2, <2>5, <2>6, OthersSame
  <2>8. Claims' = Claims
    BY <2>2 DEF Claims, Claim
  <2>9. D!Observe(p, k)
    BY <2>3, <2>5, <2>7, <2>8 DEF D!Observe, Cells, SeenBytes, Claims, Claim
  <2> QED BY <2>1, <2>9 DEF D!Next
<1>6. CASE Publishes(p)
  <2>1. /\ k \in Id /\ c.dfd \in DirIno /\ taskdir[k] = c.dfd
        /\ c.tbytes = b /\ b \in Bytes /\ c.tino \in FileIno
        /\ c.op \in {"replace", "create"}
        /\ c.op = "replace" => Old(p).ino # Nil /\ Stored(k, Old(p).bytes)
        /\ c.op = "create" => c.made /\ ~HasFile(c.dfd)
        /\ ~reply[p].committed
    BY <1>6, <1>k, <1>b, BeforeRename DEF Publishes
  <2>2. /\ UNCHANGED <<taskdir, loaded>> /\ call'[p].made = c.made /\ reply'[p].committed
        /\ node' = [node EXCEPT ![c.dfd] = [ino |-> c.tino, bytes |-> c.tbytes,
                                           temps |-> WithoutTemp(p)]]
    BY <1>1, <1>6, <1>k, <1>b DEF Publishes, SameCall, Reply
  <2>3. node'[c.dfd].ino = c.tino /\ node'[c.dfd].bytes = b
    BY <1>1, <2>1, <2>2
  <2>4. DbCell(k)' = b
    BY <1>1, <2>1, <2>2, <2>3 DEF DbCell, HasFile
  <2>5. ASSUME NEW i \in Id, i # k PROVE DbCell(i)' = DbCell(i)
    <3>1. taskdir'[i] = taskdir[i] /\ taskdir[i] # c.dfd
      BY <1>1, <2>1, <2>2, <2>5 DEF Apart
    <3>2. taskdir[i] # Nil => node'[taskdir[i]] = node[taskdir[i]]
      BY <1>1, <2>2, <3>1
    <3> QED BY <3>1, <3>2 DEF DbCell, HasFile
  <2>6. Cells' = [Cells EXCEPT ![k] = b]
    BY <2>1, <2>4, <2>5 DEF Cells
  <2>7. SeenBytes' = SeenBytes
    BY <2>2 DEF SeenBytes
  <2>8. CASE c.op = "replace"
    <3>1. Old(p).bytes \in Bytes
      <4>1. Old(p).bytes \in Bytes \cup {Nil, Partial}
        BY <1>1, <1>k, <1>b DEF Old, Loaded
      <4>2. Old(p).bytes # Partial
        BY <1>k, <1>b DEF Old, RInv, GInv, IInv
      <4>3. Old(p).bytes # Nil
        BY <1>1, <2>1, <2>8 DEF Stored, Filled
      <4> QED BY <4>1, <4>2, <4>3
    <3>2. Cells[k] = Old(p).bytes /\ SeenBytes[p][k] = Old(p).bytes
      BY <1>k, <1>b, <2>1, <2>8, CellOfStored DEF Cells, SeenBytes, Old
    <3>3. ~c.made
      BY <1>1, <2>8 DEF Local, Progress
    <3>4. Claims' = Claims
      BY <1>2, <2>2, <3>3, OthersSame DEF Claim
    <3>5. D!Swap(p, k, b)
      BY <2>6, <2>7, <3>1, <3>2, <3>4 DEF D!Swap, Cells, SeenBytes, Claims, Claim
    <3> QED BY <2>1, <3>5 DEF D!Next
  <2>9. CASE c.op = "create"
    <3>1. Claims[p] = k /\ Claims' = [Claims EXCEPT ![p] = Nil]
      BY <1>2, <1>k, <1>b, <2>1, <2>2, <2>9, OthersSame DEF Claims, Claim
    <3>2. Cells[k] = ReservedCell
      BY <1>1, <2>1, <2>9 DEF Cells, DbCell
    <3>3. k # Nil
      BY <1>1, <2>1
    <3>4. D!Publish(p, b)
      BY <2>6, <2>7, <3>1, <3>2, <3>3 DEF D!Publish, Cells, SeenBytes, Claims, Claim
    <3> QED BY <2>1, <3>4 DEF D!Next
  <2> QED BY <2>1, <2>8, <2>9
<1>7. CASE Done(p)
  <2>1. /\ UNCHANGED reply /\ k \in Id /\ ~call'[p].made
        /\ \A d \in DirIno : node'[d].ino = node[d].ino /\ node'[d].bytes = node[d].bytes
        /\ \/ taskdir' = taskdir
           \/ /\ c.made /\ ~reply[p].committed
              /\ taskdir[k] # Nil /\ ~HasFile(taskdir[k])
              /\ taskdir' = [taskdir EXCEPT ![k] = Nil]
        /\ loaded' = IF c.op = "replace" THEN [loaded EXCEPT ![p][k] = NotLoaded] ELSE loaded
    BY <1>7, <1>k, <1>b, DoneEffect
  <2>2. Claim(p)' = Nil
    BY <2>1 DEF Claim
  <2>3. CASE c.op = "replace"
    <3>1. ~c.made /\ taskdir' = taskdir
      BY <1>1, <2>1, <2>3 DEF Local, Progress
    <3>2. Cells' = Cells
      BY <1>1, <2>1, <3>1, SameCells DEF SameContent
    <3>3. Claims' = Claims
      BY <1>2, <2>2, <3>1, OthersSame DEF Claim
    <3>4. loaded'[p][k].bytes = Nil /\ \A j \in Id \ {k} : loaded'[p][j] = loaded[p][j]
      BY <1>1, <2>1, <2>3 DEF NotLoaded
    <3>5. SeenBytes' = [SeenBytes EXCEPT ![p][k] = Nil]
      BY <1>2, <2>1, <3>4, OthersSame
    <3>6. D!Forget(p, k)
      BY <3>2, <3>3, <3>5 DEF D!Forget, Cells, SeenBytes, Claims, Claim
    <3> QED BY <2>1, <3>6 DEF D!Next
  <2>4. CASE c.op # "replace" /\ ~(c.made /\ ~reply[p].committed)
    <3>1. Cells' = Cells
      BY <1>1, <2>1, <2>4, SameCells DEF SameContent
    <3>2. SeenBytes' = SeenBytes
      BY <2>1, <2>4 DEF SeenBytes
    <3>3. Claims' = Claims
      BY <1>2, <2>2, <2>4, OthersSame DEF Claim
    <3> QED BY <1>stutter, <3>1, <3>2, <3>3
  <2>5. CASE c.op # "replace" /\ c.made /\ ~reply[p].committed
    <3>1. SeenBytes' = SeenBytes
      BY <2>1, <2>5 DEF SeenBytes
    <3>2. Claims[p] = k /\ k # Nil /\ Claims' = [Claims EXCEPT ![p] = Nil]
      BY <1>1, <1>2, <1>k, <1>b, <2>1, <2>2, <2>5, OthersSame DEF Claims, Claim
    <3>3. CASE taskdir' = taskdir
      <4>1. Cells' = Cells
        BY <1>1, <2>1, <3>3, SameCells DEF SameContent
      <4>2. D!Abandon(p)
        BY <3>1, <3>2, <4>1 DEF D!Abandon, Cells, SeenBytes, Claims, Claim
      <4> QED BY <4>2 DEF D!Next
    <3>4. CASE /\ taskdir[k] # Nil /\ ~HasFile(taskdir[k])
               /\ taskdir' = [taskdir EXCEPT ![k] = Nil]
      <4>1. DbCell(k) = ReservedCell /\ DbCell(k)' = AbsentCell
        BY <1>1, <2>1, <3>4 DEF DbCell
      <4>2. ASSUME NEW i \in Id, i # k PROVE DbCell(i)' = DbCell(i)
        BY <1>1, <2>1, <3>4, <4>2 DEF DbCell, HasFile
      <4>3. Cells[k] = ReservedCell /\ Cells' = [Cells EXCEPT ![k] = AbsentCell]
        BY <2>1, <4>1, <4>2 DEF Cells
      <4>4. D!Release(p)
        BY <3>1, <3>2, <4>3 DEF D!Release, Cells, SeenBytes, Claims, Claim
      <4> QED BY <4>4 DEF D!Next
    <3> QED BY <2>1, <3>3, <3>4
  <2> QED BY <2>3, <2>4, <2>5
<1> QED BY <1>3, <1>4, <1>5, <1>6, <1>7, Kinds

\* So is every other step of a command.
LEMMA RefinesNext == AllLock /\ RInv /\ [Next]_vars => [D!Next]_(D!vars)
<1> SUFFICES ASSUME AllLock, RInv, [Next]_vars PROVE D!Next \/ UNCHANGED D!vars
    OBVIOUS
<1>1. TypeOK /\ loaded \in [Proc -> [Id -> Loaded]] /\ reply \in [Proc -> Reply]
      /\ call \in [Proc -> Call]
  BY DEF RInv, GInv, IInv, TypeOK
<1>stutter. ASSUME Cells' = Cells, SeenBytes' = SeenBytes, Claims' = Claims
            PROVE  UNCHANGED D!vars
  BY <1>stutter DEF D!vars, Cells, SeenBytes, Claims, Claim
<1>same. ASSUME UNCHANGED <<taskdir, node>> PROVE Cells' = Cells
  BY <1>same DEF Cells, DbCell, HasFile
<1>2. ASSUME NEW p \in Proc, NEW c \in Commands, Open(p, c) PROVE UNCHANGED D!vars
  <2>1. /\ pc[p] = "idle" /\ UNCHANGED <<taskdir, node, call, loaded>>
        /\ \A q \in Proc \ {p} : reply'[q] = reply[q]
    BY <1>1, <1>2 DEF Open, Refuse, fs
  <2>2. ~call[p].made
    BY <2>1, Facts DEF Local, Progress
  <2>3. Claims' = Claims
    BY <2>1, <2>2, OthersSame DEF Claim
  <2>4. SeenBytes' = SeenBytes
    BY <2>1 DEF SeenBytes
  <2> QED BY <1>same, <1>stutter, <2>1, <2>3, <2>4
<1>3. ASSUME NEW p \in Proc, Begin(p) PROVE D!Next \/ UNCHANGED D!vars
  <2>1. /\ pc[p] = "ready" /\ UNCHANGED <<taskdir, node>>
        /\ call'[p].id \in Id /\ ~call'[p].made
        /\ \A q \in Proc \ {p} : call'[q] = call[q] /\ loaded'[q] = loaded[q] /\ reply'[q] = reply[q]
        /\ loaded' = loaded \/ loaded' = [loaded EXCEPT ![p][call'[p].id] = NotLoaded]
    BY <1>3, BeginEffect
  <2>2. ~call[p].made
    BY <2>1, Facts DEF Local, Progress
  <2>3. Claims' = Claims
    BY <2>1, <2>2, OthersSame DEF Claim
  <2>4. CASE loaded' = loaded
    <3>1. SeenBytes' = SeenBytes
      BY <2>4 DEF SeenBytes
    <3> QED BY <1>same, <1>stutter, <2>1, <2>3, <3>1
  <2>5. CASE loaded' = [loaded EXCEPT ![p][call'[p].id] = NotLoaded]
    <3>1. PICK i \in Id : i = call'[p].id
      BY <2>1
    <3>2. loaded'[p][i].bytes = Nil /\ \A j \in Id \ {i} : loaded'[p][j] = loaded[p][j]
      BY <1>1, <2>5, <3>1 DEF NotLoaded
    <3>3. SeenBytes' = [SeenBytes EXCEPT ![p][i] = Nil]
      BY <2>1, <3>2, OthersSame
    <3>4. D!Forget(p, i)
      BY <1>same, <2>1, <2>3, <3>3 DEF D!Forget, Cells, SeenBytes, Claims, Claim
    <3> QED BY <3>4 DEF D!Next
  <2> QED BY <2>1, <2>4, <2>5
<1>4. ASSUME NEW p \in Proc, Close(p) \/ Crash(p) PROVE D!Next
  <2>1. Leave(p)
    BY <1>4 DEF Close, Crash
  <2>2. /\ UNCHANGED <<taskdir, node>> /\ ~call'[p].made
        /\ loaded' = [loaded EXCEPT ![p] = [i \in Id |-> NotLoaded]]
        /\ \A q \in Proc \ {p} : call'[q] = call[q] /\ loaded'[q] = loaded[q] /\ reply'[q] = reply[q]
    BY <1>1, <2>1 DEF Leave, fs, NoCall
  <2>3. SeenBytes' = [SeenBytes EXCEPT ![p] = [i \in Id |-> Nil]]
    BY <1>1, <2>2 DEF SeenBytes, NotLoaded
  <2>4. Claims' = [Claims EXCEPT ![p] = Nil]
    BY <2>2, OthersSame DEF Claim
  <2>5. D!Leave(p)
    BY <1>same, <2>2, <2>3, <2>4 DEF D!Leave, Cells, SeenBytes, Claims, Claim
  <2> QED BY <2>5 DEF D!Next
<1>5. ~Editor
  BY DEF AllLock, Editor, MoveAway, EditInPlace, EditAndRename, PutBack, Edit
<1>6. ASSUME UNCHANGED vars PROVE UNCHANGED D!vars
  <2>1. UNCHANGED <<taskdir, node, call, loaded, reply>>
    BY <1>6 DEF vars, fs
  <2> QED BY <1>same, <1>stutter, <2>1 DEF SeenBytes, Claims, Claim
<1> QED BY <1>2, <1>3, <1>4, <1>5, <1>6, RefinesStep DEF Next

\* While everybody locks, the system calls of store.c, failing and interrupted as they
\* may be, behave as compare and swap and as reserve, then publish, on whole tasks.
THEOREM StoreIsDatabase == AllLock => (Spec => Implements)
<1> SUFFICES ASSUME AllLock PROVE Spec => Implements
    OBVIOUS
<1>1. Init => D!Init
  BY RefinesInit
<1>2. RInv /\ [Next]_vars => [D!Next]_(D!vars)
  BY RefinesNext
<1> QED BY <1>1, <1>2, LockedInvariant, PTL DEF Spec, Implements, D!Spec

-----------------------------------------------------------------------------
(* What failures and deaths leave behind.                                    *)

\* fstat does not fail on what was just created.
NoStat == AllLock /\ "stat" \notin Env

\* A process knows what it made until it has cleaned up.
Tidy(p) ==
  LET c == call[p] l == pc[p] IN
  /\ l = "find_dir" => taskdir[c.id] # Nil
  /\ c.made /\ l # "find_dir" => c.taskst # Nil /\ taskdir[c.id] = c.taskst
  /\ c.tmp # Nil => l \in Complete \cup {"write_temp", "done"} /\ c.dfd = c.taskst

TInv == RInv /\ \A p \in Proc : Tidy(p)

\* A step of its own leaves a process tidy.
LEMMA TidyOwn ==
  ASSUME NoStat, TInv, NEW p \in Proc, Step(p)
  PROVE  Tidy(p)'
<1> DEFINE c == call[p]
<1>1. /\ TypeOK /\ Local(p) /\ Control(p) /\ Tidy(p)
      /\ node \in [DirIno -> Node] /\ taskdir \in [Id -> DirIno \cup {Nil}]
      /\ call \in [Proc -> Call] /\ pc \in [Proc -> PC]
      /\ Nil \notin DirIno \cup FileIno /\ AllLock /\ RInv
  BY Facts, ConstantsAssumption DEF TInv, NoStat
<1>2. pc[p] \in InCall /\ c.id \in Id
  BY <1>1 DEF Step, At, Mkdir, FindDir, OpenDir, OpenFile, ReadBytes, Compare, Vacant, MakeTemp,
       WriteTemp, CheckDir, CheckFile, CheckBytes, VacantAgain, Rename, Sync, Done, InCall, PC, Control
<1> USE DEF At, Goto
\* The names and the process's reservation stay: then only find_dir matters.
<1>3. ASSUME taskdir' = taskdir, call' = call, pc[p] # "find_dir", pc'[p] # "find_dir",
             c.tmp # Nil => pc'[p] \in Complete \cup {"write_temp", "done"}
      PROVE  Tidy(p)'
  BY <1>1, <1>3 DEF Tidy
<1>fail. ASSUME NEW e, Fail(p, e), taskdir' = taskdir, call' = call, pc[p] # "find_dir"
         PROVE  Tidy(p)'
  BY <1>1, <1>3, <1>fail DEF Fail
<1>failif. ASSUME NEW k, NEW e, FailIf(p, k, e), pc[p] # "find_dir" PROVE Tidy(p)'
  BY <1>fail, <1>failif DEF FailIf, fs
<1>check. ASSUME NEW b, NEW l, Check(p, b, l), pc[p] # "find_dir", l \in PC \ {"find_dir"},
                 c.tmp # Nil => l \in Complete \cup {"write_temp", "done"}
          PROVE  Tidy(p)'
  <2>1. taskdir' = taskdir /\ call' = call /\ pc'[p] \in {l, "done"}
    BY <1>1, <1>check DEF Check, Fail, fs
  <2> QED BY <1>3, <1>check, <2>1
<1>Mkdir. CASE Mkdir(p)
  <2>1. CASE taskdir[c.id] = Nil /\ taskdir'[c.id] # Nil /\ pc'[p] = "find_dir"
             /\ call' = [call EXCEPT ![p].made = TRUE]
    <3>1. call'[p].id = c.id /\ call'[p].tmp = c.tmp
      BY <1>1, <2>1 DEF Call
    <3>2. c.tmp = Nil
      BY <1>1, <1>Mkdir DEF Mkdir, Tidy, Complete
    <3> QED BY <2>1, <3>1, <3>2 DEF Tidy
  <2>2. \/ (\E e : Fail(p, e)) /\ taskdir' = taskdir /\ call' = call
        \/ /\ taskdir[c.id] = Nil /\ pc'[p] = "find_dir"
           /\ \E d \in FreeDirs : taskdir' = [taskdir EXCEPT ![c.id] = d]
           /\ call' = [call EXCEPT ![p].made = TRUE]
    BY <1>1, <1>Mkdir DEF Mkdir, fs
  <2>3. pc[p] # "find_dir"
    BY <1>Mkdir DEF Mkdir
  <2>4. \A d \in FreeDirs : d # Nil
    BY <1>1 DEF FreeDirs
  <2> QED BY <1>1, <1>2, <1>fail, <2>1, <2>2, <2>3, <2>4
<1>FindDir. CASE FindDir(p)
  <2>1. /\ taskdir[c.id] # Nil /\ taskdir' = taskdir
        /\ call' = [call EXCEPT ![p].taskst = taskdir[c.id]] /\ pc'[p] = "open_dir"
    BY <1>1, <1>FindDir DEF FindDir, Tidy, FailIf, NoStat, fs
  <2>2. call'[p].id = c.id /\ call'[p].tmp = c.tmp /\ call'[p].taskst = taskdir[c.id]
    BY <1>1, <2>1 DEF Call
  <2>3. c.tmp = Nil
    BY <1>1, <1>FindDir DEF FindDir, Tidy, Complete
  <2> QED BY <2>1, <2>2, <2>3 DEF Tidy
<1>OpenDir. CASE OpenDir(p)
  <2>1. pc[p] # "find_dir"
    BY <1>OpenDir DEF OpenDir
  <2>2. CASE /\ taskdir[c.id] # Nil /\ UNCHANGED fs
             /\ call' = [call EXCEPT ![p] = [c EXCEPT !.dfd = taskdir[c.id], !.taskst = taskdir[c.id]]]
             /\ pc' = [pc EXCEPT ![p] = IF c.op = "create" THEN "vacant" ELSE "open_file"]
    <3>1. call'[p].id = c.id /\ call'[p].tmp = c.tmp /\ call'[p].taskst = taskdir[c.id]
          /\ taskdir' = taskdir /\ pc'[p] \in {"vacant", "open_file"}
      BY <1>1, <2>2 DEF Call, fs
    <3>2. c.tmp = Nil
      BY <1>1, <1>OpenDir DEF OpenDir, Tidy, Complete
    <3> QED BY <2>2, <3>1, <3>2 DEF Tidy
  <2>3. CASE Fail(p, "task_not_found") /\ UNCHANGED <<fs, call, loaded>>
    BY <1>fail, <2>1, <2>3 DEF fs
  <2> QED BY <1>failif, <1>OpenDir, <2>1, <2>2, <2>3 DEF OpenDir
<1>OpenFile. CASE OpenFile(p)
  <2>1. pc[p] # "find_dir"
    BY <1>OpenFile DEF OpenFile
  <2>2. CASE /\ call' = [call EXCEPT ![p].ffd = Dir(p).ino] /\ UNCHANGED fs
             /\ pc' = [pc EXCEPT ![p] = IF c.op = "read" THEN "read_bytes" ELSE "compare"]
    <3>1. call'[p].id = c.id /\ call'[p].tmp = c.tmp /\ call'[p].taskst = c.taskst
          /\ call'[p].made = c.made /\ taskdir' = taskdir /\ pc'[p] # "find_dir"
      BY <1>1, <2>2 DEF Call, fs
    <3>2. c.tmp = Nil
      BY <1>1, <1>OpenFile DEF OpenFile, Tidy, Complete
    <3> QED BY <1>1, <2>1, <3>1, <3>2 DEF Tidy
  <2>3. CASE Fail(p, "task_not_found") /\ UNCHANGED <<fs, call, loaded>>
    BY <1>fail, <2>1, <2>3 DEF fs
  <2> QED BY <1>failif, <1>OpenFile, <2>1, <2>2, <2>3 DEF OpenFile
<1>ReadBytes. CASE ReadBytes(p)
  <2>1. taskdir' = taskdir /\ call' = call /\ pc'[p] = "done" /\ pc[p] # "find_dir"
    BY <1>1, <1>ReadBytes DEF ReadBytes, Fail, FailIf, fs
  <2> QED BY <1>3, <2>1
<1>Compare. CASE Compare(p)
  <2>1. c.tmp = Nil /\ pc[p] # "find_dir"
    BY <1>1, <1>Compare DEF Compare, Tidy, Complete
  <2> QED BY <1>check, <1>Compare, <2>1 DEF Compare, PC
<1>Vacant. CASE Vacant(p)
  <2>1. c.tmp = Nil /\ pc[p] # "find_dir"
    BY <1>1, <1>Vacant DEF Vacant, Tidy, Complete
  <2> QED BY <1>check, <1>Vacant, <2>1 DEF Vacant, PC
<1>MakeTemp. CASE MakeTemp(p)
  <2>1. pc[p] # "find_dir" /\ taskdir' = taskdir
    BY <1>MakeTemp DEF MakeTemp
  <2>2. CASE /\ \E a, f : call' = [call EXCEPT ![p] = [c EXCEPT !.tmp = a, !.tino = f, !.tbytes = Partial]]
             /\ pc' = [pc EXCEPT ![p] = "write_temp"]
    <3>1. call'[p].id = c.id /\ call'[p].taskst = c.taskst /\ call'[p].made = c.made
          /\ call'[p].dfd = c.dfd /\ pc'[p] = "write_temp"
      BY <1>1, <2>2 DEF Call
    <3>2. c.dfd = c.taskst
      BY <1>1, <1>MakeTemp DEF MakeTemp, Control, Opened
    <3> QED BY <1>1, <2>1, <3>1, <3>2 DEF Tidy
  <2>3. CASE Fail(p, "io_error") /\ UNCHANGED call
    BY <1>fail, <2>1, <2>3
  <2> QED BY <1>MakeTemp, <2>2, <2>3 DEF MakeTemp
<1>WriteTemp. CASE WriteTemp(p)
  <2>1. pc[p] # "find_dir" /\ taskdir' = taskdir
    BY <1>WriteTemp DEF WriteTemp
  <2>2. CASE /\ call' = [call EXCEPT ![p].tbytes = c.next] /\ pc' = [pc EXCEPT ![p] = "check_dir"]
    <3>1. call'[p].id = c.id /\ call'[p].taskst = c.taskst /\ call'[p].made = c.made
          /\ call'[p].dfd = c.dfd /\ call'[p].tmp = c.tmp /\ pc'[p] = "check_dir"
      BY <1>1, <2>2 DEF Call
    <3> QED BY <1>1, <2>1, <3>1 DEF Tidy, Complete
  <2>3. CASE Fail(p, "io_error") /\ call' = [call EXCEPT ![p] = NoTemp(c)]
    <3>1. call'[p].id = c.id /\ call'[p].taskst = c.taskst /\ call'[p].made = c.made
          /\ call'[p].tmp = Nil /\ pc'[p] = "done"
      BY <1>1, <2>3 DEF Call, NoTemp, Fail
    <3> QED BY <1>1, <2>1, <3>1 DEF Tidy
  <2> QED BY <1>WriteTemp, <2>2, <2>3 DEF WriteTemp
<1>CheckDir. CASE CheckDir(p)
  <2>1. (IF c.op = "create" THEN "vacant_again" ELSE "check_file") \in Complete
    BY DEF Complete
  <2> QED BY <1>check, <1>CheckDir, <2>1 DEF CheckDir, Complete, PC
<1>CheckFile. CASE CheckFile(p)
  BY <1>check, <1>CheckFile DEF CheckFile, Complete, PC
<1>CheckBytes. CASE CheckBytes(p)
  BY <1>check, <1>CheckBytes DEF CheckBytes, Complete, PC
<1>VacantAgain. CASE VacantAgain(p)
  BY <1>check, <1>VacantAgain DEF VacantAgain, Complete, PC
<1>Rename. CASE Rename(p)
  <2>1. pc[p] # "find_dir"
    BY <1>Rename DEF Rename
  <2>2. CASE /\ call' = [call EXCEPT ![p] = NoTemp(c)] /\ UNCHANGED taskdir
             /\ pc' = [pc EXCEPT ![p] = "sync"]
    <3>1. call'[p].id = c.id /\ call'[p].taskst = c.taskst /\ call'[p].made = c.made
          /\ call'[p].tmp = Nil /\ pc'[p] = "sync"
      BY <1>1, <2>2 DEF Call, NoTemp
    <3> QED BY <1>1, <2>1, <2>2, <3>1 DEF Tidy
  <2> QED BY <1>failif, <1>Rename, <2>1, <2>2 DEF Rename
<1>Sync. CASE Sync(p)
  <2>1. pc[p] # "find_dir"
    BY <1>Sync DEF Sync
  <2>2. CASE pc' = [pc EXCEPT ![p] = "done"] /\ UNCHANGED <<fs, call, loaded, reply>>
    <3>1. pc'[p] = "done" /\ taskdir' = taskdir /\ call' = call
      BY <1>1, <2>2 DEF fs
    <3> QED BY <1>3, <2>1, <3>1
  <2> QED BY <1>failif, <1>Sync, <2>1, <2>2 DEF Sync
<1>Done. CASE Done(p)
  <2>1. pc'[p] = "ready" /\ ~call'[p].made
    BY <1>1, <1>Done, DoneEffect
  <2>2. call'[p].tmp = Nil
    BY <1>1, <1>Done DEF Done, NoCall
  <2> QED BY <2>1, <2>2 DEF Tidy
<1> QED BY <1>Mkdir, <1>FindDir, <1>OpenDir, <1>OpenFile, <1>ReadBytes, <1>Compare, <1>Vacant,
           <1>MakeTemp, <1>WriteTemp, <1>CheckDir, <1>CheckFile, <1>CheckBytes,
           <1>VacantAgain, <1>Rename, <1>Sync, <1>Done DEF Step

\* So does every other step.
LEMMA TidyNext == NoStat /\ TInv /\ [Next]_vars => TInv'
<1> SUFFICES ASSUME NoStat, TInv, [Next]_vars PROVE TInv'
    OBVIOUS
<1>1. AllLock /\ RInv /\ TypeOK
  BY DEF NoStat, TInv, RInv, GInv, IInv
<1>2. RInv'
  BY <1>1, RNext
<1>3. ASSUME NEW p \in Proc, pc'[p] = pc[p], call'[p] = call[p],
             pc[p] = "idle" \/ taskdir' = taskdir
      PROVE  Tidy(p)'
  <2>1. Tidy(p) /\ (pc[p] = "idle" => ~call[p].made)
    BY <1>1, Facts DEF TInv, Local, Progress
  <2> QED BY <1>3, <2>1 DEF Tidy
<1>4. ASSUME NEW p \in Proc, pc'[p] # "find_dir", ~call'[p].made, call'[p].tmp = Nil
      PROVE  Tidy(p)'
  BY <1>4 DEF Tidy
<1>5. ASSUME NEW p \in Proc, NEW c \in Commands, Open(p, c), NEW q \in Proc PROVE Tidy(q)'
  <2>1. /\ pc[p] = "idle" /\ pc'[p] \in {"idle", "ready"} /\ taskdir' = taskdir /\ call' = call
        /\ q # p => pc'[q] = pc[q]
    BY <1>1, <1>5 DEF Open, Refuse, TypeOK, fs
  <2>2. ~call[p].made /\ call[p].tmp = Nil
    BY <1>1, <2>1, Facts DEF TInv, Local, Progress, Tidy, Complete
  <2>3. CASE q = p
    BY <1>4, <2>1, <2>2, <2>3
  <2>4. CASE q # p
    BY <1>3, <2>1, <2>4
  <2> QED BY <2>3, <2>4
<1>6. ASSUME NEW p \in Proc, Begin(p), NEW q \in Proc PROVE Tidy(q)'
  <2>1. /\ pc'[p] \in {"open_dir", "mkdir"} /\ taskdir' = taskdir /\ ~call'[p].made
        /\ q # p => pc'[q] = pc[q] /\ call'[q] = call[q]
    BY <1>1, <1>6, BeginEffect
  <2>2. call'[p].tmp = Nil
    <3>1. PICK op, i, b, l : Start(p, op, i, b, l)
      BY <1>6 DEF Begin, StartRead, StartReplace, StartCreate
    <3>2. call' = [call EXCEPT ![p] = [NoCall EXCEPT !.op = op, !.id = i, !.next = b]]
      BY <3>1 DEF Start
    <3>3. [NoCall EXCEPT !.op = op, !.id = i, !.next = b].tmp = Nil
      BY DEF NoCall
    <3> QED BY <1>1, <3>2, <3>3 DEF TypeOK
  <2>3. CASE q = p
    BY <1>4, <2>1, <2>2, <2>3
  <2>4. CASE q # p
    BY <1>3, <2>1, <2>4
  <2> QED BY <2>3, <2>4
<1>7. ASSUME NEW p \in Proc, Step(p), NEW q \in Proc PROVE Tidy(q)'
  <2>1. CASE q = p
    BY <1>7, <2>1, TidyOwn
  <2>2. CASE q # p
    <3>1. pc'[q] = pc[q] /\ call'[q] = call[q]
      BY <1>1, <1>7, <2>2, StepFrame
    <3>2. pc[q] = "idle" \/ taskdir' = taskdir
      BY <1>1, <1>7, <2>2, Facts, ReadersKeep DEF WriterAlone, SameContent
    <3> QED BY <1>3, <3>1, <3>2
  <2> QED BY <2>1, <2>2
<1>8. ASSUME NEW p \in Proc, Close(p) \/ Crash(p), NEW q \in Proc PROVE Tidy(q)'
  <2>1. /\ pc'[p] = "idle" /\ ~call'[p].made /\ call'[p].tmp = Nil /\ taskdir' = taskdir
        /\ q # p => pc'[q] = pc[q] /\ call'[q] = call[q]
    BY <1>1, <1>8 DEF Close, Crash, Leave, TypeOK, fs, NoCall
  <2>2. CASE q = p
    BY <1>4, <2>1, <2>2
  <2>3. CASE q # p
    BY <1>3, <2>1, <2>3
  <2> QED BY <2>2, <2>3
<1>9. ~Editor
  BY <1>1 DEF AllLock, Editor, MoveAway, EditInPlace, EditAndRename, PutBack, Edit
<1>10. ASSUME UNCHANGED vars, NEW q \in Proc PROVE Tidy(q)'
  BY <1>3, <1>10 DEF vars, fs
<1>11. \A q \in Proc : Tidy(q)'
  BY <1>5, <1>6, <1>7, <1>8, <1>9, <1>10 DEF Next
<1> QED BY <1>2, <1>11 DEF TInv

\* It holds at the start.
LEMMA TidyInit == Init => TInv
<1> SUFFICES ASSUME Init PROVE TInv
    OBVIOUS
<1>1. \A p \in Proc : Tidy(p)
  BY DEF Init, Tidy, NoCall
<1> QED BY <1>1, RInit DEF TInv

\* It holds always, if no stat fails.
LEMMA TidyInvariant == NoStat => (Spec => []TInv)
<1> SUFFICES ASSUME NoStat PROVE Spec => []TInv
    OBVIOUS
<1>1. Init => TInv
  BY TidyInit
<1>2. TInv /\ [Next]_vars => TInv'
  BY TidyNext
<1> QED BY <1>1, <1>2, PTL DEF Spec

-----------------------------------------------------------------------------
(* Nothing is left behind.                                                   *)

\* A process's temporaries are those it knows of, or could not remove; a directory
\* without a file has a process that will remove it, or that could not.
Owned == \A d \in DirIno : \A t \in node[d].temps :
  (call[t[1]].dfd = d /\ call[t[1]].tmp = t[2]) \/ <<d, t>> \in stuck
Held(d) == \E t \in TempName \cup {Nil} : <<d, t>> \in stuck
Claimed == \A i \in Id : taskdir[i] # Nil /\ ~HasFile(taskdir[i]) =>
  (\E p \in Proc : call[p].made /\ call[p].id = i) \/ Held(taskdir[i])

LInv == TInv /\ Owned /\ Claimed

\* The temporaries after a step of p: others' that were there, the one p knows of, and
\* those that stay.
KeepsTemps(p) == \A d \in DirIno : \A t \in node'[d].temps :
  \/ t[1] # p /\ t \in node[d].temps
  \/ t[1] = p /\ call'[p].dfd = d /\ call'[p].tmp = t[2]
  \/ <<d, t>> \in stuck'

\* A step makes no temporary file but its own, and loses sight of none.
LEMMA OwnTemps ==
  ASSUME NoStat, TInv, Owned, NEW p \in Proc, Step(p)
  PROVE  KeepsTemps(p)
<1> DEFINE c == call[p]
<1>1. /\ TypeOK /\ Control(p) /\ Tidy(p)
      /\ node \in [DirIno -> Node] /\ call \in [Proc -> Call] /\ c \in Call
      /\ Nil \notin DirIno \cup FileIno \cup Attempt /\ stuck \subseteq stuck'
  BY Facts, StepStuck, ConstantsAssumption DEF TInv, NoStat, TypeOK, Attempt, RInv, GInv
<1>2. \A d \in DirIno : \A t \in node[d].temps :
        /\ t = <<t[1], t[2]>>
        /\ t[1] = p => (c.dfd = d /\ c.tmp = t[2] /\ c.tmp # Nil) \/ <<d, t>> \in stuck'
  <2> SUFFICES ASSUME NEW d \in DirIno, NEW t \in node[d].temps
               PROVE  /\ t = <<t[1], t[2]>>
                      /\ t[1] = p => \/ c.dfd = d /\ c.tmp = t[2] /\ c.tmp # Nil
                                     \/ <<d, t>> \in stuck'
      OBVIOUS
  <2>1. t \in Proc \X Attempt
    BY <1>1 DEF Node, TempName
  <2> QED BY <1>1, <2>1 DEF Owned
<1> USE DEF At, Goto
\* Nothing about temporaries changes,
<1>same. ASSUME node' = node, (call'[p].dfd = c.dfd /\ call'[p].tmp = c.tmp) \/ c.tmp = Nil
         PROVE  KeepsTemps(p)
  BY <1>2, <1>same DEF KeepsTemps
\* or the process removes its own.
<1>lose. ASSUME \A d \in DirIno : node'[d].temps = IF d = c.dfd THEN WithoutTemp(p) ELSE node[d].temps
         PROVE  KeepsTemps(p)
  <2> SUFFICES ASSUME NEW d \in DirIno, NEW t \in node'[d].temps
               PROVE  (t[1] # p /\ t \in node[d].temps) \/ <<d, t>> \in stuck'
      BY DEF KeepsTemps
  <2>1. t \in node[d].temps
    BY <1>lose DEF WithoutTemp
  <2>2. ASSUME t[1] = p, <<d, t>> \notin stuck' PROVE FALSE
    <3>1. c.dfd = d /\ t = <<p, c.tmp>>
      BY <1>2, <2>1, <2>2
    <3> QED BY <1>lose, <3>1 DEF WithoutTemp
  <2> QED BY <2>1, <2>2
\* or leaves it.
<1>stay. ASSUME c.tmp # Nil, TempStays(p) PROVE KeepsTemps(p)
  <2> SUFFICES ASSUME NEW d \in DirIno, NEW t \in node'[d].temps
               PROVE  (t[1] # p /\ t \in node[d].temps) \/ <<d, t>> \in stuck'
      BY DEF KeepsTemps
  <2>1. t \in node[d].temps /\ <<c.dfd, <<p, c.tmp>>>> \in stuck'
    BY <1>stay DEF TempStays
  <2>2. ASSUME t[1] = p, <<d, t>> \notin stuck' PROVE FALSE
    <3>1. c.dfd = d /\ t = <<p, c.tmp>>
      BY <1>2, <2>1, <2>2
    <3> QED BY <2>1, <2>2, <3>1
  <2> QED BY <2>1, <2>2
<1>fail. ASSUME UNCHANGED <<fs, call>> PROVE KeepsTemps(p)
  BY <1>same, <1>fail DEF fs
<1>Mkdir. CASE Mkdir(p)
  <2>1. c.tmp = Nil
    BY <1>1, <1>Mkdir DEF Mkdir, Tidy, Complete
  <2>2. CASE \E d \in FreeDirs : node' = [node EXCEPT ![d] = EmptyNode]
    <3>1. \A d \in DirIno : node'[d].temps \subseteq node[d].temps
      BY <1>1, <2>2 DEF EmptyNode
    <3> QED BY <1>2, <2>1, <3>1 DEF KeepsTemps
  <2> QED BY <1>fail, <1>Mkdir, <2>2 DEF Mkdir
<1>FindDir. CASE FindDir(p)
  <2>1. c.tmp = Nil
    BY <1>1, <1>FindDir DEF FindDir, Tidy, Complete
  <2> QED BY <1>same, <1>FindDir, <2>1 DEF FindDir, FailIf, fs
<1>OpenDir. CASE OpenDir(p)
  <2>1. c.tmp = Nil
    BY <1>1, <1>OpenDir DEF OpenDir, Tidy, Complete
  <2> QED BY <1>same, <1>OpenDir, <2>1 DEF OpenDir, FailIf, fs
<1>OpenFile. CASE OpenFile(p)
  <2>1. c.tmp = Nil
    BY <1>1, <1>OpenFile DEF OpenFile, Tidy, Complete
  <2> QED BY <1>same, <1>OpenFile, <2>1 DEF OpenFile, FailIf, fs
<1>MakeTemp. CASE MakeTemp(p)
  <2>1. c.tmp = Nil
    BY <1>1, <1>MakeTemp DEF MakeTemp, Tidy, Complete
  <2>2. ASSUME NEW a, NEW f, node' = [node EXCEPT ![c.dfd].temps = node[c.dfd].temps \cup {<<p, a>>}],
               call' = [call EXCEPT ![p] = [c EXCEPT !.tmp = a, !.tino = f, !.tbytes = Partial]]
        PROVE  KeepsTemps(p)
    <3>1. call'[p].dfd = c.dfd /\ call'[p].tmp = a
      BY <1>1, <2>2 DEF Call
    <3>2. \A d \in DirIno : node'[d].temps = IF d = c.dfd THEN node[d].temps \cup {<<p, a>>} ELSE node[d].temps
      BY <1>1, <2>2 DEF Node
    <3> SUFFICES ASSUME NEW d \in DirIno, NEW t \in node'[d].temps
                 PROVE  \/ t[1] # p /\ t \in node[d].temps
                        \/ t[1] = p /\ call'[p].dfd = d /\ call'[p].tmp = t[2]
                        \/ <<d, t>> \in stuck'
        BY DEF KeepsTemps
    <3>3. CASE t \in node[d].temps
      BY <1>2, <2>1, <3>3
    <3>4. CASE d = c.dfd /\ t = <<p, a>>
      BY <3>1, <3>4
    <3> QED BY <3>2, <3>3, <3>4
  <2> QED BY <1>same, <1>MakeTemp, <2>1, <2>2 DEF MakeTemp, NoStat
<1>WriteTemp. CASE WriteTemp(p)
  <2>1. CASE call' = [call EXCEPT ![p].tbytes = c.next] /\ UNCHANGED node
    <3>1. call'[p].dfd = c.dfd /\ call'[p].tmp = c.tmp
      BY <1>1, <2>1 DEF Call
    <3> QED BY <1>same, <2>1, <3>1
  <2>2. CASE node' = [node EXCEPT ![c.dfd].temps = WithoutTemp(p)]
    <3>1. \A d \in DirIno : node'[d].temps = IF d = c.dfd THEN WithoutTemp(p) ELSE node[d].temps
      BY <1>1, <2>2 DEF Node
    <3> QED BY <1>lose, <3>1
  <2>3. CASE TempStays(p)
    <3>1. c.tmp # Nil
      BY <1>1, <1>WriteTemp DEF WriteTemp, Control
    <3> QED BY <1>stay, <2>3, <3>1
  <2> QED BY <1>WriteTemp, <2>1, <2>2, <2>3 DEF WriteTemp
<1>Rename. CASE Rename(p)
  <2>1. CASE node' = [node EXCEPT ![c.dfd] = [ino |-> c.tino, bytes |-> c.tbytes, temps |-> WithoutTemp(p)]]
    <3>1. \A d \in DirIno : node'[d].temps = IF d = c.dfd THEN WithoutTemp(p) ELSE node[d].temps
      BY <1>1, <2>1
    <3> QED BY <1>lose, <3>1
  <2> QED BY <1>fail, <1>Rename, <2>1 DEF Rename, FailIf
<1>Done. CASE Done(p)
  <2>1. CASE c.tmp = Nil /\ node' = node
    BY <1>same, <2>1
  <2>2. CASE node' = [node EXCEPT ![c.dfd].temps = WithoutTemp(p)]
    <3>1. \A d \in DirIno : node'[d].temps = IF d = c.dfd THEN WithoutTemp(p) ELSE node[d].temps
      BY <1>1, <2>2 DEF Node
    <3> QED BY <1>lose, <3>1
  <2>3. CASE c.tmp # Nil /\ TempStays(p)
    BY <1>stay, <2>3
  <2> QED BY <1>Done, <2>1, <2>2, <2>3 DEF Done
<1>rest. CASE ReadBytes(p) \/ Compare(p) \/ Vacant(p) \/ CheckDir(p) \/ CheckFile(p)
              \/ CheckBytes(p) \/ VacantAgain(p) \/ Sync(p)
  BY <1>fail, <1>rest DEF ReadBytes, Compare, Vacant, CheckDir, CheckFile, CheckBytes,
       VacantAgain, Sync, Check, FailIf
<1> QED BY <1>Mkdir, <1>FindDir, <1>OpenDir, <1>OpenFile, <1>MakeTemp, <1>WriteTemp,
           <1>Rename, <1>Done, <1>rest DEF Step

\* A directory without a file keeps the process that will remove it, up to that
\* process's cleanup, which does, or says what stays.
LEMMA ClaimsKept ==
  ASSUME NoStat, LInv, NEW p \in Proc, Step(p)
  PROVE  Claimed'
<1> DEFINE c == call[p]
<1>1. /\ TypeOK /\ Control(p) /\ Tidy(p) /\ Local(p) /\ WriterAlone /\ AllLock /\ RInv /\ Apart
      /\ node \in [DirIno -> Node] /\ call \in [Proc -> Call] /\ taskdir \in [Id -> DirIno \cup {Nil}]
      /\ Nil \notin DirIno \cup FileIno \cup Attempt /\ Owned /\ Claimed
      /\ stuck \subseteq stuck'
  BY Facts, StepStuck, ConstantsAssumption DEF LInv, TInv, NoStat, TypeOK, Attempt, RInv, GInv
<1> SUFFICES ASSUME NEW i \in Id, taskdir'[i] # Nil, node'[taskdir'[i]].ino = Nil,
                    \A t \in TempName \cup {Nil} : <<taskdir'[i], t>> \notin stuck'
             PROVE  \E q \in Proc : call'[q].made /\ call'[q].id = i
    BY DEF Claimed, HasFile, Held
<1>free. taskdir'[i] = taskdir[i] => ~Held(taskdir[i])
  BY <1>1 DEF Held
<1>2. \A q \in Proc \ {p} : call'[q] = call[q]
  BY <1>1, StepFrame
<1>3. ASSUME call'[p].made = c.made, call'[p].id = c.id, taskdir[i] # Nil, ~HasFile(taskdir[i]),
             taskdir'[i] = taskdir[i]
      PROVE  \E q \in Proc : call'[q].made /\ call'[q].id = i
  <2>1. PICK q \in Proc : call[q].made /\ call[q].id = i
    BY <1>1, <1>3, <1>free DEF Claimed
  <2> QED BY <1>2, <1>3, <2>1
<1>4. CASE \E l : Moves(p, l)
  <2>1. SameContent /\ SameCall(p)
    BY <1>4 DEF Moves
  <2>2. taskdir[i] # Nil /\ ~HasFile(taskdir[i]) /\ taskdir'[i] = taskdir[i]
    BY <1>1, <2>1 DEF SameContent, HasFile
  <2> QED BY <1>3, <2>1, <2>2 DEF SameCall
<1>5. ASSUME NEW d, Reserves(p, d) PROVE \E q \in Proc : call'[q].made /\ call'[q].id = i
  <2>1. c.id \in Id /\ pc[p] = "mkdir" /\ ~c.made
    BY <1>1, <1>5, Facts DEF Reserves, InCall, PC, Local, Progress
  <2>2. call'[p].made /\ call'[p].id = c.id
    BY <1>1, <1>5 DEF Reserves, Call
  <2>3. CASE i = c.id
    BY <2>2, <2>3
  <2>4. CASE i # c.id
    <3>1. taskdir'[i] = taskdir[i] /\ taskdir[i] # d /\ taskdir[i] \in DirIno
      BY <1>1, <1>5, <2>4 DEF Reserves, FreeDirs, LiveDirs
    <3>2. ~HasFile(taskdir[i])
      BY <1>1, <1>5, <3>1 DEF Reserves, HasFile
    <3>3. PICK q \in Proc : call[q].made /\ call[q].id = i
      BY <1>1, <1>free, <3>1, <3>2 DEF Claimed
    <3> QED BY <1>2, <2>1, <3>3
  <2> QED BY <2>3, <2>4
<1>6. CASE Reads(p)
  BY <1>3, <1>6 DEF Reads, fs, HasFile
<1>7. CASE Publishes(p)
  <2>1. taskdir' = taskdir /\ taskdir[i] \in DirIno
    BY <1>1, <1>7 DEF Publishes
  <2>2. c.tino # Nil
    BY <1>1, <1>7 DEF Publishes, Control, Complete
  <2>3. ~HasFile(taskdir[i])
    BY <1>1, <1>7, <2>1, <2>2 DEF Publishes, HasFile
  <2> QED BY <1>3, <1>7, <2>1, <2>3 DEF Publishes, SameCall
<1>8. CASE Done(p)
  <2>1. /\ c.id \in Id /\ pc[p] = "done" /\ ~call'[p].made
        /\ \A d \in DirIno : node'[d].ino = node[d].ino /\ node'[d].bytes = node[d].bytes
        /\ taskdir' = taskdir \/ taskdir' = [taskdir EXCEPT ![c.id] = Nil]
    BY <1>1, <1>8, DoneEffect
  <2>2. taskdir[i] # Nil /\ taskdir'[i] = taskdir[i] /\ ~HasFile(taskdir[i])
    BY <1>1, <2>1 DEF HasFile
  <2>3. PICK q \in Proc : call[q].made /\ call[q].id = i
    BY <1>1, <1>free, <2>2 DEF Claimed
  <2>4. ASSUME q = p PROVE FALSE
    <3> DEFINE swept == IF c.tmp = Nil THEN node ELSE [node EXCEPT ![c.dfd].temps = WithoutTemp(p)]
    <3>1. c.made /\ c.id = i /\ InWrite(p)
      BY <1>1, <2>1, <2>3, <2>4 DEF Local, Progress, InWrite
    <3>2. ~reply[p].committed
      BY <1>1, <2>1, <2>2, <3>1 DEF Local, Published, HasPublished, Stored
    <3>3. c.taskst # Nil /\ taskdir[c.id] = c.taskst /\ c.taskst \in DirIno
      BY <1>1, <2>1, <3>1 DEF Tidy
    <3>4. node[c.taskst].ino = Nil
      BY <2>2, <3>1, <3>3 DEF HasFile
    <3>id. taskdir'[i] = c.taskst
      BY <2>2, <3>1, <3>3
    <3>5. \A t \in node[c.taskst].temps : t = <<p, c.tmp>> /\ c.dfd = c.taskst /\ c.tmp # Nil
      <4> SUFFICES ASSUME NEW t \in node[c.taskst].temps
                   PROVE  t = <<p, c.tmp>> /\ c.dfd = c.taskst /\ c.tmp # Nil
          OBVIOUS
      <4>1. t \in Proc \X Attempt
        BY <1>1, <3>3 DEF Node, TempName
      <4>stays. <<c.taskst, t>> \notin stuck
        BY <1>1, <3>id, <4>1 DEF TempName
      <4>2. call[t[1]].dfd = c.taskst /\ call[t[1]].tmp = t[2] /\ t[1] \in Proc /\ t[2] # Nil
            /\ t = <<t[1], t[2]>>
        BY <1>1, <3>3, <4>stays, <4>1 DEF Owned
      <4>3. t[1] # p => pc[t[1]] = "idle"
        BY <1>1, <3>1, <4>2 DEF WriterAlone
      <4>4. Tidy(t[1])
        BY <4>2 DEF LInv, TInv
      <4>5. t[1] = p
        BY <4>2, <4>3, <4>4 DEF Tidy, Complete
      <4> QED BY <4>2, <4>5
    <3>6. swept[c.taskst].ino = Nil /\ swept[c.taskst].temps = {}
      <4>1. CASE c.tmp = Nil
        BY <3>4, <3>5, <4>1
      <4>2. CASE c.tmp # Nil
        <5>1. c.dfd \in DirIno
          BY <1>1, <4>2 DEF Control
        <5>2. CASE c.dfd = c.taskst
          <6>1. swept[c.taskst].ino = Nil /\ swept[c.taskst].temps = WithoutTemp(p)
            BY <1>1, <3>4, <4>2, <5>1, <5>2 DEF Node
          <6>2. WithoutTemp(p) = {}
            BY <3>5, <5>2 DEF WithoutTemp
          <6> QED BY <6>1, <6>2
        <5>3. CASE c.dfd # c.taskst
          <6>1. swept[c.taskst] = node[c.taskst]
            BY <1>1, <3>3, <4>2, <5>1, <5>3
          <6>2. node[c.taskst].temps = {}
            BY <3>5, <5>3
          <6> QED BY <3>4, <6>1, <6>2
        <5> QED BY <5>2, <5>3
      <4> QED BY <4>1, <4>2
    <3>7. Releases(p, swept)
      BY <3>1, <3>2, <3>3, <3>6 DEF Releases
    <3>8. ~DirStays(p) /\ ~(c.tmp # Nil /\ TempStays(p))
      <4>1. ~DirStays(p)
        BY <3>id DEF DirStays
      <4>2. ASSUME c.tmp # Nil, TempStays(p) PROVE FALSE
        <5>1. <<c.dfd, <<p, c.tmp>>>> \in stuck' /\ c.dfd = c.taskst /\ c.tmp \in Attempt
          BY <1>1, <4>2 DEF TempStays, Tidy, TypeOK, Call
        <5> QED BY <3>id, <5>1 DEF TempName
      <4> QED BY <4>1, <4>2
    <3>9. taskdir' = [taskdir EXCEPT ![c.id] = Nil]
      BY <1>8, <3>7, <3>8 DEF Done
    <3> QED BY <1>1, <3>1, <3>9
  <2> QED BY <1>2, <2>3, <2>4
<1> QED BY <1>1, <1>4, <1>5, <1>6, <1>7, <1>8, Kinds

\* Every step keeps what lies about claimed by somebody.
LEMMA LeftNext ==
  ASSUME NoStat, "crash" \notin Env, LInv, [Next]_vars
  PROVE  LInv'
<1>1. /\ TypeOK /\ AllLock /\ RInv /\ TInv /\ Owned /\ Claimed
      /\ call \in [Proc -> Call] /\ Nil \notin Attempt
  BY ConstantsAssumption DEF LInv, TInv, NoStat, RInv, GInv, IInv, TypeOK, Attempt
<1>2. TInv'
  BY <1>1, TidyNext
<1>3. \A d \in DirIno : \A t \in node[d].temps : t[1] \in Proc /\ t[2] # Nil
  BY <1>1 DEF TypeOK, Node, TempName
\* A process that made nothing and has no temporary may forget its call.
<1>4. ASSUME NEW p \in Proc, UNCHANGED fs, call[p].tmp = Nil, ~call[p].made,
             \A q \in Proc \ {p} : call'[q] = call[q]
      PROVE  LInv'
  <2>1. Owned'
    BY <1>1, <1>3, <1>4 DEF Owned, fs
  <2>2. Claimed'
    BY <1>1, <1>4 DEF Claimed, HasFile, Held, fs
  <2> QED BY <1>2, <2>1, <2>2 DEF LInv
<1>5. ASSUME NEW p \in Proc, pc[p] \in {"idle", "ready"} PROVE call[p].tmp = Nil /\ ~call[p].made
  BY <1>1, <1>5, Facts DEF TInv, Tidy, Complete, Local, Progress
<1>6. ASSUME UNCHANGED <<fs, call>> PROVE LInv'
  BY <1>1, <1>2, <1>6 DEF LInv, Owned, Claimed, Held, HasFile, fs
<1>7. ASSUME NEW p \in Proc, NEW c \in Commands, Open(p, c) PROVE LInv'
  BY <1>6, <1>7 DEF Open
<1>8. ASSUME NEW p \in Proc, Begin(p) PROVE LInv'
  <2>1. pc[p] = "ready" /\ \A q \in Proc \ {p} : call'[q] = call[q]
    BY <1>1, <1>8, BeginEffect
  <2>2. UNCHANGED fs
    BY <1>8 DEF Begin, StartRead, StartReplace, StartCreate, Start
  <2> QED BY <1>4, <1>5, <2>1, <2>2
<1>9. ASSUME NEW p \in Proc, Step(p) PROVE LInv'
  <2>1. KeepsTemps(p) /\ Claimed' /\ \A q \in Proc \ {p} : call'[q] = call[q]
    BY <1>1, <1>9, OwnTemps, ClaimsKept, StepFrame
  <2>2. stuck \subseteq stuck'
    BY <1>1, <1>9, StepStuck DEF RInv, GInv
  <2>3. Owned'
    BY <1>1, <1>3, <2>1, <2>2 DEF Owned, KeepsTemps
  <2> QED BY <1>2, <2>1, <2>3 DEF LInv
<1>10. ASSUME NEW p \in Proc, Close(p) PROVE LInv'
  <2>1. /\ pc[p] = "ready" /\ UNCHANGED fs
        /\ \A q \in Proc \ {p} : call'[q] = call[q]
    BY <1>1, <1>10 DEF Close, Leave
  <2> QED BY <1>4, <1>5, <2>1
<1>11. \A p \in Proc : ~Crash(p)
  BY DEF Crash
<1>12. ~Editor
  BY <1>1 DEF AllLock, Editor, MoveAway, EditInPlace, EditAndRename, PutBack, Edit
<1>13. ASSUME UNCHANGED vars PROVE LInv'
  BY <1>6, <1>13 DEF vars
<1> QED BY <1>7, <1>8, <1>9, <1>10, <1>11, <1>12, <1>13 DEF Next

\* Nothing lies about at the start.
LEMMA LeftInit == Init => LInv
<1> SUFFICES ASSUME Init PROVE LInv
    OBVIOUS
<1>1. TInv
  BY TidyInit
<1>2. /\ \A d \in DirIno : node[d].temps = {}
      /\ \A i \in Id : taskdir[i] # Nil => HasFile(taskdir[i])
  BY InitFiles
<1> QED BY <1>1, <1>2 DEF LInv, Owned, Claimed

\* What is claimed only by commands under way is not left behind.
LEMMA LeftSafe == LInv => NoLeftovers
<1> SUFFICES ASSUME LInv PROVE NoLeftovers
    OBVIOUS
<1>1. LiveDirs \ {Nil} \subseteq DirIno
  BY DEF LInv, TInv, RInv, GInv, IInv, TypeOK, LiveDirs, Call
<1> QED BY <1>1 DEF NoLeftovers, LInv, Owned, Claimed, Held

\* A call that fails and returns leaves a temporary file or a directory without a
\* TASK.md only where the call that was to remove it failed itself: else only the dead
\* do, and an fstat that fails on what was just created.
THEOREM HandledFailuresTidy ==
  NoStat /\ "crash" \notin Env => (Spec => []NoLeftovers)
<1> SUFFICES ASSUME NoStat, "crash" \notin Env PROVE Spec => []NoLeftovers
    OBVIOUS
<1>1. Init => LInv
  BY LeftInit
<1>2. LInv /\ [Next]_vars => LInv'
  BY LeftNext
<1>3. LInv => NoLeftovers
  BY LeftSafe
<1> QED BY <1>1, <1>2, <1>3, PTL DEF Spec

-----------------------------------------------------------------------------
(* The dead do not stop the living.                                          *)

\* A store call has met an I/O error only when it found every name taken.
NoRoom(p) == pc[p] \in InCall /\ reply[p].code = "io_error" =>
  /\ pc[p] = "done" /\ call[p].op # "read"
  /\ \A a \in Attempt : <<p, a>> \in Dir(p).temps

EInv == TInv /\ \A p \in Proc : NoRoom(p)

\* A step fails with an I/O error only where no name was free.
LEMMA OwnError ==
  ASSUME NoStat, "io" \notin Env, EInv, NEW p \in Proc, Step(p)
  PROVE  NoRoom(p)'
<1> DEFINE c == call[p]
<1>1. /\ TypeOK /\ Control(p) /\ Tidy(p) /\ NoRoom(p)
      /\ call \in [Proc -> Call] /\ pc \in [Proc -> PC] /\ reply \in [Proc -> Reply]
  BY Facts DEF EInv, TInv, NoStat
<1> USE DEF At, Goto
\* No step but the last one of a call starts with an error,
<1>2. ASSUME pc[p] \in InCall \ {"done"},
             \/ reply'[p].code = reply[p].code
             \/ reply'[p].code \in {"conflict", "task_not_found"}
      PROVE  NoRoom(p)'
  BY <1>1, <1>2 DEF NoRoom
<1>fail. ASSUME NEW e \in {"conflict", "task_not_found"}, Fail(p, e), pc[p] \in InCall \ {"done"}
         PROVE  NoRoom(p)'
  BY <1>1, <1>2, <1>fail DEF Fail, Reply
<1>failif. ASSUME NEW k, NEW e, FailIf(p, k, e) PROVE k \notin {"io", "stat", "editor"}
  BY <1>failif DEF FailIf, NoStat, AllLock
<1>check. ASSUME NEW b, NEW l, Check(p, b, l), pc[p] \in InCall \ {"done"}
          PROVE  NoRoom(p)'
  BY <1>2, <1>fail, <1>check DEF Check
<1>keep. ASSUME UNCHANGED reply, pc[p] \in InCall \ {"done"} PROVE NoRoom(p)'
  BY <1>2, <1>keep
\* and the one that can fail otherwise found no name.
<1>MakeTemp. CASE MakeTemp(p)
  <2>1. pc[p] = "make_temp" /\ c.op # "read" /\ pc[p] \in InCall \ {"done"}
    BY <1>1, <1>MakeTemp DEF MakeTemp, Control, WriteOnly, InCall, PC
  <2>2. CASE FreeNames(p) = {} /\ Fail(p, "io_error") /\ UNCHANGED <<node, call>>
    <3>1. \A a \in Attempt : <<p, a>> \in Dir(p).temps
      BY <2>2 DEF FreeNames
    <3>2. pc'[p] = "done" /\ call'[p] = c /\ Dir(p)' = Dir(p)
      BY <1>1, <2>2 DEF Fail, Dir
    <3> QED BY <2>1, <3>1, <3>2 DEF NoRoom
  <2> QED BY <1>keep, <1>MakeTemp, <2>1, <2>2 DEF MakeTemp, NoStat
<1>Mkdir. CASE Mkdir(p)
  BY <1>keep, <1>fail, <1>Mkdir DEF Mkdir, InCall, PC
<1>FindDir. CASE FindDir(p)
  BY <1>1, <1>keep, <1>failif, <1>FindDir DEF FindDir, Tidy, InCall, PC
<1>OpenDir. CASE OpenDir(p)
  BY <1>keep, <1>fail, <1>failif, <1>OpenDir DEF OpenDir, InCall, PC
<1>OpenFile. CASE OpenFile(p)
  BY <1>keep, <1>fail, <1>failif, <1>OpenFile DEF OpenFile, InCall, PC
<1>ReadBytes. CASE ReadBytes(p)
  BY <1>keep, <1>fail, <1>failif, <1>ReadBytes DEF ReadBytes, InCall, PC
<1>WriteTemp. CASE WriteTemp(p)
  BY <1>keep, <1>WriteTemp DEF WriteTemp, InCall, PC
<1>Rename. CASE Rename(p)
  <2>1. reply' = [reply EXCEPT ![p].committed = TRUE] /\ pc[p] = "rename"
    BY <1>failif, <1>Rename DEF Rename
  <2>2. reply'[p].code = reply[p].code
    BY <1>1, <2>1 DEF Reply
  <2> QED BY <1>2, <2>1, <2>2 DEF InCall, PC
<1>Sync. CASE Sync(p)
  BY <1>keep, <1>failif, <1>Sync DEF Sync, InCall, PC
<1>Done. CASE Done(p)
  <2>1. pc'[p] = "ready"
    BY <1>1, <1>Done DEF Done
  <2> QED BY <2>1 DEF NoRoom, InCall
<1>rest. CASE Compare(p) \/ Vacant(p) \/ CheckDir(p) \/ CheckFile(p)
              \/ CheckBytes(p) \/ VacantAgain(p)
  <2>1. \E b, l : Check(p, b, l)
    BY <1>rest DEF Compare, Vacant, CheckDir, CheckFile, CheckBytes, VacantAgain
  <2>2. pc[p] \in InCall \ {"done"}
    BY <1>rest DEF Compare, Vacant, CheckDir, CheckFile, CheckBytes, VacantAgain, InCall, PC
  <2> QED BY <1>check, <2>1, <2>2
<1> QED BY <1>Mkdir, <1>FindDir, <1>OpenDir, <1>OpenFile, <1>ReadBytes, <1>MakeTemp,
           <1>WriteTemp, <1>Rename, <1>Sync, <1>Done, <1>rest DEF Step

\* Nobody else's step makes a reply an error.
LEMMA ErrorNext ==
  ASSUME NoStat, "io" \notin Env, EInv, [Next]_vars
  PROVE  EInv'
<1>1. TypeOK /\ AllLock /\ RInv /\ TInv
  BY DEF EInv, TInv, NoStat, RInv, GInv, IInv
<1>2. TInv'
  BY <1>1, TidyNext
<1>3. ASSUME NEW q \in Proc, UNCHANGED node, pc'[q] = pc[q], call'[q] = call[q], reply'[q] = reply[q]
      PROVE  NoRoom(q)'
  BY <1>3 DEF EInv, NoRoom, Dir
<1>4. ASSUME NEW q \in Proc, pc'[q] \notin InCall PROVE NoRoom(q)'
  BY <1>4 DEF NoRoom
<1>5. ASSUME NEW p \in Proc, NEW c \in Commands, Open(p, c), NEW q \in Proc PROVE NoRoom(q)'
  <2>1. /\ pc'[p] \in {"idle", "ready"} /\ UNCHANGED <<node, call>>
        /\ q # p => pc'[q] = pc[q] /\ reply'[q] = reply[q]
    BY <1>1, <1>5 DEF Open, Refuse, TypeOK, fs
  <2> QED BY <1>3, <1>4, <2>1 DEF InCall
<1>6. ASSUME NEW p \in Proc, Begin(p), NEW q \in Proc PROVE NoRoom(q)'
  <2>1. /\ UNCHANGED node
        /\ q # p => pc'[q] = pc[q] /\ call'[q] = call[q] /\ reply'[q] = reply[q]
    BY <1>1, <1>6, BeginEffect
  <2>2. reply'[p].code = Nil
    <3>1. reply' = [reply EXCEPT ![p] = NoReply]
      BY <1>6 DEF Begin, StartRead, StartReplace, StartCreate, Start
    <3> QED BY <1>1, <3>1 DEF NoReply, TypeOK
  <2>3. NoRoom(p)'
    BY <2>2, ConstantsAssumption DEF NoRoom
  <2> QED BY <1>3, <2>1, <2>3
\* A process that failed for want of a name is writing: nobody else takes a step.
<1>7. ASSUME NEW p \in Proc, Step(p), NEW q \in Proc PROVE NoRoom(q)'
  <2>1. CASE q = p
    BY <1>7, <2>1, OwnError
  <2>2. CASE q # p
    <3>1. pc'[q] = pc[q] /\ call'[q] = call[q]
      BY <1>1, <1>7, <2>2, StepFrame
    <3>2. reply'[q] = reply[q]
      BY <1>1, <1>7, <2>2, OthersReply
    <3>3. SUFFICES ASSUME pc[q] \in InCall, reply[q].code = "io_error" PROVE FALSE
      BY <3>1, <3>2 DEF NoRoom
    <3>4. call[q].op \in {"replace", "create"}
      BY <1>1, <3>3, Facts DEF EInv, NoRoom, Control, TypeOK, Call
    <3>5. pc[p] = "idle"
      BY <1>1, <2>2, <3>3, <3>4, Facts DEF InWrite, InCall, WriterAlone
    <3> QED BY <1>7, <3>5 DEF Step, At, Mkdir, FindDir, OpenDir, OpenFile, ReadBytes, Compare,
               Vacant, MakeTemp, WriteTemp, CheckDir, CheckFile, CheckBytes, VacantAgain,
               Rename, Sync, Done
  <2> QED BY <2>1, <2>2
<1>8. ASSUME NEW p \in Proc, Close(p) \/ Crash(p), NEW q \in Proc PROVE NoRoom(q)'
  <2>1. /\ pc'[p] = "idle" /\ UNCHANGED node
        /\ q # p => pc'[q] = pc[q] /\ call'[q] = call[q] /\ reply'[q] = reply[q]
    BY <1>1, <1>8 DEF Close, Crash, Leave, TypeOK, fs
  <2> QED BY <1>3, <1>4, <2>1 DEF InCall
<1>9. ~Editor
  BY <1>1 DEF AllLock, Editor, MoveAway, EditInPlace, EditAndRename, PutBack, Edit
<1>10. ASSUME UNCHANGED vars, NEW q \in Proc PROVE NoRoom(q)'
  BY <1>3, <1>10 DEF vars, fs
<1>11. \A q \in Proc : NoRoom(q)'
  BY <1>5, <1>6, <1>7, <1>8, <1>9, <1>10 DEF Next
<1> QED BY <1>2, <1>11 DEF EInv

\* Nobody has failed at the start.
LEMMA ErrorInit == Init => EInv
<1> SUFFICES ASSUME Init PROVE EInv
    OBVIOUS
<1>1. \A p \in Proc : pc[p] \notin InCall
  BY DEF Init, InCall
<1> QED BY <1>1, TidyInit DEF EInv, NoRoom

\* Only a full directory explains an error.
LEMMA ErrorSafe == EInv => FailsOnlyWhenFull
BY DEF EInv, NoRoom, FailsOnlyWhenFull, InCall, PC

\* However many processes died with their temporaries in the directory, a later command
\* fails only when every name it may try is taken.
THEOREM DeadStopNobody ==
  NoStat /\ "io" \notin Env => (Spec => []FailsOnlyWhenFull)
<1> SUFFICES ASSUME NoStat, "io" \notin Env PROVE Spec => []FailsOnlyWhenFull
    OBVIOUS
<1>1. Init => EInv
  BY ErrorInit
<1>2. EInv /\ [Next]_vars => EInv'
  BY ErrorNext
<1>3. EInv => FailsOnlyWhenFull
  BY ErrorSafe
<1> QED BY <1>1, <1>2, <1>3, PTL DEF Spec
=============================================================================
