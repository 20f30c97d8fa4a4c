-------------------------- MODULE StoreFaultsProofs --------------------------
(***************************************************************************)
(* What StoreProofs proves of failures and of deaths, for the two          *)
(* kinds of trouble MCStoreFaults checks in one run: a behaviour keeps to  *)
(* the one it began with, and the steps of processes that die are those of *)
(* Store with another Env.                                                 *)
(***************************************************************************)
EXTENDS MCStoreFaults, StoreProofs

\* The lemmas of StoreProofs for the dying.
R == INSTANCE StoreProofs WITH Env <- {"crash"}, MaxOps <- 2

\* Everybody locks; calls fail, those of the cleanup too, but no fstat of what was
\* just created.
AllSpellingsLock == "ls-update=" \notin Commands
OnlyCallsFail == AllSpellingsLock /\ Env \subseteq {"io", "cleanup"}

\* When calls fail, each that returns has removed what it made but for what a call of
\* its cleanup failed to remove: any other temporary file or directory without TASK.md
\* is one of a call still under way.
THEOREM FailuresLeaveNothing == OnlyCallsFail => (TroubledSpec => []HandledLeaveNothing)
<1> SUFFICES ASSUME OnlyCallsFail PROVE TroubledSpec => []HandledLeaveNothing
    OBVIOUS
<1> DEFINE J == trouble = "calls fail" => LInv
<1>1. NoStat /\ "crash" \notin Env
  BY DEF OnlyCallsFail, AllSpellingsLock, NoStat, AllLock
<1>2. TroubledInit => J
  BY LeftInit DEF TroubledInit
<1>3. J /\ [TroubledNext]_Troubled => J'
  <2> SUFFICES ASSUME J, [TroubledNext]_Troubled, trouble' = "calls fail" PROVE LInv'
      OBVIOUS
  <2>1. trouble = "calls fail" /\ [Next]_vars
    BY DEF TroubledNext, Troubled
  <2> QED BY <1>1, <2>1, LeftNext
<1>4. J => HandledLeaveNothing
  BY LeftSafe DEF HandledLeaveNothing
<1> QED BY <1>2, <1>3, <1>4, PTL DEF TroubledSpec

-----------------------------------------------------------------------------
(* The two instances of Store mean the same.                                 *)

\* They start alike.
LEMMA SameInit == Init => R!Init
BY DEF Init, R!Init, EmptyNode, R!EmptyNode, NoCall, R!NoCall, NotLoaded, R!NotLoaded,
       NoReply, R!NoReply

\* They take the same steps.
LEMMA SameStep == \A p \in Proc : Dying!Step(p) <=> R!Step(p)
<1> SUFFICES ASSUME NEW p \in Proc PROVE Dying!Step(p) <=> R!Step(p)
    OBVIOUS
<1> USE DEF Dying!At, R!At, Dying!Goto, R!Goto, Dying!Fail, R!Fail, Dying!FailIf,
            R!FailIf, Dying!Check, R!Check, Dying!FreeDirs, R!FreeDirs,
            Dying!FreeFiles, R!FreeFiles, Dying!LiveDirs, R!LiveDirs, Dying!Dir,
            R!Dir, Dying!Old, R!Old, Dying!Linked, R!Linked, Dying!ContentIs,
            R!ContentIs, Dying!HasFile, R!HasFile, Dying!FreeNames, R!FreeNames,
            Dying!NoTemp, R!NoTemp, Dying!WithoutTemp, R!WithoutTemp, Dying!Releases,
            R!Releases, Dying!TempStays, R!TempStays, Dying!DirStays, R!DirStays,
            Dying!EmptyNode, R!EmptyNode, Dying!NoCall, R!NoCall,
            Dying!NotLoaded, R!NotLoaded, Dying!Attempt, R!Attempt, Dying!fs, R!fs,
            Dying!env, R!env
<1>Mkdir. Dying!Mkdir(p) <=> R!Mkdir(p)
  BY DEF Dying!Mkdir, R!Mkdir
<1>FindDir. Dying!FindDir(p) <=> R!FindDir(p)
  BY DEF Dying!FindDir, R!FindDir
<1>OpenDir. Dying!OpenDir(p) <=> R!OpenDir(p)
  BY DEF Dying!OpenDir, R!OpenDir
<1>OpenFile. Dying!OpenFile(p) <=> R!OpenFile(p)
  BY DEF Dying!OpenFile, R!OpenFile
<1>ReadBytes. Dying!ReadBytes(p) <=> R!ReadBytes(p)
  BY DEF Dying!ReadBytes, R!ReadBytes
<1>Compare. Dying!Compare(p) <=> R!Compare(p)
  BY DEF Dying!Compare, R!Compare
<1>Vacant. Dying!Vacant(p) <=> R!Vacant(p)
  BY DEF Dying!Vacant, R!Vacant
<1>MakeTemp. Dying!MakeTemp(p) <=> R!MakeTemp(p)
  BY DEF Dying!MakeTemp, R!MakeTemp
<1>WriteTemp. Dying!WriteTemp(p) <=> R!WriteTemp(p)
  BY DEF Dying!WriteTemp, R!WriteTemp
<1>CheckDir. Dying!CheckDir(p) <=> R!CheckDir(p)
  BY DEF Dying!CheckDir, R!CheckDir
<1>CheckFile. Dying!CheckFile(p) <=> R!CheckFile(p)
  BY DEF Dying!CheckFile, R!CheckFile
<1>CheckBytes. Dying!CheckBytes(p) <=> R!CheckBytes(p)
  BY DEF Dying!CheckBytes, R!CheckBytes
<1>VacantAgain. Dying!VacantAgain(p) <=> R!VacantAgain(p)
  BY DEF Dying!VacantAgain, R!VacantAgain
<1>Rename. Dying!Rename(p) <=> R!Rename(p)
  BY DEF Dying!Rename, R!Rename
<1>Sync. Dying!Sync(p) <=> R!Sync(p)
  BY DEF Dying!Sync, R!Sync
<1>Done. Dying!Done(p) <=> R!Done(p)
  BY DEF Dying!Done, R!Done
<1> QED BY <1>Mkdir, <1>FindDir, <1>OpenDir, <1>OpenFile, <1>ReadBytes, <1>Compare,
          <1>Vacant, <1>MakeTemp, <1>WriteTemp, <1>CheckDir, <1>CheckFile,
          <1>CheckBytes, <1>VacantAgain, <1>Rename, <1>Sync, <1>Done
       DEF Dying!Step, R!Step

\* Their next-state relations are the same.
LEMMA SameNext == [Dying!Next]_(Dying!vars) => [R!Next]_(R!vars)
<1>1. \A p \in Proc, c \in Commands : Dying!Open(p, c) <=> R!Open(p, c)
  BY DEF Dying!Open, R!Open, Dying!LockFree, R!LockFree, Dying!Mode, R!Mode,
         Dying!Refuse, R!Refuse, Dying!NoReply, R!NoReply, Dying!fs, R!fs, Dying!env,
         R!env
<1>2. \A p \in Proc : Dying!Begin(p) <=> R!Begin(p)
  BY DEF Dying!Begin, R!Begin, Dying!StartRead, R!StartRead, Dying!StartReplace,
         R!StartReplace, Dying!StartCreate, R!StartCreate, Dying!Start, R!Start,
         Dying!MayReplace, R!MayReplace, Dying!MayCreate, R!MayCreate, Dying!NoCall,
         R!NoCall, Dying!NoReply, R!NoReply, Dying!NotLoaded, R!NotLoaded, Dying!fs,
         R!fs
<1>3. \A p \in Proc : Dying!Leave(p) <=> R!Leave(p)
  BY DEF Dying!Leave, R!Leave, Dying!NoCall, R!NoCall, Dying!NoReply, R!NoReply,
         Dying!NotLoaded, R!NotLoaded, Dying!fs, R!fs
<1>4. ~Dying!Editor
  BY DEF Dying!Editor, Dying!MoveAway, Dying!EditInPlace, Dying!EditAndRename,
         Dying!PutBack, Dying!Edit
<1>5. UNCHANGED Dying!vars => UNCHANGED R!vars
  BY DEF Dying!vars, R!vars, Dying!fs, R!fs, Dying!env, R!env
<1> QED BY <1>1, <1>2, <1>3, <1>4, <1>5, SameStep
       DEF Dying!Next, R!Next, Dying!Close, R!Close, Dying!Crash, R!Crash

\* Whatever names dead processes took, a command that nothing disturbs fails only when
\* none is left.
THEOREM DeadBlockNone == AllSpellingsLock => (TroubledSpec => []DeadBlockNobody)
<1> SUFFICES ASSUME AllSpellingsLock PROVE TroubledSpec => []DeadBlockNobody
    OBVIOUS
<1> DEFINE J == trouble = "processes die" => R!EInv
<1>1. R!NoStat /\ R!ConstantsAssumption
  BY ConstantsAssumption DEF R!NoStat, R!AllLock, R!ConstantsAssumption, AllSpellingsLock,
       AllCommands, R!AllCommands, R!EnvKinds
<1>2. TroubledInit => J
  BY <1>1, SameInit, R!ErrorInit DEF TroubledInit
<1>3. J /\ [TroubledNext]_Troubled => J'
  <2> SUFFICES ASSUME J, [TroubledNext]_Troubled, trouble' = "processes die" PROVE R!EInv'
      OBVIOUS
  <2>1. trouble = "processes die" /\ [Dying!Next]_(Dying!vars)
    BY DEF TroubledNext, Troubled, vars, fs, env, Dying!vars, Dying!fs, Dying!env
  <2> QED BY <1>1, <2>1, SameNext, R!ErrorNext
<1>4. J => DeadBlockNobody
  BY <1>1, R!ErrorSafe DEF DeadBlockNobody, R!FailsOnlyWhenFull, Dying!FailsOnlyWhenFull,
       Attempt, R!Attempt, Dying!Attempt, R!Dir, Dying!Dir
<1> QED BY <1>2, <1>3, <1>4, PTL DEF TroubledSpec
=============================================================================
