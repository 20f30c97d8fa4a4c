----------------------------- MODULE ProjectProofs -----------------------------
(***************************************************************************)
(* What surrounds the tasks keeps its promises for any values of its       *)
(* constants: the build program (Build, Phases), the commands that put     *)
(* files into a project (Setup), the readers without a lock (Reports), and *)
(* the table they count with (HashTable).  Each part has an inductive      *)
(* invariant of its own, made of named conjuncts, one lemma for each group *)
(* of actions, and its theorems last.                                      *)
(***************************************************************************)
EXTENDS MCProject, Sequences, FiniteSetTheorems, WellFoundedInduction, TLAPS

-----------------------------------------------------------------------------
(* Build: there always is a build program, it is up to date when it builds,  *)
(* and so is what it builds.  The three rest on one invariant.               *)

Times == /\ now \in Nat
         /\ source \in [Files -> [version : Nat, time : Nat]]
         /\ \A f \in Files : source[f].time <= now
         /\ pc = "compile" => DOMAIN began.of = Self

\* Where the build program is at every point of its replacement.
Somewhere == /\ NobKept
             /\ pc \in {"check", "rename", "status", "hash", "read app", "compile app"} => nob # None
             /\ pc \in {"read", "compile", "restore"} => old # None

\* Among the sources s at the time n: a source that is not the one a binary was made of
\* was written when its compiler had begun, or later.
Fresh(of, time, s, n) == /\ time \in Nat /\ time <= n
                         /\ \A f \in Self : of[f] = s[f].version \/ s[f].time >= time
Made(b, s, n) == Fresh(b.of, b.began, s, n) /\ b.time \in Nat
Traced == /\ nob # None => Made(nob, source, now)
          /\ old # None => Made(old, source, now)
          /\ pc = "compile" => Fresh(began.of, began.time, source, now)

\* How far an undisturbed build has come.
True(hash) == hash # NoHash => hash = [commit |-> head.commit, dirty |-> ~Clean]
HeaderTrue == header.of = Versions(Embedded) /\ True(header.hash)
Undisturbed == quiet => /\ pc = "hash" => dirty \in {IF Clean THEN "no" ELSE "yes", "unknown"}
                        /\ pc \in {"read app", "compile app"} => HeaderTrue
                        /\ pc = "compile app" => began.of = Versions(Compiled)
                        /\ pc = "ok" => tatr.of = Versions(Embedded \cup Compiled) /\ True(tatr.hash)

BuildInv == Times /\ Somewhere /\ Traced /\ Undisturbed

-----------------------------------------------------------------------------
\* It holds before the first build.
LEMMA InitMeets == Init => BuildInv
<1> SUFFICES ASSUME Init PROVE BuildInv
  OBVIOUS
<1> USE BuildAssumption
<1>1. Times
  BY SMT DEF Init, Times, Files, Unread
<1>2. nob # None
  BY DEF Init, None, Versions
<1>3. Somewhere
  BY <1>2 DEF Init, Somewhere, NobKept
<1>4. Traced
  BY SMT DEF Init, Traced, Made, Fresh, Versions, Files
<1>5. Undisturbed
  BY DEF Init, Undisturbed
<1> QED
  BY <1>1, <1>3, <1>4, <1>5 DEF BuildInv

\* A binary made of the sources is one.
LEMMA MadeIsSome == ASSUME NEW of, NEW b, NEW t, DOMAIN of = Self
                    PROVE  [of |-> of, began |-> b, time |-> t] # None
BY BuildAssumption DEF None

\* No step writes a time of the future into a file or a program.
LEMMA TimesKept == ASSUME BuildInv, [Next]_vars PROVE Times'
<1> USE DEF BuildInv, Times
<1>1. CASE UNCHANGED vars
  BY <1>1 DEF vars, Files
<1>2. CASE Start \/ Bootstrap
  BY <1>2 DEF Start, Bootstrap, Others, Calm
<1>3. CASE Check \/ Rename \/ Compile \/ Restore \/ Status \/ Header \/ ReadApp \/ CompileApp
  BY <1>3 DEF Check, Rename, Compile, Restore, Status, Header, ReadApp, CompileApp, Goes, Others, Calm
<1>4. CASE Read
  BY <1>4 DEF Read, Goes, Others, Calm, Versions
<1>5. CASE Tick
  BY <1>5, SMT DEF Tick
<1>6. ASSUME NEW f \in Files, Edit(f) PROVE Times'
  BY <1>6, SMT DEF Edit
<1>7. CASE Commit \/ Kill
  BY <1>7 DEF Commit, Kill, Others, Calm
<1> QED
  BY <1>1, <1>2, <1>3, <1>4, <1>5, <1>6, <1>7 DEF Next, Works

\* Every step leaves a build program in place or aside.
LEMMA SomewhereKept == ASSUME BuildInv, [Next]_vars PROVE Somewhere'
<1> USE DEF BuildInv, Somewhere, NobKept
<1>1. CASE UNCHANGED vars
  BY <1>1 DEF vars
<1>2. CASE Start
  BY <1>2 DEF Start
<1>3. CASE Bootstrap
  <2>1. DOMAIN Versions(Self) = Self
    BY DEF Versions
  <2>2. nob' # None
    BY <1>3, <2>1, MadeIsSome DEF Bootstrap
  <2> QED
    BY <1>3, <2>2 DEF Bootstrap
<1>4. CASE Check \/ Read \/ Status \/ Header \/ ReadApp \/ CompileApp
  BY <1>4 DEF Check, Read, Status, Header, ReadApp, CompileApp, Goes
<1>5. CASE Rename
  BY <1>5 DEF Rename, Goes, Aside
<1>6. CASE Compile
  <2>1. DOMAIN began.of = Self
    BY <1>6 DEF Compile, Goes, Times
  <2>2. pc' = "check" => nob' # None
    BY <1>6, <2>1, MadeIsSome DEF Compile, Goes
  <2> QED
    BY <1>6, <2>2 DEF Compile, Goes
<1>7. CASE Restore
  BY <1>7 DEF Restore, Goes
<1>8. CASE Tick \/ Commit \/ Kill
  BY <1>8 DEF Tick, Commit, Kill
<1>9. ASSUME NEW f \in Files, Edit(f) PROVE Somewhere'
  BY <1>9 DEF Edit
<1> QED
  BY <1>1, <1>2, <1>3, <1>4, <1>5, <1>6, <1>7, <1>8, <1>9 DEF Next, Works

\* What was made in time stays so: time goes on, and an edit is later.
LEMMA FreshStays ==
  ASSUME BuildInv, NEW of, NEW time, Fresh(of, time, source, now),
         \/ UNCHANGED <<now, source>>
         \/ now' = now + 1 /\ UNCHANGED source
         \/ \E f \in Files : Edit(f)
  PROVE  Fresh(of, time, source', now')
<1> USE DEF BuildInv, Times, Fresh
<1>1. CASE UNCHANGED <<now, source>>
  BY <1>1
<1>2. CASE now' = now + 1 /\ UNCHANGED source
  BY <1>2, SMT
<1>3. ASSUME NEW f \in Files, Edit(f) PROVE Fresh(of, time, source', now')
  <2>1. \A g \in Self : source'[g] = IF g = f THEN [version |-> source[f].version + 1, time |-> now] ELSE source[g]
    BY <1>3 DEF Edit, Files
  <2> QED
    BY <1>3, <2>1, SMT DEF Edit
<1> QED
  BY <1>1, <1>2, <1>3

\* And what is made of the sources now, is.
LEMMA FreshNow == BuildInv => Fresh(Versions(Self), now, source, now)
BY SMT DEF BuildInv, Times, Fresh, Versions, Files

\* The clock ticks, one file is edited, or neither.
LEMMA Moves == ASSUME [Next]_vars
               PROVE  \/ UNCHANGED <<now, source>>
                      \/ now' = now + 1 /\ UNCHANGED source
                      \/ \E f \in Files : Edit(f)
BY DEF Next, vars, Works, Start, Bootstrap, Check, Rename, Read, Compile, Restore, Status, Header, ReadApp,
       CompileApp, Tick, Commit, Kill, Others, Calm

\* What is there stays traceable to versions the sources have had.
LEMMA TracedKept == ASSUME BuildInv, [Next]_vars PROVE Traced'
<1> USE DEF BuildInv, Traced
<1>1. \A of, time : Fresh(of, time, source, now) => Fresh(of, time, source', now')
  BY Moves, FreshStays
<1>2. \A b : Made(b, source, now) => Made(b, source', now')
  BY <1>1 DEF Made
<1>3. CASE UNCHANGED vars
  BY <1>1, <1>2, <1>3 DEF vars
<1>4. CASE Start
  BY <1>2, <1>4 DEF Start
<1>5. CASE Bootstrap
  <2>1. Made(nob', source', now')
    BY <1>5, FreshNow DEF Bootstrap, Calm, Others, Made, Times
  <2> QED
    BY <1>2, <1>5, <2>1 DEF Bootstrap
<1>6. CASE Check \/ Status \/ Header \/ ReadApp \/ CompileApp
  BY <1>2, <1>6 DEF Check, Status, Header, ReadApp, CompileApp, Goes
<1>7. CASE Rename
  BY <1>2, <1>7 DEF Rename, Goes, Aside, Gone
<1>8. CASE Read
  BY <1>2, <1>8, FreshNow DEF Read, Goes, Calm, Others
<1>9. CASE Compile
  <2>1. Fresh(began.of, began.time, source, now) /\ now \in Nat
    BY <1>9 DEF Compile, Goes, Times
  <2>2. pc' = "check" => Made(nob', source', now')
    BY <1>1, <1>9, <2>1 DEF Compile, Goes, Made, Calm, Others
  <2> QED
    BY <1>2, <1>9, <2>2 DEF Compile, Goes
<1>10. CASE Restore
  BY <1>2, <1>10 DEF Restore, Goes
<1>11. CASE Tick \/ Commit \/ Kill
  BY <1>1, <1>2, <1>11 DEF Tick, Commit, Kill
<1>12. ASSUME NEW f \in Files, Edit(f) PROVE Traced'
  BY <1>1, <1>2, <1>12 DEF Edit
<1> QED
  BY <1>3, <1>4, <1>5, <1>6, <1>7, <1>8, <1>9, <1>10, <1>11, <1>12 DEF Next, Works

\* A build during which nothing is edited or committed has read what is there.
LEMMA UndisturbedKept == ASSUME BuildInv, [Next]_vars PROVE Undisturbed'
<1> USE DEF BuildInv, Undisturbed
<1> DEFINE Same == UNCHANGED <<source, head>>
<1>1. ASSUME Same PROVE /\ Clean' = Clean /\ \A X : Versions(X)' = Versions(X)
                        /\ \A h : True(h) => True(h)'
  BY <1>1 DEF Clean, Versions, True
<1>2. CASE UNCHANGED vars
  BY <1>2 DEF vars, HeaderTrue, True, Clean, Versions, Files
<1>3. CASE Start
  BY <1>3 DEF Start
<1>4. CASE Bootstrap
  BY <1>4 DEF Bootstrap
<1>5. CASE Check \/ Rename \/ Read \/ Compile \/ Restore
  BY <1>5 DEF Check, Rename, Read, Compile, Restore, Goes
<1>6. CASE Status
  BY <1>1, <1>6 DEF Status, Goes, Calm, Others
<1>7. CASE Header
  <2>1. ASSUME quiet, pc' = "read app" PROVE HeaderTrue'
    <3>. PICK h \in Hashes : pc = "hash" /\ header' = [of |-> Versions(Embedded), hash |-> h]
      BY <1>7, <2>1, Zenon DEF Header, Goes
    <3>1. pc = "hash" /\ header'.of = Versions(Embedded) /\ header'.hash \in Hashes
      OBVIOUS
    <3>0. dirty \in {IF Clean THEN "no" ELSE "yes", "unknown"}
      BY <2>1, <3>1
    <3>2. ASSUME header'.hash # NoHash PROVE header'.hash = [commit |-> head.commit, dirty |-> ~Clean]
      <4>1. dirty # "unknown" /\ header'.hash = [commit |-> head.commit, dirty |-> Marked]
        BY <3>1, <3>2 DEF Hashes
      <4>2. Marked = ~Clean
        BY <3>0, <4>1 DEF Marked
      <4> QED
        BY <4>1, <4>2
    <3>3. Same
      BY <1>7 DEF Header, Calm, Others
    <3>4. True(header'.hash)
      BY <3>2 DEF True
    <3> QED
      BY <1>1, <3>1, <3>3, <3>4 DEF HeaderTrue, True
  <2> QED
    BY <1>7, <2>1 DEF Header, Goes, Calm
<1>8. CASE ReadApp
  BY <1>1, <1>8 DEF ReadApp, Goes, Calm, Others, HeaderTrue
<1>9. CASE CompileApp
  <2>1. ASSUME quiet, pc' = "ok" PROVE tatr'.of = Versions(Embedded \cup Compiled)' /\ True(tatr.hash)'
    <3>1. /\ header.of = Versions(Embedded) /\ began.of = Versions(Compiled) /\ True(header.hash)
          /\ tatr' = Rebuilt
      BY <1>9, <2>1 DEF CompileApp, Goes, HeaderTrue
    <3>2. Rebuilt.of = Versions(Embedded \cup Compiled) /\ Rebuilt.hash = header.hash
      BY <3>1 DEF Rebuilt, Versions
    <3>3. Same
      BY <1>9 DEF CompileApp, Calm, Others
    <3> QED
      BY <1>1, <3>1, <3>2, <3>3
  <2> QED
    BY <1>9, <2>1 DEF CompileApp, Goes, Calm
<1>10. CASE Tick
  BY <1>10 DEF Tick, HeaderTrue, True, Clean, Versions, Files
<1>11. CASE Commit
  BY <1>11 DEF Commit
<1>12. CASE Kill
  BY <1>12 DEF Kill
<1>13. ASSUME NEW f \in Files, Edit(f) PROVE Undisturbed'
  BY <1>13 DEF Edit
<1> QED
  BY <1>2, <1>3, <1>4, <1>5, <1>6, <1>7, <1>8, <1>9, <1>10, <1>11, <1>12, <1>13 DEF Next, Works

\* The invariant holds of every state of every build.
THEOREM BuildInvariant == Spec => []BuildInv
<1>1. BuildInv /\ [Next]_vars => BuildInv'
  BY TimesKept, SomewhereKept, TracedKept, UndisturbedKept DEF BuildInv
<1> QED
  BY <1>1, InitMeets, PTL DEF Spec

-----------------------------------------------------------------------------
\* However often the build is killed or the compiler fails, there is a build program, in its
\* place or put aside (nob__go_rebuild_urself).
THEOREM AlwaysANob == Spec => []NobKept
<1>1. BuildInv => NobKept
  BY DEF BuildInv, Somewhere
<1> QED
  BY <1>1, BuildInvariant, PTL

\* A build is done by a build program made of its sources as they are, but for edits of the
\* time it was compiled in.
THEOREM BuildsItselfFirst == Spec => NobCurrent
<1> DEFINE Current == \A f \in Self : nob.of[f] = source[f].version \/ source[f].time \in nob.began .. nob.time
<1>1. ASSUME BuildInv, [Next]_vars, Decides PROVE Current
  <2>1. Check /\ ~NeedsRebuild
    BY <1>1 DEF Decides, Next, vars, Works, Start, Bootstrap, Check, Rename, Read, Compile, Restore, Status,
                Header, ReadApp, CompileApp, Tick, Edit, Commit, Kill, Goes
  <2>2. Made(nob, source, now)
    BY <1>1, <2>1 DEF BuildInv, Somewhere, Traced, Decides
  <2>3. \A f \in Self : source[f].time \in Nat
    BY <1>1 DEF BuildInv, Times, Files
  <2>4. nob.began \in Nat /\ nob.time \in Nat
    BY <2>2 DEF Made, Fresh
  <2> SUFFICES ASSUME NEW f \in Self, source[f].time >= nob.began PROVE source[f].time \in nob.began .. nob.time
    BY <2>2 DEF Made, Fresh
  <2>5. source[f].time <= nob.time
    BY <2>1, <2>3, <2>4 DEF NeedsRebuild
  <2> QED
    BY <2>3, <2>4, <2>5
<1> QED
  BY <1>1, BuildInvariant, PTL DEF Spec, NobCurrent

\* A build that nobody disturbs makes tatr of the files as they are, with a true version.
THEOREM BuildsWhatIsThere == Spec => []TatrCurrent
<1>1. BuildInv => TatrCurrent
  BY DEF BuildInv, Undisturbed, TatrCurrent, True
<1> QED
  BY <1>1, BuildInvariant, PTL
-----------------------------------------------------------------------------
(* Setup.                                                                    *)

SeenType == [target : BOOLEAN, ignore : BOOLEAN, ignored : BOOLEAN, newline : BOOLEAN, bare : BOOLEAN,
             dir : 1 .. 4]

\* What is in a directory, or behind a link, has it, and what is no file has no lines.
SetupTypes ==
  /\ dirs \in [1 .. 3 -> S!Places] /\ target \in [S!Setups -> S!Contents] /\ ignore \in S!Ignores
  /\ \A k \in 2 .. 3 : dirs[k] # "none" => dirs[k - 1] # "none"
  /\ target["skill"] # "none" => dirs[3] # "none"
  /\ ignore.kind # "file" => ignore.lines = <<>>
  /\ seen \in SeenType

\* Which command is where.
Checking == {"git", "nvim", "dirs", "target", "ignore"}
Installing == {"mkdir", "write", "fill", "append"}
Stages == /\ stage \in Checking \cup Installing => command \in S!Setups
          /\ stage \in {"tasks", "look", "readme", "text"} => command = "init"
          /\ stage = "mkdir" => command = "skill" /\ seen.dir \in 1 .. 3
          /\ stage = "dirs" => command = "skill"
          /\ stage \in Checking => seen.dir = 1

\* What a command that is not disturbed has seen is still so.
SeenIsSo ==
  /\ stage \in Checking => S!files = before
  /\ stage \in {"ignore", "mkdir", "write"} =>
       (seen.target <=> target[command] = "template") /\ target[command] \in {"none", "template"}
  /\ stage = "fill" => target[command] = "part"
  /\ stage = "append" => target[command] = "template"
  /\ stage \in Installing => /\ seen.ignored <=> S!Ignored(command)
                             /\ seen.newline <=> S!NeedsNewline
  /\ stage = "readme" => ~(tasks = "dir" /\ readme # "none")
  /\ command \in S!Setups => /\ S!WasInstalled(command) => S!files = before
                             /\ reply = "ok" => S!Installed(command)
                             /\ reply \in S!Refusals => stage = "idle" /\ S!files = before
                             /\ reply = "ok" => stage = "idle"

SetupInv == SetupTypes /\ Stages /\ (alone => SeenIsSo)

\* At the beginning.
LEMMA SetupInit == S!Init => SetupInv
<1> SUFFICES ASSUME S!Init PROVE SetupInv
  OBVIOUS
<1>1. SetupTypes
  BY PartsAssumption DEF SetupTypes, SeenType, S!Init, S!SetupAssumption, S!Setups, S!Unknown
<1>2. Stages
  BY DEF Stages, S!Init, Checking, Installing
<1>3. SeenIsSo
  BY DEF SeenIsSo, S!Init, Checking, Installing, S!Setups
<1> QED BY <1>1, <1>2, <1>3 DEF SetupInv

\* A step that reads files, and is not the last one.
LEMMA SetupStart ==
  ASSUME SetupInv, NEW c \in Commands, S!Start(c)
  PROVE  SetupInv'
<1>1. SetupTypes'
  <2>1. UNCHANGED <<dirs, target, ignore>>
    BY DEF S!Start, S!files
  <2>2. PICK b \in BOOLEAN : seen' = [S!Unknown EXCEPT !.bare = b]
    BY DEF S!Start
  <2>3. seen' = [target |-> FALSE, ignore |-> FALSE, ignored |-> FALSE, newline |-> FALSE, bare |-> b, dir |-> 1]
    BY <2>2 DEF S!Unknown
  <2>4. seen' \in SeenType
    BY <2>3 DEF SeenType
  <2> QED BY <2>1, <2>4 DEF SetupInv, SetupTypes
<1>2. Stages'
  BY PartsAssumption DEF S!Start, Stages, Checking, Installing, S!SetupAssumption, S!Setups, S!Unknown
<1>3. SeenIsSo'
  BY DEF S!Start, SeenIsSo, Checking, Installing, S!Setups, S!files, S!Refusals, S!WasInstalled
<1> QED BY <1>1, <1>2, <1>3 DEF SetupInv

\* The checks change nothing.
LEMMA SetupChecks ==
  ASSUME SetupInv, S!Git \/ S!Nvim \/ S!CheckDirs \/ S!CheckTarget \/ S!CheckIgnore
  PROVE  SetupInv'
<1> USE DEF SetupInv, S!Goes, S!Replies, S!Reads, S!Stay
<1>1. SetupTypes'
  <2>1. UNCHANGED <<dirs, target, ignore>>
    BY DEF S!Git, S!Nvim, S!CheckDirs, S!CheckTarget, S!CheckIgnore, S!files
  <2>2. seen' \in SeenType
    <3>1. CASE UNCHANGED seen
      BY <3>1 DEF SetupTypes
    <3>2. CASE \E t \in BOOLEAN : seen' = [seen EXCEPT !.target = t]
      BY <3>2 DEF SetupTypes, SeenType
    <3>3. CASE \E t, u, v \in BOOLEAN : seen' = [seen EXCEPT !.ignore = t, !.ignored = u, !.newline = v]
      BY <3>3 DEF SetupTypes, SeenType
    <3>4. CASE S!CheckTarget
      <4>1. (target[command] # "none") \in BOOLEAN
        OBVIOUS
      <4> QED BY <3>2, <3>4, <4>1 DEF S!CheckTarget
    <3>5. CASE S!CheckIgnore
      <4>1. /\ (ignore.kind = "file") \in BOOLEAN /\ S!Ignored(command) \in BOOLEAN
            /\ S!NeedsNewline \in BOOLEAN
        BY DEF S!Ignored, S!NeedsNewline
      <4> QED BY <3>3, <3>5, <4>1 DEF S!CheckIgnore
    <3> QED BY <3>1, <3>4, <3>5 DEF S!Git, S!Nvim, S!CheckDirs
  <2> QED BY <2>1, <2>2 DEF SetupTypes
<1>2. Stages'
  <2>1. UNCHANGED command /\ seen'.dir = seen.dir
    BY DEF S!Git, S!Nvim, S!CheckDirs, S!CheckTarget, S!CheckIgnore, SetupTypes, SeenType
  <2>2. /\ stage \in Checking
        /\ stage' \in {"idle", "nvim", "dirs", "target", "ignore", "mkdir", "write"}
        /\ stage' \in {"dirs", "mkdir"} => command \notin S!Setups \ {"skill"}
    BY DEF S!Git, S!Nvim, S!CheckDirs, S!CheckTarget, S!CheckIgnore, Checking, S!Setups
  <2> QED BY <2>1, <2>2 DEF Stages, Checking, Installing, S!Setups
<1>3. ASSUME alone PROVE SeenIsSo'
  <2>1. CASE S!Git \/ S!Nvim \/ S!CheckDirs
    BY <1>3, <2>1 DEF S!Git, S!Nvim, S!CheckDirs, Stages, SeenIsSo, Checking, Installing, S!files,
       S!WasInstalled, S!Installed, S!Ignored, S!Refusals
  <2>2. CASE S!CheckTarget
    <3>1. UNCHANGED <<dirs, target, ignore, tasks, readme, command, before>>
      BY <2>2 DEF S!CheckTarget, S!files
    <3>2. S!WasInstalled(command)' <=> S!WasInstalled(command)
      BY <3>1 DEF S!WasInstalled
    <3>3. stage = "target" /\ seen'.target = (target[command] # "none") /\ command \in S!Setups
      BY <2>2 DEF S!CheckTarget, SetupTypes, SeenType, Stages, Checking
    <3>4. \/ reply' \in {"unsafe", "io", "conflict"} /\ stage' = "idle"
          \/ reply' = reply /\ stage' = "ignore" /\ target[command] \in {"none", "template"}
      BY <2>2, <3>3 DEF S!CheckTarget, S!Conflict, SetupTypes, S!Contents
    <3> QED BY <1>3, <3>1, <3>2, <3>3, <3>4 DEF SeenIsSo, Checking, Installing, S!files, S!Refusals
  <2>3. CASE S!CheckIgnore
    <3>1. UNCHANGED <<dirs, target, ignore, tasks, readme, command, before>>
      BY <2>3 DEF S!CheckIgnore, S!files
    <3>2. /\ S!Ignored(command)' <=> S!Ignored(command)
          /\ S!NeedsNewline' <=> S!NeedsNewline
          /\ S!WasInstalled(command)' <=> S!WasInstalled(command)
          /\ S!files' = S!files
      BY <3>1 DEF S!Ignored, S!NeedsNewline, S!WasInstalled, S!files
    <3>3. /\ seen'.ignored <=> S!Ignored(command)
          /\ seen'.newline <=> S!NeedsNewline
          /\ seen'.target = seen.target
      BY <2>3 DEF S!CheckIgnore, SetupTypes
    <3>4. /\ reply' = reply \/ (reply' \in {"unsafe", "io"} /\ stage' = "idle")
          /\ stage = "ignore" /\ stage' \in {"idle", "mkdir", "write"}
      <4>1. stage = "ignore" /\ (S!Replies("unsafe") \/ S!Replies("io") \/ S!Goes(IF command = "skill" THEN "mkdir" ELSE "write"))
        BY <2>3 DEF S!CheckIgnore
      <4> QED BY <4>1
    <3> QED BY <1>3, <3>1, <3>2, <3>3, <3>4 DEF SeenIsSo, Checking, Installing, S!Refusals, Stages, S!Setups
  <2> QED BY <2>1, <2>2, <2>3
<1>4. UNCHANGED alone
  BY DEF S!Git, S!Nvim, S!CheckDirs, S!CheckTarget, S!CheckIgnore
<1> QED BY <1>1, <1>2, <1>3, <1>4

\* A directory is made, and what was there stays.
LEMMA SetupMkdir ==
  ASSUME SetupInv, S!Mkdir
  PROVE  SetupInv'
<1> USE DEF SetupInv, S!Goes, S!Replies, S!Stay
<1>1. /\ UNCHANGED <<target, ignore, tasks, readme, command, before, alone>>
      /\ stage = "mkdir" /\ command = "skill" /\ seen.dir \in 1 .. 3
  BY DEF S!Mkdir, Stages
<1>2. /\ seen' \in SeenType
      /\ \A f \in {"target", "ignored", "newline", "ignore"} : seen'[f] = seen[f]
      /\ stage' = "mkdir" => seen'.dir \in 1 .. 3
  BY <1>1 DEF S!Mkdir, SetupTypes, SeenType, S!AfterMkdir
<1>3. /\ dirs' \in [1 .. 3 -> S!Places]
      /\ \A k \in 1 .. 3 : dirs'[k] = dirs[k] \/ dirs'[k] = "dir"
      /\ \A k \in 2 .. 3 : dirs'[k] # "none" => dirs'[k - 1] # "none"
  <2>1. CASE dirs' = dirs
    BY <2>1 DEF SetupTypes
  <2>2. CASE dirs' = [dirs EXCEPT ![seen.dir] = "dir"] /\ (seen.dir > 1 => dirs[seen.dir - 1] = "dir")
    BY <1>1, <2>2 DEF SetupTypes, S!Places
  <2> QED BY <2>1, <2>2 DEF S!Mkdir
<1>4. SetupTypes'
  BY <1>1, <1>2, <1>3 DEF SetupTypes
<1>5. /\ (stage' \in {"mkdir", "write"} /\ reply' = reply) \/ (stage' = "idle" /\ reply' = "io")
      /\ dirs' # dirs => dirs[seen.dir] = "none"
  BY DEF S!Mkdir, S!AfterMkdir
<1>6. Stages'
  BY <1>1, <1>2, <1>5 DEF Stages, Checking, Installing
<1>7. ASSUME alone PROVE SeenIsSo'
  <2>1. /\ S!Ignored(command)' <=> S!Ignored(command)
        /\ S!NeedsNewline' <=> S!NeedsNewline
        /\ S!WasInstalled(command)' <=> S!WasInstalled(command)
    BY <1>1 DEF S!Ignored, S!NeedsNewline, S!WasInstalled
  <2>2. dirs' = dirs \/ ~(command \in S!Setups /\ S!WasInstalled(command))
    <3> SUFFICES ASSUME command \in S!Setups, S!WasInstalled(command) PROVE dirs' = dirs
      OBVIOUS
    <3>1. S!files = before
      BY <1>7 DEF SeenIsSo
    <3>2. command = "skill" /\ target["skill"] = "template"
      BY <1>1, <3>1 DEF Stages, S!WasInstalled, S!files
    <3>3. dirs[1] # "none" /\ dirs[2] # "none" /\ dirs[3] # "none"
      BY <3>2 DEF SetupTypes
    <3> QED BY <1>5, <1>1, <3>3
  <2> QED BY <1>1, <1>2, <1>5, <1>7, <2>1, <2>2 DEF SeenIsSo, Checking, Installing, S!files, S!Refusals
<1> QED BY <1>1, <1>4, <1>6, <1>7

\* A step that touches no directory and leaves the target as it is, or makes it new.
LEMMA SetupCreate ==
  ASSUME SetupInv, S!Create \/ S!Fill
  PROVE  SetupInv'
<1> USE DEF SetupInv, S!Goes, S!Replies, S!Stay
<1>1. /\ UNCHANGED <<dirs, ignore, tasks, readme, seen, command, before, alone>>
      /\ stage \in {"write", "fill"} /\ command \in S!Setups
  BY DEF S!Create, S!Fill, Stages, Checking, Installing
<1>2. \/ target' = target
      \/ target[command] = "none" /\ target' = [target EXCEPT ![command] = "part"] /\ S!Reachable(command)
      \/ target[command] = "part" /\ target' = [target EXCEPT ![command] = "template"]
  BY <1>1 DEF S!Create, S!Fill, S!Free, SetupTypes, S!Setups
<1>3. SetupTypes'
  BY <1>1, <1>2 DEF SetupTypes, S!Contents, S!Setups, S!Reachable
<1>4. stage' \in {"fill", "append", "idle"}
  BY DEF S!Create, S!Fill
<1>5. Stages'
  BY <1>1, <1>4 DEF Stages, Checking, Installing
<1>6. ASSUME alone PROVE SeenIsSo'
  <2>1. /\ S!Ignored(command)' <=> S!Ignored(command)
        /\ S!NeedsNewline' <=> S!NeedsNewline
        /\ S!WasInstalled(command)' <=> S!WasInstalled(command)
    BY <1>1 DEF S!Ignored, S!NeedsNewline, S!WasInstalled
  <2>2. /\ stage' = "fill" => target'[command] = "part"
        /\ stage' = "append" => target'[command] = "template"
        /\ (reply' = reply /\ stage' # "idle") \/ (reply' = "io" /\ stage' = "idle")
    BY <1>1, <1>6 DEF S!Create, S!Fill, S!Free, SeenIsSo, SetupTypes
  <2>3. target' = target \/ ~S!WasInstalled(command)
    <3> SUFFICES ASSUME S!WasInstalled(command) PROVE target' = target
      OBVIOUS
    <3>1. S!files = before /\ target[command] = "template"
      BY <1>1, <1>6 DEF SeenIsSo, S!WasInstalled, S!files
    <3> QED BY <1>2, <3>1
  <2>4. reply # "ok" /\ reply \notin S!Refusals
    BY <1>1, <1>6 DEF SeenIsSo
  <2> QED BY <1>1, <1>4, <1>6, <2>1, <2>2, <2>3, <2>4 DEF SeenIsSo, Checking, Installing, S!files, S!Refusals
<1> QED BY <1>1, <1>3, <1>5, <1>6

\* What the entry does to .gitignore: the lines that are whole stay, and all do if it was
\* seen whether the last one is ended.
LEMMA EntryWritten ==
  ASSUME SetupInv, stage = "append", NEW cut \in S!Cuts
  PROVE  LET new == S!Written(cut) IN
         /\ new \in S!Ignores /\ new.kind = "file"
         /\ S!IsPrefix(S!Whole, new.lines)
         /\ alone /\ cut = "all" => \E n \in DOMAIN new.lines : S!Trimmed(new.lines[n]) = S!Entry(command)
<1> DEFINE E == S!Entry(command)
           long == Len(ignore.lines)
<1>1. /\ ignore \in S!Ignores /\ command \in S!Setups
      /\ ignore.lines \in Seq(S!Texts) /\ long \in Nat /\ ignore.ended \in BOOLEAN
  BY DEF SetupInv, SetupTypes, S!Ignores, Stages, Installing
<1>2. E \in S!Texts /\ "half" \in S!Texts /\ E \notin DOMAIN Padded
  BY <1>1, PartsAssumption DEF S!Texts, S!Setups, S!SetupAssumption, S!Entry
<1>3. S!Trimmed(E) = E
  BY <1>2 DEF S!Trimmed
<1>4. ASSUME NEW l \in S!Texts
      PROVE  /\ Append(ignore.lines, l) \in Seq(S!Texts)
             /\ S!IsPrefix(ignore.lines, Append(ignore.lines, l))
             /\ Append(ignore.lines, l)[long + 1] = l /\ long + 1 \in DOMAIN Append(ignore.lines, l)
  BY <1>1 DEF S!IsPrefix
<1>5. S!IsPrefix(ignore.lines, ignore.lines)
  BY <1>1 DEF S!IsPrefix
<1>6. ASSUME ignore.lines # <<>>, NEW l \in S!Texts
      PROVE  LET front == S!Front(ignore.lines) IN
             /\ front \o <<l>> \in Seq(S!Texts)
             /\ S!IsPrefix(front, ignore.lines) /\ S!IsPrefix(front, front \o <<l>>)
             /\ S!IsPrefix(front, Append(ignore.lines, l))
  <2> DEFINE front == S!Front(ignore.lines)
  <2>1. front \in Seq(S!Texts) /\ Len(front) = long - 1 /\ \A n \in 1 .. long - 1 : front[n] = ignore.lines[n]
    BY <1>1, <1>6 DEF S!Front
  <2> HIDE DEF front
  <2> DEFINE joined == front \o <<l>>
             longer == Append(ignore.lines, l)
  <2>2. /\ joined \in Seq(S!Texts) /\ Len(joined) = long
        /\ \A n \in 1 .. long - 1 : joined[n] = front[n]
    BY <2>1, <1>6
  <2>3. /\ longer \in Seq(S!Texts) /\ Len(longer) = long + 1
        /\ \A n \in 1 .. long - 1 : longer[n] = front[n]
    <3>1. \A n \in 1 .. long : longer[n] = ignore.lines[n]
      BY <1>1, <1>6
    <3>2. \A n \in 1 .. long - 1 : n \in 1 .. long
      BY <1>1
    <3> QED BY <1>1, <1>6, <2>1, <3>1, <3>2
  <2>4. long >= 1
    BY <1>1, <1>6
  <2>5. ASSUME NEW t \in Seq(S!Texts), Len(t) >= long - 1, \A n \in 1 .. long - 1 : t[n] = front[n]
        PROVE  S!IsPrefix(front, t)
    BY <1>1, <2>1, <2>4, <2>5 DEF S!IsPrefix
  <2> HIDE DEF joined, longer, long
  <2>6. long >= long - 1 /\ long + 1 >= long - 1
    BY <1>1
  <2>7. S!IsPrefix(front, ignore.lines)
    BY <1>1, <2>1, <2>5, <2>6 DEF long
  <2>8. S!IsPrefix(front, joined)
    BY <2>2, <2>5, <2>6
  <2>9. S!IsPrefix(front, longer)
    BY <2>3, <2>5, <2>6
  <2> QED BY <2>2, <2>7, <2>8, <2>9 DEF front, joined, longer
<1>7. CASE cut \in {"none", "newline"}
  <2>1. /\ S!Written(cut).lines = ignore.lines /\ S!Written(cut).kind = "file"
        /\ S!Written(cut) \in S!Ignores
    <3>1. CASE cut = "none"
      BY <1>1, <3>1 DEF S!Written, S!Ignores
    <3>2. CASE cut = "newline"
      <4>1. (ignore.ended \/ seen.newline) \in BOOLEAN
        OBVIOUS
      <4>2. S!Written(cut) = [ignore EXCEPT !.kind = "file", !.ended = ignore.ended \/ seen.newline]
        BY <3>2 DEF S!Written
      <4> QED BY <1>1, <4>1, <4>2 DEF S!Ignores
    <3> QED BY <1>7, <3>1, <3>2
  <2>2. S!IsPrefix(S!Whole, ignore.lines)
    BY <1>2, <1>5, <1>6 DEF S!Whole
  <2> QED BY <1>7, <2>1, <2>2
<1>8. CASE cut \notin {"none", "newline"}
  <2>1. PICK l \in {"half", E} :
          /\ S!Written(cut) = [kind |-> "file", lines |-> S!Put(l), ended |-> cut = "all"]
          /\ cut = "all" => l = E
    BY <1>8 DEF S!Written, S!Cuts
  <2>2. l \in S!Texts
    BY <1>2
  <2>3. CASE ~ignore.ended /\ ~seen.newline /\ ignore.lines # <<>>
    <3>1. S!Put(l) = S!Front(ignore.lines) \o <<"half">>
      BY <2>3 DEF S!Put
    <3>2. ~alone
      BY <2>3 DEF SetupInv, SeenIsSo, Installing, S!NeedsNewline
    <3>3. S!Put(l) \in Seq(S!Texts) /\ S!IsPrefix(S!Whole, S!Put(l))
      BY <2>3, <3>1, <3>2, <1>2, <1>6 DEF S!Whole
    <3> QED BY <2>1, <3>2, <3>3 DEF S!Ignores
  <2>4. CASE ~(~ignore.ended /\ ~seen.newline /\ ignore.lines # <<>>)
    <3>1. S!Put(l) = Append(ignore.lines, l)
      BY <2>4 DEF S!Put
    <3>2. S!Put(l) \in Seq(S!Texts) /\ S!IsPrefix(S!Whole, S!Put(l))
      BY <2>2, <3>1, <1>4, <1>6 DEF S!Whole
    <3>3. cut = "all" => \E n \in DOMAIN S!Put(l) : S!Trimmed(S!Put(l)[n]) = E
      BY <2>1, <2>2, <3>1, <1>3, <1>4
    <3> QED BY <2>1, <3>2, <3>3 DEF S!Ignores
  <2> QED BY <2>3, <2>4
<1> QED BY <1>7, <1>8

\* The entry comes last, and what was there stays.
LEMMA SetupAppend ==
  ASSUME SetupInv, S!AppendEntry
  PROVE  SetupInv'
<1> USE DEF S!Replies, S!Stay
<1>1. /\ UNCHANGED <<dirs, target, tasks, readme, seen, command, before, alone>>
      /\ stage = "append" /\ stage' = "idle" /\ command \in S!Setups
      /\ reply' \in {"ok", "io"}
  BY DEF SetupInv, S!AppendEntry, Stages, Checking, Installing
<1>2. \/ ignore' = ignore /\ (reply' = "ok" => seen.ignored)
      \/ \E cut \in S!Cuts : /\ ignore' = S!Written(cut) /\ ~seen.ignored
                             /\ reply' = "ok" => cut = "all"
  BY DEF S!AppendEntry
<1>3. ignore' \in S!Ignores /\ (ignore'.kind # "file" => ignore'.lines = <<>>)
  <2>1. CASE ignore' = ignore
    BY <2>1 DEF SetupInv, SetupTypes
  <2>2. ASSUME NEW cut \in S!Cuts, ignore' = S!Written(cut) PROVE ignore' \in S!Ignores /\ ignore'.kind = "file"
    BY <1>1, <2>2, EntryWritten
  <2> QED BY <1>2, <2>1, <2>2
<1>4. SetupTypes'
  BY <1>1, <1>3 DEF SetupInv, SetupTypes
<1>5. Stages'
  BY <1>1 DEF Stages, Checking, Installing
<1>6. ASSUME alone PROVE SeenIsSo'
  <2>1. target[command] = "template" /\ (seen.ignored <=> S!Ignored(command))
    BY <1>1, <1>6 DEF SetupInv, SeenIsSo, Installing
  <2>2. S!WasInstalled(command)' <=> S!WasInstalled(command)
    BY <1>1 DEF S!WasInstalled
  <2>3. ASSUME S!WasInstalled(command) PROVE ignore' = ignore
    <3>1. S!files = before
      BY <1>1, <1>6, <2>3 DEF SetupInv, SeenIsSo
    <3>2. S!Ignored(command)
      BY <2>3, <3>1 DEF S!WasInstalled, S!Ignored, S!files
    <3> QED BY <1>2, <2>1, <3>2
  <2>4. ASSUME reply' = "ok" PROVE S!Installed(command)'
    <3>1. CASE seen.ignored
      <4>1. ignore' = ignore /\ S!Ignored(command)
        <5>1. S!Ignored(command)
          BY <2>1, <3>1
        <5> QED BY <1>2, <3>1, <5>1
      <4>2. ignore.kind = "file"
        BY <4>1 DEF S!Ignored, SetupInv, SetupTypes
      <4> QED BY <1>1, <2>1, <4>1, <4>2 DEF S!Installed, S!Ignored
    <3>2. CASE ~seen.ignored
      <4>1. ignore' = S!Written("all") /\ "all" \in S!Cuts
        BY <2>4, <3>2 DEF S!AppendEntry, S!Cuts
      <4> QED BY <1>1, <1>6, <2>1, <4>1, EntryWritten DEF S!Installed, S!Ignored
    <3> QED BY <3>1, <3>2
  <2>5. command \in S!Setups => (S!WasInstalled(command) => S!files = before)
    BY <1>6 DEF SetupInv, SeenIsSo
  <2> QED BY <1>1, <2>2, <2>3, <2>4, <2>5 DEF SeenIsSo, Checking, Installing, S!files, S!Refusals
<1> QED BY <1>1, <1>4, <1>5, <1>6 DEF SetupInv

\* init touches none of the files of the others.
LEMMA SetupOfInit ==
  ASSUME SetupInv, S!InitTasks \/ S!LookReadme \/ S!OpenReadme \/ S!WriteReadme
  PROVE  SetupInv'
<1> USE DEF SetupInv, S!Goes, S!Replies, S!Reads, S!Stay
<1>1. /\ UNCHANGED <<dirs, target, ignore, seen, command, before, alone>>
      /\ command = "init" /\ stage' \in {"look", "readme", "text", "idle"}
  BY DEF S!InitTasks, S!LookReadme, S!OpenReadme, S!WriteReadme, S!files, Stages
<1>2. stage' = "readme" => UNCHANGED <<tasks, readme>> /\ ~(tasks = "dir" /\ readme # "none")
  BY DEF S!InitTasks, S!LookReadme, S!OpenReadme, S!WriteReadme, S!files, S!Wanted
<1>3. SetupTypes' /\ Stages' /\ SeenIsSo'
  BY <1>1, <1>2 DEF SetupTypes, Stages, SeenIsSo, Checking, Installing, S!Setups
<1> QED BY <1>3

\* Whoever dies leaves what is there.
LEMMA SetupDie ==
  ASSUME SetupInv, S!Die
  PROVE  SetupInv'
<1> USE DEF SetupInv, S!Replies, S!Reads, S!Stay
<1>1. UNCHANGED <<dirs, target, ignore, tasks, readme, seen, command, before, alone>> /\ stage' = "idle" /\ reply' = "died"
  BY DEF S!Die, S!files
<1>2. SetupTypes' /\ Stages'
  BY <1>1 DEF SetupTypes, Stages, Checking, Installing
<1>3. alone => SeenIsSo'
  BY <1>1 DEF SeenIsSo, Checking, Installing, S!files, S!Refusals, S!WasInstalled
<1> QED BY <1>1, <1>2, <1>3

\* The user may do what he likes.
LEMMA SetupEdit ==
  ASSUME SetupInv, S!Edit
  PROVE  SetupInv'
<1> USE DEF SetupInv
<1>1. ~alone' /\ UNCHANGED <<stage, command, seen>>
  BY DEF S!Edit
<1>2. Stages'
  BY <1>1 DEF Stages
<1>3. SetupTypes'
  <2>1. CASE \E c \in {"nvim", "skill"}, x \in {"none", "user"} :
               S!Reachable(c) /\ target' = [target EXCEPT ![c] = x] /\ UNCHANGED <<dirs, ignore>>
    BY <1>1, <2>1 DEF SetupTypes, S!Reachable, S!Setups, S!Contents
  <2>2. CASE ignore' \in {p.ignore : p \in Projects} /\ UNCHANGED <<dirs, target>>
    BY <1>1, <2>2, PartsAssumption DEF SetupTypes, S!SetupAssumption
  <2>3. CASE /\ \E k \in 1 .. 3 : dirs' = S!Removed(dirs, k)
             /\ target' = [target EXCEPT !["skill"] = "none"] /\ UNCHANGED ignore
    BY <1>1, <2>3 DEF SetupTypes, S!Removed, S!Setups, S!Contents, S!Places
  <2>4. CASE UNCHANGED <<dirs, target, ignore>>
    BY <1>1, <2>4 DEF SetupTypes
  <2> QED BY <2>1, <2>2, <2>3, <2>4 DEF S!Edit
<1> QED BY <1>1, <1>2, <1>3

\* Every step keeps the invariant.
LEMMA SetupNext ==
  ASSUME SetupInv, [S!Next]_S!vars
  PROVE  SetupInv'
<1>1. CASE UNCHANGED S!vars
  BY <1>1 DEF SetupInv, SetupTypes, Stages, SeenIsSo, S!vars, S!files, S!Installed, S!Ignored, S!WasInstalled,
         S!NeedsNewline
<1>2. CASE S!Next
  BY <1>2, SetupStart, SetupChecks, SetupMkdir, SetupCreate, SetupAppend, SetupOfInit, SetupDie, SetupEdit DEF S!Next
<1> QED BY <1>1, <1>2

\* A step of a command keeps what it finds.
LEMMA KeepsFiles ==
  ASSUME SetupInv, S!Next, ~S!Edit
  PROVE  S!Kept
<1> USE DEF S!Goes, S!Replies, S!Reads, S!Stay
<1>1. CASE UNCHANGED S!files
  BY <1>1 DEF S!files, S!Kept, S!KeepsReadme
<1>2. CASE S!Mkdir
  <2>1. UNCHANGED <<target, ignore, tasks, readme>>
    BY <1>2 DEF S!Mkdir
  <2>2. \A k \in 1 .. 3 : dirs[k] = "none" \/ dirs'[k] = dirs[k]
    BY <1>2 DEF S!Mkdir, SetupInv, SetupTypes
  <2> QED BY <2>1, <2>2 DEF S!Kept, S!KeepsReadme
<1>3. CASE S!Create \/ S!Fill
  <2>1. UNCHANGED <<dirs, ignore, tasks, readme>>
    BY <1>3 DEF S!Create, S!Fill
  <2>2. \A c \in S!Setups : \/ target[c] = "none"
                            \/ stage = "fill" /\ c = command /\ target[c] = "part"
                            \/ target'[c] = target[c]
    BY <1>3 DEF S!Create, S!Fill, S!Free, SetupInv, SetupTypes
  <2> QED BY <2>1, <2>2 DEF S!Kept, S!KeepsReadme
<1>4. CASE S!AppendEntry
  <2>1. UNCHANGED <<dirs, target, tasks, readme>> /\ stage = "append"
    BY <1>4 DEF S!AppendEntry
  <2>2. ASSUME ignore' # ignore
        PROVE  ignore.kind # "other" /\ S!IsPrefix(S!Whole, ignore'.lines)
    <3>1. PICK cut \in S!Cuts : S!MayAppend /\ ignore' = S!Written(cut)
      BY <1>4, <2>2 DEF S!AppendEntry
    <3>2. S!IsPrefix(S!Whole, ignore'.lines)
      BY <2>1, <3>1, EntryWritten
    <3> QED BY <3>1, <3>2 DEF S!MayAppend
  <2>3. alone => command \in S!Setups /\ target[command] = "template"
    BY <2>1 DEF SetupInv, SeenIsSo, Stages, Installing
  <2> QED BY <2>1, <2>2, <2>3 DEF S!Kept, S!KeepsReadme
<1>5. CASE S!InitTasks
  BY <1>5 DEF S!InitTasks, S!Kept, S!KeepsReadme
<1>6. CASE S!OpenReadme \/ S!WriteReadme
  <2>1. UNCHANGED <<dirs, target, ignore, tasks>>
    BY <1>6 DEF S!OpenReadme, S!WriteReadme
  <2>2. alone => S!KeepsReadme
    BY <1>6 DEF S!OpenReadme, S!WriteReadme, S!KeepsReadme, SetupInv, SeenIsSo
  <2> QED BY <2>1, <2>2 DEF S!Kept
<1> QED BY <1>1, <1>2, <1>3, <1>4, <1>5, <1>6 DEF S!Next, S!Start, S!Git, S!Nvim, S!CheckDirs, S!CheckTarget,
           S!CheckIgnore, S!LookReadme, S!Die

\* In the part that is about Setup its invariant holds, and in the others nothing happens.
LEMMA SetupPart ==
  /\ PartsInit => (part = "setup" => SetupInv)
  /\ (part = "setup" => SetupInv) /\ [PartsNext]_<<vars, phases, setup, reports, table, part>> =>
       (part = "setup" => SetupInv)'
<1>1. PartsInit => (part = "setup" => SetupInv)
  BY SetupInit DEF PartsInit
<1>2. ASSUME part = "setup" => SetupInv, [PartsNext]_<<vars, phases, setup, reports, table, part>>, part' = "setup"
      PROVE  SetupInv'
  <2>1. part = "setup" /\ [S!Next]_S!vars
    BY <1>2 DEF PartsNext, setup, S!vars, S!files
  <2> QED BY <1>2, <2>1, SetupNext
<1> QED BY <1>1, <1>2

\* Whoever installs, undisturbed, has installed all of it, or changed nothing: for any
\* project, whatever fails and whoever dies.
THEOREM InstallsAllOrNothing == PartsSpec => []SuccessInstalled
<1>1. PartsInit => (part = "setup" => SetupInv) /\ (part # "setup" => command = "none")
  BY SetupPart DEF PartsInit, NoSetup
<1>2. /\ (part = "setup" => SetupInv) /\ (part # "setup" => command = "none")
      /\ [PartsNext]_<<vars, phases, setup, reports, table, part>>
      => ((part = "setup" => SetupInv) /\ (part # "setup" => command = "none"))'
  <2>1. [PartsNext]_<<vars, phases, setup, reports, table, part>> => part' = part /\ (part # "setup" => command' = command)
    BY DEF PartsNext, setup
  <2> QED BY <2>1, SetupPart
<1>3. (part = "setup" => SetupInv) /\ (part # "setup" => command = "none") => SuccessInstalled
  BY DEF SetupInv, SeenIsSo, SuccessInstalled, S!SuccessInstalled, S!Setups
<1> QED BY <1>1, <1>2, <1>3, PTL DEF PartsSpec

\* Nothing a command finds is changed or lost, whatever fails, whoever dies, and whatever
\* the user does at the same time.
THEOREM NothingOverwritten == PartsSpec => UserFilesKept
<1>1. PartsInit => (part = "setup" => SetupInv)
  BY SetupPart
<1>2. (part = "setup" => SetupInv) /\ [PartsNext]_<<vars, phases, setup, reports, table, part>>
      => (part = "setup" => SetupInv)'
  BY SetupPart
<1>3. (part = "setup" => SetupInv) /\ [PartsNext]_<<vars, phases, setup, reports, table, part>>
      => [S!Edit \/ S!Kept]_S!vars
  <2>1. [PartsNext]_<<vars, phases, setup, reports, table, part>> => (part = "setup" /\ S!Next) \/ UNCHANGED S!vars
    BY DEF PartsNext, setup, S!vars, S!files
  <2> QED BY <2>1, KeepsFiles
<1> QED BY <1>1, <1>2, <1>3, PTL DEF PartsSpec, UserFilesKept, S!UserFilesKept

-----------------------------------------------------------------------------
(* Phases: what the plan is like.                                            *)

Pair == <<"test_stdout.txt", "test_stderr.txt">>
Items == [op : {"build.h", "cmd", "query", "clear", "mkdir", "chdir", "prepare", "count", "leave"},
          prog : {"none", "cc tatr", "cc tatr-test", "tatr-test", "negation", "paren", "utf8", "priority", "init",
                  "new", "ls", "todo", "ls -update", "sh setup.sh", "cc hash-test", "hash-test", "cc store-test",
                  "store-test", "cc tatr-sandbox", "sandbox.py", "cc tatr-failure", "scheduler.py", "app"},
          dir : {"root", "test"},
          files : {<<>>, <<"stdout.txt">>, <<"stdin.txt", "stdout.txt">>, Pair}]

\* An item that is part of a test in build/test/.
Inside(x) == x.dir = "test" \/ x.op \in {"clear", "mkdir", "chdir", "prepare", "count"}

\* Whether x may come behind y: what begins in build/test/ has just made it new, and the
\* query that is to fail comes behind one that is not.
Follows(x, y) == /\ x.op = "mkdir" => y.op = "clear"
                 /\ x.op = "chdir" => y.op = "mkdir"
                 /\ x.prog = "init" => y.op = "chdir" /\ x.op = "cmd" /\ x.dir = "test"
                 /\ x.op = "query" => x.files = Pair /\ x.dir = "root"
                 /\ x.prog = "utf8" => y.op = "query" /\ y.prog = "paren" /\ x.op = "query"
                 /\ x.prog # "app"
                 /\ Inside(x) => x.op # "query" /\ x.op # "leave"
Before(s, n) == IF n = 1 THEN P!Do("nothing") ELSE s[n - 1]

\* The directory is left from s[n] on, and k is the first item that does it.
LeavesAt(s, n, k) == s[k].op = "leave" /\ \A j \in n .. k - 1 : s[j].op # "leave"
Left(s, n) == Inside(s[n]) => \E k \in n .. Len(s) : LeavesAt(s, n, k)

\* A sequence of whole tests.
Tests(s) == s \in Seq(Items) /\ \A n \in 1 .. Len(s) : Follows(s[n], Before(s, n)) /\ Left(s, n)

\* What may be the first may come behind anything.
LEMMA FirstAnywhere ==
  ASSUME NEW x, Follows(x, P!Do("nothing")), NEW y
  PROVE  Follows(x, y)
BY DEF Follows, P!Do, P!Query

\* Tests one behind the other are such a sequence again.
LEMMA TestsJoined ==
  ASSUME NEW s, NEW t, Tests(s), Tests(t)
  PROVE  Tests(s \o t)
<1>1. s \in Seq(Items) /\ t \in Seq(Items) /\ Len(s) \in Nat /\ Len(t) \in Nat
  BY DEF Tests
<1> DEFINE u == s \o t
<1>2. /\ u \in Seq(Items) /\ Len(u) = Len(s) + Len(t)
      /\ \A n \in 1 .. Len(s) : u[n] = s[n]
      /\ \A n \in 1 .. Len(t) : u[Len(s) + n] = t[n]
  BY <1>1
<1> HIDE DEF u
<1>3. ASSUME NEW n \in 1 .. Len(s)
      PROVE  Follows(u[n], Before(u, n)) /\ Left(u, n)
  <2>1. u[n] = s[n] /\ Before(u, n) = Before(s, n)
    <3>1. n # 1 => n - 1 \in 1 .. Len(s)
      BY <1>1
    <3> QED BY <1>2, <3>1 DEF Before
  <2>2. ASSUME NEW k \in n .. Len(s), LeavesAt(s, n, k) PROVE k \in n .. Len(u) /\ LeavesAt(u, n, k)
    <3>1. /\ k \in 1 .. Len(s) /\ k \in n .. Len(u)
          /\ \A j \in n .. k - 1 : j \in 1 .. Len(s)
      BY <1>1, <1>2
    <3> QED BY <1>2, <2>2, <3>1 DEF LeavesAt
  <2> QED BY <2>1, <2>2 DEF Tests, Left
<1>4. ASSUME NEW m \in 1 .. Len(t), NEW n, n = Len(s) + m
      PROVE  Follows(u[n], Before(u, n)) /\ Left(u, n)
  <2>1. u[n] = t[m] /\ n \in Nat
    BY <1>1, <1>2, <1>4
  <2>2. Left(u, n)
    <3>1. ASSUME NEW k \in m .. Len(t), LeavesAt(t, m, k)
          PROVE  Len(s) + k \in n .. Len(u) /\ LeavesAt(u, n, Len(s) + k)
      <4>1. k \in 1 .. Len(t) /\ u[Len(s) + k] = t[k] /\ Len(s) + k \in n .. Len(u)
        BY <1>1, <1>2, <1>4
      <4>2. ASSUME NEW j \in n .. Len(s) + k - 1 PROVE u[j].op # "leave"
        <5>1. j - Len(s) \in m .. k - 1 /\ j - Len(s) \in 1 .. Len(t) /\ Len(s) + (j - Len(s)) = j
          BY <1>1, <1>4
        <5>2. u[j] = t[j - Len(s)]
          BY <1>2, <5>1
        <5> QED BY <3>1, <5>1, <5>2 DEF LeavesAt
      <4> QED BY <3>1, <4>1, <4>2 DEF LeavesAt
    <3>2. Left(t, m)
      BY DEF Tests
    <3> QED BY <2>1, <3>1, <3>2 DEF Left
  <2>3. CASE m = 1
    <3>1. Follows(u[n], P!Do("nothing"))
      BY <2>1, <2>3 DEF Tests, Before
    <3> QED BY <3>1, <2>2, FirstAnywhere
  <2>4. CASE m # 1
    <3>1. m - 1 \in 1 .. Len(t) /\ Len(s) + (m - 1) = n - 1 /\ n # 1
      BY <1>1, <1>4, <2>4
    <3>2. Before(u, n) = Before(t, m)
      <4>1. u[Len(s) + (m - 1)] = t[m - 1]
        BY <1>2, <3>1
      <4> QED BY <2>4, <3>1, <4>1 DEF Before
    <3> QED BY <2>1, <2>2, <3>2 DEF Tests
  <2> QED BY <2>3, <2>4
<1>5. ASSUME NEW n \in 1 .. Len(u) PROVE n \in 1 .. Len(s) \/ \E m \in 1 .. Len(t) : n = Len(s) + m
  <2>1. n \in 1 .. Len(s) \/ (n - Len(s) \in 1 .. Len(t) /\ n = Len(s) + (n - Len(s)))
    BY <1>1, <1>2
  <2> QED BY <2>1
<1>6. Tests(u)
  BY <1>2, <1>3, <1>4, <1>5 DEF Tests
<1> QED BY <1>6 DEF u

\* What is in one sequence behind another.
LEMMA Joins ==
  ASSUME NEW X, NEW s \in Seq(X), NEW t \in Seq(X)
  PROVE  /\ s \o t \in Seq(X) /\ Len(s \o t) = Len(s) + Len(t)
         /\ \A n \in 1 .. Len(s) : (s \o t)[n] = s[n]
         /\ \A n \in 1 .. Len(t) : (s \o t)[Len(s) + n] = t[n]
OBVIOUS

\* Tuples are sequences.
LEMMA Tuples ==
  /\ \A X : \A a, b \in X : <<a, b>> \in Seq(X)
  /\ \A X : \A a, b, c \in X : <<a, b, c>> \in Seq(X)
  /\ \A X : \A a, b, c, d, e, f \in X : <<a, b, c, d, e, f>> \in Seq(X)
  /\ \A X : \A a, b, c, d, e, f, g, h, i, j, k \in X : <<a, b, c, d, e, f, g, h, i, j, k>> \in Seq(X)
OBVIOUS

\* Commands and queries outside of build/test/ need nothing before them, but for one query.
Plain == {x \in Items : ~Inside(x) /\ x.op \in {"build.h", "cmd", "query"} /\ (x.op = "query" => x.files = Pair)
                        /\ x.prog \notin {"init", "utf8", "app"}}
LEMMA PlainTests == ASSUME NEW s \in Seq(Plain) PROVE Tests(s)
<1>1. s \in Seq(Items)
  BY DEF Plain
<1>2. ASSUME NEW x \in Plain, NEW y PROVE Follows(x, y)
  BY DEF Plain, Follows, Inside, Items
<1>3. \A n \in 1 .. Len(s) : s[n] \in Plain
  OBVIOUS
<1>4. \A n \in 1 .. Len(s) : ~Inside(s[n])
  BY <1>3 DEF Plain
<1> QED BY <1>1, <1>2, <1>3, <1>4 DEF Tests, Left

\* A test that has build/test/ to itself.
Within == {x \in Items : Inside(x) /\ x.op \in {"cmd", "prepare", "count"} /\ x.prog \notin {"init", "utf8", "app"}}
LEMMA SandboxedTests == ASSUME NEW items \in Seq(Within) PROVE Tests(P!Sandboxed(items))
<1> DEFINE s == P!Sandboxed(items)
           long == Len(items)
           enter == <<P!Do("clear"), P!Do("mkdir"), P!Do("chdir"), P!Tatr("init", <<"stdout.txt">>)>>
           leave == <<P!Do("leave")>>
<1>1. long \in Nat /\ \A n \in 1 .. long : items[n] \in Within
  OBVIOUS
<1>2. items \in Seq(Items)
  BY DEF Within
<1>3. enter \in Seq(Items) /\ leave \in Seq(Items) /\ Len(enter) = 4 /\ Len(leave) = 1
  BY DEF Items, P!Do, P!Tatr
<1> DEFINE most == enter \o items
<1>4. s = most \o leave
  BY DEF P!Sandboxed
<1>5. /\ most \in Seq(Items) /\ Len(most) = long + 4
      /\ \A n \in 1 .. 4 : most[n] = enter[n]
      /\ \A n \in 1 .. long : most[4 + n] = items[n]
  BY <1>1, <1>2, <1>3
<1> HIDE DEF s, most, enter, leave
<1>6. /\ s \in Seq(Items) /\ Len(s) = long + 5
      /\ \A n \in 1 .. long + 4 : s[n] = most[n]
      /\ s[long + 5] = P!Do("leave")
  <2>1. /\ s \in Seq(Items) /\ Len(s) = Len(most) + Len(leave)
        /\ \A n \in 1 .. Len(most) : s[n] = most[n]
        /\ \A n \in 1 .. Len(leave) : s[Len(most) + n] = leave[n]
    <3>1. /\ most \o leave \in Seq(Items) /\ Len(most \o leave) = Len(most) + Len(leave)
          /\ \A n \in 1 .. Len(most) : (most \o leave)[n] = most[n]
          /\ \A n \in 1 .. Len(leave) : (most \o leave)[Len(most) + n] = leave[n]
      <4>1. most \in Seq(Items) /\ leave \in Seq(Items)
        BY <1>3, <1>5
      <4> QED BY <4>1, Joins
    <3> QED BY <1>4, <3>1
  <2>2. long + 5 = Len(most) + 1 /\ 1 \in 1 .. Len(leave) /\ Len(most) = long + 4
    BY <1>1, <1>3, <1>5
  <2>3. leave[1] = P!Do("leave")
    BY DEF leave
  <2> QED BY <1>1, <1>3, <2>1, <2>2, <2>3
<1>7. /\ s[1] = P!Do("clear") /\ s[2] = P!Do("mkdir") /\ s[3] = P!Do("chdir")
      /\ s[4] = P!Tatr("init", <<"stdout.txt">>)
      /\ \A n \in 5 .. long + 4 : s[n] \in Within
  <2>1. /\ most[1] = P!Do("clear") /\ most[2] = P!Do("mkdir") /\ most[3] = P!Do("chdir")
        /\ most[4] = P!Tatr("init", <<"stdout.txt">>)
    BY <1>5 DEF enter
  <2>2. ASSUME NEW n \in 5 .. long + 4 PROVE s[n] \in Within
    <3>1. n - 4 \in 1 .. long /\ 4 + (n - 4) = n
      BY <1>1
    <3>2. most[4 + (n - 4)] = items[n - 4]
      BY <1>5, <3>1
    <3> QED BY <1>1, <1>6, <3>1, <3>2
  <2> QED BY <1>1, <1>6, <2>1, <2>2
<1> HIDE DEF long
<1>8. ASSUME NEW n \in 1 .. long + 4 PROVE s[n].op # "leave"
  <2>1. CASE n \in 5 .. long + 4
    BY <1>7, <2>1 DEF Within
  <2>2. CASE n \in {1, 2, 3, 4}
    BY <1>7, <2>2 DEF P!Do, P!Tatr
  <2> QED BY <1>1, <2>1, <2>2
<1>9. ASSUME NEW n \in 1 .. long + 5 PROVE Left(s, n)
  <2>1. long + 5 \in n .. Len(s) /\ \A j \in n .. long + 5 - 1 : j \in 1 .. long + 4
    BY <1>1, <1>6
  <2>2. LeavesAt(s, n, long + 5)
    <3>1. s[long + 5].op = "leave"
      BY <1>6 DEF P!Do
    <3>2. \A j \in n .. (long + 5) - 1 : s[j].op # "leave"
      <4> TAKE j \in n .. (long + 5) - 1
      <4>1. j \in 1 .. long + 4
        BY <1>1, <2>1
      <4> QED BY <1>8, <4>1
    <3> QED BY <3>1, <3>2 DEF LeavesAt
  <2> QED BY <2>1, <2>2 DEF Left
<1>10. ASSUME NEW n \in 1 .. long + 5 PROVE Follows(s[n], Before(s, n))
  <2>1. CASE n \in 5 .. long + 4
    <3>1. s[n] \in Within
      BY <1>7, <2>1
    <3> QED BY <3>1 DEF Within, Follows, Inside
  <2>2. CASE n \in {1, 2, 3, 4}
    <3>1. /\ n = 1 => Before(s, n) = P!Do("nothing")
          /\ n = 2 => Before(s, n) = s[1]
          /\ n = 3 => Before(s, n) = s[2]
          /\ n = 4 => Before(s, n) = s[3]
      BY <2>2 DEF Before
    <3> QED BY <1>7, <2>2, <3>1 DEF Follows, Inside, P!Do, P!Tatr
  <2>3. CASE n = long + 5
    BY <1>6, <2>3 DEF Follows, Inside, P!Do
  <2> QED BY <1>1, <2>1, <2>2, <2>3
<1>11. Tests(s)
  BY <1>6, <1>9, <1>10 DEF Tests
<1> QED BY <1>11 DEF s

\* The queries: the one that is to fail is behind another.
Queries == <<P!Cmd("cc tatr-test"), P!Cmd("tatr-test"), P!Query("negation"), P!Query("paren"), P!Query("utf8"),
             P!Query("priority")>>
LEMMA QueryTests == Tests(Queries)
<1>1. /\ P!Cmd("cc tatr-test") \in Plain /\ P!Cmd("tatr-test") \in Plain
      /\ P!Query("negation") \in Plain /\ P!Query("paren") \in Plain /\ P!Query("priority") \in Plain
  BY DEF P!Cmd, P!Query, Plain, Items, Inside, Pair
<1>2. P!Query("utf8") \in Items /\ ~Inside(P!Query("utf8"))
  BY DEF P!Query, Items, Pair, Inside
<1>3. /\ Len(Queries) = 6 /\ Queries[4] = P!Query("paren") /\ Queries[5] = P!Query("utf8")
      /\ \A n \in {1, 2, 3, 4, 6} : Queries[n] \in Plain
  <2>1. /\ Len(Queries) = 6 /\ Queries[4] = P!Query("paren") /\ Queries[5] = P!Query("utf8")
        /\ Queries[1] = P!Cmd("cc tatr-test") /\ Queries[2] = P!Cmd("tatr-test")
        /\ Queries[3] = P!Query("negation") /\ Queries[6] = P!Query("priority")
    BY DEF Queries, P!Cmd, P!Query
  <2> QED BY <1>1, <2>1
<1>4. Queries \in Seq(Items)
  <2>1. \A x \in Plain : x \in Items
    BY DEF Plain
  <2> QED BY <1>1, <1>2, <2>1, Tuples, Zenon DEF Queries
<1>5. ASSUME NEW n \in {1, 2, 3, 4, 6} PROVE Follows(Queries[n], Before(Queries, n)) /\ ~Inside(Queries[n])
  <2>1. Queries[n] \in Plain
    BY <1>3
  <2> QED BY <2>1 DEF Plain, Follows, Inside, Items
<1>6. Follows(Queries[5], Before(Queries, 5))
  <2>1. Before(Queries, 5) = P!Query("paren")
    BY <1>3 DEF Before
  <2> QED BY <1>3, <2>1 DEF Follows, Inside, P!Query, Pair
<1>7. \A n \in 1 .. 6 : n \in {1, 2, 3, 4, 6} \/ n = 5
  OBVIOUS
<1> QED BY <1>2, <1>3, <1>4, <1>5, <1>6, <1>7 DEF Tests, Left

\* All of it is such tests, but for the program, which comes last.
LEMMA PlanIs ==
  /\ P!Plan \in Seq(Items)
  /\ \A n \in 1 .. Len(P!Plan) : \/ Follows(P!Plan[n], Before(P!Plan, n)) /\ Left(P!Plan, n)
                                 \/ n = Len(P!Plan) /\ P!Plan[n] = P!Cmd("app")
<1>1. Tests(P!Compile)
  <2>1. P!Do("build.h") \in Plain /\ P!Cmd("cc tatr") \in Plain
    BY DEF P!Do, P!Cmd, Plain, Items, Inside
  <2>2. <<P!Do("build.h"), P!Cmd("cc tatr")>> \in Seq(Plain)
    BY <2>1, Tuples, Zenon
  <2> QED BY <2>2, PlainTests DEF P!Compile
<1>2. Tests(P!Test)
  <2>3. Tests(P!NewTest)
    <3>1. <<P!Tatr("new", <<"stdout.txt">>)>> \in Seq(Within)
      BY DEF P!Tatr, Within, Items, Inside
    <3> QED BY <3>1, SandboxedTests DEF P!NewTest
  <2>4. Tests(P!TagTest)
    <3>1. P!Do("prepare") \in Within /\ P!Tatr("ls -update", <<"stdout.txt">>) \in Within /\ P!Do("count") \in Within
      BY DEF P!Tatr, P!Do, Within, Items, Inside
    <3>2. <<P!Do("prepare"), P!Tatr("ls -update", <<"stdout.txt">>), P!Do("count")>> \in Seq(Within)
      BY <3>1, Tuples, Zenon
    <3> QED BY <3>2, SandboxedTests DEF P!TagTest
  <2>5. Tests(P!TodoTest)
    <3>1. /\ P!Do("prepare") \in Within /\ P!Tatr("todo", <<"stdin.txt", "stdout.txt">>) \in Within
          /\ P!Do("count") \in Within /\ P!Tatr("ls", <<"stdout.txt">>) \in Within
      BY DEF P!Tatr, P!Do, Within, Items, Inside
    <3>2. /\ P!List \in Seq(Within)
          /\ <<P!Do("prepare"), P!Tatr("todo", <<"stdin.txt", "stdout.txt">>), P!Do("count")>> \in Seq(Within)
      BY <3>1 DEF P!List
    <3>3. ASSUME NEW a \in Seq(Within), NEW b \in Seq(Within), NEW c \in Seq(Within)
          PROVE  a \o b \o c \in Seq(Within)
      OBVIOUS
    <3> QED BY <3>2, <3>3, SandboxedTests DEF P!TodoTest
  <2> DEFINE others == <<P!Cmd("sh setup.sh"), P!Cmd("cc hash-test"), P!Cmd("hash-test"), P!Cmd("cc store-test"),
                         P!Cmd("store-test"), P!Cmd("cc tatr-sandbox"), P!Cmd("sandbox.py"),
                         P!Cmd("cc tatr-failure"), P!Cmd("cc tatr-failure"), P!Cmd("cc tatr-failure"),
                         P!Cmd("scheduler.py")>>
  <2>6. Tests(others)
    <3>1. \A c \in {"sh setup.sh", "cc hash-test", "hash-test", "cc store-test", "store-test", "cc tatr-sandbox",
                    "sandbox.py", "cc tatr-failure", "scheduler.py"} : P!Cmd(c) \in Plain
      BY DEF P!Cmd, Plain, Items, Inside
    <3>2. others \in Seq(Plain)
      BY <3>1, Tuples, Zenon
    <3> QED BY <3>2, PlainTests
  <2>7. P!Test = Queries \o P!NewTest \o P!TodoTest \o P!TagTest \o others
    BY DEF P!Test, Queries
  <2> HIDE DEF others
  <2>8. Tests(Queries \o P!NewTest \o P!TodoTest \o P!TagTest \o others)
    BY <2>3, <2>4, <2>5, <2>6, QueryTests, TestsJoined
  <2> QED BY <2>7, <2>8
<1>3. Tests(<<>>)
  BY DEF Tests
<1> DEFINE most == P!Compile \o (IF "test" \in asked THEN P!Test ELSE <<>>)
           app == IF "run" \in asked THEN <<P!Cmd("app")>> ELSE <<>>
<1>4. Tests(most)
  <2>1. Tests(IF "test" \in asked THEN P!Test ELSE <<>>)
    BY <1>2, <1>3
  <2> QED BY <1>1, <2>1, TestsJoined
<1>5. P!Plan = most \o app
  BY DEF P!Plan
<1> HIDE DEF most, app
<1>6. most \in Seq(Items) /\ Len(most) \in Nat
  BY <1>4 DEF Tests
<1>7. CASE app = <<>>
  <2>1. most \o <<>> = most
    BY <1>6
  <2> QED BY <1>4, <1>5, <1>7, <2>1 DEF Tests
<1>8. CASE app = <<P!Cmd("app")>>
  <2> DEFINE s == most \o <<P!Cmd("app")>>
  <2>1. P!Cmd("app") \in Items
    BY DEF P!Cmd, Items
  <2>2. /\ s \in Seq(Items) /\ Len(s) = Len(most) + 1 /\ s[Len(most) + 1] = P!Cmd("app")
        /\ \A n \in 1 .. Len(most) : s[n] = most[n]
    BY <1>6, <2>1
  <2> HIDE DEF s
  <2>3. ASSUME NEW n \in 1 .. Len(most) PROVE Follows(s[n], Before(s, n)) /\ Left(s, n)
    <3>1. n # 1 => n - 1 \in 1 .. Len(most)
      BY <1>6
    <3>2. ASSUME NEW k \in n .. Len(most), LeavesAt(most, n, k) PROVE k \in n .. Len(s) /\ LeavesAt(s, n, k)
      <4>1. k \in 1 .. Len(most) /\ k \in n .. Len(s) /\ \A j \in n .. k - 1 : j \in 1 .. Len(most)
        BY <1>6, <2>2
      <4> QED BY <2>2, <3>2, <4>1 DEF LeavesAt
    <3>3. s[n] = most[n] /\ Before(s, n) = Before(most, n)
      BY <2>2, <3>1 DEF Before
    <3> QED BY <1>4, <3>2, <3>3 DEF Tests, Left
  <2>4. P!Plan = s
    BY <1>5, <1>8 DEF s
  <2>5. \A n \in 1 .. Len(s) : n \in 1 .. Len(most) \/ n = Len(most) + 1
    BY <1>6, <2>2
  <2> QED BY <2>2, <2>3, <2>4, <2>5
<1> QED BY <1>7, <1>8 DEF app

LEMMA ItemIs ==
  ASSUME NEW n \in 1 .. Len(P!Plan), NEW x, x = P!Plan[n]
  PROVE  /\ x \in Items
         /\ x.op = "query" => x.files = Pair /\ x.dir = "root"
         /\ Inside(x) => /\ x.op # "query" /\ x.op # "leave" /\ x.prog # "app"
                         /\ \E k \in n .. Len(P!Plan) : LeavesAt(P!Plan, n, k)
         /\ x.prog = "init" => x.op = "cmd" /\ x.dir = "test"
         /\ x.prog = "utf8" => x.op = "query"
         /\ x.prog = "app" => n = Len(P!Plan) /\ x.op = "cmd"
         /\ n = 1 => x.op \notin {"mkdir", "chdir"} /\ x.prog \notin {"init", "utf8"}
         /\ n # 1 => LET y == P!Plan[n - 1] IN
                     /\ x.op = "mkdir" => y.op = "clear"
                     /\ x.op = "chdir" => y.op = "mkdir"
                     /\ x.prog = "init" => y.op = "chdir"
                     /\ x.prog = "utf8" => y.op = "query" /\ y.prog = "paren"
<1>1. x \in Items
  BY PlanIs
<1>2. CASE Follows(x, Before(P!Plan, n)) /\ Left(P!Plan, n)
  <2>1. CASE n = 1
    BY <1>1, <1>2, <2>1 DEF Follows, Left, Before, P!Do, P!Query
  <2>2. CASE n # 1
    BY <1>1, <1>2, <2>2 DEF Follows, Left, Before
  <2> QED BY <2>1, <2>2
<1>3. CASE n = Len(P!Plan) /\ x = P!Cmd("app")
  BY <1>1, <1>3 DEF P!Cmd, Inside
<1> QED BY <1>2, <1>3, PlanIs

-----------------------------------------------------------------------------
(* Phases: the invariant.                                                    *)

PhaseTypes ==
  /\ at \in 1 .. Len(P!Plan) + 1
  /\ step \in {"flags", "next", "open", "start", "wait", "close", "judge", "end"}
  /\ ok \in BOOLEAN /\ result \in BOOLEAN
  /\ "help" \in asked => asked = {"help"}
  /\ step # "end" => status = "none"

\* Where a command is run, and with which words and files.
Words ==
  /\ step \in {"open", "start", "wait", "close", "judge"} =>
       at <= Len(P!Plan) /\ P!Item.op \in {"cmd", "query"} /\ result
  /\ step \in {"flags", "next", "judge", "end"} => cmd = <<>> /\ fds = {}
  /\ step \in {"open", "start", "wait"} => cmd = <<P!Item.prog>> /\ fds \subseteq P!ToSet(P!Item.files)
  /\ step \in {"start", "wait"} => fds = P!ToSet(P!Item.files)

\* What has been done: all that was before the item, or a test has failed and is left.
DoneTo(n) == \A i \in DOMAIN P!Plan : i < n /\ P!Plan[i].op \in {"cmd", "query"} /\ P!Plan[i].prog # "app" => i \in done
Progress ==
  /\ step # "end" /\ result => DoneTo(at)
  /\ step # "end" /\ ~result => step = "next" /\ at <= Len(P!Plan) /\ P!Item.op = "leave"
  /\ step \in {"close", "judge"} /\ P!Passes => at \in done
  /\ step = "flags" => at = 1
  /\ P!SuccessIsEarned

\* A test begins in a directory that is new, and no query finds the files of another that
\* would let it pass.
NoStderr == output["test_stderr.txt"] = ""
Unspoilt ==
  at <= Len(P!Plan) =>
    /\ P!Item.op = "mkdir" /\ cwd = "root" => sandbox = "none"
    /\ P!Item.op = "chdir" => sandbox = "empty"
    /\ P!Item.prog = "init" /\ step \in {"next", "open", "start", "wait"} => sandbox = "empty"
    /\ P!Item.prog = "utf8" /\ step \in {"next", "open", "start", "wait"} => NoStderr

PhasesInv == PhaseTypes /\ Words /\ Progress /\ Unspoilt

LEMMA PlanLength == Len(P!Plan) \in Nat /\ DOMAIN P!Plan = 1 .. Len(P!Plan)
BY PlanIs

LEMMA PhasesInit == P!Init => PhasesInv
<1> SUFFICES ASSUME P!Init PROVE PhasesInv
  OBVIOUS
<1>1. Len(P!Plan) \in Nat /\ DOMAIN P!Plan = 1 .. Len(P!Plan)
  BY PlanLength
<1>2. at = 1 /\ step = "flags" /\ cmd = <<>> /\ fds = {} /\ ok = TRUE /\ result = TRUE /\ status = "none"
  BY DEF P!Init
<1>3. PhaseTypes
  <2>1. "help" \in asked => asked = {"help"}
    BY DEF P!Init
  <2> QED BY <1>1, <1>2, <2>1 DEF PhaseTypes
<1>4. Words
  BY <1>2 DEF Words
<1>5. Progress
  BY <1>1, <1>2 DEF Progress, DoneTo, P!SuccessIsEarned
<1>6. Unspoilt
  <2> SUFFICES ASSUME at <= Len(P!Plan) PROVE P!Item.op \notin {"mkdir", "chdir"} /\ P!Item.prog \notin {"init", "utf8"}
    BY DEF Unspoilt
  <2>1. 1 \in 1 .. Len(P!Plan) /\ P!Item = P!Plan[1]
    BY <1>1, <1>2 DEF P!Item
  <2> QED BY <2>1, ItemIs
<1> QED BY <1>3, <1>4, <1>5, <1>6 DEF PhasesInv

\* An item is over, and the next one comes.
LEMMA PhaseGoes ==
  ASSUME PhasesInv, P!Goes, UNCHANGED asked, step \in {"next", "judge"}, result, at <= Len(P!Plan),
         cmd' = <<>>, fds' = {}, ok' \in BOOLEAN, done \subseteq done',
         P!Item.op \in {"cmd", "query"} /\ P!Item.prog # "app" => at \in done',
         P!Item.op = "clear" /\ cwd' = "root" => sandbox' = "none",
         P!Item.op \in {"mkdir", "chdir"} => sandbox' = "empty",
         P!Item.op = "query" /\ P!Item.prog = "paren" => NoStderr'
  PROVE  PhasesInv'
<1>1. /\ at' = at + 1 /\ step' = "next" /\ result' = result /\ status' = status /\ status = "none"
      /\ at \in Nat /\ at \in 1 .. Len(P!Plan) /\ Len(P!Plan) \in Nat /\ DOMAIN P!Plan = 1 .. Len(P!Plan)
  <2>1. at \in 1 .. Len(P!Plan) + 1 /\ (step # "end" => status = "none") /\ step # "end"
    BY DEF PhasesInv, PhaseTypes
  <2> QED BY <2>1, PlanLength DEF P!Goes
<1>2. P!Plan' = P!Plan /\ P!Item = P!Plan[at]
  BY DEF P!Plan, P!Item
<1>3. P!Item' = P!Plan[at + 1]
  BY <1>1, <1>2 DEF P!Item
<1>4. PhaseTypes'
  <2>1. at' \in 1 .. Len(P!Plan) + 1
    BY <1>1
  <2> QED BY <1>1, <1>2, <2>1 DEF PhasesInv, PhaseTypes
<1>5. Words'
  BY <1>1 DEF Words
<1>6. Progress'
  <2>1. DoneTo(at)
    BY DEF PhasesInv, Progress
  <2>2. DoneTo(at)'
    <3>1. ASSUME NEW i \in 1 .. Len(P!Plan), i < at + 1, P!Plan[i].op \in {"cmd", "query"}, P!Plan[i].prog # "app"
          PROVE  i \in done'
      <4>1. i < at \/ i = at
        BY <1>1, <3>1
      <4> QED BY <1>1, <1>2, <2>1, <3>1, <4>1 DEF DoneTo
    <3> QED BY <1>1, <1>2, <3>1 DEF DoneTo
  <2> QED BY <1>1, <2>2 DEF Progress, P!SuccessIsEarned
<1>7. Unspoilt'
  <2> SUFFICES ASSUME at + 1 <= Len(P!Plan)
               PROVE  LET x == P!Plan[at + 1] IN
                      /\ x.op = "mkdir" /\ cwd' = "root" => sandbox' = "none"
                      /\ x.op = "chdir" => sandbox' = "empty"
                      /\ x.prog = "init" => sandbox' = "empty"
                      /\ x.prog = "utf8" => NoStderr'
    BY <1>1, <1>2, <1>3 DEF Unspoilt
  <2>1. at + 1 \in 1 .. Len(P!Plan) /\ at + 1 # 1 /\ (at + 1) - 1 = at
    BY <1>1
  <2>2. LET x == P!Plan[at + 1] IN
        /\ x.op = "mkdir" => P!Item.op = "clear"
        /\ x.op = "chdir" => P!Item.op = "mkdir"
        /\ x.prog = "init" => P!Item.op = "chdir"
        /\ x.prog = "utf8" => P!Item.op = "query" /\ P!Item.prog = "paren"
    BY <1>2, <2>1, ItemIs
  <2> QED BY <2>2
<1> QED BY <1>4, <1>5, <1>6, <1>7 DEF PhasesInv

\* It fails: the build is over, or the test is.
LEMMA PhaseFails ==
  ASSUME PhasesInv, P!Fails, UNCHANGED asked, step \in {"next", "judge"}, result, at <= Len(P!Plan),
         P!Item.op # "leave", cmd' = <<>>, fds' = {}, ok' \in BOOLEAN, done \subseteq done'
  PROVE  PhasesInv'
<1>1. /\ status = "none" /\ at \in Nat /\ at \in 1 .. Len(P!Plan) /\ Len(P!Plan) \in Nat
      /\ DOMAIN P!Plan = 1 .. Len(P!Plan)
  <2>1. at \in 1 .. Len(P!Plan) + 1 /\ (step # "end" => status = "none") /\ step # "end"
    BY DEF PhasesInv, PhaseTypes
  <2> QED BY <2>1, PlanLength
<1>2. P!Plan' = P!Plan /\ P!Item = P!Plan[at] /\ (P!InTest <=> Inside(P!Item))
  BY DEF P!Plan, P!Item, P!InTest, Inside
<1>3. CASE P!InTest
  <2>1. PICK k \in at .. Len(P!Plan) : LeavesAt(P!Plan, at, k)
    BY <1>1, <1>2, <1>3, ItemIs
  <2>2. P!Leave \in at .. Len(P!Plan) /\ P!Plan[P!Leave].op = "leave"
    BY <2>1 DEF P!Leave, LeavesAt
  <2>3. at' = P!Leave /\ step' = "next" /\ result' = FALSE /\ status' = status
    BY <1>3 DEF P!Fails
  <2>4. P!Leave \in 1 .. Len(P!Plan) /\ P!Leave <= Len(P!Plan)
    BY <1>1, <2>2
  <2>5. P!Item' = P!Plan[P!Leave]
    BY <1>2, <2>3 DEF P!Item
  <2>6. P!Plan[P!Leave].prog \notin {"init", "utf8"}
    BY <2>2, <2>4, ItemIs
  <2>7. PhaseTypes'
    <3>1. at' \in 1 .. Len(P!Plan) + 1
      BY <1>1, <2>3, <2>4
    <3> QED BY <1>1, <1>2, <2>3, <3>1 DEF PhasesInv, PhaseTypes
  <2>8. Words'
    BY <2>3 DEF Words
  <2>9. Progress'
    BY <1>1, <1>2, <2>2, <2>3, <2>4, <2>5 DEF Progress, P!SuccessIsEarned
  <2>10. Unspoilt'
    BY <2>2, <2>5, <2>6 DEF Unspoilt
  <2> QED BY <2>7, <2>8, <2>9, <2>10 DEF PhasesInv
<1>4. CASE ~P!InTest
  <2>1. step' = "end" /\ at' = at /\ result' = result /\ status' = (IF P!Item.prog = "app" THEN "0" ELSE "1")
    BY <1>4 DEF P!Fails, P!Exit
  <2>2. P!Item' = P!Item
    BY <1>2, <2>1 DEF P!Item
  <2>3. PhaseTypes'
    BY <1>1, <1>2, <2>1 DEF PhasesInv, PhaseTypes
  <2>4. Words'
    BY <2>1 DEF Words
  <2>5. P!SuccessIsEarned'
    <3> SUFFICES ASSUME P!Item.prog = "app", NEW i \in 1 .. Len(P!Plan),
                        P!Plan[i].op \in {"cmd", "query"}, P!Plan[i].prog # "app"
                 PROVE  i \in done'
      BY <1>1, <1>2, <2>1 DEF P!SuccessIsEarned
    <3>1. at = Len(P!Plan)
      BY <1>1, <1>2, ItemIs
    <3>2. i # at
      BY <1>2
    <3>3. i < at
      <4>1. i \in 1 .. at /\ at \in Nat
        BY <1>1, <3>1
      <4> QED BY <3>2, <4>1
    <3> QED BY <1>1, <3>3 DEF PhasesInv, Progress, DoneTo
  <2>6. Progress'
    BY <2>1, <2>5 DEF Progress
  <2>7. Unspoilt'
    <3> SUFFICES ASSUME P!Item.op \in {"mkdir", "chdir"} PROVE FALSE
      BY <1>2, <2>1, <2>2 DEF Unspoilt
    <3> QED BY <1>2, <1>4 DEF Inside
  <2> QED BY <2>3, <2>4, <2>6, <2>7 DEF PhasesInv
<1> QED BY <1>3, <1>4

\* The steps between the programs.
LEMMA PhaseBetween ==
  ASSUME PhasesInv, P!Work \/ P!Clear \/ P!Mkdir \/ P!Chdir \/ P!Return
  PROVE  PhasesInv'
<1>1. /\ UNCHANGED asked /\ step = "next" /\ at <= Len(P!Plan)
      /\ cmd' = <<>> /\ fds' = {} /\ ok' \in BOOLEAN /\ done \subseteq done' /\ done' = done
      /\ UNCHANGED output
  BY DEF P!Work, P!Clear, P!Mkdir, P!Chdir, P!Return, P!Ready, PhasesInv, PhaseTypes, Words
<1>2. P!Item.op # "leave" => result
  BY <1>1 DEF PhasesInv, Progress
<1>3. P!Item.op \notin {"cmd", "query"}
  BY DEF P!Work, P!Clear, P!Mkdir, P!Chdir, P!Return, P!Ready
<1>4. CASE P!Work
  <2>1. P!Item.op \in {"build.h", "prepare", "count"} /\ (P!Goes \/ P!Fails)
    BY <1>4 DEF P!Work, P!Ready
  <2> QED BY <1>1, <1>2, <2>1, PhaseGoes, PhaseFails
<1>5. CASE P!Clear
  <2>1. P!Item.op = "clear" /\ UNCHANGED cwd /\ (P!Fails \/ (P!Goes /\ (cwd = "root" => sandbox' = "none")))
    BY <1>5 DEF P!Clear, P!Ready, P!Cleared
  <2> QED BY <1>1, <1>2, <2>1, PhaseGoes, PhaseFails
<1>6. CASE P!Mkdir
  <2>1. P!Item.op = "mkdir" /\ UNCHANGED cwd
    BY <1>6 DEF P!Mkdir, P!Ready
  <2>2. CASE P!Goes /\ cwd = "root" /\ sandbox' = (IF sandbox = "none" THEN "empty" ELSE sandbox)
    <3>1. sandbox = "none"
      BY <1>1, <2>1, <2>2 DEF PhasesInv, Unspoilt
    <3> QED BY <1>1, <1>2, <2>1, <2>2, <3>1, PhaseGoes
  <2>3. CASE P!Fails
    BY <1>1, <1>2, <2>1, <2>3, PhaseFails
  <2> QED BY <1>6, <2>2, <2>3 DEF P!Mkdir
<1>7. CASE P!Chdir
  <2>1. P!Item.op = "chdir" /\ UNCHANGED sandbox /\ P!Goes
    BY <1>7 DEF P!Chdir, P!Ready
  <2>2. sandbox = "empty"
    BY <1>1, <2>1 DEF PhasesInv, Unspoilt
  <2> QED BY <1>1, <1>2, <2>1, <2>2, PhaseGoes
<1>8. CASE P!Return /\ result
  <2>1. P!Item.op = "leave" /\ UNCHANGED sandbox /\ P!Goes
    BY <1>8 DEF P!Return, P!Ready
  <2> QED BY <1>1, <1>8, <2>1, PhaseGoes
<1>9. CASE P!Return /\ ~result
  <2>1. P!Item.op = "leave" /\ step' = "end" /\ status' = "1" /\ UNCHANGED <<at, result, sandbox>>
    BY <1>9 DEF P!Return, P!Ready, P!Exit
  <2>2. P!Plan' = P!Plan /\ P!Item' = P!Item
    BY <1>1, <2>1 DEF P!Plan, P!Item
  <2>3. PhaseTypes'
    BY <1>1, <2>1, <2>2 DEF PhasesInv, PhaseTypes
  <2>4. Words' /\ Progress' /\ Unspoilt'
    BY <1>1, <2>1, <2>2 DEF Words, Progress, Unspoilt, P!SuccessIsEarned
  <2> QED BY <2>3, <2>4 DEF PhasesInv
<1> QED BY <1>4, <1>5, <1>6, <1>7, <1>8, <1>9

\* The command line, and the end.
LEMMA PhaseEnds ==
  ASSUME PhasesInv, P!Begin \/ P!Finish
  PROVE  PhasesInv'
<1>1. /\ UNCHANGED <<asked, at, cmd, fds, cwd, sandbox, output, ok, result, done>>
      /\ step \in {"flags", "next"} /\ step' \in {"next", "end"}
      /\ status' = status \/ step' = "end"
  BY DEF P!Begin, P!Finish, P!Exit
<1>2. P!Plan' = P!Plan /\ P!Item' = P!Item
  BY <1>1 DEF P!Plan, P!Item
<1>3. PhaseTypes'
  BY <1>1, <1>2 DEF PhasesInv, PhaseTypes
<1>4. Words'
  BY <1>1 DEF PhasesInv, Words
<1>5. P!SuccessIsEarned'
  <2>1. CASE P!Begin
    BY <2>1, <1>1, <1>2 DEF P!Begin, P!Exit, PhasesInv, PhaseTypes, P!SuccessIsEarned
  <2>2. CASE P!Finish
    <3>1. at > Len(P!Plan) /\ step = "next" /\ at \in Nat /\ DOMAIN P!Plan = 1 .. Len(P!Plan) /\ Len(P!Plan) \in Nat
      <4>1. at \in 1 .. Len(P!Plan) + 1
        BY DEF PhasesInv, PhaseTypes
      <4> QED BY <2>2, <4>1, PlanLength DEF P!Finish
    <3>2. DoneTo(at)
      BY <3>1 DEF PhasesInv, Progress
    <3>3. \A i \in DOMAIN P!Plan : i < at
      BY <3>1
    <3> QED BY <1>1, <1>2, <3>2, <3>3 DEF P!SuccessIsEarned, DoneTo
  <2> QED BY <2>1, <2>2
<1>6. Progress'
  <2>1. DoneTo(at)' <=> DoneTo(at)
    BY <1>1, <1>2 DEF DoneTo
  <2> QED BY <1>1, <1>2, <1>5, <2>1 DEF PhasesInv, Progress
<1>7. Unspoilt'
  <2>1. NoStderr' <=> NoStderr
    BY <1>1 DEF NoStderr
  <2>2. CASE step = "next"
    BY <1>1, <1>2, <2>1, <2>2 DEF PhasesInv, Unspoilt
  <2>3. CASE step = "flags" /\ at <= Len(P!Plan)
    <3>1. at = 1 /\ 1 \in 1 .. Len(P!Plan) /\ P!Item = P!Plan[1]
      BY <2>3, PlanLength DEF PhasesInv, Progress, P!Item
    <3>2. P!Item.op \notin {"mkdir", "chdir"} /\ P!Item.prog \notin {"init", "utf8"}
      BY <3>1, ItemIs
    <3> QED BY <1>1, <1>2, <3>2 DEF Unspoilt
  <2>4. CASE ~(at <= Len(P!Plan))
    BY <1>1, <1>2, <2>4 DEF Unspoilt
  <2> QED BY <1>1, <2>2, <2>3, <2>4
<1> QED BY <1>3, <1>4, <1>6, <1>7 DEF PhasesInv

\* A command is put together, its files are opened, its child is made.
LEMMA PhaseRuns ==
  ASSUME PhasesInv, P!Put \/ P!Open \/ P!Start
  PROVE  PhasesInv'
<1>1. /\ UNCHANGED <<asked, at, cwd, sandbox, result, status, done>>
      /\ step \in {"next", "open", "start"} /\ step' \in {"open", "start", "wait", "close"}
      /\ at <= Len(P!Plan) /\ P!Item.op \in {"cmd", "query"} /\ result
      /\ step' = "close" => ok' = FALSE
      /\ ok' \in BOOLEAN
  BY DEF P!Put, P!Open, P!Start, P!Ready, PhasesInv, PhaseTypes, Words, Progress
<1>2. P!Plan' = P!Plan /\ P!Item' = P!Item
  BY <1>1 DEF P!Plan, P!Item
<1>3. PhaseTypes'
  BY <1>1, <1>2 DEF PhasesInv, PhaseTypes
<1>4. Words'
  <2>1. CASE P!Put
    <3>1. cmd' = <<P!Item.prog>> /\ fds' = {} /\ step' = "open"
      <4>1. step = "next" /\ cmd' = Append(cmd, P!Item.prog) /\ UNCHANGED fds /\ step' = "open"
        BY <2>1 DEF P!Put, P!Ready
      <4>2. cmd = <<>> /\ fds = {}
        BY <4>1 DEF PhasesInv, Words
      <4>3. \A w : Append(<<>>, w) = <<w>>
        OBVIOUS
      <4> QED BY <4>1, <4>2, <4>3
    <3> QED BY <1>1, <1>2, <3>1 DEF Words
  <2>2. CASE P!Open
    <3>1. step = "open" /\ cmd' = cmd /\ cmd = <<P!Item.prog>> /\ fds \subseteq P!ToSet(P!Item.files)
      BY <2>2 DEF P!Open, PhasesInv, Words
    <3>2. CASE \E n \in P!Unopened : fds' = fds \cup {P!Item.files[n]} /\ step' = step
      <4>1. \A n \in P!Unopened : P!Item.files[n] \in P!ToSet(P!Item.files)
        BY DEF P!Unopened, P!ToSet
      <4> QED BY <1>1, <1>2, <3>1, <3>2, <4>1 DEF Words
    <3>3. CASE step' = "close"
      BY <1>1, <1>2, <3>3 DEF Words
    <3>4. CASE P!Unopened = {} /\ step' = "start" /\ UNCHANGED fds
      <4>1. P!ToSet(P!Item.files) \subseteq fds
        BY <3>4 DEF P!Unopened, P!ToSet
      <4> QED BY <1>1, <1>2, <3>1, <3>4, <4>1 DEF Words
    <3> QED BY <2>2, <3>2, <3>3, <3>4 DEF P!Open
  <2>3. CASE P!Start
    BY <1>1, <1>2, <2>3 DEF P!Start, PhasesInv, Words
  <2> QED BY <2>1, <2>2, <2>3
<1>5. NoStderr => NoStderr'
  BY DEF P!Put, P!Open, P!Start, NoStderr, P!Judged
<1>6. Unspoilt'
  BY <1>1, <1>2, <1>5 DEF PhasesInv, Unspoilt
<1>7. step' = "close" => ~P!Passes'
  <2> SUFFICES ASSUME step' = "close", P!Item.op = "query", P!Wants(P!Item.prog).ok = FALSE,
                      output'["test_stderr.txt"] = P!Wants(P!Item.prog).err PROVE FALSE
    BY <1>1, <1>2 DEF P!Passes
  <2>1. P!Item.prog = "utf8"
    BY DEF P!Wants
  <2>2. NoStderr
    BY <1>1, <2>1 DEF PhasesInv, Unspoilt
  <2> QED BY <1>5, <2>1, <2>2 DEF NoStderr, P!Wants
<1>8. Progress'
  <2>1. DoneTo(at)' <=> DoneTo(at)
    BY <1>1, <1>2 DEF DoneTo
  <2>2. step # "end"
    BY <1>1
  <2> QED BY <1>1, <1>2, <1>7, <2>1 DEF PhasesInv, Progress, P!SuccessIsEarned, PhaseTypes
<1> QED BY <1>3, <1>4, <1>6, <1>8 DEF PhasesInv

\* It is over, and has done what it should if it passes.
LEMMA PhaseWaits ==
  ASSUME PhasesInv, P!Wait
  PROVE  PhasesInv'
<1>1. /\ UNCHANGED <<asked, at, cmd, fds, cwd, result, status>> /\ step = "wait" /\ step' = "close"
      /\ at <= Len(P!Plan) /\ P!Item.op \in {"cmd", "query"} /\ result
  BY DEF P!Wait, PhasesInv, Words
<1>2. P!Plan' = P!Plan /\ P!Item' = P!Item
  BY <1>1 DEF P!Plan, P!Item
<1>3. /\ done \subseteq done' /\ ok' \in BOOLEAN
      /\ P!Passes' => at \in done'
  <2>1. CASE ok' = FALSE /\ UNCHANGED <<output, done, sandbox>>
    <3>1. ~P!Passes'
      <4> SUFFICES ASSUME P!Item.op = "query", P!Wants(P!Item.prog).ok = FALSE,
                          output["test_stderr.txt"] = P!Wants(P!Item.prog).err PROVE FALSE
        BY <1>2, <2>1 DEF P!Passes
      <4>1. P!Item.prog = "utf8"
        BY DEF P!Wants
      <4>2. NoStderr
        BY <1>1, <4>1 DEF PhasesInv, Unspoilt
      <4> QED BY <4>1, <4>2 DEF NoStderr, P!Wants
    <3> QED BY <2>1, <3>1
  <2>2. ASSUME NEW exited \in BOOLEAN, NEW out, NEW err, P!Ended(exited, out, err)
        PROVE  done \subseteq done' /\ ok' \in BOOLEAN /\ (P!Passes' => at \in done')
    <3>1. ok' = exited /\ done' = (IF P!Good(exited, out, err) THEN done \cup {at} ELSE done)
      BY <2>2 DEF P!Ended
    <3>2. ASSUME P!Passes' PROVE P!Good(exited, out, err)
      <4>1. CASE P!Item.op = "query"
        <5>1. output'["test_stdout.txt"] = out /\ output'["test_stderr.txt"] = err
          BY <2>2, <4>1 DEF P!Ended, P!Judged
        <5> QED BY <1>2, <3>1, <3>2, <4>1, <5>1 DEF P!Passes, P!Good, P!Wants
      <4>2. CASE P!Item.op # "query"
        <5>1. P!Item.prog = "init" => sandbox = "empty"
          BY <1>1 DEF PhasesInv, Unspoilt
        <5> QED BY <1>2, <3>1, <3>2, <4>2, <5>1 DEF P!Passes, P!Good
      <4> QED BY <4>1, <4>2
    <3> QED BY <3>1, <3>2
  <2> QED BY <2>1, <2>2 DEF P!Wait
<1>4. PhaseTypes'
  BY <1>1, <1>2, <1>3 DEF PhasesInv, PhaseTypes
<1>5. Words'
  BY <1>1, <1>2 DEF PhasesInv, Words
<1>6. Progress'
  <2>1. DoneTo(at)'
    BY <1>1, <1>2, <1>3 DEF PhasesInv, Progress, DoneTo
  <2> QED BY <1>1, <1>2, <1>3, <2>1 DEF PhasesInv, Progress, P!SuccessIsEarned, PhaseTypes
<1>7. Unspoilt'
  <2>1. P!Item.op \notin {"mkdir", "chdir"}
    BY <1>1
  <2> QED BY <1>1, <1>2, <2>1 DEF Unspoilt
<1> QED BY <1>4, <1>5, <1>6, <1>7 DEF PhasesInv

\* The files are closed, and the words are forgotten.
LEMMA PhaseCloses ==
  ASSUME PhasesInv, P!Close
  PROVE  PhasesInv'
<1>1. /\ UNCHANGED <<asked, at, cwd, sandbox, output, ok, result, status, done>>
      /\ step = "close" /\ step' = "judge" /\ fds' = {} /\ cmd' = <<>>
      /\ at <= Len(P!Plan) /\ P!Item.op \in {"cmd", "query"} /\ result
  BY DEF P!Close, P!Reset, PhasesInv, Words
<1>2. P!Plan' = P!Plan /\ P!Item' = P!Item
  BY <1>1 DEF P!Plan, P!Item
<1>3. PhaseTypes' /\ Words'
  BY <1>1, <1>2 DEF PhasesInv, PhaseTypes, Words
<1>4. Progress'
  <2>1. DoneTo(at)' <=> DoneTo(at)
    BY <1>1, <1>2 DEF DoneTo
  <2>2. P!Passes' <=> P!Passes
    BY <1>1, <1>2 DEF P!Passes
  <2> QED BY <1>1, <1>2, <2>1, <2>2 DEF PhasesInv, Progress, P!SuccessIsEarned, PhaseTypes
<1>5. Unspoilt'
  BY <1>1, <1>2 DEF Unspoilt
<1> QED BY <1>3, <1>4, <1>5 DEF PhasesInv

\* Its exit is judged, and perhaps its files are.
LEMMA PhaseJudges ==
  ASSUME PhasesInv, P!Judge
  PROVE  PhasesInv'
<1>1. /\ UNCHANGED <<asked, cmd, fds, cwd, sandbox, output, done>> /\ ok' = TRUE /\ step = "judge"
      /\ at <= Len(P!Plan) /\ P!Item.op \in {"cmd", "query"} /\ result /\ cmd = <<>> /\ fds = {}
  BY DEF P!Judge, PhasesInv, Words
<1>2. CASE P!Passes /\ P!Goes
  <2>1. at \in done
    BY <1>1, <1>2 DEF PhasesInv, Progress
  <2>2. P!Item.op = "query" /\ P!Item.prog = "paren" => NoStderr'
    BY <1>1, <1>2 DEF P!Passes, P!Wants, NoStderr
  <2> QED BY <1>1, <1>2, <2>1, <2>2, PhaseGoes
<1>3. CASE P!Fails
  BY <1>1, <1>3, PhaseFails
<1> QED BY <1>2, <1>3 DEF P!Judge

\* Every step keeps the invariant.
LEMMA PhasesNext ==
  ASSUME PhasesInv, [P!Next]_P!vars
  PROVE  PhasesInv'
<1>1. CASE UNCHANGED P!vars
  <2>1. P!Plan' = P!Plan /\ P!Item' = P!Item /\ (NoStderr' <=> NoStderr) /\ (P!Passes' <=> P!Passes)
    BY <1>1 DEF P!vars, P!Plan, P!Item, NoStderr, P!Passes
  <2>2. DoneTo(at)' <=> DoneTo(at)
    BY <1>1, <2>1 DEF P!vars, DoneTo
  <2> QED BY <1>1, <2>1, <2>2 DEF P!vars, PhasesInv, PhaseTypes, Words, Progress, Unspoilt, P!SuccessIsEarned
<1>2. CASE P!Next
  BY <1>2, PhaseBetween, PhaseEnds, PhaseRuns, PhaseWaits, PhaseCloses, PhaseJudges DEF P!Next
<1> QED BY <1>1, <1>2

\* In the part that is about Phases.
LEMMA PhasesPart ==
  /\ PartsInit => IF part = "phases" THEN PhasesInv ELSE status = "none"
  /\ (IF part = "phases" THEN PhasesInv ELSE status = "none")
     /\ [PartsNext]_<<vars, phases, setup, reports, table, part>>
     => (IF part = "phases" THEN PhasesInv ELSE status = "none")'
<1>1. PartsInit => IF part = "phases" THEN PhasesInv ELSE status = "none"
  BY PhasesInit DEF PartsInit, NoPhases
<1>2. ASSUME IF part = "phases" THEN PhasesInv ELSE status = "none",
             [PartsNext]_<<vars, phases, setup, reports, table, part>>
      PROVE  (IF part = "phases" THEN PhasesInv ELSE status = "none")'
  <2>1. CASE part = "phases"
    <3>1. part' = part /\ [P!Next]_P!vars
      BY <1>2, <2>1 DEF PartsNext, phases, P!vars
    <3> QED BY <1>2, <2>1, <3>1, PhasesNext
  <2>2. CASE part # "phases"
    BY <1>2, <2>2 DEF PartsNext, phases
  <2> QED BY <2>1, <2>2
<1> QED BY <1>1, <1>2

\* A build that exits with 0 has run every command it was asked for, whatever has failed and
\* whatever earlier builds have left.
THEOREM ZeroIsEarned == PartsSpec => []SuccessIsEarned
<1>1. (IF part = "phases" THEN PhasesInv ELSE status = "none") => SuccessIsEarned
  BY DEF PhasesInv, Progress, SuccessIsEarned, P!SuccessIsEarned
<1> QED BY <1>1, PhasesPart, PTL DEF PartsSpec

\* No program is started with the words or the files of another one.
THEOREM StartsItsOwn == PartsSpec => []OwnCommand
<1>1. (IF part = "phases" THEN PhasesInv ELSE status = "none") => OwnCommand
  BY DEF PhasesInv, Words, OwnCommand, P!OwnCommand
<1> QED BY <1>1, PhasesPart, PTL DEF PartsSpec

-----------------------------------------------------------------------------
(* Reports: the counting.                                                    *)

\* Reports counts as FiniteSets does.
LEMMA ReportsCardinality == \A X : R!Cardinality(X) = Cardinality(X) /\ R!IsFiniteSet(X) = IsFiniteSet(X)
BY DEF R!Cardinality, Cardinality, R!IsFiniteSet, IsFiniteSet

\* A set of tasks, each with the places of its own it is counted for: there are at least as
\* many places as tasks, and exactly as many if each has one.
LEMMA PlacesCounted ==
  ASSUME NEW has, IsFiniteSet(has), NEW spots, NEW Marks, IsFiniteSet(Marks),
         Marks = UNION {{i} \X spots[i] : i \in has},
         \A i \in has : spots[i] # {}
  PROVE  /\ Cardinality(Marks) >= Cardinality(has)
         /\ (\A i \in has : \E n : spots[i] = {n}) => Cardinality(Marks) = Cardinality(has)
<1> DEFINE owner == [e \in Marks |-> e[1]]
<1>1. \A e \in Marks : e[1] \in has /\ e[2] \in spots[e[1]] /\ e = <<e[1], e[2]>>
  OBVIOUS
<1>2. \A i \in has : \E e \in Marks : e[1] = i
  <2> TAKE i \in has
  <2>1. PICK n : n \in spots[i]
    OBVIOUS
  <2>2. <<i, n>> \in Marks
    BY <2>1
  <2> QED BY <2>2
<1>3. owner \in Surjection(Marks, has)
  BY <1>1, <1>2 DEF Surjection
<1>4. /\ Cardinality(has) <= Cardinality(Marks)
      /\ Cardinality(has) = Cardinality(Marks) <=> owner \in Injection(Marks, has)
  BY <1>3, FS_Surjection
<1>5. ASSUME \A i \in has : \E n : spots[i] = {n}
      PROVE  owner \in Injection(Marks, has)
  <2>1. ASSUME NEW d \in Marks, NEW e \in Marks, d[1] = e[1] PROVE d = e
    BY <1>1, <1>5, <2>1
  <2>2. owner \in [Marks -> has]
    BY <1>1
  <2>3. \A d, e \in Marks : owner[d] = owner[e] => d = e
    BY <2>1
  <2> QED BY <2>2, <2>3 DEF Injection, IsInjective
<1>6. Cardinality(has) \in Nat /\ Cardinality(Marks) \in Nat
  BY FS_CardinalityType
<1> QED BY <1>4, <1>5, <1>6

\* Finitely many tasks have finitely many tags.
LEMMA PlacesFinite ==
  ASSUME NEW has, IsFiniteSet(has), NEW spots, \A i \in has : IsFiniteSet(spots[i]),
         NEW Marks, Marks = UNION {{i} \X spots[i] : i \in has}
  PROVE  IsFiniteSet(Marks)
<1> DEFINE family == {{i} \X spots[i] : i \in has}
           f == [i \in has |-> {i} \X spots[i]]
<1>1. f \in Surjection(has, family)
  BY DEF Surjection
<1>2. IsFiniteSet(family)
  BY <1>1, FS_Surjection
<1>3. \A X \in family : IsFiniteSet(X)
  <2> SUFFICES ASSUME NEW i \in has PROVE IsFiniteSet({i} \X spots[i])
    OBVIOUS
  <2> QED BY FS_Singleton, FS_Product
<1> QED BY <1>2, <1>3, FS_UNION

\* The places a tag is counted at.
Places(t) == UNION {{i} \X R!Occurs(t, loaded[i].tags) : i \in R!Chosen}

\* What summary counts adds up, whatever it has read.
LEMMA SummaryAdds ==
  ASSUME \A i \in DOMAIN loaded : loaded[i] \in TaskFiles, DOMAIN loaded \subseteq Task, R!Count
  PROVE  R!AddsUp'
<1> DEFINE Chosen == R!Chosen
           Tagged == {i \in Chosen : \E t \in Tags : R!Contains(loaded[i].tags, t)}
           Having(t) == {i \in Chosen : R!Contains(loaded[i].tags, t)}
<1> USE PartsAssumption DEF R!ReportsAssumption
<1>1. /\ UNCHANGED <<loaded, report>>
      /\ summary' = [total |-> R!Cardinality(Chosen), untagged |-> R!Cardinality(R!Untagged),
                     count |-> [t \in Tags |-> R!Cardinality(Places(t))]]
  BY DEF R!Count, R!Env, Places
<1>2. Chosen \subseteq Task /\ IsFiniteSet(Task) /\ IsFiniteSet(Chosen)
  <2>1. Chosen \subseteq Task
    BY DEF R!Chosen
  <2>2. IsFiniteSet(Task)
    BY ReportsCardinality
  <2> QED BY <2>1, <2>2, FS_Subset
<1>3. \A i \in Chosen : loaded[i].tags \in Seq(Tags)
  BY DEF R!Chosen
<1>4. R!Cardinality(Chosen) = R!Cardinality(R!Untagged) + R!Cardinality(Tagged)
  <2>1. ASSUME NEW i \in Chosen PROVE loaded[i].tags = <<>> <=> ~\E t \in Tags : R!Contains(loaded[i].tags, t)
    <3>1. loaded[i].tags \in Seq(Tags)
      BY <1>3
    <3>2. CASE loaded[i].tags = <<>>
      BY <3>2 DEF R!Contains
    <3>3. CASE loaded[i].tags # <<>>
      <4>1. 1 \in 1 .. Len(loaded[i].tags) /\ loaded[i].tags[1] \in Tags
        BY <3>1, <3>3
      <4> QED BY <3>3, <4>1 DEF R!Contains
    <3> QED BY <3>2, <3>3
  <2>2. Chosen = R!Untagged \cup Tagged /\ R!Untagged \cap Tagged = {} /\ R!Untagged \subseteq Chosen /\ Tagged \subseteq Chosen
    BY <2>1 DEF R!Untagged
  <2>3. IsFiniteSet(R!Untagged) /\ IsFiniteSet(Tagged)
    BY <1>2, <2>2, FS_Subset
  <2>4. Cardinality(R!Untagged \cup Tagged) = Cardinality(R!Untagged) + Cardinality(Tagged) - Cardinality({})
    BY <2>2, <2>3, FS_Union
  <2>5. Cardinality({}) = 0 /\ Cardinality(R!Untagged) \in Nat /\ Cardinality(Tagged) \in Nat
    BY <2>3, FS_EmptySet, FS_CardinalityType
  <2> HIDE DEF Chosen, Tagged
  <2>6. Cardinality(Chosen) = Cardinality(R!Untagged) + Cardinality(Tagged)
    BY <2>2, <2>4, <2>5
  <2> QED BY <2>6, ReportsCardinality
<1>5. ASSUME NEW t \in Tags
      PROVE  /\ R!Cardinality(Places(t)) >= R!Cardinality(Having(t))
             /\ (\A i \in Having(t) : R!Cardinality(R!Occurs(t, loaded[i].tags)) = 1)
                => R!Cardinality(Places(t)) = R!Cardinality(Having(t))
  <2> DEFINE spots == [i \in Chosen |-> R!Occurs(t, loaded[i].tags)]
  <2>1. ASSUME NEW i \in Chosen
        PROVE  IsFiniteSet(spots[i]) /\ (spots[i] # {} <=> i \in Having(t))
    <3>1. loaded[i].tags \in Seq(Tags) /\ Len(loaded[i].tags) \in Nat
          /\ DOMAIN loaded[i].tags = 1 .. Len(loaded[i].tags)
      BY <1>3
    <3>2. spots[i] \subseteq 1 .. Len(loaded[i].tags)
      BY <3>1 DEF R!Occurs
    <3>3. IsFiniteSet(1 .. Len(loaded[i].tags))
      BY <3>1, FS_Interval
    <3>4. IsFiniteSet(spots[i])
      BY <3>2, <3>3, FS_Subset
    <3>5. spots[i] # {} <=> i \in Having(t)
      BY <3>1 DEF R!Occurs, R!Contains
    <3> QED BY <3>4, <3>5
  <2>2. Places(t) = UNION {{i} \X spots[i] : i \in Having(t)}
    <3>1. ASSUME NEW e, e \in Places(t) PROVE \E i \in Having(t) : e \in {i} \X spots[i]
      <4>1. PICK i \in Chosen : e \in {i} \X R!Occurs(t, loaded[i].tags)
        BY <3>1 DEF Places
      <4>2. e \in {i} \X spots[i] /\ spots[i] # {}
        BY <4>1
      <4> QED BY <2>1, <4>2
    <3>2. ASSUME NEW i \in Having(t), NEW e \in {i} \X spots[i] PROVE e \in Places(t)
      BY <3>2 DEF Places
    <3> QED BY <3>1, <3>2
  <2>3. IsFiniteSet(Having(t))
    BY <1>2, FS_Subset
  <2>4. IsFiniteSet(Places(t))
    <3>1. \A i \in Having(t) : IsFiniteSet(spots[i])
      BY <2>1
    <3> HIDE DEF spots, Having
    <3> QED BY <2>2, <2>3, <3>1, PlacesFinite
  <2>5. /\ Cardinality(Places(t)) >= Cardinality(Having(t))
        /\ (\A i \in Having(t) : \E n : spots[i] = {n}) => Cardinality(Places(t)) = Cardinality(Having(t))
    <3>1. \A i \in Having(t) : spots[i] # {}
      BY <2>1
    <3> HIDE DEF spots, Having
    <3> QED BY <2>2, <2>3, <2>4, <3>1, PlacesCounted
  <2>6. ASSUME NEW i \in Having(t), Cardinality(R!Occurs(t, loaded[i].tags)) = 1 PROVE \E n : spots[i] = {n}
    BY <2>1, <2>6, FS_Singleton
  <2> QED BY <2>5, <2>6, ReportsCardinality
<1>6. Chosen' = Chosen
  BY <1>1 DEF R!Chosen
<1>7. /\ summary'.total = R!Cardinality(Chosen) /\ summary'.untagged = R!Cardinality(R!Untagged)
      /\ \A t \in Tags : summary'.count[t] = R!Cardinality(Places(t))
  BY <1>1
<1> HIDE DEF Chosen
<1> QED BY <1>1, <1>4, <1>5, <1>6, <1>7 DEF R!AddsUp, Chosen

-----------------------------------------------------------------------------
(* Reports: the invariant.                                                   *)

ReportPhases == {"idle", "list", "look", "exists", "read", "mentions", "dot", "neato", "done", "failed"}
Databases == [Task -> {R!Absent, R!Dir} \cup TaskFiles]
ReportTypes ==
  /\ phase \in ReportPhases
  /\ db \in Databases /\ was \in Databases /\ since \in [Task -> SUBSET TaskFiles]
  /\ todo \subseteq Task /\ DOMAIN loaded \subseteq Task /\ (phase \in {"exists", "read"} => child \in Task)

\* No file vanishes, and every file there has been is remembered.
Remembered ==
  /\ \A i \in Task : R!IsFile(was[i]) => R!IsFile(db[i])
  /\ phase # "idle" => \A i \in Task : R!IsFile(db[i]) => db[i] \in since[i]
  /\ \A i \in DOMAIN loaded : loaded[i] \in since[i]

\* Every task that was there when the report began is still to be looked at, or has been;
\* and what is to be looked at is there, unless something has failed.
Looked ==
  /\ phase \in {"idle", "list"} => DOMAIN loaded = {} /\ todo = {}
  /\ phase \notin {"idle", "list", "failed"} =>
       \A i \in Task : R!IsFile(was[i]) =>
         i \in todo \/ i \in DOMAIN loaded \/ (i = child /\ phase \in {"exists", "read"})
  /\ phase = "read" => R!IsFile(db[child])
  /\ phase \in {"mentions", "dot", "neato", "done"} => todo = {}
  /\ ~fault => phase # "failed" /\ \A i \in todo : db[i] # R!Absent

\* What graph has found, and has still to look at.
Drawn ==
  /\ phase \in {"idle", "list", "look", "exists", "read"} => unseen = {} /\ edges = {}
  /\ \A e \in unseen \cup edges : /\ e \in Task \X Task
                                  /\ e[1] \in DOMAIN loaded /\ e[2] \in loaded[e[1]].mentions
  /\ \A e \in edges : R!IsFile(db[e[2]])
  /\ phase = "mentions" \/ (phase \in {"dot", "neato", "done"} /\ report = "graph") =>
       \A i \in DOMAIN loaded : \A m \in loaded[i].mentions :
         R!IsFile(was[m]) => <<i, m>> \in unseen \cup edges
  /\ phase \in {"dot", "neato", "done"} => unseen = {}
  /\ phase \in {"mentions", "dot", "neato"} => report = "graph"

ReportsInv == ReportTypes /\ Remembered /\ Looked /\ Drawn /\ (phase = "done" /\ report # "graph" => R!AddsUp)

LEMMA ReportsInit == R!Init => ReportsInv
<1> SUFFICES ASSUME R!Init PROVE ReportsInv
  OBVIOUS
<1> USE DEF R!Init
<1>1. ReportTypes
  BY DEF ReportTypes, ReportPhases, Databases
<1>2. Remembered
  BY DEF Remembered
<1>3. Looked
  BY DEF Looked
<1>4. Drawn
  BY DEF Drawn
<1> QED BY <1>1, <1>2, <1>3, <1>4 DEF ReportsInv

\* Whatever other commands do while it reads: a file stays one.
LEMMA ReportsWrites ==
  ASSUME ReportsInv, NEW i \in Task, R!Make(i) \/ R!Unmake(i) \/ R!Replace(i)
  PROVE  ReportsInv'
<1>1. PICK x \in {R!Absent, R!Dir} \cup TaskFiles :
        /\ db' = [db EXCEPT ![i] = x]
        /\ since' = IF R!IsFile(x) THEN [since EXCEPT ![i] = @ \cup {x}] ELSE since
        /\ UNCHANGED <<report, phase, todo, child, loaded, unseen, edges, summary, was>>
        /\ R!IsFile(db[i]) => R!IsFile(x)
        /\ x = R!Absent => fault'
        /\ fault => fault'
        /\ R!IsFile(x) => x \in TaskFiles
  <2>1. ~R!IsFile(R!Absent) /\ ~R!IsFile(R!Dir) /\ R!Dir # R!Absent
    BY DEF R!IsFile, R!Absent, R!Dir
  <2>2. CASE R!Make(i)
    BY <2>1, <2>2 DEF R!Make, R!Changes
  <2>3. CASE R!Unmake(i)
    BY <2>1, <2>3 DEF R!Unmake, R!Changes
  <2>4. CASE R!Replace(i)
    <3>1. PICK v \in TaskFiles : R!Changes(i, v) /\ UNCHANGED fault
      BY <2>4 DEF R!Replace
    <3>2. R!IsFile(v) /\ v # R!Absent
      BY <2>1, PartsAssumption DEF R!ReportsAssumption
    <3> QED BY <3>1, <3>2 DEF R!Changes
  <2> QED BY <2>2, <2>3, <2>4
<1>2. ReportTypes
  BY DEF ReportsInv
<1>3. /\ db' \in Databases /\ since' \in [Task -> SUBSET TaskFiles]
      /\ \A j \in Task : since[j] \subseteq since'[j]
      /\ db'[i] = x /\ \A j \in Task : j # i => db'[j] = db[j]
      /\ R!IsFile(x) => x \in since'[i]
  BY <1>1, <1>2 DEF ReportTypes, Databases
<1>4. \A j \in Task : R!IsFile(db[j]) => R!IsFile(db'[j])
  BY <1>1, <1>3
<1>5. ReportTypes'
  BY <1>1, <1>2, <1>3 DEF ReportTypes
<1>6. Remembered'
  <2>1. \A j \in Task : R!IsFile(was'[j]) => R!IsFile(db'[j])
    BY <1>1, <1>4 DEF ReportsInv, Remembered
  <2>2. ASSUME phase # "idle", NEW j \in Task, R!IsFile(db'[j]) PROVE db'[j] \in since'[j]
    BY <1>3, <2>2 DEF ReportsInv, Remembered
  <2>3. \A j \in DOMAIN loaded : loaded[j] \in since'[j]
    BY <1>2, <1>3 DEF ReportsInv, Remembered, ReportTypes
  <2> QED BY <1>1, <2>1, <2>2, <2>3 DEF Remembered
<1>7. Looked'
  <2>1. phase = "read" => R!IsFile(db'[child])
    BY <1>2, <1>4 DEF ReportsInv, Looked, ReportTypes
  <2>2. ~fault' => phase # "failed" /\ \A j \in todo : db'[j] # R!Absent
    BY <1>1, <1>2, <1>3 DEF ReportsInv, Looked, ReportTypes
  <2> QED BY <1>1, <2>1, <2>2 DEF ReportsInv, Looked
<1>8. Drawn'
  <2>1. \A e \in edges : R!IsFile(db'[e[2]])
    BY <1>4 DEF ReportsInv, Drawn
  <2> QED BY <1>1, <2>1 DEF ReportsInv, Drawn
<1>9. (phase = "done" /\ report # "graph" => R!AddsUp)'
  BY <1>1 DEF ReportsInv, R!AddsUp, R!Chosen
<1> QED BY <1>5, <1>6, <1>7, <1>8, <1>9 DEF ReportsInv

\* The tasks are read one by one.
LEMMA ReportsReads ==
  ASSUME ReportsInv, R!Start \/ R!List \/ R!Look \/ R!Exists \/ R!Read
  PROVE  ReportsInv'
<1> USE DEF R!Env
<1>1. /\ UNCHANGED <<db, unseen, edges, summary>>
      /\ phase \in {"idle", "list", "look", "exists", "read"}
      /\ phase' \in {"list", "look", "exists", "read", "failed"}
      /\ R!Start \/ UNCHANGED <<report, was, since, fault>>
  BY DEF R!Start, R!List, R!Look, R!Exists, R!Read, R!Passed
<1>2. Drawn'
  <2>1. unseen = {} /\ edges = {}
    BY <1>1 DEF ReportsInv, Drawn
  <2> QED BY <1>1, <2>1 DEF Drawn
<1>3. phase' # "done"
  BY <1>1
<1>4. ReportTypes
  BY DEF ReportsInv
<1>5. CASE R!Start
  <2>1. /\ phase = "idle" /\ phase' = "list" /\ was' = db /\ fault' = FALSE /\ UNCHANGED <<todo, child, loaded>>
        /\ since' = [i \in Task |-> IF R!IsFile(db[i]) THEN {db[i]} ELSE {}]
    BY <1>5 DEF R!Start
  <2>2. todo = {} /\ DOMAIN loaded = {}
    BY <2>1 DEF ReportsInv, Looked
  <2>3. \A i \in Task : R!IsFile(db[i]) => db[i] \in TaskFiles
    BY <1>4 DEF ReportTypes, Databases, R!IsFile, R!Absent, R!Dir
  <2>4. ReportTypes'
    BY <1>1, <1>4, <2>1, <2>3 DEF ReportTypes, ReportPhases
  <2>5. Remembered' /\ Looked'
    BY <1>1, <2>1, <2>2 DEF Remembered, Looked
  <2> QED BY <1>2, <1>3, <2>4, <2>5 DEF ReportsInv
<1>6. CASE R!List
  <2>1. /\ phase = "list" /\ phase' = "look" /\ UNCHANGED <<child, loaded>> /\ todo' = {i \in Task : db[i] # R!Absent}
        /\ UNCHANGED <<report, was, since, fault>>
    BY <1>6 DEF R!List
  <2>2. ReportTypes'
    BY <1>1, <1>4, <2>1 DEF ReportTypes, ReportPhases
  <2>3. Remembered'
    BY <1>1, <2>1 DEF ReportsInv, Remembered
  <2>4. Looked'
    <3>1. \A i \in Task : R!IsFile(was[i]) => db[i] # R!Absent
      BY DEF ReportsInv, Remembered, R!IsFile, R!Absent
    <3> QED BY <1>1, <2>1, <3>1 DEF ReportsInv, Looked
  <2> QED BY <1>2, <1>3, <2>2, <2>3, <2>4 DEF ReportsInv
<1>7. CASE R!Look
  <2>1. PICK i \in todo :
          /\ todo' = todo \ {i} /\ UNCHANGED <<loaded, report, was, since, fault>> /\ phase = "look"
          /\ \/ db[i] # R!Absent /\ child' = i /\ phase' = "exists"
             \/ db[i] = R!Absent /\ phase' = "failed" /\ UNCHANGED child
    BY <1>7 DEF R!Look
  <2>2. ReportTypes'
    BY <1>1, <1>4, <2>1 DEF ReportTypes, ReportPhases
  <2>3. Remembered'
    BY <1>1, <2>1 DEF ReportsInv, Remembered
  <2>4. Looked'
    BY <1>1, <2>1 DEF ReportsInv, Looked
  <2> QED BY <1>2, <1>3, <2>2, <2>3, <2>4 DEF ReportsInv
<1>8. CASE R!Exists
  <2>1. /\ phase = "exists" /\ phase' = (IF R!IsFile(db[child]) THEN "read" ELSE "look")
        /\ UNCHANGED <<todo, child, loaded, report, was, since, fault>>
    BY <1>8 DEF R!Exists, R!Passed
  <2>2. ReportTypes'
    BY <1>1, <1>4, <2>1 DEF ReportTypes, ReportPhases
  <2>3. Remembered'
    BY <1>1, <2>1 DEF ReportsInv, Remembered
  <2>4. Looked'
    <3>1. R!IsFile(was[child]) => R!IsFile(db[child])
      BY <1>4, <2>1 DEF ReportsInv, Remembered, ReportTypes
    <3> QED BY <1>1, <2>1, <3>1 DEF ReportsInv, Looked
  <2> QED BY <1>2, <1>3, <2>2, <2>3, <2>4 DEF ReportsInv
<1>9. CASE R!Read
  <2>1. /\ phase = "read" /\ phase' = "look" /\ UNCHANGED <<todo, child, report, was, since, fault>>
        /\ loaded' = [i \in DOMAIN loaded \cup {child} |-> IF i = child THEN db[child] ELSE loaded[i]]
    BY <1>9 DEF R!Read
  <2>2. child \in Task /\ R!IsFile(db[child]) /\ DOMAIN loaded' = DOMAIN loaded \cup {child}
    BY <1>4, <2>1 DEF ReportsInv, ReportTypes, Looked
  <2>3. ReportTypes'
    BY <1>1, <1>4, <2>1, <2>2 DEF ReportTypes, ReportPhases
  <2>4. Remembered'
    <3>1. \A i \in DOMAIN loaded' : loaded'[i] \in since[i]
      BY <2>1, <2>2 DEF ReportsInv, Remembered
    <3> QED BY <1>1, <2>1, <3>1 DEF ReportsInv, Remembered
  <2>5. Looked'
    BY <1>1, <2>1, <2>2 DEF ReportsInv, Looked
  <2> QED BY <1>2, <1>3, <2>3, <2>4, <2>5 DEF ReportsInv
<1> QED BY <1>5, <1>6, <1>7, <1>8, <1>9

\* It is over, or has failed.
LEMMA ReportsEnds ==
  ASSUME ReportsInv, R!Mentions \/ R!Mention \/ R!Dot \/ R!Neato \/ R!Count \/ R!Fault
  PROVE  ReportsInv'
<1> USE DEF R!Env, R!Loaded
<1>1. /\ UNCHANGED <<db, report, todo, child, loaded, was, since>>
      /\ phase \notin {"idle", "done", "failed"} /\ phase' \in {"mentions", "dot", "neato", "done", "failed"}
      /\ IF R!Fault THEN phase' = "failed" /\ fault' ELSE UNCHANGED fault /\ phase' # "failed"
      /\ R!Fault \/ phase \notin {"exists", "read"}
  BY DEF R!Mentions, R!Mention, R!Dot, R!Neato, R!Count, R!Fault, R!Fails
<1>2. ReportTypes'
  BY <1>1 DEF ReportsInv, ReportTypes, ReportPhases
<1>3. Remembered'
  BY <1>1 DEF ReportsInv, Remembered
<1>4. Looked'
  <2>1. CASE R!Fault
    BY <1>1, <2>1 DEF Looked
  <2>2. CASE ~R!Fault
    <3>1. todo = {} /\ phase \notin {"idle", "list"}
      BY <2>2 DEF ReportsInv, Looked, R!Mentions, R!Mention, R!Dot, R!Neato, R!Count
    <3> QED BY <1>1, <2>2, <3>1 DEF ReportsInv, Looked
  <2> QED BY <2>1, <2>2
<1>5. Drawn'
  <2>1. CASE R!Mentions
    <3>1. /\ phase' = "mentions" /\ report = "graph" /\ UNCHANGED edges /\ edges = {}
          /\ unseen' = UNION {{<<i, m>> : m \in loaded[i].mentions} : i \in DOMAIN loaded}
      BY <2>1 DEF R!Mentions, ReportsInv, Drawn
    <3>2. \A i \in DOMAIN loaded : i \in Task /\ loaded[i] \in TaskFiles /\ loaded[i].mentions \subseteq Task
      BY PartsAssumption DEF ReportsInv, ReportTypes, Remembered, R!ReportsAssumption
    <3>3. \A e \in unseen' : e \in Task \X Task /\ e[1] \in DOMAIN loaded /\ e[2] \in loaded[e[1]].mentions
      <4> SUFFICES ASSUME NEW i \in DOMAIN loaded, NEW m \in loaded[i].mentions
                   PROVE  <<i, m>> \in Task \X Task
        BY <3>1
      <4> QED BY <3>2
    <3>4. \A i \in DOMAIN loaded : \A m \in loaded[i].mentions : <<i, m>> \in unseen'
      BY <3>1
    <3> QED BY <1>1, <3>1, <3>3, <3>4 DEF Drawn
  <2>2. CASE R!Mention
    <3>1. PICK e \in unseen :
            /\ phase = "mentions" /\ phase' = "mentions" /\ unseen' = unseen \ {e}
            /\ edges' = IF R!IsFile(db[e[2]]) THEN edges \cup {e} ELSE edges
      BY <2>2 DEF R!Mention, R!Linked
    <3>2. ASSUME NEW i \in DOMAIN loaded, NEW m \in loaded[i].mentions, R!IsFile(was[m])
          PROVE  <<i, m>> \in unseen' \cup edges'
      <4>1. <<i, m>> \in unseen \cup edges
        BY <3>1, <3>2 DEF ReportsInv, Drawn
      <4>2. m \in Task
        BY <4>1 DEF ReportsInv, Drawn
      <4>3. R!IsFile(db[m])
        BY <3>2, <4>2 DEF ReportsInv, Remembered
      <4>4. <<i, m>>[2] = m
        OBVIOUS
      <4>5. CASE <<i, m>> = e
        <5>1. e[2] = m
          BY <4>4, <4>5
        <5> QED BY <3>1, <4>3, <4>5, <5>1
      <4>6. CASE <<i, m>> # e
        BY <3>1, <4>1, <4>6
      <4> QED BY <4>5, <4>6
    <3>3. \A f \in unseen' \cup edges' : /\ f \in Task \X Task
                                         /\ f[1] \in DOMAIN loaded /\ f[2] \in loaded[f[1]].mentions
      BY <3>1 DEF ReportsInv, Drawn
    <3>4. \A f \in edges' : R!IsFile(db[f[2]])
      BY <3>1 DEF ReportsInv, Drawn
    <3>5. report = "graph"
      BY <3>1 DEF ReportsInv, Drawn
    <3> QED BY <1>1, <3>1, <3>2, <3>3, <3>4, <3>5 DEF Drawn
  <2>3. CASE R!Dot \/ R!Neato
    <3>1. /\ UNCHANGED <<unseen, edges>> /\ unseen = {} /\ phase \in {"mentions", "dot", "neato"}
          /\ phase' \in {"dot", "neato", "done"}
      BY <2>3 DEF R!Dot, R!Neato, ReportsInv, Drawn
    <3> QED BY <1>1, <3>1 DEF ReportsInv, Drawn
  <2>4. CASE R!Count
    <3>1. /\ UNCHANGED <<unseen, edges>> /\ phase' = "done" /\ report # "graph" /\ phase = "look"
      BY <2>4 DEF R!Count
    <3> QED BY <1>1, <3>1 DEF ReportsInv, Drawn
  <2>5. CASE R!Fault
    <3>1. UNCHANGED <<unseen, edges>> /\ phase' = "failed"
      BY <2>5 DEF R!Fault, R!Fails
    <3> QED BY <1>1, <3>1 DEF ReportsInv, Drawn
  <2> QED BY <2>1, <2>2, <2>3, <2>4, <2>5
<1>6. (phase = "done" /\ report # "graph" => R!AddsUp)'
  <2>1. CASE R!Count
    <3>1. \A i \in DOMAIN loaded : loaded[i] \in TaskFiles
      BY DEF ReportsInv, ReportTypes, Remembered
    <3>2. DOMAIN loaded \subseteq Task
      BY DEF ReportsInv, ReportTypes
    <3> QED BY <2>1, <3>1, <3>2, SummaryAdds
  <2>2. CASE R!Neato
    BY <1>1, <2>2 DEF R!Neato, ReportsInv, Drawn
  <2>3. CASE R!Mentions \/ R!Mention \/ R!Dot \/ R!Fault
    <3>1. phase' # "done"
      BY <2>3 DEF R!Mentions, R!Mention, R!Dot, R!Fault, R!Fails
    <3> QED BY <3>1
  <2> QED BY <2>1, <2>2, <2>3
<1> QED BY <1>2, <1>3, <1>4, <1>5, <1>6 DEF ReportsInv

\* Every step keeps the invariant.
LEMMA ReportsNext ==
  ASSUME ReportsInv, [R!Next]_R!vars
  PROVE  ReportsInv'
<1>1. CASE UNCHANGED R!vars
  <2>1. ReportTypes' /\ Remembered' /\ Looked'
    BY <1>1 DEF R!vars, ReportsInv, ReportTypes, Remembered, Looked
  <2>2. Drawn'
    BY <1>1 DEF R!vars, ReportsInv, Drawn
  <2>3. R!AddsUp' <=> R!AddsUp
    BY <1>1 DEF R!vars, R!AddsUp, R!Chosen
  <2> QED BY <1>1, <2>1, <2>2, <2>3 DEF R!vars, ReportsInv
<1>2. CASE R!Next
  BY <1>2, ReportsWrites, ReportsReads, ReportsEnds DEF R!Next
<1> QED BY <1>1, <1>2

\* In the part that is about Reports.
LEMMA ReportsPart ==
  /\ PartsInit => IF part = "reports" THEN ReportsInv ELSE phase = "off"
  /\ (IF part = "reports" THEN ReportsInv ELSE phase = "off")
     /\ [PartsNext]_<<vars, phases, setup, reports, table, part>>
     => (IF part = "reports" THEN ReportsInv ELSE phase = "off")'
<1>1. PartsInit => IF part = "reports" THEN ReportsInv ELSE phase = "off"
  BY ReportsInit DEF PartsInit, NoReports
<1>2. ASSUME IF part = "reports" THEN ReportsInv ELSE phase = "off",
             [PartsNext]_<<vars, phases, setup, reports, table, part>>
      PROVE  (IF part = "reports" THEN ReportsInv ELSE phase = "off")'
  <2>1. CASE part = "reports"
    <3>1. part' = part /\ [R!Next]_R!vars
      BY <1>2, <2>1 DEF PartsNext, reports, R!vars
    <3> QED BY <1>2, <2>1, <3>1, ReportsNext
  <2>2. CASE part # "reports"
    BY <1>2, <2>2 DEF PartsNext, reports
  <2> QED BY <2>1, <2>2
<1> QED BY <1>1, <1>2

\* A report that is made without the lock is one of tasks that were there, with all that
\* were there from the beginning; nobody who works as he should makes it fail; and its sums
\* are right: for any number of tasks and tags.
THEOREM ReportsAreTrue == PartsSpec => []ReportsWhatWas
<1>1. ReportsInv => R!ReportsWhatWas
  <2> SUFFICES ASSUME ReportsInv PROVE R!ReportsWhatWas
    OBVIOUS
  <2>1. phase = "failed" => fault
    BY DEF ReportsInv, Looked
  <2>2. phase = "done" => /\ {i \in Task : R!IsFile(was[i])} \subseteq DOMAIN loaded
                          /\ \A i \in DOMAIN loaded : loaded[i] \in since[i]
    BY DEF ReportsInv, Looked, Remembered
  <2> QED BY <2>1, <2>2 DEF ReportsInv, R!ReportsWhatWas
<1>2. (IF part = "reports" THEN ReportsInv ELSE phase = "off") => ReportsWhatWas
  BY <1>1 DEF ReportsWhatWas, R!ReportsWhatWas
<1> QED BY <1>2, ReportsPart, PTL DEF PartsSpec

\* Each arrow of the graph leads from a task to a task, and none that was there all the
\* time is missing.
THEOREM ArrowsLeadToTasks == PartsSpec => []GraphLeadsToTasks
<1>1. ReportsInv => R!GraphLeadsToTasks
  <2> SUFFICES ASSUME ReportsInv, phase = "done", report = "graph"
               PROVE  /\ \A e \in edges : R!IsFile(db[e[2]]) /\ \E v \in since[e[1]] : e[2] \in v.mentions
                      /\ \A i, m \in Task : /\ R!IsFile(was[i]) /\ since[i] = {was[i]} /\ m \in was[i].mentions
                                            /\ R!IsFile(was[m])
                                            => <<i, m>> \in edges
    BY DEF R!GraphLeadsToTasks
  <2>1. ASSUME NEW e \in edges PROVE R!IsFile(db[e[2]]) /\ \E v \in since[e[1]] : e[2] \in v.mentions
    <3>1. loaded[e[1]] \in since[e[1]] /\ e[2] \in loaded[e[1]].mentions
      BY DEF ReportsInv, Drawn, Remembered
    <3> QED BY <3>1 DEF ReportsInv, Drawn
  <2>2. ASSUME NEW i \in Task, NEW m \in Task, R!IsFile(was[i]), since[i] = {was[i]}, m \in was[i].mentions,
               R!IsFile(was[m])
        PROVE  <<i, m>> \in edges
    <3>1. i \in DOMAIN loaded /\ unseen = {}
      BY <2>2 DEF ReportsInv, Looked, Drawn
    <3>2. loaded[i] = was[i]
      BY <2>2, <3>1 DEF ReportsInv, Remembered
    <3> QED BY <2>2, <3>1, <3>2 DEF ReportsInv, Drawn
  <2> QED BY <2>1, <2>2
<1>2. (IF part = "reports" THEN ReportsInv ELSE phase = "off") => GraphLeadsToTasks
  BY <1>1 DEF GraphLeadsToTasks, R!GraphLeadsToTasks
<1> QED BY <1>2, ReportsPart, PTL DEF PartsSpec

-----------------------------------------------------------------------------
(* HashTable: arrays, and where a key is found.                              *)

Slot == {H!Empty, H!Deleted} \cup {H!Entry(k, v) : k \in Keys, v \in Values}
Array(s) == \E c \in Nat : s \in [0 .. c - 1 -> Slot]

\* Sets of numbers have a smallest.
LEMMA Smallest ==
  ASSUME NEW X, X \subseteq Nat, X # {}
  PROVE  H!Min(X) \in X /\ \A y \in X : H!Min(X) <= y
<1> DEFINE Less == {ss \in Nat \X Nat : ss[1] < ss[2]}
<1>1. IsWellFoundedOn(Less, Nat)
  BY NatLessThanWellFounded DEF OpToRel
<1>2. PICK x \in X : \A y \in X : ~(<<y, x>> \in Less)
  <2> HIDE DEF Less
  <2> QED BY <1>1, WFMin
<1>3. \A y \in X : x <= y
  <2> TAKE y \in X
  <2>1. x \in Nat /\ y \in Nat /\ ~(y < x)
    BY <1>2
  <2> QED BY <2>1
<1> QED BY <1>3 DEF H!Min

\* What a slot may be.
LEMMA Slots ==
  ASSUME NEW e \in Slot
  PROVE  /\ e.state = "empty" => e = H!Empty
         /\ e.state # "empty" /\ e.state # "live" => e = H!Deleted
         /\ e.state = "live" => e.key \in Keys /\ e.value \in Values /\ e = H!Entry(e.key, e.value)
         /\ e.key \in Keys => e.state = "live"
         /\ e.state \in {"empty", "deleted", "live"}
BY PartsAssumption DEF Slot, H!Empty, H!Deleted, H!Entry, H!HashTableAssumption

\* Every probe leads into the array.
LEMMA ProbesInside ==
  ASSUME NEW s, Array(s), NEW k \in Keys, NEW n \in DOMAIN s
  PROVE  H!Probe(k, n, H!Cap(s)) \in DOMAIN s /\ n \in Nat
<1>1. PICK c \in Nat : s \in [0 .. c - 1 -> Slot]
  BY DEF Array
<1>2. DOMAIN s = 0 .. c - 1 /\ n \in Nat /\ c > 0
  BY <1>1
<1>3. H!Cap(s) = c
  <2>1. Cardinality(0 .. c - 1) = c
    BY FS_Interval
  <2>2. H!Cardinality(0 .. c - 1) = Cardinality(0 .. c - 1)
    BY DEF H!Cardinality, Cardinality
  <2> QED BY <1>2, <2>1, <2>2 DEF H!Cap
<1>4. H!HashOf(k) \in Nat
  BY PartsAssumption DEF H!HashOf, H!HashTableAssumption
<1>5. n * (n + 1) \in Nat
  BY <1>2
<1>6. (n * (n + 1)) \div 2 \in Nat
  BY <1>5
<1>7. H!HashOf(k) + (n * (n + 1)) \div 2 \in Nat
  BY <1>4, <1>6
<1>8. \A x \in Nat : x % c \in 0 .. c - 1
  BY <1>2
<1> QED BY <1>2, <1>3, <1>7, <1>8 DEF H!Probe

\* A search ends at the key, or where it is missed, or nowhere.
LEMMA SearchEnds ==
  ASSUME NEW s, Array(s), NEW k \in Keys
  PROVE  \/ H!FindSlot(s, k) = -1 /\ H!Stops(s, k) = {}
         \/ LET m == H!Min(H!Stops(s, k)) IN
            /\ H!Stops(s, k) # {} /\ m \in H!Stops(s, k) /\ \A n \in H!Stops(s, k) : m <= n
            /\ H!FindSlot(s, k) = H!Probe(k, m, H!Cap(s)) /\ H!FindSlot(s, k) \in DOMAIN s
            /\ s[H!FindSlot(s, k)].state = "empty" \/ s[H!FindSlot(s, k)].key = k
<1>1. H!Stops(s, k) \subseteq Nat
  BY ProbesInside DEF H!Stops
<1>2. CASE H!Stops(s, k) = {}
  BY <1>2 DEF H!FindSlot
<1>3. CASE H!Stops(s, k) # {}
  <2> DEFINE m == H!Min(H!Stops(s, k))
  <2>1. m \in H!Stops(s, k) /\ \A n \in H!Stops(s, k) : m <= n
    BY <1>1, <1>3, Smallest
  <2>2. H!FindSlot(s, k) = H!Probe(k, m, H!Cap(s))
    BY <1>3 DEF H!FindSlot
  <2>3. m \in DOMAIN s /\ (s[H!Probe(k, m, H!Cap(s))].state = "empty" \/ s[H!Probe(k, m, H!Cap(s))].key = k)
    BY <2>1 DEF H!Stops
  <2>4. H!Probe(k, m, H!Cap(s)) \in DOMAIN s
    BY <2>3, ProbesInside
  <2> HIDE DEF m
  <2> QED BY <1>3, <2>1, <2>2, <2>3, <2>4 DEF m
<1> QED BY <1>2, <1>3

\* Whether a slot ends the search for k, and whether t has no slot that does where s has none.
Ends(e, k) == e.state = "empty" \/ e.key = k
NoMoreEnds(t, s, k) == \A i \in DOMAIN s : Ends(t[i], k) => Ends(s[i], k)

\* A search that stopped where it stops still, and may not stop earlier, ends there.
LEMMA SearchStays ==
  ASSUME NEW s, NEW t, Array(s), Array(t), DOMAIN s = DOMAIN t, NEW k \in Keys,
         H!FindSlot(s, k) # -1,
         NoMoreEnds(t, s, k), Ends(t[H!FindSlot(s, k)], k)
  PROVE  H!FindSlot(t, k) = H!FindSlot(s, k)
<1> DEFINE m == H!Min(H!Stops(s, k))
           l == H!Min(H!Stops(t, k))
<1>1. H!Cap(s) = H!Cap(t)
  BY DEF H!Cap
<1>2. /\ m \in H!Stops(s, k) /\ \A n \in H!Stops(s, k) : m <= n
      /\ H!FindSlot(s, k) = H!Probe(k, m, H!Cap(s))
  BY SearchEnds
<1>3. m \in H!Stops(t, k)
  BY <1>1, <1>2 DEF H!Stops, Ends
<1>4. H!Stops(t, k) \subseteq H!Stops(s, k)
  <2> SUFFICES ASSUME NEW n \in H!Stops(t, k) PROVE n \in H!Stops(s, k)
    OBVIOUS
  <2>1. n \in DOMAIN s /\ (t[H!Probe(k, n, H!Cap(s))].state = "empty" \/ t[H!Probe(k, n, H!Cap(s))].key = k)
    BY <1>1 DEF H!Stops
  <2>2. H!Probe(k, n, H!Cap(s)) \in DOMAIN s
    BY <2>1, ProbesInside
  <2> QED BY <2>1, <2>2 DEF H!Stops, NoMoreEnds, Ends
<1>5. H!Stops(s, k) \subseteq Nat
  BY ProbesInside DEF H!Stops
<1>6. l \in H!Stops(t, k) /\ l <= m
  BY <1>3, <1>4, <1>5, Smallest
<1>7. l = m
  <2>1. m <= l /\ l \in Nat /\ m \in Nat
    BY <1>2, <1>4, <1>5, <1>6
  <2> HIDE DEF l, m
  <2> QED BY <1>6, <2>1
<1>8. H!FindSlot(t, k) = H!Probe(k, l, H!Cap(t))
  BY <1>3 DEF H!FindSlot
<1> HIDE DEF l, m
<1> QED BY <1>1, <1>2, <1>7, <1>8

-----------------------------------------------------------------------------
(* HashTable: what is in an array, and the table as a dictionary.            *)

\* Each entry is where its key is found.
Findable(s) == \A i \in H!Live(s) : H!FindSlot(s, s[i].key) = i
Entries(s) == {s[i] : i \in H!Live(s)}

\* The dictionary of some entries, no two of the same key.
MapOf(held) == [k \in Keys |-> IF \E e \in held : e.key = k THEN (CHOOSE e \in held : e.key = k).value ELSE NoValue]
OneEach(held) == \A d, e \in held : d.key = e.key => d = e
AreEntries(held) == \A e \in held : e \in Slot /\ e.state = "live"

LEMMA MapIs ==
  ASSUME NEW held, OneEach(held), NEW k \in Keys
  PROVE  /\ \A e \in held : e.key = k => MapOf(held)[k] = e.value
         /\ (\A e \in held : e.key # k) => MapOf(held)[k] = NoValue
<1>1. ASSUME NEW e \in held, e.key = k PROVE MapOf(held)[k] = e.value
  <2>1. (CHOOSE d \in held : d.key = k) \in held /\ (CHOOSE d \in held : d.key = k).key = k
    BY <1>1
  <2>2. (CHOOSE d \in held : d.key = k) = e
    BY <1>1, <2>1 DEF OneEach
  <2> QED BY <1>1, <2>2 DEF MapOf
<1> QED BY <1>1 DEF MapOf

\* An entry that is put takes the place of the one with its key.
LEMMA MapPut ==
  ASSUME NEW held, OneEach(held), NEW e, e.key \in Keys, NEW new, new = {d \in held : d.key # e.key} \cup {e}
  PROVE  MapOf(new) = [MapOf(held) EXCEPT ![e.key] = e.value]
<1>1. OneEach(new)
  BY DEF OneEach
<1>2. MapOf(new)[e.key] = e.value
  BY <1>1, MapIs
<1>3. ASSUME NEW j \in Keys, j # e.key PROVE MapOf(new)[j] = MapOf(held)[j]
  <2>1. CASE \E d \in held : d.key = j
    <3>1. PICK d \in held : d.key = j
      BY <2>1
    <3>2. MapOf(new)[j] = d.value
      BY <1>1, <1>3, <3>1, MapIs
    <3>3. MapOf(held)[j] = d.value
      BY <3>1, MapIs
    <3> QED BY <3>2, <3>3
  <2>2. CASE \A d \in held : d.key # j
    <3>1. MapOf(new)[j] = NoValue
      BY <1>1, <1>3, <2>2, MapIs
    <3>2. MapOf(held)[j] = NoValue
      BY <2>2, MapIs
    <3> QED BY <3>1, <3>2
  <2> QED BY <2>1, <2>2
<1>4. MapOf(new) = [j \in Keys |-> MapOf(new)[j]] /\ MapOf(held) = [j \in Keys |-> MapOf(held)[j]]
  BY DEF MapOf
<1> QED BY <1>2, <1>3, <1>4

\* And one that is deleted leaves nothing.
LEMMA MapDelete ==
  ASSUME NEW held, OneEach(held), NEW k \in Keys, NEW new, new = {e \in held : e.key # k}
  PROVE  MapOf(new) = [MapOf(held) EXCEPT ![k] = NoValue] /\ OneEach(new)
<1>1. OneEach(new)
  BY DEF OneEach
<1>2. MapOf(new)[k] = NoValue
  BY <1>1, MapIs
<1>3. ASSUME NEW j \in Keys, j # k PROVE MapOf(new)[j] = MapOf(held)[j]
  <2>1. CASE \E e \in held : e.key = j
    <3>1. PICK e \in held : e.key = j
      BY <2>1
    <3>2. MapOf(new)[j] = e.value
      BY <1>1, <1>3, <3>1, MapIs
    <3>3. MapOf(held)[j] = e.value
      BY <3>1, MapIs
    <3> QED BY <3>2, <3>3
  <2>2. CASE \A e \in held : e.key # j
    <3>1. MapOf(new)[j] = NoValue
      BY <1>1, <2>2, MapIs
    <3>2. MapOf(held)[j] = NoValue
      BY <2>2, MapIs
    <3> QED BY <3>1, <3>2
  <2> QED BY <2>1, <2>2
<1>4. MapOf(new) = [j \in Keys |-> MapOf(new)[j]] /\ MapOf(held) = [j \in Keys |-> MapOf(held)[j]]
  BY DEF MapOf
<1> QED BY <1>1, <1>2, <1>3, <1>4

\* t is s with e in slot i, which ends no search that it does not end for its own key.
Changes(s, i, e, t) == /\ i \in DOMAIN s /\ e \in Slot /\ t = [s EXCEPT ![i] = e]
                       /\ e.state # "empty" \/ s[i].state = "empty"
                       /\ e.state = "live" => H!FindSlot(s, e.key) = i

\* What one slot changes: the entries besides it stay what they are and where they are found.
LEMMA OneSlot ==
  ASSUME NEW s, Array(s), Findable(s), NEW i, NEW e, NEW t, Changes(s, i, e, t)
  PROVE  /\ Array(t) /\ Findable(t) /\ DOMAIN t = DOMAIN s
         /\ \A j \in DOMAIN s : j # i => t[j] = s[j]
         /\ t[i] = e
         /\ H!Live(t) = (H!Live(s) \ {i}) \cup (IF e.state = "live" THEN {i} ELSE {})
<1> USE DEF Changes
<1>1. PICK c \in Nat : s \in [0 .. c - 1 -> Slot]
  BY DEF Array
<1>2. t \in [0 .. c - 1 -> Slot] /\ DOMAIN t = DOMAIN s /\ t[i] = e /\ \A j \in DOMAIN s : j # i => t[j] = s[j]
  BY <1>1
<1>3. Array(t)
  BY <1>2 DEF Array
<1>4. H!Live(t) = (H!Live(s) \ {i}) \cup (IF e.state = "live" THEN {i} ELSE {})
  BY <1>2 DEF H!Live
<1>5. ASSUME NEW j \in H!Live(t) PROVE H!FindSlot(t, t[j].key) = j
  <2>1. j \in DOMAIN s /\ t[j] \in Slot /\ t[j].state = "live"
    BY <1>1, <1>2 DEF H!Live
  <2>2. t[j].key \in Keys /\ j # -1
    <3>1. j \in Nat
      BY <1>1, <2>1
    <3> QED BY <2>1, <3>1, Slots
  <2> DEFINE k == t[j].key
  <2>3. H!FindSlot(s, k) = j
    <3>1. CASE j = i
      BY <1>2, <2>1, <3>1
    <3>2. CASE j # i
      <4>1. t[j] = s[j] /\ j \in H!Live(s)
        BY <1>2, <2>1, <3>2 DEF H!Live
      <4> QED BY <4>1 DEF Findable
    <3> QED BY <3>1, <3>2
  <2>4. ASSUME NEW n \in DOMAIN s, t[n].state = "empty" \/ t[n].key = k
        PROVE  s[n].state = "empty" \/ s[n].key = k
    <3>1. CASE n # i
      BY <1>2, <2>4, <3>1
    <3>2. CASE n = i
      <4>1. t[n] = e
        BY <1>2, <3>2
      <4>2. CASE e.state = "empty"
        BY <3>2, <4>2
      <4>3. CASE e.state # "empty"
        <5>1. e.key = k /\ e.state = "live"
          BY <2>2, <2>4, <4>1, <4>3, Slots
        <5>2. H!FindSlot(s, k) = i
          BY <5>1
        <5>3. s[i].state = "empty" \/ s[i].key = k
          BY <1>1, <2>2, <2>3, <5>2, SearchEnds
        <5> QED BY <3>2, <5>3
      <4> QED BY <4>2, <4>3
    <3> QED BY <3>1, <3>2
  <2>5. t[H!FindSlot(s, k)].key = k /\ k \in Keys /\ H!FindSlot(s, k) # -1
    BY <2>2, <2>3
  <2>6. NoMoreEnds(t, s, k)
    BY <2>4 DEF NoMoreEnds, Ends
  <2>7. Ends(t[H!FindSlot(s, k)], k)
    BY <2>5 DEF Ends
  <2> HIDE DEF k
  <2>8. H!FindSlot(t, k) = H!FindSlot(s, k)
    <3>1. DOMAIN s = DOMAIN t /\ k \in Keys /\ H!FindSlot(s, k) # -1
      BY <1>2, <2>5
    <3> QED BY <1>3, <2>6, <2>7, <3>1, SearchStays
  <2> QED BY <2>3, <2>8 DEF k
<1> QED BY <1>2, <1>3, <1>4, <1>5 DEF Findable

\* An entry that takes the place where its key is found, or is missed.
LEMMA EntryPut ==
  ASSUME NEW s, Array(s), Findable(s), NEW e \in Slot, e.state = "live", H!FindSlot(s, e.key) # -1,
         NEW i, i = H!FindSlot(s, e.key), NEW t, Changes(s, i, e, t)
  PROVE  /\ Array(t) /\ Findable(t) /\ DOMAIN t = DOMAIN s
         /\ Entries(t) = {d \in Entries(s) : d.key # e.key} \cup {e}
<1>1. e.key \in Keys
  BY Slots
<1>2. i \in DOMAIN s /\ (s[i].state = "empty" \/ s[i].key = e.key)
  BY <1>1, SearchEnds
<1>3. /\ Array(t) /\ Findable(t) /\ DOMAIN t = DOMAIN s /\ \A j \in DOMAIN s : j # i => t[j] = s[j]
      /\ t[i] = e /\ H!Live(t) = (H!Live(s) \ {i}) \cup {i}
  <2>1. /\ Array(t) /\ Findable(t) /\ DOMAIN t = DOMAIN s /\ \A j \in DOMAIN s : j # i => t[j] = s[j]
        /\ t[i] = e /\ H!Live(t) = (H!Live(s) \ {i}) \cup (IF e.state = "live" THEN {i} ELSE {})
    BY OneSlot
  <2> QED BY <2>1
<1>4. ASSUME NEW j \in H!Live(s) PROVE j # i <=> s[j].key # e.key
  <2>1. H!FindSlot(s, s[j].key) = j /\ s[j].state = "live"
    BY DEF Findable, H!Live
  <2> QED BY <1>2, <2>1
<1>5. \A j \in H!Live(s) : j \in DOMAIN s
  BY DEF H!Live
<1>6. ASSUME NEW d \in Entries(t) PROVE d \in {x \in Entries(s) : x.key # e.key} \cup {e}
  <2>1. PICK j \in H!Live(t) : d = t[j]
    BY DEF Entries
  <2>2. CASE j = i
    BY <1>3, <2>1, <2>2
  <2>3. CASE j # i
    BY <1>3, <1>4, <1>5, <2>1, <2>3 DEF Entries
  <2> QED BY <2>2, <2>3
<1>7. ASSUME NEW d \in Entries(s), d.key # e.key PROVE d \in Entries(t)
  <2>1. PICK j \in H!Live(s) : d = s[j]
    BY DEF Entries
  <2>2. j # i
    BY <1>4, <1>7, <2>1
  <2> QED BY <1>3, <1>5, <2>1, <2>2 DEF Entries
<1>8. e \in Entries(t)
  BY <1>3 DEF Entries
<1> QED BY <1>3, <1>6, <1>7, <1>8

\* A tombstone where an entry was.
LEMMA EntryDeleted ==
  ASSUME NEW s, Array(s), Findable(s), NEW i \in H!Live(s), NEW t, Changes(s, i, H!Deleted, t)
  PROVE  /\ Array(t) /\ Findable(t) /\ DOMAIN t = DOMAIN s /\ H!Live(t) = H!Live(s) \ {i}
         /\ \A j \in H!Live(t) : t[j] = s[j]
         /\ Entries(t) = {d \in Entries(s) : d.key # s[i].key}
<1>1. H!Deleted \in Slot /\ H!Deleted.state = "deleted" /\ i \in DOMAIN s
  BY DEF Slot, H!Deleted, H!Live
<1>2. /\ Array(t) /\ Findable(t) /\ DOMAIN t = DOMAIN s /\ \A j \in DOMAIN s : j # i => t[j] = s[j]
      /\ H!Live(t) = H!Live(s) \ {i}
  <2>1. /\ Array(t) /\ Findable(t) /\ DOMAIN t = DOMAIN s /\ \A j \in DOMAIN s : j # i => t[j] = s[j]
        /\ H!Live(t) = (H!Live(s) \ {i}) \cup (IF H!Deleted.state = "live" THEN {i} ELSE {})
    BY OneSlot
  <2> QED BY <1>1, <2>1
<1>3. ASSUME NEW j \in H!Live(s) PROVE (j # i <=> s[j].key # s[i].key) /\ j \in DOMAIN s
  BY DEF Findable, H!Live
<1>4. \A j \in H!Live(t) : t[j] = s[j]
  BY <1>2, <1>3
<1>5. ASSUME NEW d \in Entries(t) PROVE d \in Entries(s) /\ d.key # s[i].key
  <2>1. PICK j \in H!Live(t) : d = t[j]
    BY DEF Entries
  <2>2. d = s[j] /\ j \in H!Live(s) /\ j # i
    BY <1>2, <1>4, <2>1
  <2> QED BY <1>3, <2>2 DEF Entries
<1>6. ASSUME NEW d \in Entries(s), d.key # s[i].key PROVE d \in Entries(t)
  <2>1. PICK j \in H!Live(s) : d = s[j]
    BY DEF Entries
  <2>2. j \in H!Live(t)
    BY <1>2, <1>6, <2>1
  <2> QED BY <1>4, <2>1, <2>2 DEF Entries
<1> QED BY <1>2, <1>4, <1>5, <1>6

-----------------------------------------------------------------------------
(* HashTable: the invariant.                                                 *)

TableTypes ==
  /\ Array(slots) /\ Array(oldSlots) /\ next \in Nat
  /\ mode \in {"ready", "grow", "put"}
  /\ mode = "ready" => item = H!Empty
  /\ mode # "ready" => iter = -1 /\ item \in Slot /\ item.state = "live"
  /\ mode # "put" => oldSlots = H!NoSlots
  /\ iter = -1 \/ iter \in Nat

\* Both arrays find what they hold, and no entry still to be moved has the key of one that was.
Placed == /\ Findable(slots) /\ Findable(oldSlots)
          /\ \A d \in Entries(slots), j \in H!Rest : d.key # oldSlots[j].key

\* What is still to be visited are the entries ahead.
ToVisit == iter # -1 => due = {slots[i].key : i \in {j \in H!Live(slots) : j > iter}}

TableInv == TableTypes /\ Placed /\ ToVisit

\* Each key has one entry.
LEMMA HeldOnce ==
  ASSUME TableInv
  PROVE  OneEach(H!Held) /\ AreEntries(H!Held) /\ H!Map = MapOf(H!Held)
<1>1. H!Held = Entries(slots) \cup {oldSlots[i] : i \in H!Rest}
  BY DEF H!Held, Entries
<1>2. H!Rest \subseteq H!Live(oldSlots)
  BY DEF H!Rest
<1>3. \A i \in H!Live(slots) : slots[i] \in Slot /\ slots[i].state = "live" /\ H!FindSlot(slots, slots[i].key) = i
  BY DEF TableInv, TableTypes, Placed, Findable, H!Live, Array
<1>4. \A i \in H!Live(oldSlots) : /\ oldSlots[i] \in Slot /\ oldSlots[i].state = "live"
                                  /\ H!FindSlot(oldSlots, oldSlots[i].key) = i
  BY DEF TableInv, TableTypes, Placed, Findable, H!Live, Array
<1>5. \A i \in H!Live(slots), j \in H!Rest : slots[i].key # oldSlots[j].key
  BY DEF TableInv, Placed, Entries
<1>6. \A e \in H!Held : (\E i \in H!Live(slots) : e = slots[i]) \/ (\E i \in H!Rest : e = oldSlots[i])
  BY <1>1 DEF Entries
<1>7. AreEntries(H!Held)
  BY <1>2, <1>3, <1>4, <1>6 DEF AreEntries
<1>8. OneEach(H!Held)
  <2> SUFFICES ASSUME NEW d \in H!Held, NEW e \in H!Held, d.key = e.key PROVE d = e
    BY DEF OneEach
  <2>1. CASE \E i \in H!Live(slots) : d = slots[i]
    BY <1>3, <1>5, <1>6, <2>1
  <2>2. CASE \E i \in H!Rest : d = oldSlots[i]
    BY <1>2, <1>4, <1>5, <1>6, <2>2
  <2> QED BY <1>6, <2>1, <2>2
<1>9. H!Map = MapOf(H!Held)
  BY DEF H!Map, MapOf
<1> QED BY <1>7, <1>8, <1>9

\* Only while entries are moved are there any in the old array.
LEMMA Settled ==
  ASSUME TableInv, mode # "put"
  PROVE  H!Rest = {} /\ H!Held = Entries(slots) /\ Array(H!NoSlots) /\ Findable(H!NoSlots) /\ H!Live(H!NoSlots) = {}
<1>1. DOMAIN H!NoSlots = {} /\ H!Live(H!NoSlots) = {}
  BY DEF H!NoSlots, H!Live
<1>2. H!Rest = {}
  BY <1>1 DEF TableInv, TableTypes, H!Rest
<1>3. Array(H!NoSlots)
  <2>1. H!NoSlots \in [0 .. 0 - 1 -> Slot]
    BY DEF H!NoSlots
  <2> QED BY <2>1 DEF Array
<1> QED BY <1>1, <1>2, <1>3 DEF H!Held, Entries, Findable

\* At the beginning.
LEMMA TableInit == H!Init => TableInv /\ H!Abstract!Init
<1> SUFFICES ASSUME H!Init PROVE TableInv /\ H!Abstract!Init
  OBVIOUS
<1> USE DEF H!Init
<1>1. DOMAIN H!NoSlots = {} /\ H!Live(H!NoSlots) = {}
  BY DEF H!NoSlots, H!Live
<1>2. Array(H!NoSlots)
  <2>1. H!NoSlots \in [0 .. 0 - 1 -> Slot]
    BY DEF H!NoSlots
  <2> QED BY <2>1 DEF Array
<1>3. TableInv
  BY <1>1, <1>2 DEF TableInv, TableTypes, Placed, ToVisit, Findable, Entries
<1>4. H!Held = {}
  BY <1>1 DEF H!Held, H!Rest
<1>5. H!Map = [k \in Keys |-> NoValue]
  BY <1>4 DEF H!Map
<1>6. item.key = NoValue /\ item.value = NoValue
  BY DEF H!Empty
<1> QED BY <1>3, <1>5, <1>6 DEF H!Abstract!Init, H!Abstract!Nothing, H!Abstract!Idle

\* What an insertion does to the array.
LEMMA InsertIs ==
  ASSUME Array(slots), Findable(slots), NEW e \in Slot, e.state = "live", H!Insert(e)
  PROVE  /\ Array(slots') /\ Findable(slots')
         /\ Entries(slots') = {d \in Entries(slots) : d.key # e.key} \cup {e}
<1> DEFINE i == H!FindSlot(slots, e.key)
<1>1. i # -1 /\ slots' = [slots EXCEPT ![i] = e]
  BY DEF H!Insert
<1>2. e.key \in Keys
  BY Slots
<1>3. i \in DOMAIN slots
  BY <1>1, <1>2, SearchEnds
<1>4. Changes(slots, i, e, slots')
  BY <1>1, <1>3 DEF Changes
<1> HIDE DEF i
<1>5. i = H!FindSlot(slots, e.key)
  BY DEF i
<1> QED BY <1>1, <1>4, <1>5, EntryPut

\* A put is begun.
LEMMA TablePut ==
  ASSUME TableInv, NEW k \in Keys, NEW v \in Values, H!Put(k, v)
  PROVE  TableInv' /\ H!Abstract!Start(k, v)
<1>1. /\ UNCHANGED <<slots, oldSlots, iter, due>> /\ mode = "ready" /\ iter = -1 /\ mode' \in {"grow", "put"}
      /\ item' = H!Entry(k, v) /\ next' \in Nat
  BY PartsAssumption DEF H!Put, H!HashTableAssumption
<1>2. item' \in Slot /\ item'.state = "live" /\ item'.key = k /\ item'.value = v
  BY <1>1 DEF Slot, H!Entry
<1>3. oldSlots = H!NoSlots /\ item = H!Empty
  BY <1>1 DEF TableInv, TableTypes
<1>4. H!Rest = {} /\ H!Rest' = {}
  BY <1>1, <1>3, Settled DEF H!Rest
<1>5. TableInv'
  BY <1>1, <1>2, <1>3, <1>4 DEF TableInv, TableTypes, Placed, ToVisit
<1>6. H!Held' = H!Held
  BY <1>1, <1>4 DEF H!Held
<1>7. H!Map' = H!Map
  BY <1>6 DEF H!Map
<1>8. item.key = NoValue /\ item.value = NoValue
  BY <1>3 DEF H!Empty
<1> QED BY <1>1, <1>2, <1>5, <1>7, <1>8 DEF H!Abstract!Start, H!Abstract!Idle

\* The dictionary does not see the array grow.
LEMMA TableGrow ==
  ASSUME TableInv, H!Grow
  PROVE  TableInv' /\ UNCHANGED H!Abstract!vars
<1>1. mode = "grow" /\ UNCHANGED <<item, iter, due>> /\ iter = -1 /\ oldSlots = H!NoSlots
  BY DEF H!Grow, TableInv, TableTypes
<1>2. H!Rest = {} /\ H!Held = Entries(slots) /\ H!Live(H!NoSlots) = {}
  BY <1>1, Settled
<1>3. CASE next' = 2 * next /\ UNCHANGED <<slots, oldSlots, mode>>
  <2>1. H!Rest' = {}
    BY <1>1, <1>2, <1>3 DEF H!Rest
  <2>2. TableInv'
    BY <1>1, <1>3, <2>1 DEF TableInv, TableTypes, Placed, ToVisit
  <2>3. H!Held' = H!Held
    BY <1>2, <1>3, <2>1 DEF H!Held
  <2> QED BY <1>1, <2>2, <2>3 DEF H!Abstract!vars, H!Map
<1>4. CASE slots' = [i \in 0 .. next - 1 |-> H!Empty] /\ oldSlots' = slots /\ next' = 0 /\ mode' = "put"
  <2>1. Array(slots') /\ H!Live(slots') = {}
    <3>1. H!Empty \in Slot /\ H!Empty.state # "live"
      BY DEF Slot, H!Empty
    <3>2. next \in Nat /\ slots' \in [0 .. next - 1 -> Slot]
      BY <1>4, <3>1 DEF TableInv, TableTypes
    <3>3. Array(slots')
      BY <3>2 DEF Array
    <3>4. \A i \in DOMAIN slots' : slots'[i].state # "live"
      BY <1>4, <3>1
    <3> QED BY <3>3, <3>4 DEF H!Live
  <2>2. H!Rest' = H!Live(slots)
    <3>1. \A i \in H!Live(slots) : i \in Nat
      BY DEF TableInv, TableTypes, Array, H!Live
    <3> QED BY <1>4, <3>1 DEF H!Rest
  <2>3. TableInv'
    BY <1>1, <1>4, <2>1 DEF TableInv, TableTypes, Placed, ToVisit, Findable, Entries
  <2>4. H!Held' = H!Held
    BY <1>2, <1>4, <2>1, <2>2 DEF H!Held, Entries
  <2> QED BY <1>1, <2>3, <2>4 DEF H!Abstract!vars, H!Map
<1> QED BY <1>3, <1>4 DEF H!Grow

\* Nor does it see an entry moved.
LEMMA TableMove ==
  ASSUME TableInv, H!Move
  PROVE  TableInv' /\ UNCHANGED H!Abstract!vars
<1> DEFINE e == oldSlots[next]
<1>1. /\ mode = "put" /\ next \in DOMAIN oldSlots /\ next' = next + 1 /\ next \in Nat
      /\ UNCHANGED <<oldSlots, mode, item, iter, due>> /\ iter = -1
  BY DEF H!Move, H!After, TableInv, TableTypes
<1>2. \A i \in H!Live(oldSlots) : i \in Nat
  BY DEF TableInv, TableTypes, Array, H!Live
<1>3. CASE e.state = "live"
  <2>1. e \in Slot /\ next \in H!Rest
    BY <1>1, <1>3 DEF TableInv, TableTypes, Array, H!Rest, H!Live
  <2>2. /\ Array(slots') /\ Findable(slots')
        /\ Entries(slots') = {d \in Entries(slots) : d.key # e.key} \cup {e}
    <3>1. H!Insert(e)
      BY <1>3 DEF H!Move, H!Carried
    <3> HIDE DEF e
    <3> QED BY <1>3, <2>1, <3>1, InsertIs DEF TableInv, TableTypes, Placed
  <2>3. \A d \in Entries(slots) : d.key # e.key
    BY <2>1 DEF TableInv, Placed
  <2>4. H!Rest' = H!Rest \ {next} /\ H!Rest \subseteq H!Live(oldSlots)
    BY <1>1, <1>2 DEF H!Rest
  <2>5. ASSUME NEW j \in H!Rest', NEW d \in Entries(slots') PROVE d.key # oldSlots'[j].key
    <3>1. CASE d = e
      <4>1. j \in H!Live(oldSlots) /\ next \in H!Live(oldSlots) /\ j # next
        BY <2>1, <2>4
      <4> QED BY <1>1, <3>1, <4>1 DEF TableInv, Placed, Findable
    <3>2. CASE d \in Entries(slots)
      BY <1>1, <2>4, <3>2 DEF TableInv, Placed
    <3> QED BY <2>2, <3>1, <3>2
  <2>6. TableInv'
    <3>1. Placed'
      BY <1>1, <2>2, <2>5 DEF TableInv, Placed
    <3>2. TableTypes' /\ ToVisit'
      BY <1>1, <2>2 DEF TableInv, TableTypes, ToVisit
    <3> QED BY <3>1, <3>2 DEF TableInv
  <2>7. H!Held' = H!Held
    <3>1. H!Held = Entries(slots) \cup {oldSlots[i] : i \in H!Rest}
      BY DEF H!Held, Entries
    <3>2. H!Held' = Entries(slots') \cup {oldSlots[i] : i \in H!Rest'}
      BY <1>1 DEF H!Held, Entries
    <3>3. Entries(slots') = Entries(slots) \cup {e}
      BY <2>2, <2>3
    <3> QED BY <2>1, <2>4, <3>1, <3>2, <3>3
  <2> QED BY <1>1, <2>6, <2>7 DEF H!Abstract!vars, H!Map
<1>4. CASE e.state # "live"
  <2>1. slots' = slots
    BY <1>4 DEF H!Move
  <2>2. H!Rest' = H!Rest
    BY <1>1, <1>2, <1>4 DEF H!Rest, H!Live
  <2>3. TableInv'
    BY <1>1, <2>1, <2>2 DEF TableInv, TableTypes, Placed, ToVisit
  <2>4. H!Held' = H!Held
    BY <1>1, <2>1, <2>2 DEF H!Held
  <2> QED BY <1>1, <2>3, <2>4 DEF H!Abstract!vars, H!Map
<1> QED BY <1>3, <1>4

\* The last step of a put.
LEMMA TableMoved ==
  ASSUME TableInv, H!Moved
  PROVE  TableInv' /\ H!Abstract!Finish
<1>1. /\ mode = "put" /\ next \notin DOMAIN oldSlots /\ H!Insert(item) /\ oldSlots' = H!NoSlots /\ next' = 0
      /\ mode' = "ready" /\ item' = H!Empty /\ UNCHANGED <<iter, due>> /\ iter = -1
  BY DEF H!Moved, TableInv, TableTypes
<1>2. item \in Slot /\ item.state = "live"
  BY <1>1 DEF TableInv, TableTypes
<1>3. item.key \in Keys /\ item.key # NoValue
  BY <1>2, Slots, PartsAssumption DEF H!HashTableAssumption
<1>4. /\ Array(slots') /\ Findable(slots')
      /\ Entries(slots') = {d \in Entries(slots) : d.key # item.key} \cup {item}
  BY <1>1, <1>2, InsertIs DEF TableInv, TableTypes, Placed
<1>5. H!Rest = {}
  <2>1. PICK c \in Nat : DOMAIN oldSlots = 0 .. c - 1
    BY DEF TableInv, TableTypes, Array
  <2>2. next \in Nat /\ ~(next < c)
    BY <1>1, <2>1 DEF TableInv, TableTypes
  <2>3. \A i \in H!Live(oldSlots) : ~(i >= next)
    BY <2>1, <2>2 DEF H!Live
  <2> QED BY <2>3 DEF H!Rest
<1>6. DOMAIN H!NoSlots = {} /\ H!Live(H!NoSlots) = {} /\ Array(H!NoSlots) /\ Findable(H!NoSlots)
  <2>1. H!NoSlots \in [0 .. 0 - 1 -> Slot]
    BY DEF H!NoSlots
  <2> QED BY <2>1 DEF H!NoSlots, H!Live, Array, Findable
<1>7. H!Rest' = {}
  BY <1>1, <1>6 DEF H!Rest
<1>8. TableInv'
  BY <1>1, <1>4, <1>6, <1>7 DEF TableInv, TableTypes, Placed, ToVisit
<1>9. H!Map' = [H!Map EXCEPT ![item.key] = item.value]
  <2>1. OneEach(H!Held) /\ H!Map = MapOf(H!Held)
    BY HeldOnce
  <2>2. H!Held' = {d \in H!Held : d.key # item.key} \cup {item}
    BY <1>4, <1>5, <1>7 DEF H!Held, Entries
  <2>3. H!Map' = MapOf(H!Held')
    BY DEF H!Map, MapOf
  <2> QED BY <1>3, <2>1, <2>2, <2>3, MapPut
<1> QED BY <1>1, <1>3, <1>8, <1>9 DEF H!Abstract!Finish, H!Abstract!Idle, H!Empty

\* What is found is the entry of the key.
LEMMA FoundIs ==
  ASSUME TableInv, NEW k \in Keys, H!Find(k) # -1
  PROVE  /\ H!Find(k) = H!FindSlot(slots, k) /\ H!Find(k) \in H!Live(slots)
         /\ slots[H!Find(k)].key = k /\ slots[H!Find(k)] \in Slot
<1>1. H!Find(k) = H!FindSlot(slots, k) /\ H!FindSlot(slots, k) # -1 /\ slots[H!Find(k)].state = "live"
  BY DEF H!Find
<1>2. Array(slots)
  BY DEF TableInv, TableTypes
<1>3. H!Find(k) \in DOMAIN slots /\ (slots[H!Find(k)].state = "empty" \/ slots[H!Find(k)].key = k)
  BY <1>1, <1>2, SearchEnds
<1> QED BY <1>1, <1>2, <1>3 DEF H!Live, Array

\* The value of an entry that is found.
LEMMA TableSet ==
  ASSUME TableInv, NEW k \in Keys, NEW v \in Values, H!Find(k) # -1, H!FindOrPut(k, v)
  PROVE  TableInv' /\ H!Abstract!Put(k, v)
<1> DEFINE i == H!Find(k)
           e == H!Entry(k, v)
<1>1. i = H!FindSlot(slots, k) /\ i \in H!Live(slots) /\ slots[i].key = k /\ slots[i] \in Slot
  BY FoundIs
<1>2. /\ mode = "ready" /\ slots' = [slots EXCEPT ![i].value = v]
      /\ UNCHANGED <<count, filled, oldSlots, next, mode, item, iter, due>>
  BY DEF H!FindOrPut
<1>3. e \in Slot /\ e.state = "live" /\ e.key = k /\ e.value = v
  BY DEF Slot, H!Entry
<1>4. slots[i] = H!Entry(k, slots[i].value)
  BY <1>1, Slots DEF H!Live
<1>5. slots' = [slots EXCEPT ![i] = e]
  <2>1. [slots[i] EXCEPT !.value = v] = e
    BY <1>4 DEF H!Entry
  <2>2. slots' = [slots EXCEPT ![i] = [slots[i] EXCEPT !.value = v]]
    BY <1>2
  <2> QED BY <2>1, <2>2
<1>6. Changes(slots, i, e, slots')
  BY <1>1, <1>3, <1>5 DEF Changes, H!Live
<1>7. Array(slots) /\ Findable(slots)
  BY DEF TableInv, TableTypes, Placed
<1> HIDE DEF e, i
<1>8. /\ Array(slots') /\ Findable(slots') /\ DOMAIN slots' = DOMAIN slots
      /\ Entries(slots') = {d \in Entries(slots) : d.key # k} \cup {e}
  <2>1. H!FindSlot(slots, e.key) # -1 /\ i = H!FindSlot(slots, e.key)
    <3>1. i \in Nat
      BY <1>1, <1>7 DEF H!Live, Array
    <3> QED BY <1>1, <1>3, <3>1
  <2> QED BY <1>3, <1>6, <1>7, <2>1, EntryPut
<1>9. H!Live(slots') = H!Live(slots) /\ \A j \in H!Live(slots) : slots'[j].key = slots[j].key
  <2>1. \A j \in DOMAIN slots : j # i => slots'[j] = slots[j]
    BY <1>5
  <2>2. slots'[i] = e
    BY <1>1, <1>5 DEF H!Live
  <2> QED BY <1>1, <1>3, <1>8, <2>1, <2>2 DEF H!Live
<1>10. H!Rest = {} /\ H!Held = Entries(slots)
  BY <1>2, Settled
<1>11. H!Rest' = {}
  BY <1>2, <1>10 DEF H!Rest
<1>12. {slots'[x].key : x \in {j \in H!Live(slots') : j > iter}} = {slots[x].key : x \in {j \in H!Live(slots) : j > iter}}
  BY <1>9
<1>13. TableInv'
  <2>1. TableTypes' /\ Placed'
    BY <1>2, <1>8, <1>11 DEF TableInv, TableTypes, Placed
  <2>2. ToVisit'
    BY <1>2, <1>12 DEF TableInv, ToVisit
  <2> QED BY <2>1, <2>2 DEF TableInv
<1>14. H!Map' = [H!Map EXCEPT ![k] = v]
  <2>1. OneEach(H!Held) /\ H!Map = MapOf(H!Held)
    BY HeldOnce
  <2>2. H!Held' = {d \in H!Held : d.key # e.key} \cup {e}
    BY <1>3, <1>8, <1>10, <1>11 DEF H!Held, Entries
  <2>3. H!Map' = MapOf(H!Held')
    BY DEF H!Map, MapOf
  <2> QED BY <1>3, <2>1, <2>2, <2>3, MapPut
<1>15. item = H!Empty
  BY <1>2 DEF TableInv, TableTypes
<1> QED BY <1>2, <1>13, <1>14, <1>15 DEF H!Abstract!Put, H!Abstract!Idle, H!Empty

\* The deletion of an entry, the one ht_foreach is at or any when it is not under way.
LEMMA TableDelete ==
  ASSUME TableInv, NEW k \in Keys, H!Delete(k)
  PROVE  TableInv' /\ H!Abstract!Delete(k)
<1> DEFINE i == H!Find(k)
<1>1. i \in H!Live(slots) /\ slots[i].key = k /\ i # -1
  BY FoundIs DEF H!Delete
<1>2. /\ mode = "ready" /\ iter \in {-1, i} /\ slots' = [slots EXCEPT ![i] = H!Deleted]
      /\ due' = due \ {k} /\ UNCHANGED <<oldSlots, next, mode, item, iter>>
  BY DEF H!Delete, H!Tomb
<1>3. Array(slots) /\ Findable(slots)
  BY DEF TableInv, TableTypes, Placed
<1>4. Changes(slots, i, H!Deleted, slots')
  BY <1>1, <1>2 DEF Changes, H!Live, Slot, H!Deleted
<1> HIDE DEF i
<1>5. /\ Array(slots') /\ Findable(slots') /\ H!Live(slots') = H!Live(slots) \ {i}
      /\ \A j \in H!Live(slots') : slots'[j] = slots[j]
      /\ Entries(slots') = {d \in Entries(slots) : d.key # k}
  BY <1>1, <1>3, <1>4, EntryDeleted
<1>6. H!Rest = {} /\ H!Held = Entries(slots)
  BY <1>2, Settled
<1>7. H!Rest' = {}
  BY <1>2, <1>6 DEF H!Rest
<1>8. ToVisit'
  <2> SUFFICES ASSUME iter' # -1 PROVE due' = {slots'[x].key : x \in {j \in H!Live(slots') : j > iter'}}
    BY DEF ToVisit
  <2>1. iter' = i /\ iter = i /\ i \in Nat
    BY <1>1, <1>2, <1>3 DEF H!Live, Array
  <2>2. {j \in H!Live(slots') : j > i} = {j \in H!Live(slots) : j > i}
    BY <1>5, <2>1
  <2>3. due = {slots[x].key : x \in {j \in H!Live(slots) : j > i}}
    BY <1>1, <2>1 DEF TableInv, ToVisit
  <2>4. \A x \in {j \in H!Live(slots) : j > i} : slots[x].key # k /\ slots'[x] = slots[x]
    <3> TAKE x \in {j \in H!Live(slots) : j > i}
    <3>1. x # i /\ x \in H!Live(slots')
      BY <1>5, <2>1
    <3>2. H!FindSlot(slots, slots[x].key) = x /\ H!FindSlot(slots, slots[i].key) = i
      BY <1>1, <1>3 DEF Findable
    <3> QED BY <1>1, <1>5, <3>1, <3>2
  <2>5. due' = due
    BY <1>2, <2>3, <2>4
  <2>6. {slots'[x].key : x \in {j \in H!Live(slots) : j > i}} = {slots[x].key : x \in {j \in H!Live(slots) : j > i}}
    BY <2>4
  <2> QED BY <2>1, <2>2, <2>3, <2>5, <2>6
<1>9. TableInv'
  BY <1>2, <1>5, <1>7, <1>8 DEF TableInv, TableTypes, Placed
<1>10. H!Map' = [H!Map EXCEPT ![k] = NoValue]
  <2>1. OneEach(H!Held) /\ H!Map = MapOf(H!Held)
    BY HeldOnce
  <2>2. H!Held' = {d \in H!Held : d.key # k}
    BY <1>5, <1>6, <1>7 DEF H!Held, Entries
  <2>3. H!Map' = MapOf(H!Held')
    BY DEF H!Map, MapOf
  <2> QED BY <2>1, <2>2, <2>3, MapDelete
<1>11. item = H!Empty
  BY <1>2 DEF TableInv, TableTypes
<1>12. (IF iter = -1 THEN {NoValue} ELSE due)' = (IF iter = -1 THEN {NoValue} ELSE due) \ {k}
  BY <1>2, PartsAssumption DEF H!HashTableAssumption
<1> QED BY <1>2, <1>9, <1>10, <1>11, <1>12 DEF H!Abstract!Delete, H!Abstract!Idle, H!Empty

\* A table that is emptied.
LEMMA TableClear ==
  ASSUME TableInv, H!Reset \/ H!Release
  PROVE  TableInv' /\ H!Abstract!Clear
<1>1. mode = "ready" /\ iter = -1 /\ UNCHANGED <<oldSlots, next, mode, item, iter, due>>
  BY DEF H!Reset, H!Release
<1>2. H!Rest = {} /\ Array(H!NoSlots) /\ H!Live(H!NoSlots) = {} /\ oldSlots = H!NoSlots /\ item = H!Empty
  BY <1>1, Settled DEF TableInv, TableTypes
<1>3. Array(slots') /\ H!Live(slots') = {}
  <2>1. CASE H!Reset
    <3>1. slots' = [i \in DOMAIN slots |-> H!Empty] /\ H!Empty \in Slot /\ H!Empty.state # "live"
      BY <2>1 DEF H!Reset, Slot, H!Empty
    <3>2. PICK c \in Nat : slots \in [0 .. c - 1 -> Slot]
      BY DEF TableInv, TableTypes, Array
    <3>3. slots' \in [0 .. c - 1 -> Slot]
      BY <3>1, <3>2
    <3> QED BY <3>1, <3>3 DEF Array, H!Live
  <2>2. CASE H!Release
    BY <1>2, <2>2 DEF H!Release
  <2> QED BY <2>1, <2>2
<1>4. H!Rest' = {} /\ H!Held' = {}
  BY <1>1, <1>2, <1>3 DEF H!Rest, H!Held
<1>5. TableInv'
  BY <1>1, <1>3, <1>4 DEF TableInv, TableTypes, Placed, ToVisit, Findable, Entries
<1>6. H!Map' = [k \in Keys |-> NoValue]
  BY <1>4 DEF H!Map
<1> QED BY <1>1, <1>2, <1>5, <1>6 DEF H!Abstract!Clear, H!Abstract!Idle, H!Abstract!Nothing, H!Empty

\* ht_foreach comes to an entry it has not come to.
LEMMA TableVisit ==
  ASSUME TableInv, H!Visit
  PROVE  TableInv' /\ \E k \in Keys : H!Abstract!Visit(k)
<1> DEFINE m == H!Min(H!Ahead)
           k == slots[m].key
           Behind(n) == {slots[x].key : x \in {j \in H!Live(slots) : j > n}}
<1>1. /\ mode = "ready" /\ iter' = m /\ UNCHANGED <<slots, oldSlots, next, mode, item>>
      /\ due' = (IF iter = -1 THEN {slots[x].key : x \in H!Live(slots)} ELSE due) \ {k}
  BY DEF H!Visit
<1>2. \A j \in H!Live(slots) : /\ j \in Nat /\ slots[j] \in Slot /\ slots[j].state = "live"
                               /\ H!FindSlot(slots, slots[j].key) = j
  BY DEF TableInv, TableTypes, Placed, Findable, H!Live, Array
<1>3. H!Ahead = {j \in H!Live(slots) : j > iter}
  BY <1>2 DEF H!Ahead, H!From, H!Live, TableInv, TableTypes
<1>4. m \in H!Ahead /\ \A j \in H!Ahead : m <= j
  <2>1. H!Ahead \subseteq Nat /\ H!Ahead # {}
    BY <1>2, <1>3 DEF H!Visit
  <2> QED BY <2>1, Smallest
<1> HIDE DEF m
<1>5. m \in Nat /\ m \in H!Live(slots) /\ k \in Keys
  <2>1. m \in H!Live(slots) /\ m \in Nat /\ slots[m] \in Slot /\ slots[m].state = "live"
    BY <1>2, <1>3, <1>4
  <2> QED BY <2>1, Slots
<1>6. {slots[x].key : x \in {j \in H!Live(slots) : j > iter}} \ {k} = Behind(m)
  <2>1. ASSUME NEW j \in H!Live(slots) PROVE (j > iter /\ slots[j].key # k) <=> j > m
    <3>1. slots[j].key = k <=> j = m
      BY <1>2, <1>5
    <3>2. j \in Nat /\ m \in Nat /\ (iter = -1 \/ iter \in Nat)
      BY <1>2, <1>5 DEF TableInv, TableTypes
    <3>3. j > iter => m <= j
      BY <1>3, <1>4
    <3>4. m > iter
      BY <1>3, <1>4
    <3>5. (j > iter /\ j # m) <=> j > m
      BY <3>2, <3>3, <3>4
    <3> QED BY <3>1, <3>5
  <2> QED BY <2>1
<1>7. due' = Behind(m)
  <2>1. CASE iter = -1
    <3>1. {j \in H!Live(slots) : j > iter} = H!Live(slots)
      BY <1>2, <2>1
    <3> QED BY <1>1, <1>6, <2>1, <3>1
  <2>2. CASE iter # -1
    BY <1>1, <1>6, <2>2 DEF TableInv, ToVisit
  <2> QED BY <2>1, <2>2
<1>8. H!Rest = {} /\ H!Rest' = {}
  BY <1>1, Settled DEF H!Rest
<1>9. TableInv'
  <2>1. ToVisit'
    BY <1>1, <1>7 DEF ToVisit
  <2> QED BY <1>1, <1>5, <1>8, <2>1 DEF TableInv, TableTypes, Placed
<1>10. H!Map' = H!Map
  <2>1. H!Held' = H!Held
    BY <1>1, <1>8 DEF H!Held
  <2> QED BY <2>1 DEF H!Map
<1>11. H!Abstract!Unvisited = (IF iter = -1 THEN {slots[x].key : x \in H!Live(slots)} ELSE due)
  <2>1. CASE iter = -1
    <3>1. \A j \in Keys : H!Map[j] # NoValue <=> \E x \in H!Live(slots) : slots[x].key = j
      <4> TAKE j \in Keys
      <4>1. H!Held = Entries(slots) /\ OneEach(H!Held) /\ H!Map = MapOf(H!Held)
        BY <1>1, Settled, HeldOnce
      <4>2. ASSUME NEW x \in H!Live(slots), slots[x].key = j PROVE H!Map[j] # NoValue
        <5>1. slots[x].value \in Values /\ slots[x] \in H!Held
          BY <1>2, <4>1, <4>2, Slots DEF Entries
        <5>2. H!Map[j] = slots[x].value
          BY <4>1, <4>2, <5>1, MapIs
        <5> QED BY <5>1, <5>2, PartsAssumption DEF H!HashTableAssumption
      <4>3. ASSUME \A x \in H!Live(slots) : slots[x].key # j PROVE H!Map[j] = NoValue
        <5>1. \A e \in H!Held : e.key # j
          BY <4>1, <4>3 DEF Entries
        <5> QED BY <4>1, <5>1, MapIs
      <4> QED BY <4>2, <4>3
    <3>2. \A x \in H!Live(slots) : slots[x].key \in Keys
      BY <1>2, Slots
    <3>3. H!Abstract!Unvisited = {j \in Keys : H!Map[j] # NoValue}
      BY <2>1 DEF H!Abstract!Unvisited
    <3> QED BY <2>1, <3>1, <3>2, <3>3
  <2>2. CASE iter # -1
    <3>1. due = Behind(iter)
      BY <2>2 DEF TableInv, ToVisit
    <3>2. due # {NoValue}
      <4>1. \A x \in H!Live(slots) : slots[x].key \in Keys
        BY <1>2, Slots
      <4>2. NoValue \notin Behind(iter)
        BY <4>1, PartsAssumption DEF H!HashTableAssumption
      <4> QED BY <3>1, <4>2
    <3> QED BY <2>2, <3>2 DEF H!Abstract!Unvisited
  <2> QED BY <2>1, <2>2
<1>12. k \in H!Abstract!Unvisited
  <2>1. CASE iter = -1
    BY <1>5, <1>11, <2>1
  <2>2. CASE iter # -1
    BY <1>3, <1>4, <1>11, <2>2 DEF TableInv, ToVisit
  <2> QED BY <2>1, <2>2
<1>13. item = H!Empty
  BY <1>1 DEF TableInv, TableTypes
<1>14. (IF iter = -1 THEN {NoValue} ELSE due)' = H!Abstract!Unvisited \ {k}
  <2>1. iter' # -1
    BY <1>1, <1>5
  <2>2. due' = H!Abstract!Unvisited \ {k}
    BY <1>1, <1>11
  <2> QED BY <2>1, <2>2
<1>15. H!Abstract!Visit(k)
  BY <1>1, <1>10, <1>12, <1>13, <1>14 DEF H!Abstract!Visit, H!Abstract!Idle, H!Empty
<1> QED BY <1>5, <1>9, <1>15

\* And ends when it has come to all.
LEMMA TableVisited ==
  ASSUME TableInv, H!Visited
  PROVE  TableInv' /\ H!Abstract!Visited
<1>1. /\ mode = "ready" /\ iter # -1 /\ H!Ahead = {} /\ iter' = -1
      /\ UNCHANGED <<slots, oldSlots, next, mode, item, due>>
  BY DEF H!Visited
<1>2. {j \in H!Live(slots) : j > iter} = {}
  <2>1. \A j \in H!Live(slots) : j \in Nat /\ j \in DOMAIN slots /\ slots[j].state = "live"
    BY DEF TableInv, TableTypes, Array, H!Live
  <2> QED BY <1>1, <2>1 DEF H!Ahead, H!From, TableInv, TableTypes
<1>3. due = {}
  BY <1>1, <1>2 DEF TableInv, ToVisit
<1>4. H!Rest = {} /\ H!Rest' = {}
  BY <1>1, Settled DEF H!Rest
<1>5. TableInv'
  BY <1>1, <1>4 DEF TableInv, TableTypes, Placed, ToVisit
<1>6. H!Held' = H!Held
  BY <1>1, <1>4 DEF H!Held
<1> QED BY <1>1, <1>3, <1>5, <1>6 DEF H!Abstract!Visited, H!Map

LEMMA TableNext ==
  ASSUME TableInv, [H!Next]_H!vars
  PROVE  TableInv' /\ [H!Abstract!Next]_H!Abstract!vars
<1>1. ASSUME NEW k \in Keys, NEW v \in Values, H!Put(k, v)
      PROVE  TableInv' /\ [H!Abstract!Next]_H!Abstract!vars
  BY <1>1, TablePut DEF H!Abstract!Next
<1>2. ASSUME NEW k \in Keys, NEW v \in Values, H!FindOrPut(k, v)
      PROVE  TableInv' /\ [H!Abstract!Next]_H!Abstract!vars
  <2>1. CASE H!Find(k) = -1
    BY <1>1, <1>2, <2>1 DEF H!FindOrPut
  <2>2. CASE H!Find(k) # -1
    BY <1>2, <2>2, TableSet DEF H!Abstract!Next
  <2> QED BY <2>1, <2>2
<1>3. CASE H!Grow
  BY <1>3, TableGrow
<1>4. CASE H!Move
  BY <1>4, TableMove
<1>5. CASE H!Moved
  BY <1>5, TableMoved DEF H!Abstract!Next
<1>6. ASSUME NEW k \in Keys, H!Delete(k) PROVE TableInv' /\ [H!Abstract!Next]_H!Abstract!vars
  BY <1>6, TableDelete DEF H!Abstract!Next
<1>7. CASE H!Reset \/ H!Release
  BY <1>7, TableClear DEF H!Abstract!Next
<1>8. CASE H!Visit
  BY <1>8, TableVisit DEF H!Abstract!Next
<1>9. CASE H!Visited
  BY <1>9, TableVisited DEF H!Abstract!Next
<1>10. CASE UNCHANGED H!vars
  <2>1. UNCHANGED <<slots, oldSlots, next, mode, item, iter, due>>
    BY <1>10 DEF H!vars
  <2>2. H!Rest' = H!Rest
    BY <2>1 DEF H!Rest
  <2>3. H!Held' = H!Held
    BY <2>1, <2>2 DEF H!Held
  <2>4. TableInv'
    BY <2>1, <2>2 DEF TableInv, TableTypes, Placed, ToVisit
  <2> QED BY <2>1, <2>3, <2>4 DEF H!Abstract!vars, H!Map
<1> QED BY <1>1, <1>2, <1>3, <1>4, <1>5, <1>6, <1>7, <1>8, <1>9, <1>10 DEF H!Next

\* The table does what its calls ask for and nothing besides: deleting, putting again and
\* moving to another array lose no entry and bring no value back, and ht_foreach comes to
\* each entry once: for any keys and hashes.
THEOREM TableIsDictionary == PartsSpec => H!Abstract!Spec
<1>1. PartsInit => TableInv /\ H!Abstract!Init
  BY TableInit DEF PartsInit
<1>2. TableInv /\ [PartsNext]_<<vars, phases, setup, reports, table, part>>
      => TableInv' /\ [H!Abstract!Next]_H!Abstract!vars
  <2>1. [PartsNext]_<<vars, phases, setup, reports, table, part>> => [H!Next]_H!vars
    BY DEF PartsNext, table, H!vars
  <2> QED BY <2>1, TableNext
<1> QED BY <1>1, <1>2, PTL DEF PartsSpec, H!Abstract!Spec
=============================================================================
