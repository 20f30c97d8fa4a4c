------------------------------- MODULE Build --------------------------------
(***************************************************************************)
(* The build program (src/nob.c): it rebuilds itself when one of its       *)
(* sources is newer than its binary (nob__go_rebuild_urself,               *)
(* src/thirdparty/nob.h), starts over as the new binary, writes build.h    *)
(* from git, the clock and the files that are embedded, and compiles tatr. *)
(* Files are edited and committed at any moment, and the program may be    *)
(* killed.  Times are whole seconds, as st_mtime is.                       *)
(***************************************************************************)
EXTENDS Naturals

CONSTANTS Self,      \* the sources of the build program
          Embedded,  \* files that are copied into build.h
          Compiled,  \* the other sources of tatr, some of them of the build program as well
          MaxTime, MaxEdits

VARIABLES now,
          source,     \* every file: its version, and when it was written
          head,       \* the last commit: its number, and the versions in it
          nob, old,   \* the build program and the one put aside: what they are made of, and when, or None
          header,     \* build.h
          tatr,
          pc,
          began,      \* versions the compiler has read, and when
          dirty,      \* what git status has answered, or "unknown"
          edits, quiet \* quiet: nothing was edited or committed since nob was started

vars == <<now, source, head, nob, old, header, tatr, pc, began, dirty, edits, quiet>>
Files == Self \cup Embedded \cup Compiled
None == [of |-> [f \in {} |-> 0], began |-> 0, time |-> 0]
NoHash == [commit |-> 0, dirty |-> FALSE]
NoHeader == [of |-> [f \in {} |-> 0], hash |-> NoHash]
NoTatr == [of |-> [f \in {} |-> 0], hash |-> NoHash]

ASSUME BuildAssumption ==
  /\ Embedded \cap (Self \cup Compiled) = {} /\ Self # {}
  /\ MaxTime \in Nat /\ MaxEdits \in Nat

Unread == [of |-> [f \in {} |-> 0], time |-> 0]
Versions(S) == [f \in S |-> source[f].version]

Init == /\ now = 0 /\ source = [f \in Files |-> [version |-> 0, time |-> 0]]
        /\ head = [commit |-> 1, of |-> Versions(Files)]
        /\ nob = [of |-> Versions(Self), began |-> 0, time |-> 0] /\ old = None
        /\ header = NoHeader /\ tatr = NoTatr
        /\ pc = "idle" /\ began = Unread /\ dirty = "unknown"
        /\ edits = 0 /\ quiet = TRUE

Goes(from, to) == pc = from /\ pc' = to
Others == UNCHANGED <<now, source, head, edits>>
Calm == Others /\ UNCHANGED quiet

-----------------------------------------------------------------------------
\* Only what is there can be started.  One that is missing is compiled by hand, as at first.
Start == /\ pc \in {"idle", "ok", "failed"} /\ nob # None /\ pc' = "check" /\ quiet' = TRUE
         /\ Others /\ UNCHANGED <<nob, old, header, tatr, began, dirty>>
Bootstrap == /\ pc \in {"idle", "failed"} /\ nob = None
             /\ nob' = [of |-> Versions(Self), began |-> now, time |-> now]
             /\ Calm /\ UNCHANGED <<old, header, tatr, pc, began, dirty>>

\* Slip: only the first source counts.
NeedsRebuild_One == LET f == CHOOSE f \in Self : TRUE IN source[f].time > nob.time

NeedsRebuild == \E f \in Self : source[f].time > nob.time

Check == /\ Goes("check", IF NeedsRebuild THEN "rename" ELSE "status")
         /\ Calm /\ UNCHANGED <<nob, old, header, tatr, began, dirty>>

\* Slip: the binary is removed, not put aside.
Aside_Lost == None

Aside == nob

Gone == None

Rename == /\ \/ Goes("rename", "read") /\ old' = Aside /\ nob' = Gone
             \/ Goes("rename", "failed") /\ UNCHANGED <<old, nob>>
          /\ Calm /\ UNCHANGED <<header, tatr, began, dirty>>

\* The compiler reads the sources, and some time later there is a binary or an error.
Read == /\ Goes("read", "compile") /\ began' = [of |-> Versions(Self), time |-> now]
        /\ Calm /\ UNCHANGED <<nob, old, header, tatr, dirty>>
Compile == /\ \/ /\ Goes("compile", "check")  \* it is run in place of this one
                 /\ nob' = [of |-> began.of, began |-> began.time, time |-> now]
              \/ Goes("compile", "restore") /\ UNCHANGED nob
           /\ began' = Unread /\ Calm /\ UNCHANGED <<old, header, tatr, dirty>>
Restore == /\ Goes("restore", "failed") /\ \/ nob' = old /\ old' = None
                                           \/ UNCHANGED <<nob, old>>
           /\ Calm /\ UNCHANGED <<header, tatr, began, dirty>>

-----------------------------------------------------------------------------
Clean == Versions(Files) = head.of

\* append_git_hash_to_build_h; without git there is no hash.
Status == /\ Goes("status", "hash") /\ dirty' \in {IF Clean THEN "no" ELSE "yes", "unknown"}
          /\ Calm /\ UNCHANGED <<nob, old, header, tatr, began>>

\* Slip: the mark is set when git status reports nothing.
Marked_Clean == dirty = "no"

Marked == dirty = "yes"

\* rev-parse, and then embed_file for each file and build.h itself.
Hashes == {NoHash} \cup (IF dirty = "unknown" THEN {} ELSE {[commit |-> head.commit, dirty |-> Marked]})
Header == /\ \/ /\ Goes("hash", "read app")
                /\ \E h \in Hashes : header' = [of |-> Versions(Embedded), hash |-> h]
             \/ Goes("hash", "failed") /\ header' \in {header, NoHeader}
          /\ dirty' = "unknown" /\ Calm /\ UNCHANGED <<nob, old, tatr, began>>

ReadApp == /\ Goes("read app", "compile app") /\ began' = [of |-> Versions(Compiled), time |-> now]
           /\ Calm /\ UNCHANGED <<nob, old, header, tatr, dirty>>

Rebuilt == [of |-> [f \in Embedded \cup Compiled |-> IF f \in Embedded THEN header.of[f] ELSE began.of[f]],
            hash |-> header.hash]

CompileApp == /\ \/ Goes("compile app", "ok") /\ tatr' = Rebuilt
                 \/ Goes("compile app", "failed") /\ UNCHANGED tatr
              /\ began' = Unread /\ Calm /\ UNCHANGED <<nob, old, header, dirty>>

-----------------------------------------------------------------------------
Tick == now < MaxTime /\ now' = now + 1
        /\ UNCHANGED <<source, head, nob, old, header, tatr, pc, began, dirty, edits, quiet>>
Edit(f) == /\ edits < MaxEdits /\ edits' = edits + 1 /\ quiet' = FALSE
           /\ source' = [source EXCEPT ![f] = [version |-> @.version + 1, time |-> now]]
           /\ UNCHANGED <<now, head, nob, old, header, tatr, pc, began, dirty>>
Commit == /\ ~Clean /\ head' = [commit |-> head.commit + 1, of |-> Versions(Files)] /\ quiet' = FALSE
          /\ UNCHANGED <<now, source, nob, old, header, tatr, pc, began, dirty, edits>>
Kill == /\ pc \notin {"idle", "ok", "failed"} /\ pc' = "idle"
        /\ began' = Unread /\ dirty' = "unknown" /\ Calm /\ UNCHANGED <<nob, old, header, tatr>>

Works == Check \/ Rename \/ Read \/ Compile \/ Restore \/ Status \/ Header \/ ReadApp \/ CompileApp
Next == \/ Start \/ Bootstrap \/ Works \/ Tick \/ Commit \/ Kill
        \/ \E f \in Files : Edit(f)
Spec == Init /\ [][Next]_vars

-----------------------------------------------------------------------------
\* A build program is there, in its place or put aside, whenever the build is killed,
\* whether or not it can be compiled.
NobKept == nob # None \/ old # None

\* What builds is up to date: a source that is not the one the build program was made of
\* was written while the program was being compiled, or in the second that ended.
Decides == pc = "check" /\ pc' = "status"
NobCurrent == [][Decides => \A f \in Self : nob.of[f] = source[f].version
                                              \/ source[f].time \in nob.began .. nob.time]_vars

\* A build that succeeds, undisturbed, has made tatr from the files as they are, and its
\* version is that of the commit, marked if and only if a file differs from it.
TatrCurrent == pc = "ok" /\ quiet =>
  /\ tatr.of = Versions(Embedded \cup Compiled)
  /\ tatr.hash # NoHash => tatr.hash = [commit |-> head.commit, dirty |-> ~Clean]

=============================================================================
