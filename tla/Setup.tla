------------------------------- MODULE Setup --------------------------------
(***************************************************************************)
(* Files that tatr puts into a project: nvim-setup and skill-setup         *)
(* (src/src/setup.c) install a template and an entry of .gitignore, init   *)
(* (init_run, src/src/tatr.c) makes tasks/ and its README.md.  Every call  *)
(* to the kernel that changes a file is a step, may fail, and may be the   *)
(* last thing the program does; the user changes files at any moment.      *)
(***************************************************************************)
EXTENDS Naturals, Sequences, SequencesExt

CONSTANTS Projects,  \* what the project may be like at first
          Commands,  \* those that are run, of "nvim", "skill" and "init"
          Lines,     \* lines of the user's in .gitignore
          Padded,    \* entries with blanks around them, mapped to the command whose entry they are
          MaxRuns, MaxEdits

VARIABLES dirs,    \* .agents, .agents/skills and .agents/skills/tatr
          target,  \* the content of .nvim.lua and of SKILL.md
          ignore,  \* .gitignore: its kind, its lines, and whether the last one is ended
          tasks, readme,
          pc, command, reply,
          seen,    \* what the command has found out
          before,  \* the files when it was started
          runs, edits,
          quiet    \* the user has changed nothing since

files == <<dirs, target, ignore, tasks, readme>>
vars == <<files, pc, command, reply, seen, before, runs, edits, quiet>>

Entry(c) == IF c = "nvim" THEN "/.nvim.lua" ELSE "/.agents/skills"
Places == {"none", "dir", "other"}                            \* other: a link, or something special
Contents == {"none", "part", "template", "user", "other"}  \* part: the beginning of the template
Texts == Lines \cup DOMAIN Padded \cup {Entry("nvim"), Entry("skill"), "half"}
Ignores == [kind : {"none", "file", "other"}, lines : Seq(Texts), ended : BOOLEAN]
Nothing == [kind |-> "none", lines |-> <<>>, ended |-> TRUE]

SetupAssumption ==
  /\ Commands \subseteq {"nvim", "skill", "init"} /\ MaxRuns \in Nat /\ MaxEdits \in Nat
  /\ Lines \cap {Entry("nvim"), Entry("skill"), "half"} = {}
  /\ DOMAIN Padded \cap (Lines \cup {Entry("nvim"), Entry("skill"), "half"}) = {}
  /\ \A p \in Projects : /\ p.dirs \in [1 .. 3 -> Places] /\ p.target \in [{"nvim", "skill"} -> Contents]
                         /\ p.ignore \in Ignores /\ p.tasks \in Places /\ p.readme \in Contents
                         /\ \A k \in 2 .. 3 : p.dirs[k] # "none" => p.dirs[k - 1] # "none"
                         /\ p.target["skill"] # "none" => p.dirs[3] # "none"
                         /\ p.ignore.kind # "file" => p.ignore.lines = <<>>

Unknown == [target |-> FALSE, ignore |-> FALSE, ignored |-> FALSE, newline |-> FALSE, bare |-> FALSE, dir |-> 1]
Init == /\ \E p \in Projects : /\ dirs = p.dirs /\ target = p.target /\ ignore = p.ignore
                               /\ tasks = p.tasks /\ readme = p.readme
        /\ pc = "idle" /\ command = "none" /\ reply = "none" /\ seen = Unknown /\ before = files
        /\ runs = 0 /\ edits = 0 /\ quiet = TRUE

-----------------------------------------------------------------------------
Start(c) == /\ pc = "idle" /\ runs < MaxRuns /\ runs' = runs + 1
            /\ command' = c /\ reply' = "none" /\ before' = files /\ quiet' = TRUE
            /\ \E bare \in IF c = "init" THEN BOOLEAN ELSE {FALSE} : seen' = [Unknown EXCEPT !.bare = bare]
            /\ pc' = IF c = "init" THEN "tasks" ELSE "git"
            /\ UNCHANGED <<files, edits>>

Stay == UNCHANGED <<command, before, runs, edits, quiet>>
Goes(to) == pc' = to /\ UNCHANGED reply
Replies(r) == pc' = "idle" /\ reply' = r
Reads == UNCHANGED files /\ Stay

\* git and Neovim are asked, and may say no.
Git == /\ pc = "git" /\ \/ Goes(IF command = "nvim" THEN "nvim" ELSE "dirs")
                        \/ Replies("no root")
       /\ Reads /\ UNCHANGED seen
Nvim == /\ pc = "nvim" /\ (Goes("target") \/ Replies("no exrc")) /\ Reads /\ UNCHANGED seen

CheckDirs == /\ pc = "dirs"
             /\ IF \E k \in 1 .. 3 : dirs[k] = "other" THEN Replies("unsafe") ELSE Goes("target")
             /\ Reads /\ UNCHANGED seen

Conflict == target[command] \in {"part", "user"}

CheckTarget == /\ pc = "target"
               /\ \/ target[command] = "other" /\ Replies("unsafe")
                  \/ target[command] \notin {"none", "other"} /\ Replies("io")
                  \/ Conflict /\ Replies("conflict")
                  \/ target[command] # "other" /\ ~Conflict /\ Goes("ignore")
               /\ seen' = [seen EXCEPT !.target = target[command] # "none"]
               /\ Reads

Trimmed(line) == IF line \in DOMAIN Padded THEN Entry(Padded[line]) ELSE line

Ignored(c) == \E n \in DOMAIN ignore.lines : Trimmed(ignore.lines[n]) = Entry(c)

\* Slip: the entry is always put right behind the last byte.
NeedsNewline_Never == FALSE

NeedsNewline == ignore.lines # <<>> /\ ~ignore.ended

CheckIgnore == /\ pc = "ignore"
               /\ \/ ignore.kind = "other" /\ Replies("unsafe")
                  \/ ignore.kind = "file" /\ Replies("io")
                  \/ ignore.kind # "other" /\ Goes(IF command = "skill" THEN "mkdir" ELSE "write")
               /\ seen' = [seen EXCEPT !.ignore = ignore.kind = "file", !.ignored = Ignored(command),
                                       !.newline = NeedsNewline]
               /\ Reads

-----------------------------------------------------------------------------
AfterMkdir == IF seen.dir = 3 THEN "write" ELSE "mkdir"

\* mkdir_if_not_exists: whatever is there already will do.
Mkdir == /\ pc = "mkdir"
         /\ \/ /\ dirs[seen.dir] = "none" /\ (seen.dir > 1 => dirs[seen.dir - 1] = "dir")
               /\ dirs' = [dirs EXCEPT ![seen.dir] = "dir"]
               /\ seen' = [seen EXCEPT !.dir = @ + 1] /\ Goes(AfterMkdir)
            \/ /\ dirs[seen.dir] # "none" /\ UNCHANGED dirs
               /\ seen' = [seen EXCEPT !.dir = @ + 1] /\ Goes(AfterMkdir)
            \/ /\ dirs[seen.dir] = "none" /\ UNCHANGED <<dirs, seen>> /\ Replies("io")
         /\ UNCHANGED <<target, ignore, tasks, readme>> /\ Stay

Reachable(c) == c = "skill" => dirs[3] = "dir"

\* Slip: open truncates what has come to be there.
Free_Truncates(c) == Reachable(c) /\ target[c] # "other"

\* open with O_EXCL: nothing may be there.
Free(c) == Reachable(c) /\ target[c] = "none"

Create == /\ pc = "write"
          /\ \/ seen.target /\ Goes("append") /\ UNCHANGED target
             \/ /\ ~seen.target /\ Free(command)
                /\ target' = [target EXCEPT ![command] = "part"] /\ Goes("fill")
             \/ ~seen.target /\ Replies("io") /\ UNCHANGED target
          /\ UNCHANGED <<dirs, ignore, tasks, readme, seen>> /\ Stay

\* The new file is written, unless it has been replaced in the meantime.
Fill == /\ pc = "fill"
        /\ \/ /\ target' = [target EXCEPT ![command] = IF @ = "part" THEN "template" ELSE @]
              /\ Goes("append")
           \/ UNCHANGED target /\ Replies("io")
        /\ UNCHANGED <<dirs, ignore, tasks, readme, seen>> /\ Stay

\* The bytes of the entry that reach the end of .gitignore: none, its newline, part of
\* its name, all of that, or everything.
Cuts == {"none", "newline", "half", "name", "all"}
Put(line) == IF ~ignore.ended /\ ~seen.newline /\ ignore.lines # <<>>
             THEN Front(ignore.lines) \o <<"half">>  \* it runs into the last line
             ELSE Append(ignore.lines, line)
Written(cut) ==
  CASE cut = "none" -> [ignore EXCEPT !.kind = "file"]
    [] cut = "newline" -> [ignore EXCEPT !.kind = "file", !.ended = @ \/ seen.newline]
    [] cut = "half" -> [kind |-> "file", lines |-> Put("half"), ended |-> FALSE]
    [] OTHER -> [kind |-> "file", lines |-> Put(Entry(command)), ended |-> cut = "all"]

\* O_APPEND if there was a file, O_EXCL if there was none; never through a link.
MayAppend == ignore.kind = "none" \/ (ignore.kind = "file" /\ seen.ignore)

AppendEntry == /\ pc = "append"
               /\ \/ seen.ignored /\ Replies("ok") /\ UNCHANGED ignore
                  \/ /\ ~seen.ignored /\ MayAppend
                     /\ \E cut \in Cuts : /\ ignore' = Written(cut)
                                          /\ Replies(IF cut = "all" THEN "ok" ELSE "io")
                  \/ ~seen.ignored /\ Replies("io") /\ UNCHANGED ignore
               /\ UNCHANGED <<dirs, target, tasks, readme, seen>> /\ Stay

-----------------------------------------------------------------------------
\* init: tasks/ unless there is something of that name.
InitTasks == /\ pc = "tasks"
             /\ \/ tasks = "none" /\ tasks' = "dir" /\ Goes("look")
                \/ tasks = "none" /\ UNCHANGED tasks /\ Replies("io")
                \/ tasks # "none" /\ UNCHANGED tasks /\ Goes("look")
             /\ UNCHANGED <<dirs, target, ignore, readme, seen>> /\ Stay

\* Slip: README.md is written whether it is there or not.
Wanted_Always == ~seen.bare

Wanted == ~seen.bare /\ ~(tasks = "dir" /\ readme # "none")

LookReadme == /\ pc = "look" /\ IF Wanted THEN Goes("readme") ELSE Replies("ok")
              /\ Reads /\ UNCHANGED seen

\* write_entire_file truncates, and does not notice what is lost when it closes the file.
OpenReadme == /\ pc = "readme"
              /\ \/ tasks = "dir" /\ readme' = "part" /\ Goes("text")
                 \/ UNCHANGED readme /\ Replies("io")
              /\ UNCHANGED <<dirs, target, ignore, tasks, seen>> /\ Stay
WriteReadme == /\ pc = "text"
               /\ \/ readme' = (IF readme = "part" THEN "template" ELSE readme) /\ Replies("ok")
                  \/ UNCHANGED readme /\ (Replies("io") \/ Replies("ok"))
               /\ UNCHANGED <<dirs, target, ignore, tasks, seen>> /\ Stay

-----------------------------------------------------------------------------
\* The program dies.
Die == pc # "idle" /\ Replies("died") /\ Reads /\ UNCHANGED seen

\* The user makes, replaces or removes something.
Removed(d, k) == [j \in 1 .. 3 |-> IF j < k THEN d[j] ELSE "none"]
Edit == /\ edits < MaxEdits /\ edits' = edits + 1 /\ quiet' = FALSE
        /\ \/ \E c \in {"nvim", "skill"}, x \in {"none", "user"} :
                Reachable(c) /\ target' = [target EXCEPT ![c] = x] /\ UNCHANGED <<dirs, ignore, tasks, readme>>
           \/ ignore' \in {p.ignore : p \in Projects} /\ UNCHANGED <<dirs, target, tasks, readme>>
           \/ /\ \E k \in 1 .. 3 : dirs' = Removed(dirs, k)
              /\ target' = [target EXCEPT !["skill"] = "none"] /\ UNCHANGED <<ignore, tasks, readme>>
           \/ tasks = "dir" /\ readme' \in {"none", "user"} /\ UNCHANGED <<dirs, target, ignore, tasks>>
        /\ reply' = IF pc = "idle" THEN "none" ELSE reply
        /\ UNCHANGED <<pc, command, seen, before, runs>>

Next == \/ \E c \in Commands : Start(c)
        \/ Git \/ Nvim \/ CheckDirs \/ CheckTarget \/ CheckIgnore
        \/ Mkdir \/ Create \/ Fill \/ AppendEntry
        \/ InitTasks \/ LookReadme \/ OpenReadme \/ WriteReadme
        \/ Die \/ Edit
Spec == Init /\ [][Next]_vars

-----------------------------------------------------------------------------
Setups == {"nvim", "skill"}
Installed(c) == target[c] = "template" /\ ignore.kind = "file" /\ Ignored(c)

\* Nothing a command finds is changed or lost, whatever fails, whenever it dies, and
\* even if the user is at work at the same time: the files it writes are its own new ones,
\* and the whole lines of .gitignore stay; .gitignore is touched last, and only by a command
\* that has its template in place.  (A last line that is not ended stays too, and so does
\* README.md, unless the user has changed something behind the back of the command: init
\* looks for README.md and then opens it for writing.)
KeepsReadme == readme = "none" \/ pc = "text" \/ readme' = readme
Whole == IF ignore.ended \/ quiet \/ ignore.lines = <<>> THEN ignore.lines ELSE Front(ignore.lines)
Kept == /\ \A c \in Setups : target[c] = "none" \/ (pc = "fill" /\ c = command /\ target[c] = "part")
                             \/ target'[c] = target[c]
        /\ \A k \in 1 .. 3 : dirs[k] = "none" \/ dirs'[k] = dirs[k]
        /\ ignore' # ignore => /\ ignore.kind # "other" /\ IsPrefix(Whole, ignore'.lines)
                               /\ quiet => command \in Setups /\ target[command] = "template"
        /\ quiet => KeepsReadme
UserFilesKept == [][Edit \/ Kept]_vars

\* A setup command that reports success, undisturbed, has the whole template in place and
\* the entry on a line of its own; one that refuses, or finds everything as it leaves it, has
\* changed nothing at all.
Refusals == {"no root", "no exrc", "unsafe", "conflict"}
WasInstalled(c) == /\ before[2][c] = "template" /\ before[3].kind = "file"
                   /\ \E n \in DOMAIN before[3].lines : Trimmed(before[3].lines[n]) = Entry(c)
SuccessInstalled == quiet /\ command \in Setups =>
  /\ reply = "ok" => Installed(command)
  /\ reply \in Refusals \/ WasInstalled(command) => files = before
=============================================================================
