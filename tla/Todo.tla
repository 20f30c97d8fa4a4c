-------------------------------- MODULE Todo --------------------------------
(***************************************************************************)
(* tatr todo (todo_run in src/src/tatr.c): it walks the lines of the given *)
(* source files, asks about every comment it finds, creates a task for it  *)
(* and writes the file back with the task's id in the comment's place.     *)
(*                                                                         *)
(* The files it rewrites are no part of the database: no lock and no       *)
(* rename protects them.  The lock it holds on the database keeps a second *)
(* todo out, so there is one process here, started again and again.  Any   *)
(* call may fail and the process may die, as Env allows.                   *)
(***************************************************************************)
EXTENDS Naturals, Sequences, FiniteSets, SequencesExt

CONSTANTS File,      \* source files
          Id,        \* ids tasks can get, more than one run needs
          Sources,   \* what people wrote: sequences of "code" and "comment"
          Arguments, \* sequences of files todo is called with
          MaxRuns,   \* bound on the calls of todo
          Env        \* subset of {"io", "crash"}

TodoAssumption ==
  /\ Sources \subseteq Seq({"code", "comment"}) /\ Arguments \subseteq Seq(File)
  /\ MaxRuns \in Nat /\ Env \subseteq {"io", "crash"}
  /\ Id \cap {"code", "comment"} = {}

VARIABLES source,  \* File -> its lines on disk; a task's id stands for its mark
          tasks,   \* the tasks in the database
          pc,      \* where todo_run is
          args,    \* the files left, the one being worked on first
          lines,   \* the lines read, with the marks made since
          at,      \* the line the loop is at
          yes,     \* yes_entire_file
          runs,    \* calls of todo left
          written, \* what people wrote, for comparison
          failed   \* something failed or died, for comparison

files == <<source, written>>
loop == <<args, lines, at, yes>>
vars == <<files, tasks, pc, loop, runs, failed>>

Init == /\ written \in [File -> Sources] /\ source = written
        /\ tasks = {} /\ pc = "idle" /\ args = <<>> /\ lines = <<>> /\ at = 1
        /\ yes = FALSE /\ runs = MaxRuns /\ failed = FALSE

Goto(l) == pc' = l
GiveUp == Goto("idle") /\ failed' = TRUE

-----------------------------------------------------------------------------
Start == /\ pc = "idle" /\ runs > 0
         /\ runs' = runs - 1
         /\ args' \in Arguments
         /\ Goto("read")
         /\ UNCHANGED <<files, tasks, lines, at, yes, failed>>

Read == /\ pc = "read"
        /\ \/ args = <<>> /\ Goto("idle") /\ UNCHANGED <<loop, failed>>
           \/ /\ args # <<>>
              /\ lines' = source[Head(args)] /\ at' = 1 /\ yes' = FALSE
              /\ Goto("scan") /\ UNCHANGED <<args, failed>>
           \/ "io" \in Env /\ args # <<>> /\ GiveUp /\ UNCHANGED loop
        /\ UNCHANGED <<files, tasks, runs>>

NextFile == Goto("read") /\ args' = Tail(args) /\ UNCHANGED <<lines, at, yes>>

Scan == /\ pc = "scan"
        /\ \/ at > Len(lines) /\ NextFile
           \/ /\ at <= Len(lines) /\ lines[at] # "comment"
              /\ at' = at + 1 /\ UNCHANGED <<pc, args, lines, yes>>
           \/ /\ at <= Len(lines) /\ lines[at] = "comment"
              /\ Goto(IF yes THEN "create" ELSE "prompt") /\ UNCHANGED loop
        /\ UNCHANGED <<files, tasks, runs, failed>>

\* Slip: the loop stays at its line.
Skip_Stays == Goto("scan") /\ UNCHANGED loop

Skip == Goto("scan") /\ at' = at + 1 /\ UNCHANGED <<args, lines, yes>>

\* The end of the input is no answer: user_prompt returns one no case handles.
EndOfInput == "crash" \in Env /\ GiveUp /\ UNCHANGED loop

Answer == /\ pc = "prompt"
          /\ \/ Goto("create") /\ UNCHANGED <<loop, failed>>                  \* y
             \/ Skip /\ UNCHANGED failed                                      \* n
             \/ Goto("idle") /\ UNCHANGED <<loop, failed>>                    \* q
             \/ Goto("create") /\ yes' = TRUE
                  /\ UNCHANGED <<args, lines, at, failed>>                    \* a
             \/ NextFile /\ UNCHANGED failed                                  \* c
             \/ EndOfInput
          /\ UNCHANGED <<files, tasks, runs>>

\* The clock's next id, or the one a second later.
NewId == CHOOSE i \in Id : i \notin tasks

\* Slips: the new id is not put into the line; or it is put there before the task
\* is there, and stays when there is none.
Create_Unmarked ==
  /\ pc = "create"
  /\ tasks' = tasks \cup {NewId}
  /\ Goto("open") /\ UNCHANGED <<files, loop, runs, failed>>
Create_Unchecked ==
  /\ pc = "create"
  /\ lines' = [lines EXCEPT ![at] = NewId]
  /\ tasks' \in {tasks, tasks \cup {NewId}}
  /\ Goto("open") /\ UNCHANGED <<files, args, at, yes, runs, failed>>

\* create_new_task; Id is a bound.  A sync that fails after the rename is a failure too,
\* although the task is there.
Create ==
  /\ pc = "create" /\ tasks # Id
  /\ \/ /\ tasks' = tasks \cup {NewId}
        /\ lines' = [lines EXCEPT ![at] = NewId]
        /\ Goto("open") /\ UNCHANGED <<args, at, yes, failed>>
     \/ /\ "io" \in Env /\ tasks' \in {tasks, tasks \cup {NewId}}
        /\ GiveUp /\ UNCHANGED loop
  /\ UNCHANGED <<files, runs>>

\* write_entire_file: opening truncates; a failing write leaves the first lines, and
\* goes unnoticed when it only fails as the file is closed.
OpenSource ==
  /\ pc = "open"
  /\ \/ /\ source' = [source EXCEPT ![Head(args)] = <<>>]
        /\ Goto("write") /\ UNCHANGED failed
     \/ "io" \in Env /\ GiveUp /\ UNCHANGED source
  /\ UNCHANGED <<written, tasks, loop, runs>>

\* Slip: only the rest of the file is written.
Output_Rest == SubSeq(lines, at, Len(lines))

\* lines_concat: every line, whether or not it was asked about already.
Output == lines

WriteSource ==
  /\ pc = "write"
  /\ \/ /\ source' = [source EXCEPT ![Head(args)] = Output]
        /\ Skip /\ UNCHANGED failed
     \/ /\ "io" \in Env
        /\ \E n \in 0 .. Len(Output) - 1 :
             source' = [source EXCEPT ![Head(args)] = SubSeq(Output, 1, n)]
        /\ failed' = TRUE
        /\ \/ Goto("idle") /\ UNCHANGED loop
           \/ Skip
  /\ UNCHANGED <<written, tasks, runs>>

Crash == /\ "crash" \in Env /\ pc # "idle" /\ GiveUp
         /\ UNCHANGED <<files, tasks, loop, runs>>

-----------------------------------------------------------------------------
Run == Read \/ Scan \/ Answer \/ Create \/ OpenSource \/ WriteSource
Next == Start \/ Run \/ Crash

Spec == Init /\ [][Next]_vars
\* todo_run goes on, and somebody answers what it asks.
FairSpec == Spec /\ WF_vars(Run)

-----------------------------------------------------------------------------
Marks(s) == {n \in DOMAIN s : s[n] \in Id}

\* No mark is a dead link: whatever failed or died and whenever, an id in a source file is
\* the id of a task that exists.  And as long as nothing goes wrong each task has its comment
\* and each comment at most one task, whichever files are given, how often, and however often
\* todo is run.
OneTaskPerComment ==
  LET marks == UNION {{<<f, n>> : n \in Marks(source[f])} : f \in File}
      Of(m) == source[m[1]][m[2]] IN
  /\ {Of(m) : m \in marks} \subseteq tasks
  /\ pc = "idle" /\ ~failed => /\ Cardinality(marks) = Cardinality(tasks)
                               /\ {Of(m) : m \in marks} = tasks

\* A rewrite changes nothing but comments it made tasks of.  What is on disk is the
\* file people wrote, with marks, and all of it unless todo is just writing it or
\* something went wrong; then it is the beginning of that.
SourceKept ==
  \A f \in File :
    LET now == source[f] old == written[f] IN
    /\ Len(now) <= Len(old)
    /\ \A n \in DOMAIN now : now[n] # old[n] => old[n] = "comment" /\ n \in Marks(now)
    /\ Len(now) = Len(old) \/ failed \/ (pc = "write" /\ f = Head(args))

\* The lock todo holds while it asks is given back: every run comes to its end.
TodoEnds == pc # "idle" ~> pc = "idle"
=============================================================================
