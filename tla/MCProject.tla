----------------------------- MODULE MCProject ------------------------------
\* Instances for TLC of what surrounds the tasks: Build and Phases, the build program;
\* Setup, the files tatr puts into a project; Reports, the readers without a lock; and
\* HashTable, which they count with.
EXTENDS Build, FiniteSets, TLC

CONSTANTS Projects, Commands, Lines, Padded, MaxRuns, MaxUserEdits,  \* of Setup
          Keys, Values, NoValue, Hash, MinCap, Load,                  \* of HashTable
          Task, Tags, TaskFiles, MaxWrites                           \* of Reports

VARIABLES part,  \* the part of the behaviour: "build", "phases", "setup", "reports" or "table"
          asked, at, step, cmd, fds, cwd, sandbox, output, ok, result, status, done,       \* of Phases
          dirs, target, ignore, tasks, readme, stage, command, reply, seen, before, runs,
          userEdits, alone,                                                                \* of Setup
          db, writes, report, phase, todo, child, loaded, unseen, edges, dot, summary,
          was, since, fault,                                                               \* of Reports
          slots, count, filled, oldSlots, next, mode, item, iter, due                      \* of HashTable

P == INSTANCE Phases WITH pc <- step
S == INSTANCE Setup WITH pc <- stage, edits <- userEdits, quiet <- alone, MaxEdits <- MaxUserEdits
R == INSTANCE Reports WITH asked <- report, pc <- phase
H == INSTANCE HashTable WITH Absent <- NoValue, old <- oldSlots, at <- next, pc <- mode

phases == <<asked, at, step, cmd, fds, cwd, sandbox, output, ok, result, status, done>>
setup == <<dirs, target, ignore, tasks, readme, stage, command, reply, seen, before, runs, userEdits, alone>>
reports == <<db, writes, report, phase, todo, child, loaded, unseen, edges, dot, summary, was, since, fault>>
table == <<slots, count, filled, oldSlots, next, mode, item, iter, due>>

ASSUME PartsAssumption == S!SetupAssumption /\ R!ReportsAssumption /\ H!HashTableAssumption

-----------------------------------------------------------------------------
\* Projects that are bare, used or odd.
Lined(lines, ended) == [kind |-> "file", lines |-> lines, ended |-> ended]
NoFile == [kind |-> "none", lines |-> <<>>, ended |-> TRUE]
Chain(k, last) == [j \in 1 .. 3 |-> IF j < k THEN "dir" ELSE IF j = k THEN last ELSE "none"]
SomeDirs == {Chain(1, "none"), Chain(3, "dir"), Chain(2, "other")}
SomeIgnores == {NoFile, [NoFile EXCEPT !.kind = "other"], Lined(<<>>, TRUE), Lined(<<"*.o">>, FALSE),
                Lined(<<"/.nvim.lua", "*.o">>, FALSE), Lined(<<" /.agents/skills">>, TRUE)}
Project(d, n, s, i, t) ==
  [dirs |-> d, target |-> ("nvim" :> n) @@ ("skill" :> s), ignore |-> i, tasks |-> t, readme |-> "none"]
SomeProjects == {Project(Chain(1, "none"), "none", "none", i, "none") : i \in SomeIgnores}
                \cup {Project(d, "none", "none", NoFile, "none") : d \in SomeDirs}
                \cup {Project(Chain(1, "none"), n, "none", NoFile, "none") : n \in {"template", "user", "other"}}
                \cup {Project(Chain(3, "dir"), "none", s, Lined(<<"*.o">>, FALSE), "none") :
                        s \in {"template", "user", "other"}}
                \cup {Project(Chain(1, "none"), "none", "none", NoFile, t) : t \in {"none", "dir", "other"}}
SomePadded == " /.agents/skills" :> "skill"

\* Files of open and closed tasks, with and without tags and mentions.
TaskIn(closed, tags, mentions) == [kind |-> "file", closed |-> closed, tags |-> tags, mentions |-> mentions]
SomeFiles == {TaskIn(FALSE, <<>>, Task), TaskIn(FALSE, <<"a", "a">>, {}), TaskIn(TRUE, <<"a", "b">>, Task)}

\* Keys whose probes meet, in a table that is small at first.
SomeHashes == ("a" :> 0) @@ ("b" :> 2) @@ ("c" :> 6)

-----------------------------------------------------------------------------
NoPhases == /\ asked = {"bad"} /\ at = 1 /\ step = "off" /\ cmd = <<>> /\ fds = {} /\ cwd = "root"
            /\ sandbox = "none" /\ output = <<>> /\ ok = TRUE /\ result = TRUE /\ status = "none" /\ done = {}
NoSetup == /\ dirs = Chain(1, "none") /\ target = [c \in {"nvim", "skill"} |-> "none"] /\ ignore = NoFile
           /\ tasks = "none" /\ readme = "none" /\ stage = "off" /\ command = "none" /\ reply = "none"
           /\ seen = <<>> /\ before = <<>> /\ runs = 0 /\ userEdits = 0 /\ alone = FALSE
NoReports == /\ db = <<>> /\ writes = 0 /\ report = "nothing" /\ phase = "off" /\ todo = {} /\ child = "nobody"
             /\ loaded = <<>> /\ unseen = {} /\ edges = {} /\ dot = "nothing" /\ summary = <<>>
             /\ was = <<>> /\ since = <<>> /\ fault = FALSE

PartsInit == /\ part \in {"build", "phases", "setup", "reports", "table"} /\ Init
             /\ IF part = "phases" THEN P!Init ELSE NoPhases
             /\ IF part = "setup" THEN S!Init ELSE NoSetup
             /\ IF part = "reports" THEN R!Init ELSE NoReports
             /\ H!Init
PartsNext == /\ \/ part = "build" /\ Next /\ UNCHANGED <<phases, setup, reports, table>>
                \/ part = "phases" /\ P!Next /\ UNCHANGED <<vars, setup, reports, table>>
                \/ part = "setup" /\ S!Next /\ UNCHANGED <<vars, phases, reports, table>>
                \/ part = "reports" /\ R!Next /\ UNCHANGED <<vars, phases, setup, table>>
                \/ part = "table" /\ H!Next /\ UNCHANGED <<vars, phases, setup, reports>>
             /\ UNCHANGED part
\* A put, once begun, goes on.
PartsSpec == /\ PartsInit
             /\ [][PartsNext]_<<vars, phases, setup, reports, table, part>>
             /\ WF_table(part = "table" /\ H!Works)

\* The properties of Phases, Setup, Reports and HashTable.
SuccessIsEarned == P!SuccessIsEarned
OwnCommand == part = "phases" => P!OwnCommand
SuccessInstalled == S!SuccessInstalled
UserFilesKept == S!UserFilesKept
ReportsWhatWas == R!ReportsWhatWas
GraphLeadsToTasks == R!GraphLeadsToTasks
Refines == H!Refines
=============================================================================
