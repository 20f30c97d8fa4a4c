------------------------------ MODULE Dispatch ------------------------------
(***************************************************************************)
(* One command line, from main to the command's work.  Two programs read   *)
(* it: scheduler_dispatch (src/src/scheduler.c) scans it to pick the       *)
(* database, the lock and the handler, and the handler's flag parser       *)
(* (src/thirdparty/flag.h) reads what the scan leaves, by other rules.     *)
(* The module is about what happens when the two do not agree.             *)
(*                                                                         *)
(* An argument is a flag with a mark ("" for -f, "=" for -f=word, "/" for  *)
(* -/f, which the parser reads and ignores) or a word; -- is End.  A word  *)
(* says what it is good for: "dir" is a database, "id" a task in it,       *)
(* "hash" a fingerprint and so on.  The work itself is in other modules;   *)
(* here it reads, writes or refuses.                                       *)
(***************************************************************************)
EXTENDS Naturals, Sequences, FiniteSets

CONSTANT Lines  \* command lines: a command and its arguments

Arg == [flag : STRING, mark : {"", "=", "/"}, word : STRING]
Word(w) == [flag |-> "", mark |-> "", word |-> w]
Flag(f) == [flag |-> f, mark |-> "", word |-> ""]
End == Flag("-")
Dash(a) == a.flag # ""
Exact(a, f) == a.flag = f /\ a.mark = ""

Scheduled == {"ls", "find", "new", "todo", "set", "check", "ready"}
Machine == {"new", "set", "check", "ready"}
Unscheduled == {"init", "tag", "untag", "id", "ref", "graph", "summary", "version",
                "help", "nvim-setup", "skill-setup"}

ASSUME LinesAssumption ==
  \A l \in Lines : /\ l.cmd \in Scheduled \cup Unscheduled \cup {"", "unknown"}
                   /\ l.argv \in Seq(Arg)

VARIABLES line,    \* what was typed
          found,   \* is there a tasks directory above the working directory
          pc, at,  \* where it is: the step, and the argument it is at
          cmd,     \* the command dispatched to
          argv,    \* the arguments being read
          options, \* the scan has met options only
          asks,    \* what the scan understood: json, help, debug, update, explicit
          db,      \* the directory the scan chose, "" for none yet
          code,    \* scheduler_code is set
          rest,    \* the arguments the scan leaves to the parser, then the positionals
          opened,  \* the open database: "given", "found" or "none"
          lock,    \* the lock it was opened with
          handler, \* "scheduler" for scheduler_run, "text" for the command's own run
          flags,   \* the flags the parser has set, with their words
          json,    \* scheduler_run replies in JSON
          effect   \* how it ended

scan == <<options, asks, db, rest>>
parsed == <<flags, json>>
store == <<opened, lock>>
vars == <<line, found, pc, at, cmd, argv, scan, code, store, handler, parsed, effect>>

Init == /\ line \in Lines /\ found \in BOOLEAN
        /\ pc = "main" /\ at = 1 /\ cmd = line.cmd /\ argv = line.argv
        /\ options = TRUE /\ asks = {} /\ db = "" /\ code = FALSE /\ rest = <<>>
        /\ opened = "none" /\ lock = "none" /\ handler = "text"
        /\ flags = {} /\ json = FALSE /\ effect = "none"

Goto(l) == pc' = l
Ended(e) == Goto("done") /\ effect' = e

\* main, and scheduler_dispatch for a command that needs no database of its own.
Main ==
  /\ pc = "main"
  /\ \/ cmd \in {"", "unknown"} /\ Ended("refused") /\ UNCHANGED rest
     \/ cmd \in Unscheduled /\ Goto("parse") /\ rest' = argv /\ UNCHANGED effect
     \/ cmd \in Scheduled /\ Goto("scan") /\ UNCHANGED <<rest, effect>>
  /\ UNCHANGED <<line, found, at, cmd, argv, options, asks, db, code, store, handler, parsed>>

-----------------------------------------------------------------------------
\* The scan's flags that take the next argument, for whichever command.
Valued == {"property", "expect", "spec", "p", "t", "s", "body-file", "update"}

\* -db DIR is taken out of the line; twice, or without DIR, it is an error.
ScanDb ==
  /\ pc = "scan" /\ at <= Len(argv) /\ options /\ Exact(argv[at], "db")
  /\ asks' = asks \cup {"explicit"}
  /\ IF at = Len(argv) \/ "explicit" \in asks
     THEN code' = TRUE /\ at' = at + 1 /\ UNCHANGED db
     ELSE db' = argv[at + 1].word /\ at' = at + 2 /\ UNCHANGED code
  /\ UNCHANGED <<line, found, pc, cmd, argv, options, rest, store, handler, parsed, effect>>

\* How many arguments the one at hand stands for, and whether options go on.
Skipped(a) == IF options /\ a.mark = "" /\ a.flag \in Valued /\ at < Len(argv) THEN 2 ELSE 1
StillOptions(a) == options /\ Dash(a)

Understood(a) == IF options /\ a.mark = "" /\ (a.flag # "debug" \/ cmd = "ls")
                 THEN {a.flag} \cap {"json", "help", "debug", "update"} ELSE {}

Scan ==
  /\ pc = "scan" /\ at <= Len(argv)
  /\ LET a == argv[at] IN
     /\ ~(options /\ Exact(a, "db"))
     /\ asks' = asks \cup Understood(a)
     /\ rest' = rest \o SubSeq(argv, at, at + Skipped(a) - 1)
     /\ at' = at + Skipped(a)
     /\ options' = StillOptions(a)
  /\ UNCHANGED <<line, found, pc, cmd, argv, db, code, store, handler, parsed, effect>>

-----------------------------------------------------------------------------
ToParser == /\ Goto("parse") /\ argv' = rest /\ at' = 1
            /\ UNCHANGED <<line, found, cmd, scan, code, flags, effect>>

\* Before it parses, scheduler_run looks for -json once more, up to a word.
EarlyJson == \E n \in DOMAIN rest :
               Exact(rest[n], "json") /\ \A k \in 1 .. n : Dash(rest[k])

Handle(h) == handler' = h /\ json' = (h = "scheduler" /\ EarlyJson)

ScanDone == pc = "scan" /\ at > Len(argv)
DebugOnly == "debug" \in asks /\ "json" \notin asks
Scheduler == IF "json" \in asks \/ cmd \in Machine THEN "scheduler" ELSE "text"

\* ls -debug compiles its query and nothing else.
DispatchDebug == ScanDone /\ DebugOnly /\ Handle("text") /\ ToParser /\ UNCHANGED store

\* Slip: help is left to the handler, after the database was opened.
HelpFirst_Late == FALSE

HelpFirst == "help" \in asks

DispatchHelp == /\ ScanDone /\ ~DebugOnly /\ HelpFirst
                /\ Handle(IF cmd \in {"ls", "find"} THEN "scheduler" ELSE Scheduler)
                /\ ToParser /\ UNCHANGED store

\* Slips: an explicit directory that cannot be opened falls back; ls -update reads.
Directory_FallsBack == IF db = "dir" THEN "given" ELSE IF found THEN "found" ELSE "none"
Exclusive_ReadsUpdates == cmd \in {"new", "todo", "set"}

\* The directory to open: the one given, if it is one, or the one found.
Directory == IF "explicit" \in asks
             THEN IF db = "dir" THEN "given" ELSE "none"
             ELSE IF found THEN "found" ELSE "none"
Exclusive == "update" \in asks \/ cmd \in {"new", "todo", "set"}

MissingDb == cmd \in {"set", "check", "ready"} /\ "explicit" \notin asks

\* store_open may also find the database locked or fail.
DispatchOpen ==
  /\ ScanDone /\ ~DebugOnly /\ ~HelpFirst
  /\ \/ /\ ~code /\ ~MissingDb /\ Directory # "none"
        /\ opened' = Directory /\ lock' = IF Exclusive THEN "exclusive" ELSE "shared"
        /\ Handle(Scheduler) /\ ToParser
     \/ /\ Ended("refused") /\ json' = ("json" \in asks) /\ code' = TRUE
        /\ UNCHANGED <<line, found, at, cmd, argv, scan, store, handler, flags>>

-----------------------------------------------------------------------------
\* The flags each handler declares: those that are set, and those with a word.
SchedulerBools == [ls |-> {"c", "a", "id", "debug"}, find |-> {"path-only"}]
SchedulerWords == [new |-> {"property", "p", "s", "body-file", "t"},
                   set |-> {"property", "expect"}, check |-> {"spec"}, ready |-> {"spec"},
                   ls |-> {"update"}]
Flags(bools, words) == [bools |-> bools, words |-> words]
InitFlags == Flags({"no-readme"}, {})
TagFlags == Flags({"c"}, {"t"})
UntagFlags == Flags({"c"}, {"t"})
LsFlags == Flags({"c", "a", "id", "debug"}, {"update"})
TodoFlags == Flags({}, {"db", "s"})
FindFlags == Flags({"path-only"}, {})
SummaryFlags == Flags({"c"}, {})
HelpFlags == Flags({"d"}, {})
TextFlags == [init |-> InitFlags, tag |-> TagFlags, untag |-> UntagFlags, ls |-> LsFlags,
              todo |-> TodoFlags, find |-> FindFlags, summary |-> SummaryFlags, help |-> HelpFlags]

Of(table, none) == IF cmd \in DOMAIN table THEN table[cmd] ELSE none
Bools == {"help"} \cup IF handler = "scheduler" THEN {"json"} \cup Of(SchedulerBools, {})
                       ELSE Of(TextFlags, Flags({}, {})).bools
Words == IF handler = "scheduler" THEN {"db"} \cup Of(SchedulerWords, {})
         ELSE Of(TextFlags, Flags({}, {})).words

\* flag_c_parse stops for good.
ParseError == pc = "parse" /\ at <= Len(argv) /\ Dash(argv[at]) /\ argv[at] # End
              /\ \/ argv[at].flag \notin Bools \cup Words
                 \/ argv[at].flag \in Words /\ argv[at].mark # "=" /\ at = Len(argv)

\* One turn of flag_c_parse.  A flag without a word ignores the one given with "=",
\* and the last word given wins.
Set(f, w) == flags' = {x \in flags : x[1] # f \/ f \in {"property", "t", "update"}} \cup {<<f, w>>}

ParseFlag ==
  /\ pc = "parse" /\ at <= Len(argv) /\ Dash(argv[at]) /\ argv[at] # End /\ ~ParseError
  /\ LET a == argv[at]
         next == a.flag \in Words /\ a.mark # "=" IN
     /\ at' = at + IF next THEN 2 ELSE 1
     /\ IF a.mark = "/" THEN UNCHANGED flags
        ELSE Set(a.flag, IF next THEN argv[at + 1].word ELSE a.word)
     /\ json' = (json \/ (a.flag = "json" /\ a.mark # "/"))
  /\ UNCHANGED <<line, found, pc, cmd, argv, scan, code, store, handler, effect>>

\* It stops at the first word or at --, which stays.  find and ref take a word and
\* parse on, so that flags may follow; a second word, or one that is no id, is refused.
Loops == handler = "text" /\ cmd \in {"find", "ref"}
Stops == pc = "parse" /\ (at <= Len(argv) => ~Dash(argv[at]) \/ argv[at] = End)

Has(f) == \E x \in flags : x[1] = f
Arguments == IF Loops /\ Has("HUID") THEN <<Word("id")>> ELSE SubSeq(argv, at, Len(argv))

ParseOn == /\ Stops /\ Loops /\ at <= Len(argv)
           /\ argv[at] = Word("id") /\ ~Has("HUID")
           /\ Set("HUID", "id") /\ at' = at + 1
           /\ UNCHANGED <<line, found, pc, cmd, argv, scan, code, store, handler, json, effect>>

ParseEnd == /\ Stops /\ ~(Loops /\ at <= Len(argv))
            /\ Goto("run") /\ rest' = Arguments
            /\ UNCHANGED <<line, found, at, cmd, argv, options, asks, db, code, store, handler, parsed, effect>>

Refused == Ended("refused")
           /\ UNCHANGED <<line, found, at, cmd, argv, scan, code, store, handler, parsed>>

\* scheduler_run prints the usage before it looks at the error.
ParseFails ==
  \/ /\ ParseError
     /\ Ended(IF handler = "scheduler" /\ Has("help") THEN "usage" ELSE "refused")
     /\ UNCHANGED <<line, found, at, cmd, argv, scan, code, store, handler, parsed>>
  \/ /\ Stops /\ Loops /\ at <= Len(argv) /\ (argv[at] # Word("id") \/ Has("HUID"))
     /\ Refused

-----------------------------------------------------------------------------
Given(f, w) == <<f, w>> \in flags

TextOnly == Has("debug") \/ (cmd = "ls" /\ Has("update")) \/ Has("path-only")

\* What scheduler_run insists on before it touches the store.
WellFormed ==
  /\ ~code /\ ~TextOnly
  /\ cmd \in {"set", "check", "ready"} => "explicit" \in asks
  /\ cmd \in {"check", "ready"} => Given("spec", "id") /\ rest = <<>>
  /\ cmd \in {"set", "find"} => rest = <<Word("id")>>
  /\ cmd = "set" => Given("expect", "hash")
  /\ cmd \in {"set", "new"} => \A x \in flags : x[1] = "property" => x[2] = "pair"
  /\ cmd = "set" => Has("property")
  /\ cmd = "new" /\ Has("p") => Given("p", "number")
  /\ cmd = "ls" => \A n \in DOMAIN rest : rest[n].word = "query"

\* Without an open store every call of it fails.  todo -json has no task to print and
\* prints it, through a null pointer.
RunScheduler ==
  /\ pc = "run" /\ handler = "scheduler"
  /\ Ended(IF Has("help") THEN "usage"
           ELSE IF ~WellFormed \/ opened = "none" THEN "refused"
           ELSE IF cmd \in {"new", "set"} THEN "write"
           ELSE IF cmd = "todo" THEN "crash" ELSE "read")
  /\ UNCHANGED <<line, found, at, cmd, argv, scan, code, store, handler, parsed>>

Answers(e) == Ended(IF Has("help") THEN "usage" ELSE e)
              /\ UNCHANGED <<line, found, at, cmd, argv, scan, code, store, handler, parsed>>

\* ls_run, find_run and todo_run look for the directory again, unless it was explicit.
Compiles == \A n \in DOMAIN rest : rest[n].word = "query"
Somewhere == opened # "none" \/ found
RunsText(c) == pc = "run" /\ handler = "text" /\ cmd = c

RunLs == RunsText("ls") /\
  Answers(IF ~Compiles THEN "refused"
          ELSE IF Has("debug") THEN "debug"
          ELSE IF (Has("update") /\ rest = <<>>) \/ ~Somewhere THEN "refused"
          ELSE IF Has("update") THEN "write" ELSE "read")
RunFind == RunsText("find") /\ Answers(IF rest # <<>> /\ Somewhere THEN "read" ELSE "refused")
RunTodo == RunsText("todo") /\
  Answers(IF rest # <<>> /\ rest[1] = Word("file") /\ opened # "none" THEN "write" ELSE "refused")

\* tag and untag only tell what to type instead.
RunTag == RunsText("tag") /\ Answers(IF Has("t") /\ rest # <<>> THEN "told" ELSE "refused")
RunUntag == RunsText("untag") /\ Answers(IF rest # <<>> /\ Has("t") THEN "told" ELSE "refused")

\* graph and summary read a database without a lock.  So does grep for ref, once it has an
\* id, which id and ref take from the name of the working directory, if it is in tasks.
RunReport == (RunsText("graph") \/ RunsText("summary")) /\ Answers(IF found THEN "unlocked" ELSE "refused")
RunId == RunsText("id") /\ \E inside \in BOOLEAN : Answers(IF found /\ inside THEN "told" ELSE "refused")
RunRef == RunsText("ref") /\ \E inside \in BOOLEAN :
            Answers(IF found /\ (rest # <<>> \/ inside) THEN "unlocked" ELSE "refused")

\* The commands that need no database.
RunOwn == pc = "run" /\ cmd \in {"init", "version", "nvim-setup", "skill-setup"} /\ Answers("own")

\* tatr help COMMAND dispatches again, to COMMAND -help.
RunHelp ==
  /\ pc = "run" /\ cmd = "help"
  /\ \/ /\ Has("help") \/ rest = <<>>
        /\ Ended("usage") /\ UNCHANGED <<at, cmd, argv, rest, flags>>
     \/ /\ ~Has("help") /\ rest # <<>> /\ rest[1].word \in Scheduled \cup Unscheduled
        /\ cmd' = rest[1].word /\ argv' = <<Flag("help")>> /\ rest' = <<>> /\ at' = 1
        /\ flags' = {} /\ Goto("main") /\ UNCHANGED effect
     \/ /\ ~Has("help") /\ rest # <<>> /\ rest[1].word \notin Scheduled \cup Unscheduled
        /\ Ended("refused") /\ UNCHANGED <<at, cmd, argv, rest, flags>>
  /\ UNCHANGED <<line, found, options, asks, db, code, store, handler, json>>

-----------------------------------------------------------------------------
Next == \/ Main \/ ScanDb \/ Scan \/ DispatchDebug \/ DispatchHelp \/ DispatchOpen
        \/ ParseFlag \/ ParseOn \/ ParseEnd \/ ParseFails
        \/ RunScheduler \/ RunLs \/ RunFind \/ RunTodo
        \/ RunTag \/ RunUntag \/ RunReport \/ RunId \/ RunRef \/ RunOwn \/ RunHelp
Spec == Init /\ [][Next]_vars

-----------------------------------------------------------------------------
\* How the documentation reads a line: options precede positionals, an option that
\* takes a value takes the next argument, and -- is a positional.
Reading(before, a) ==
  CASE before = "positional" -> "positional"
    [] before = "valued" -> "value"
    [] OTHER -> IF ~Dash(a) \/ a = End THEN "positional"
                ELSE IF a.mark = "" /\ a.flag \in Valued \cup {"db"} THEN "valued" ELSE "option"
Kinds(s) == LET kind[n \in Nat] == IF n = 0 THEN "option" ELSE Reading(kind[n - 1], s[n])
            IN kind
TypedIn(s, f) == \E n \in DOMAIN s : /\ s[n].flag = f /\ s[n].mark # "/"
                                    /\ Kinds(s)[n] \in {"option", "valued"}
Typed(f) == TypedIn(line.argv, f)

Works == effect \in {"read", "write"}

\* Whatever creates or replaces a task holds the exclusive lock of the database it
\* writes to, and whatever reads it for one of these commands the shared one.  A line that
\* asks for help, or for an explanation of its query, neither locks a database nor works on
\* one, whatever else it asks for.
WritesLocked == /\ effect = "write" => lock = "exclusive"
                /\ effect = "read" => lock # "none"
                /\ pc = "done" /\ Typed("help") =>
                     lock = "none" /\ effect \in {"usage", "refused", "debug"}
                /\ Works => ~Typed("debug")

\* A database named on the command line is the one worked on: nothing falls back
\* to the one discovered.  And set, check and ready never work on a discovered one.
OneDatabase == Works /\ (Typed("db") \/ cmd \in {"set", "check", "ready"}) => opened = "given"

\* Every command line gets an answer, if only an error.
NoCrash == effect # "crash"
=============================================================================
