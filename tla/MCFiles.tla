------------------------------ MODULE MCFiles -------------------------------
\* Instances for TLC of what the commands do to single files: TaskFile, a TASK.md that is
\* created, changed and edited, and Todo, the source files todo marks.
EXTENDS TaskFile, FiniteSets

CONSTANTS HeaderLines,  \* the most lines added to a usual header
          File, Id, Sources, Arguments, MaxRuns, Env  \* of Todo

VARIABLES part,  \* the part of the behaviour: "task" or "todo"
          source, tasks, pc, args, lines, at, yes, runs, written, failed  \* of Todo

T == INSTANCE Todo
todo == <<source, tasks, pc, args, lines, at, yes, runs, written, failed>>

ASSUME TodoAssumption == T!TodoAssumption

-----------------------------------------------------------------------------
\* Files put together from a beginning, a header and a body, some well-formed, some as a
\* person who knows no better may write them.
Begins == {<<Title("t")>>, <<Blank, Title("t"), Blank>>, <<Title("")>>, <<Text("p")>>}
Props == {Prop("STATUS", <<"OPEN">>), Prop("STATUS", <<"CLOSED">>), Prop("PRIORITY", <<"1">>),
          Prop("PRIORITY", <<"high">>), Prop("TAGS", <<"a", "b">>), Prop("X", <<"v">>),
          Prop("RESOLUTION", <<"DONE">>), Prop("DEPENDS", <<"i", "j">>)}
Headers == {<<>>, <<Prop("STATUS", <<"OPEN">>), Prop("PRIORITY", <<"1">>)>>,
            <<Prop("PRIORITY", <<"1">>), Prop("X", <<"v">>), Prop("STATUS", <<"CLOSED">>)>>,
            <<Prop("STATUS", <<"CLOSED">>), Prop("PRIORITY", <<"1">>), Prop("TAGS", <<"b", "a">>),
              Prop("RESOLUTION", <<"DONE">>)>>}
Bodies == {<<>>, <<Blank, Prop("X", <<"w">>)>>, <<Text("near"), Blank>>, <<Text("p"), Prop("STATUS", <<"OPEN">>)>>,
           <<Blank, Nul, Text("p")>>}
Written == {<<>>} \cup {b \o h \o g \o e : b \in Begins, h \in Headers,
                                             g \in BoundedSeq(Props, HeaderLines), e \in Bodies}

SomeChanges == {<< <<"STATUS", <<"OPEN">>>> >>, << <<"STATUS", <<"CLOSED">>>>, <<"RESOLUTION", <<"DONE">>>> >>,
                << <<"RESOLUTION", <<>>>> >>, << <<"PRIORITY", <<"2">>>> >>, << <<"PRIORITY", <<"high">>>> >>,
                << <<"DEPENDS", <<"j", "i">>>> >>, << <<"DEPENDS", <<"i", "i">>>> >>,
                << <<"TAGS", <<"b">>>>, <<"X", <<"v">>>> >>, << <<"X", <<>>>> >>}
SomeUpdates == {<< <<"close", "">> >>, << <<"open", "">>, <<"tag", "c">> >>, << <<"untag", "a">>, <<"tag", "b">> >>,
                << <<"tag", "">>, <<"tag", "c">> >>, << <<"tag", "not utf-8">> >>}
SomeNews == [title : {"t", ""}, priority : {"1"}, tags : {<<>>, <<"a", "b">>},
             props : {<<>>, << <<"X", <<"v">>>>, <<"RESOLUTION", <<>>>> >>,
                      << <<"RESOLUTION", <<"DONE">>>> >>, << <<"TAGS", <<>>>> >>},
             body : {<<Prop("X", <<"w">>)>>} \cup Bodies]
Decimals == {"0", "1", "2", "999999"}
AnyString == STRING
NotUtf8 == {"not utf-8"}

\* Short source files, given one after the other or twice.
AllSources == {<<"comment", "code">>, <<"code", "comment", "comment">>}
UpToTwo == {<<f>> : f \in File} \cup (File \X File)

-----------------------------------------------------------------------------
NoTodo == /\ written = [f \in File |-> <<>>] /\ source = written
          /\ tasks = {} /\ pc = "idle" /\ args = <<>> /\ lines = <<>> /\ at = 1
          /\ yes = FALSE /\ runs = 0 /\ failed = FALSE

PartsInit == Init /\ \/ part = "task" /\ NoTodo
                     \/ part = "todo" /\ T!Init
PartsNext == /\ \/ part = "task" /\ Next /\ UNCHANGED todo
                \/ part = "todo" /\ T!Next /\ UNCHANGED vars
             /\ UNCHANGED part
\* todo_run goes on, and somebody answers what it asks.
PartsSpec == PartsInit /\ [][PartsNext]_<<vars, todo, part>>
             /\ WF_todo(part = "todo" /\ T!Run)

\* The properties of Todo, true of NoTodo.
SourceKept == T!SourceKept
OneTaskPerComment == T!OneTaskPerComment
TodoEnds == T!TodoEnds
=============================================================================
