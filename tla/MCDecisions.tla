---------------------------- MODULE MCDecisions -----------------------------
\* Instances for TLC of what decides without changing anything: Visit, the search for cycles;
\* Query, the query language; and Text and Formats, the readers and writers of ids, numbers,
\* strings, lists, paths and replies.
EXTENDS Visit, TLC

CONSTANTS Words, Tag, Numbers, Huids, Value, Tasks, MaxLen,  \* of Query
          Alphabet, Longest, DateDigits, TimeDigits, MaxName, IntMax, LongMax, WordMax, Unit,  \* of Text
          BlockBytes, LengthBytes  \* of Formats

VARIABLES part,        \* the part of the behaviour: "visit", "query" or "text"
          src,         \* of Query
          kind, text   \* of Text

Q == INSTANCE Query WITH Number <- Numbers, Huid <- Huids
X == INSTANCE Formats

ASSUME QueryAssumption == Q!QueryAssumption
ASSUME TextAssumption == X!FormatsAssumption

-----------------------------------------------------------------------------
\* Every graph of open tasks, and a legacy task.
Plain(header, spec, depends) ==
  [header |-> header, status |-> "OPEN", resolution |-> "",
   spec |-> spec, depends |-> depends]
AnyTask == {Plain("strict", s, d) : s \in Id \cup {None}, d \in SUBSET Id}
             \cup {Plain("legacy", None, {})}

\* One or two words of each kind, two tasks.
TwoTasks == {[id |-> "huid", tags |-> {"a"}, priority |-> 3],
             [id |-> "other", tags |-> {}, priority |-> 1]}
Two == [w \in Numbers |-> 2]

\* Texts of characters that tell the rules apart; bytes at the ends of every range.
SomeAlphabet == [name |-> {"1", "-", "a", "."},
                 number |-> {"0", "1", "3", "9", "-", "+", " ", "K", "x"},
                 bytes |-> {97, 128, 143, 144, 159, 160, 191, 192, 194, 223, 224, 237, 239, 240, 244, 245},
                 json |-> {"u", "quote", "backslash", "tab", "newline"},
                 update |-> {"open", "close", "+", "-", "a", ",", " "},
                 path |-> {"/", ".", "a"},
                 reply |-> {"tag", "depends", "property", "spec"}]
SomeLongest == [name |-> 7, number |-> 4, bytes |-> 4, json |-> 5, update |-> 5, path |-> 8, reply |-> 3]
SomeUnit == ("K" :> 16)

-----------------------------------------------------------------------------
NoSearch == /\ rs = <<>> /\ root = None /\ scope = FALSE /\ color = <<>> /\ inspected = {}
            /\ stack = <<>> /\ target = None /\ outcome = "running" /\ cycle = <<>>

PartsInit == \/ part = "visit" /\ Init /\ src = <<>> /\ kind = "name" /\ text = <<>>
             \/ part = "query" /\ NoSearch /\ Q!Init /\ kind = "name" /\ text = <<>>
             \/ part = "text" /\ NoSearch /\ src = <<>> /\ X!Init
PartsNext == /\ \/ part = "visit" /\ Next /\ UNCHANGED <<src, kind, text>>
                \/ part = "query" /\ Q!Next /\ UNCHANGED <<vars, kind, text>>
                \/ part = "text" /\ X!Next /\ UNCHANGED <<vars, src>>
             /\ UNCHANGED part
PartsSpec == PartsInit /\ [][PartsNext]_<<vars, src, kind, text, part>>

\* The properties of Query and Text.
AcceptsGrammar == Q!AcceptsGrammar
MachineAgrees == Q!MachineAgrees
ReadersAgree == X!NamesAgree /\ X!NumbersAgree
OutputReads == X!FormatsRead
=============================================================================
