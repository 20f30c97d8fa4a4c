------------------------------ MODULE MCEntry -------------------------------
\* Instances for TLC of the way from a command line to an open database: Dispatch, which
\* says whether and how one is opened, and Paths, which one.
EXTENDS Dispatch, SequencesExt, TLC

CONSTANTS Equals,   \* is -db=DIR inserted too
          Inserted, \* how many arguments are inserted in a usable line
          Trees, Cwds, Dbs  \* of Paths

VARIABLES part,  \* the part of the behaviour: "lines" or "paths"
          tree, cwd, given, step, dir, todo, path, fd, error  \* of Paths

P == INSTANCE Paths WITH db <- given, pc <- step, code <- error
walk == <<tree, cwd, given, step, dir, todo, path, fd, error>>

ASSUME TreesAssumption == P!PathsAssumption

-----------------------------------------------------------------------------
\* A usable line of each command, with arguments inserted anywhere, or none of it.
Usable == [ls |-> <<Flag("update"), Word("ops"), Word("query")>>,
           find |-> <<Word("id")>>,
           new |-> <<Flag("db"), Word("dir"), Flag("p"), Word("number"), Word("title")>>,
           todo |-> <<Word("file")>>,
           set |-> <<Flag("db"), Word("dir"), Flag("expect"), Word("hash"),
                     Flag("property"), Word("pair"), Word("id")>>,
           check |-> <<Flag("db"), Word("dir"), Flag("spec"), Word("id")>>]

Extra(c) == [flag : {"json", "help"}, mark : {"", "/"}, word : {""}]
            \cup {Flag("db"), Flag("p"), End, Word("other")}
            \cup (IF Equals THEN {[Flag("db") EXCEPT !.mark = "=", !.word = "other"]} ELSE {})
            \cup (IF c = "ls" THEN {Flag("debug"), Flag("c")} ELSE {})
            \cup (IF c = "find" THEN {Flag("path-only"), Word("id")} ELSE {})

Insert(s, n, a) == SubSeq(s, 1, n) \o <<a>> \o SubSeq(s, n + 1, Len(s))
With(c, S) == UNION {{Insert(s, n, a) : n \in 0 .. Len(s), a \in Extra(c)} : s \in S}
Edited(c, s) == LET once == With(c, {s}) IN
                {s} \cup once \cup IF Inserted > 1 THEN With(c, once) ELSE {}

Other == {<<>>, <<Flag("help")>>, <<Word("id")>>, <<Word("id"), Flag("help")>>,
          <<Flag("bogus")>>, <<Word("id"), Word("id")>>, <<End>>, <<Flag("t"), Word("tag"), Word("query")>>,
          <<Word("ls")>>, <<Word("todo")>>, <<Word("version")>>}
AllLines == UNION {[cmd : {c}, argv : Edited(c, <<>>) \cup Edited(c, Usable[c])] : c \in DOMAIN Usable}
            \cup [cmd : Unscheduled \cup {"", "unknown", "ready"}, argv : Other]

-----------------------------------------------------------------------------
\* File systems over a few names, with directories that may not be read or searched, and
\* links and files in the way.
Node(k) == [kind |-> k, to |-> <<>>]
Link(p) == [kind |-> "link", to |-> p]
None == [kind |-> "missing", to |-> <<>>]

A == <<"a">>
B == <<"a", "b">>
T == <<"tasks">>
AT == <<"a", "tasks">>
BT == <<"a", "b", "tasks">>
X == <<"a", "tasks", "x">>
C == <<"a", "b", "c">>

Tree(r, a, b, t, ta, tb, x) ==
  LET all == (<<>> :> r) @@ (A :> a) @@ (B :> b) @@ (C :> Node("dir")) @@ (T :> t) @@ (AT :> ta) @@ (BT :> tb) @@ (X :> x)
      there == {p \in DOMAIN all : /\ all[p].kind # "missing"
                                   /\ \A n \in 0 .. Len(p) - 1 : all[SubSeq(p, 1, n)].kind \in {"dir", "pass", "dark"}}
  IN [p \in there |-> all[p]]
SomeTrees == {Tree(r, a, b, t, ta, tb, x) :
                r \in {Node("dir"), Node("pass")}, a \in {Node("dir"), Node("pass"), Node("dark")},
                b \in {Node("dir"), Node("pass"), Node("dark"), Link(AT)}, t \in {None, Node("dir")},
                ta \in {None, Node("dir"), Node("pass"), Node("file"), Link(B)},
                tb \in {None, Node("dir"), Node("pass"), Node("file"), Link(AT)}, x \in {None, Node("dir")}}
SomeCwds == {<<>>, A, B, C, AT, X}
Abs(p) == [absolute |-> TRUE, parts |-> p]
Rel(p) == [absolute |-> FALSE, parts |-> p]
SomeDbs == {Abs(T), Abs(AT), Abs(BT), Abs(<<"a", ".", "b", "..", "tasks">>), Abs(<<"..", "a">>), Abs(<<"a", "b", "..">>),
            Rel(<<"tasks">>), Rel(<<"..", "tasks">>), Rel(<<".">>), Rel(<<"missing", "..", "tasks">>)}

-----------------------------------------------------------------------------
NoLine == line = [cmd |-> "", argv |-> <<>>] /\ found = FALSE
NoPath == /\ tree = (<<>> :> Node("dir")) /\ cwd = <<>> /\ given = Rel(<<"none">>)
          /\ step = "off" /\ dir = cwd /\ todo = <<>> /\ path = <<>> /\ fd = <<"closed">> /\ error = ""

PartsInit == \/ part = "lines" /\ Init /\ NoPath
             \/ part = "paths" /\ NoLine /\ Init /\ P!Init
PartsNext == /\ \/ part = "lines" /\ Next /\ UNCHANGED walk
                \/ part = "paths" /\ P!Next /\ UNCHANGED vars
             /\ UNCHANGED part
PartsSpec == PartsInit /\ [][PartsNext]_<<vars, walk, part>>

\* The properties of Paths, of which NoPath says nothing.
OpensWhatItMay == part = "paths" => P!OpensWhatItMay
NearestOpened == part = "paths" => P!NearestOpened
=============================================================================
