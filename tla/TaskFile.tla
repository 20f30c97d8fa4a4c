------------------------------ MODULE TaskFile ------------------------------
(***************************************************************************)
(* One TASK.md as a text.  People write it by hand; task_md_parse (src/    *)
(* src/md.c), load_tasks (task.c) and the stricter scheduler_header read   *)
(* it; new, set and ls -update render all of it again (render_task_md)     *)
(* from what the parser understood.  The module is about what this does to *)
(* the parts of the file nobody asked to change.                           *)
(*                                                                         *)
(* A file is a sequence of lines: "# title", "- KEY: words", or another    *)
(* text ("" is a blank one, "near" an item that resembles a scheduling     *)
(* header without being one), or a line with a NUL byte.                   *)
(***************************************************************************)
EXTENDS Naturals, Sequences, SequencesExt

CONSTANTS Strings,  \* what a title, a key, a word or a line is
          Files,    \* what people write
          Changes,  \* property arguments of set: sequences of <<key, words>>
          Updates,  \* TUL: sequences of <<action, tag>>
          News,     \* arguments of new: title, priority, tags, props, body
          Numbers,  \* the words that are 32-bit decimals
          Garbled,  \* the strings that are not UTF-8
          MaxCommands  \* bound: commands on one file

Title(t) == [kind |-> "title", text |-> t, words |-> <<>>]
Prop(k, w) == [kind |-> "prop", text |-> k, words |-> w]
Text(t) == [kind |-> "text", text |-> t, words |-> <<>>]
Nothing == ""
Blank == Text(Nothing)
Nul == [kind |-> "nul", text |-> Nothing, words |-> <<>>]

Words == Strings \ {Nothing}
Line == [kind : {"title", "prop", "text", "nul"}, text : Strings, words : Seq(Words)]
Property == Strings \X Seq(Words)
Once(ps) == \A n, k \in DOMAIN ps : ps[n][1] = ps[k][1] => n = k

\* scheduler_property_args refuses a key that comes twice; new's priority is an integer.
ASSUME TaskFileAssumption ==
  /\ {"STATUS", "PRIORITY", "TAGS", "RESOLUTION", "OPEN", "CLOSED", "INVALID", Nothing} \subseteq Strings
  /\ {"0", "999999"} \subseteq Numbers /\ Numbers \subseteq Words /\ MaxCommands \in Nat
  /\ Garbled \subseteq Strings /\ Garbled \cap Numbers = {}
  /\ Garbled \cap {"STATUS", "PRIORITY", "TAGS", "RESOLUTION", "OPEN", "CLOSED", Nothing} = {}
  /\ Files \subseteq Seq(Line)
  /\ Changes \subseteq Seq(Property) /\ \A c \in Changes : Once(c)
  /\ Updates \subseteq Seq({"close", "open", "tag", "untag"} \X Strings)
  /\ News \subseteq [title : Strings, priority : Numbers, tags : Seq(Words),
                     props : Seq(Property), body : Seq(Line)]
  /\ \A n \in News : Once(n.props)

VARIABLES file,  \* the lines of TASK.md, <<>> while there is none
          did    \* the last command: what it was, its arguments, and what it did

vars == <<file, did>>

Init == file = <<>> /\ did = [op |-> "none", args |-> <<>>, wrote |-> FALSE, nth |-> 0]

-----------------------------------------------------------------------------
\* The parser works on a C string: it ends at the first NUL.
Seen(f) == LET n == SelectInSeq(f, LAMBDA l : l.kind = "nul") IN
           IF n = 0 THEN f ELSE SubSeq(f, 1, n - 1)

SkipBlank(f) == LET n == SelectInSeq(f, LAMBDA l : l # Blank) IN
                IF n = 0 THEN <<>> ELSE SubSeq(f, n, Len(f))

\* Properties: a sequence of <<key, words>> without two of the same key.
Get(ps, k) == LET n == SelectInSeq(ps, LAMBDA p : p[1] = k) IN IF n = 0 THEN <<>> ELSE ps[n][2]
Has(ps, k) == \E n \in DOMAIN ps : ps[n][1] = k
Without(ps, k) == RemoveFirstMatch(ps, LAMBDA p : p[1] = k)

Put(ps, p) == Append(Without(ps, p[1]), p)
PutAll(ps, qs) == FoldLeft(Put, ps, qs)

\* The header is the run of property lines after the title.
HeaderLength(f) == LET n == SelectInSeq(f, LAMBDA l : l.kind # "prop") IN
                   IF n = 0 THEN Len(f) ELSE n - 1
Pair(l) == <<l.text, l.words>>
Pairs(ls) == [n \in DOMAIN ls |-> Pair(ls[n])]

\* Slip: blank lines after the header are skipped as well.
Parse_TrimsBody(f) ==
  LET t == SkipBlank(Seen(f)) IN
  IF t = <<>> \/ t[1].kind # "title" THEN [title |-> "INVALID", props |-> <<>>, body |-> <<>>]
  ELSE LET r == SkipBlank(Tail(t)) n == HeaderLength(r) IN
       [title |-> t[1].text, props |-> PutAll(<<>>, Pairs(SubSeq(r, 1, n))),
        body |-> SkipBlank(SubSeq(r, n + 1, Len(r)))]

Parse(f) ==
  LET t == SkipBlank(Seen(f)) IN
  IF t = <<>> \/ t[1].kind # "title" THEN [title |-> "INVALID", props |-> <<>>, body |-> <<>>]
  ELSE LET r == SkipBlank(Tail(t)) n == HeaderLength(r) IN
       [title |-> t[1].text, props |-> PutAll(<<>>, Pairs(SubSeq(r, 1, n))),
        body |-> SubSeq(r, n + 1, Len(r))]

\* What atoi makes of it.
Atoi(w) == IF w # <<>> /\ w[1] \in Numbers THEN w[1] ELSE "0"
IsNumber(w) == Len(w) = 1 /\ w[1] \in Numbers

\* A task: what the commands work on.  Status, priority and tags are read out of the
\* properties, which keep their places.
AsTask(p, status, priority, tags, ps) ==
  [title |-> p.title, status |-> status, priority |-> priority, tags |-> tags,
   props |-> ps, body |-> p.body]

\* Slip: they are added whether or not they are missing.
Default_Always(ps, k) == Put(ps, <<k, <<>>>>)

\* load_tasks adds the canonical properties that are missing.
Default(ps, k) == IF Has(ps, k) THEN ps ELSE Put(ps, <<k, <<>>>>)
Load(f) ==
  LET p == Parse(f) IN
  AsTask(p, IF Has(p.props, "STATUS") THEN Get(p.props, "STATUS") ELSE <<"OPEN">>,
         IF Has(p.props, "PRIORITY") THEN Atoi(Get(p.props, "PRIORITY")) ELSE "999999",
         Get(p.props, "TAGS"), Default(Default(Default(p.props, "STATUS"), "PRIORITY"), "TAGS"))

\* An empty tag is nothing between two commas: nobody finds it there again.
Spelled(tags) == FoldLeft(LAMBDA s, g : IF g = Nothing THEN s ELSE Append(s, g), <<>>, tags)

Rendered(t, p) ==
  Prop(p[1], CASE p[1] = "STATUS" -> t.status
               [] p[1] = "PRIORITY" -> <<t.priority>>
               [] p[1] = "TAGS" -> Spelled(t.tags)
               [] OTHER -> p[2])
Render(t) == <<Title(t.title), Blank>> \o [n \in DOMAIN t.props |-> Rendered(t, t.props[n])] \o t.body

-----------------------------------------------------------------------------
\* scheduler_header and scheduler_strict, but for the form of ids: UTF-8 without NUL, a title,
\* no key twice, no near miss of a scheduling key right after the header, explicit canonical
\* properties, no outcome while open and no prerequisite twice.
HeaderOK(f) ==
  LET t == SkipBlank(f) IN
  /\ \A n \in DOMAIN f : /\ f[n].kind # "nul" /\ f[n].text \notin Garbled
                         /\ ToSet(f[n].words) \cap Garbled = {}
  /\ t # <<>> /\ t[1].kind = "title" /\ t[1].text # Nothing
  /\ LET r == SkipBlank(Tail(t)) n == HeaderLength(r) IN
     /\ \A i, j \in 1 .. n : r[i].text = r[j].text => i = j
     /\ \A i \in 1 .. n + 1 : i <= Len(r) => r[i].text # "near"

Strict(f) ==
  LET ps == Parse(f).props IN
  /\ HeaderOK(f)
  /\ Get(ps, "STATUS") \in {<<"OPEN">>, <<"CLOSED">>} /\ IsNumber(Get(ps, "PRIORITY"))
  /\ Get(ps, "RESOLUTION") \in {<<>>, <<"DONE">>, <<"CANCELLED">>}
  /\ Get(ps, "STATUS") = <<"OPEN">> => Get(ps, "RESOLUTION") = <<>>
  /\ IsInjective(Get(ps, "DEPENDS"))

-----------------------------------------------------------------------------
Did(op, args, wrote) == /\ did.nth < MaxCommands
                        /\ did' = [op |-> op, args |-> args, wrote |-> wrote, nth |-> did.nth + 1]

\* Slip: the body follows the properties without a blank line between.
Payload_Bare(body) == body

Payload(body) == <<Blank>> \o body

\* new: the canonical properties come from options, the others as they are given.
Created(n) ==
  Render([title |-> n.title, status |-> <<"OPEN">>, priority |-> n.priority, tags |-> n.tags,
          props |-> PutAll(<<<<"STATUS", <<>>>>, <<"PRIORITY", <<>>>>, <<"TAGS", <<>>>>>>, n.props),
          body |-> Payload(n.body)])
New == \E n \in News :
         /\ file = <<>>
         /\ \A i \in DOMAIN n.props : n.props[i][1] \notin {"STATUS", "PRIORITY", "TAGS"}
         /\ Strict(Created(n)) /\ file' = Created(n)
         /\ Did("new", << <<"new", n>> >>, TRUE)

\* set STATUS=OPEN takes the outcome back, unless one is given.
Assigned(c) == IF Has(c, "STATUS") /\ Get(c, "STATUS") = <<"OPEN">> /\ Get(c, "RESOLUTION") = <<>>
               THEN Put(c, <<"RESOLUTION", <<>>>>) ELSE c

\* scheduler_parse_record adds nothing; only TAGS may be missing in a strict file.
Changed(f, c) ==
  LET p == Parse(f)
      ps == Default(PutAll(p.props, Assigned(c)), "TAGS") IN
  Render(AsTask(p, Get(ps, "STATUS"), Atoi(Get(ps, "PRIORITY")), Get(ps, "TAGS"), ps))

\* Slip: a property that is not there differs from an empty one, always.
SameProperty_Exact(a, b, k) == Has(a, k) /\ Has(b, k) /\ Get(a, k) = Get(b, k)

\* Slip: prerequisites are compared before they are sorted.
SameProperty_Unsorted(a, b, k) ==
  CASE k = "PRIORITY" -> Atoi(Get(a, k)) = Atoi(Get(b, k))
    [] k \in {"TAGS", "SPEC", "DEPENDS", "RESOLUTION"} -> Get(a, k) = Get(b, k)
    [] OTHER -> Has(a, k) /\ Has(b, k) /\ Get(a, k) = Get(b, k)

\* Has the change of key k an effect?  No matter how TAGS and PRIORITY are written or in what
\* order DEPENDS is, where nothing comes twice; the keys that are known may as well be missing
\* as empty.
SameProperty(a, b, k) ==
  CASE k = "PRIORITY" -> Atoi(Get(a, k)) = Atoi(Get(b, k))
    [] k = "DEPENDS" -> ToSet(Get(a, k)) = ToSet(Get(b, k))
    [] k \in {"TAGS", "SPEC", "RESOLUTION"} -> Get(a, k) = Get(b, k)
    [] OTHER -> Has(a, k) /\ Has(b, k) /\ Get(a, k) = Get(b, k)

\* The outcome set takes back counts as asked for if there was one.
Compared(f, c) == IF Get(Parse(f).props, "RESOLUTION") # <<>> THEN Assigned(c) ELSE c
EffectiveEqual(f, g, c) == \A n \in DOMAIN c : SameProperty(Parse(f).props, Parse(g).props, c[n][1])

Set == \E c \in Changes :
         /\ file # <<>>
         /\ IF ~Strict(file) \/ ~IsNumber(Get(PutAll(Parse(file).props, c), "PRIORITY"))
               \/ ~Strict(Changed(file, c))
            THEN UNCHANGED file /\ Did("refused", c, FALSE)
            ELSE IF EffectiveEqual(file, Changed(file, c), Compared(file, c))
                 THEN UNCHANGED file /\ Did("set", c, FALSE)
                 ELSE file' = Changed(file, c) /\ Did("set", c, TRUE)

-----------------------------------------------------------------------------
\* da_remove_unordered: the last one takes the place.
SwapRemove(s, n) == IF n = Len(s) THEN Front(s) ELSE Front([s EXCEPT ![n] = Last(s)])
Untagged(tags, g) ==
  FoldLeft(LAMBDA s, x : LET n == SelectInSeq(s, LAMBDA y : y = g) IN
                         IF n = 0 THEN s ELSE SwapRemove(s, n), tags, tags)
ClearOutcome(p) == IF p[1] = "RESOLUTION" THEN <<p[1], <<>>>> ELSE p

\* Slip: open leaves the outcome.
UpdateOp_KeepsOutcome(t, op) ==
  CASE op[1] = "close" -> [t EXCEPT !.status = <<"CLOSED">>]
    [] op[1] = "open" -> [t EXCEPT !.status = <<"OPEN">>]
    [] op[1] = "tag" -> IF Contains(t.tags, op[2]) THEN t ELSE [t EXCEPT !.tags = Append(@, op[2])]
    [] op[1] = "untag" -> [t EXCEPT !.tags = Untagged(@, op[2])]

\* One action of update_task.
UpdateOp(t, op) ==
  CASE op[1] = "close" -> [t EXCEPT !.status = <<"CLOSED">>]
    [] op[1] = "open" -> [t EXCEPT !.status = <<"OPEN">>,
                                   !.props = [n \in DOMAIN @ |-> ClearOutcome(@[n])]]
    [] op[1] = "tag" -> IF Contains(t.tags, op[2]) THEN t ELSE [t EXCEPT !.tags = Append(@, op[2])]
    [] op[1] = "untag" -> [t EXCEPT !.tags = Untagged(@, op[2])]

Updated(t, u) == FoldLeft(UpdateOp, t, u)

\* ls -update on a task its query selects.  It loads the file without the strict checks
\* and writes it again if an action changed anything on the way.
Bulk == \E u \in Updates :
          LET t == Load(file)
              n == Len(u)
              touched == \E i \in 1 .. n : Updated(t, SubSeq(u, 1, i - 1)) # Updated(t, SubSeq(u, 1, i)) IN
          /\ file # <<>>
          /\ IF touched THEN file' = Render(Updated(t, u)) ELSE UNCHANGED file
          /\ Did("bulk", u, touched)

\* Somebody writes the file by hand.
Edit == file = <<>> /\ file' \in Files /\ Did("edit", <<>>, TRUE)

Next == New \/ Set \/ Bulk \/ Edit
Spec == Init /\ [][Next]_vars

-----------------------------------------------------------------------------
Canonical == {"STATUS", "PRIORITY", "TAGS"}
KeysOf(ps) == {p[1] : p \in ToSet(ps)}
Before(ps, k, l) == \E i, j \in DOMAIN ps : i < j /\ ps[i][1] = k /\ ps[j][1] = l
\* Properties, in their order, but for what the task itself says of the canonical ones.
Outline(ps) == [n \in DOMAIN ps |-> IF ps[n][1] \in Canonical THEN <<ps[n][1], <<>>>> ELSE ps[n]]
Wrote(op) == did'.op = op /\ did'.wrote

\* What a task means to the commands; an empty outcome or no prerequisite is as good as none.
Meaning(f) == LET ps == Parse(f).props IN
              [status |-> Get(ps, "STATUS"), priority |-> Atoi(Get(ps, "PRIORITY")),
               tags |-> Get(ps, "TAGS"), outcome |-> Get(ps, "RESOLUTION"),
               depends |-> ToSet(Get(ps, "DEPENDS")),
               others |-> {p \in ToSet(ps) : p[1] \notin Canonical \cup {"RESOLUTION", "DEPENDS"}}]

\* What a command writes reads back as what it was asked to write.
\* A bulk update: the task it changed, but for an empty tag, no line of the body becoming a
\* property and no property becoming body, whatever the file looked like.  A new task: its options, with
\* a body that is a body even if it begins like a header.  A set: the properties given,
\* and the file is replaced if and only if this changes what the task means.
BulkReadsBack ==
  Wrote("bulk") => LET was == Updated(Load(file), did'.args) is == Load(file') IN
                   [is EXCEPT !.props = Outline(@)] = [was EXCEPT !.props = Outline(@), !.tags = Spelled(@)]
NewReadsBack ==
  Wrote("new") => LET n == did'.args[1][2] t == Load(file') IN
                  /\ t.title = n.title /\ t.priority = n.priority /\ t.tags = n.tags
                  /\ t.status = <<"OPEN">> 
                  /\ Outline(t.props) = [i \in 1 .. 3 |-> <<<<"STATUS", "PRIORITY", "TAGS">>[i], <<>>>>] \o n.props
                  /\ SkipBlank(t.body) = SkipBlank(n.body)
SetReadsBack ==
  did'.op = "set" /\ did'.nth # did.nth =>
    /\ did'.wrote = (Meaning(file') # Meaning(file))
    /\ \A n \in DOMAIN did'.args :
         LET p == did'.args[n] v == Get(Parse(file').props, p[1]) IN
         CASE p[1] = "PRIORITY" -> Atoi(v) = Atoi(p[2])
           [] p[1] = "DEPENDS" -> ToSet(v) = ToSet(p[2])
           [] OTHER -> v = p[2]
ReadsBack == [][BulkReadsBack /\ NewReadsBack /\ SetReadsBack]_vars

\* On a file that passes the strict checks, set and ls -update leave the title, the body
\* and the properties they were not asked for as they are, and in their order.
UnaskedKept ==
  [][Strict(file) /\ (Wrote("set") \/ Wrote("bulk")) =>
     LET asked == IF did'.op = "set" THEN {did'.args[n][1] : n \in DOMAIN did'.args} \cup {"RESOLUTION"}
                  ELSE {}
         was == Parse(file) is == Parse(file')
         kept == KeysOf(was.props) \ asked IN
     /\ is.title = was.title /\ is.body = was.body
     /\ kept \subseteq KeysOf(is.props)
     /\ \A k, l \in kept : Before(is.props, k, l) <=> Before(was.props, k, l)
     /\ \A k \in kept \ (IF did'.op = "set" THEN {} ELSE Canonical \cup {"RESOLUTION"}) :
          Get(is.props, k) = Get(was.props, k)]_vars

\* A task that passes the strict checks keeps passing them, so that no command makes a
\* task the scheduler refuses to look at, but for ls -update with a tag that is not UTF-8.
StrictStable ==
  [][Strict(file) => \/ Strict(file')
                     \/ Wrote("bulk") /\ \E n \in DOMAIN did'.args :
                          did'.args[n][1] = "tag" /\ did'.args[n][2] \in Garbled]_vars

\* ls -update leaves alone what it is not about, in any file it rewrites.
LegacyKept ==
  [][Wrote("bulk") => /\ \A l \in ToSet(file) : l.kind \in {"title", "text", "nul"} => l \in ToSet(file')
                      /\ \A l \in ToSet(file) : l.kind = "prop" /\ l.text \notin Canonical \cup {"RESOLUTION"}
                                              => l \in ToSet(file')]_vars
=============================================================================
