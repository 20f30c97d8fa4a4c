------------------------------- MODULE Query --------------------------------
(***************************************************************************)
(* The query language of ls (src/src/query.c): a recursive-descent         *)
(* compiler from words to postfix operations, and the stack machine that   *)
(* runs them on a task.  The reference is the grammar and the table of     *)
(* meanings in the README, stated over parse trees.                        *)
(*                                                                         *)
(* A state is the query typed so far; every property is checked on every   *)
(* one of them.                                                            *)
(***************************************************************************)
EXTENDS Integers, Sequences, SequencesExt

CONSTANTS Words,   \* the words queries are made of
          Tag,     \* those that are tags, without the colon
          Number,  \* those that are integer literals
          Huid,    \* those that are task ids
          Value,   \* what each literal denotes
          Tasks,   \* tasks to match: an id, a set of tags and a priority
          MaxLen   \* bound on the words of a query

Comparison == {"lt", "le", "gt", "ge", "eq", "ne"}
Keyword == Comparison \cup {"any", "tagged", "priority", "not", "and", "or", "[", "]"}
Atom == {"any", "tagged", "priority"} \cup Tag \cup Number \cup Huid
End == ""

\* The rules of compile_query_primary exclude one another: a tag has its colon, a literal is
\* digits after a sign, and a task id has a dash among its digits.
QueryAssumption ==
  /\ {Tag, Number, Huid} \subseteq SUBSET (Words \ Keyword) /\ End \notin Words \cup Keyword
  /\ Tag \cap Number = {} /\ Tag \cap Huid = {} /\ Number \cap Huid = {}
  /\ MaxLen \in Nat
  /\ Value \in [Number -> Int]   \* that fits in 32 bits, see the README
  /\ \A t \in Tasks : t.tags \subseteq Tag /\ t.priority \in Int

VARIABLE src
vars == src

Init == src = <<>>

\* A text whose last two words cannot follow one another is checked, but not continued.
Prefix == {"not", "["}
Operator == Comparison \cup {"and", "or"}
Hopeless ==
  Len(src) > 1 /\ LET u == src[Len(src) - 1] w == Last(src) IN
                  \/ u \in Atom \cup {"]"} /\ w \in Atom \cup Prefix
                  \/ u \in Operator \cup Prefix /\ w \in Operator \cup {"]"}

Type(w) == Len(src) < MaxLen /\ ~Hopeless /\ src' = Append(src, w)
Next == \E w \in Words : Type(w)
Spec == Init /\ [][Next]_vars

-----------------------------------------------------------------------------
(* The compiler.  A result is the position after what was compiled, and code. *)

Token(n) == IF n <= Len(src) THEN src[n] ELSE End

Code(at, ops) == [ok |-> TRUE, at |-> at, ops |-> ops]
Failed == [ok |-> FALSE, at |-> 0, ops |-> <<>>]

\* The operators the loops of compile_query_compare, _and and _or accept.
Infix == <<Comparison, {"and"}, {"or"}>>

Emit(e, op) == [e EXCEPT !.ops = Append(@, op)]

\* All of them append to one query.
Joined(a, b) == IF b.ok THEN Code(b.at, a.ops \o b.ops) ELSE Failed

\* What is compiled, from a word on: an expression of a level (primaries, comparisons,
\* conjunctions, disjunctions), or what the loop of a level makes of the rest.
Places == 1 .. Len(src) + 1
Points == ({"whole"} \X (0 .. 3) \X Places) \cup ({"rest"} \X (1 .. 3) \X Places)

\* compile_query_primary.  Compiled is given as f, here and below.
Primary(f, n) ==
  LET tok == Token(n) IN
  CASE tok \in Atom -> Code(n + 1, <<tok>>)
    [] tok = "[" -> LET e == f[<<"whole", 3, n + 1>>] IN
                    IF e.ok /\ Token(e.at) = "]" THEN [e EXCEPT !.at = @ + 1] ELSE Failed
    [] tok = "not" -> LET e == f[<<"whole", 0, n + 1>>] IN IF e.ok THEN Emit(e, "not") ELSE Failed
    [] OTHER -> Failed

Loop(f, level, n) ==
  IF Token(n) \notin Infix[level] THEN Code(n, <<>>)
  ELSE LET right == f[<<"whole", level - 1, n + 1>>] IN
       IF right.ok THEN Joined(Emit(right, Token(n)), f[<<"rest", level, right.at>>]) ELSE Failed

CompiledAt(f, x) ==
  LET level == x[2] n == x[3] left == f[<<"whole", level - 1, n>>] IN
  IF x[1] = "rest" THEN Loop(f, level, n)
  ELSE IF level = 0 THEN Primary(f, n)
  ELSE IF left.ok THEN Joined(left, f[<<"rest", level, left.at>>]) ELSE Failed
Compiled[x \in Points] == CompiledAt(Compiled, x)

\* Slip: what follows the expression is ignored.
Query_Prefix == Compiled[<<"whole", 3, 1>>]

\* compile_query: nothing may follow.
Query == LET e == Compiled[<<"whole", 3, 1>>] IN IF e.ok /\ Token(e.at) # End THEN Failed ELSE e

-----------------------------------------------------------------------------
(* The machine.  A stack item has a type and a value, 0 or 1 for booleans.   *)

Item(type, value) == [type |-> type, value |-> value]
Truth(b) == Item("boolean", IF b THEN 1 ELSE 0)

Related(op, a, b) == CASE op = "lt" -> a < b [] op = "le" -> a <= b
                       [] op = "gt" -> a > b [] op = "ge" -> a >= b
                       [] op = "eq" -> a = b [] op = "ne" -> a # b

Operand(op) == IF op \in Comparison THEN "integer" ELSE "boolean"
Arity(op) == IF op = "not" THEN 1 ELSE IF op \in Atom THEN 0 ELSE 2

Push(task, op) ==
  CASE op \in Tag -> Truth(op \in task.tags)
    [] op \in Huid -> Truth(task.id = op)
    [] op \in Number -> Item("integer", Value[op])
    [] op = "any" -> Truth(TRUE)
    [] op = "tagged" -> Truth(task.tags # {})
    [] op = "priority" -> Item("integer", task.priority)

\* Slips: the operands are taken off in the wrong order; or "and" leaves the type of
\* its second operand alone when the first decides.
Apply_Swapped(op, x) ==
  CASE op = "not" -> Truth(x[1].value = 0)
    [] op = "and" -> Truth(x[1].value = 1 /\ x[2].value = 1)
    [] op = "or" -> Truth(x[1].value = 1 \/ x[2].value = 1)
    [] op \in Comparison -> Truth(Related(op, x[2].value, x[1].value))
WellTyped_Short(op, x) ==
  \/ op = "and" /\ x[2] = Truth(FALSE)
  \/ \A n \in DOMAIN x : x[n].type = Operand(op)

Apply(op, x) ==
  CASE op = "not" -> Truth(x[1].value = 0)
    [] op = "and" -> Truth(x[1].value = 1 /\ x[2].value = 1)
    [] op = "or" -> Truth(x[1].value = 1 \/ x[2].value = 1)
    [] op \in Comparison -> Truth(Related(op, x[1].value, x[2].value))

\* pop_type, for each operand.
WellTyped(op, x) == \A n \in DOMAIN x : x[n].type = Operand(op)

\* One operation on the stack of a machine that has not stopped.
Step(task, m, op) ==
  LET keep == Len(m.stack) - Arity(op) IN
  IF m.stop # "no" THEN m
  ELSE IF keep < 0 THEN [m EXCEPT !.stop = "underflow"]
  ELSE IF Arity(op) = 0 THEN [m EXCEPT !.stack = Append(@, Push(task, op))]
  ELSE LET x == SubSeq(m.stack, keep + 1, Len(m.stack)) IN
       IF WellTyped(op, x)
       THEN [m EXCEPT !.stack = Append(SubSeq(@, 1, keep), Apply(op, x))]
       ELSE [m EXCEPT !.stop = "error"]

\* All operations, from an empty stack on.
Machine(task, ops) ==
  LET after[n \in 0 .. Len(ops)] ==
        IF n = 0 THEN [stack |-> <<>>, stop |-> "no"] ELSE Step(task, after[n - 1], ops[n]) IN
  after[Len(ops)]

\* task_matches_query.
Matches(task, ops) ==
  LET m == Machine(task, ops) IN
  IF m.stop # "no" THEN m.stop
  ELSE IF m.stack = <<>> THEN "underflow"
  ELSE IF Last(m.stack).type # "boolean" THEN "error"
  ELSE IF Last(m.stack).value = 1 THEN "matched" ELSE "mismatched"

-----------------------------------------------------------------------------
(* The language of the README: how the words from i to j may be read, as a   *)
(* tree, and what a tree means for each task.                                *)

GrammarOps == <<{"lt", "le", "gt", "ge", "eq", "ne"}, {"and"}, {"or"}>>

Nonsense == Item("none", 0)
Negated(a) == IF a.type = "boolean" THEN Truth(a.value # 1) ELSE Nonsense
Combined(op, a, b) ==
  LET Both(type) == a.type = type /\ b.type = type IN
  CASE op = "and" /\ Both("boolean") -> Truth({a.value, b.value} = {1})
    [] op = "or" /\ Both("boolean") -> Truth(1 \in {a.value, b.value})
    [] op \in Comparison /\ Both("integer") -> Truth(Related(op, a.value, b.value))
    [] OTHER -> Nonsense

Reading(tree, means) == [tree |-> tree, means |-> means]
Word(w) == Reading(<<w>>, [task \in Tasks |-> Push(task, w)])
Not(r) == Reading(<<"not", r.tree>>, [task \in Tasks |-> Negated(r.means[task])])
Between(op, l, r) == Reading(<<op, l.tree, r.tree>>,
                             [task \in Tasks |-> Combined(op, l.means[task], r.means[task])])

\* The readings of the words from i to j as an expression of a level; f is Readings.
ReadingsAt(f, level, i, j) ==
  IF i > j THEN {}
  ELSE IF level = 0
  THEN (IF i = j /\ src[i] \in Atom THEN {Word(src[i])} ELSE {})
       \cup (IF src[i] = "not" THEN {Not(r) : r \in f[<<0, i + 1, j>>]} ELSE {})
       \cup (IF src[i] = "[" /\ src[j] = "]" THEN f[<<3, i + 1, j - 1>>] ELSE {})
  ELSE f[<<level - 1, i, j>>]
       \cup UNION {{Between(src[k], l, r) : l \in f[<<level, i, k - 1>>], r \in f[<<level - 1, k + 1, j>>]} :
                   k \in {n \in i + 1 .. j - 1 : src[n] \in GrammarOps[level]}}
Spans == (0 .. 3) \X (1 .. Len(src) + 1) \X (0 .. Len(src))
Readings[x \in Spans] == ReadingsAt(Readings, x[1], x[2], x[3])

Parses == Readings[<<3, 1, Len(src)>>]

-----------------------------------------------------------------------------
\* The compiler accepts exactly the queries of the grammar, and the grammar gives
\* each of them one reading.
AcceptsGrammar ==
  LET parses == Parses IN (Query.ok <=> parses # {}) /\ \A r, s \in parses : r = s

\* What the machine answers for a task is what the query means: precedence, operands and
\* their order, a type error just where an operand has the wrong type, and nothing taken from
\* an empty stack, for which task_matches_query does not look.  A type error is a property of
\* the query, not of the task: what the loop over all tasks before the first replacement
\* finds, it finds at the first task, and no task changed since can bring up another.
MachineAgrees ==
  LET q == Query IN
  q.ok =>
    /\ \A r \in Parses, task \in Tasks :
         Matches(task, q.ops) =
           LET m == r.means[task] IN
           IF m.type # "boolean" THEN "error" ELSE IF m.value = 1 THEN "matched" ELSE "mismatched"
    /\ \A s, t \in Tasks : Matches(s, q.ops) = "error" <=> Matches(t, q.ops) = "error"
=============================================================================
