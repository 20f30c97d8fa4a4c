---------------------------- MODULE EntryProofs -----------------------------
(***************************************************************************)
(* Proofs about the way from a command line to an open database.           *)
(*                                                                         *)
(* Dispatch, for any command lines: whatever is typed, what writes holds   *)
(* the exclusive lock, what reads holds one, both work on the database     *)
(* that was named, and a line that asks for help does nothing.  The scan   *)
(* and the flag parser each have their own idea of where a line's options  *)
(* are.  The invariant says how far they agree with each other and with    *)
(* the documentation, Kinds, while the one reads the line and while the    *)
(* other reads what the first has left.                                    *)
(*                                                                         *)
(* Paths, for any trees, working directories and -db: what may be opened   *)
(* is opened, under one identity, and without -db it is the nearest tasks  *)
(* directory.  The invariant says that the walk has come to directories    *)
(* only, each of which can be reached, and holds the last one if it may be *)
(* read, and that the search has passed no tasks directory.                *)
(***************************************************************************)
EXTENDS MCEntry, SequenceTheorems, WellFoundedInduction, TLAPS

\* The spellings both know: -f=WORD is one the scan does not look for, and the parser
\* drops the word of a -/f that the scan takes for the next argument.
Agreed(a) == /\ a.flag \in {"db", "update", "help", "debug"} => a.mark # "="
             /\ a.flag \in Valued \cup {"db"} => a.mark # "/"
SpelledOut == \A l \in Lines : \A n \in DOMAIN l.argv : Agreed(l.argv[n])

\* The arguments in a line, and the two the program puts in itself.
Plain == {a \in Arg \cup {Flag("help"), Word("id")} : Agreed(a)}

\* The next argument is read as a flag, if it looks like one.
Fresh == {"option", "value"}
Options == {"option", "valued"}
AllKinds == Fresh \cup Options \cup {"positional"}
So(s) == Kinds(s)[Len(s)]
Sets(s, n) == Kinds(s)[n] \in Options /\ s[n].mark # "/"
EndIn(s) == \E n \in DOMAIN s : s[n] = End /\ Kinds(s)[n] = "positional"

Types ==
  /\ line \in Lines /\ argv \in Seq(Plain) /\ rest \in Seq(Plain)
  /\ at \in 1 .. Len(argv) + 1
  /\ cmd \in Scheduled \cup Unscheduled \cup {"", "unknown"}
  /\ options \in BOOLEAN /\ code \in BOOLEAN
  /\ pc \in {"main", "scan", "parse", "run"} /\ effect = "none"
  /\ handler \in {"text", "scheduler"} /\ lock \in {"none", "shared", "exclusive"}

\* Nothing is open, and before the scan nothing is known.
Untouched == opened = "none" /\ lock = "none"
Unread == asks = {} /\ options /\ ~code /\ Untouched
Early == /\ pc \in {"main", "scan"} \/ cmd \notin Scheduled => Untouched
         /\ pc = "main" \/ cmd \notin Scheduled => Unread
         /\ pc = "main" => rest = <<>> /\ flags = {} /\ at = 1
         /\ pc = "scan" => cmd \in Scheduled /\ flags = {}
         /\ pc \in {"parse", "run"} => cmd \in Scheduled \cup Unscheduled
         /\ cmd \notin Scheduled => handler = "text"

\* How the scan understands what it leaves: a flag that stands where one may is seen, and
\* the option to stop looking is taken at the first word, but not at "--".
Scanned(s) == /\ TypedIn(s, "update") => "update" \in asks
              /\ TypedIn(s, "help") => "help" \in asks
              /\ "debug" \in asks => cmd = "ls" /\ (TypedIn(s, "debug") \/ EndIn(s))
ScanInv == pc = "scan" =>
  /\ Scanned(rest)
  /\ ~options => So(rest) = "positional"
  /\ options /\ at <= Len(argv) =>
       So(rest) \in Fresh \/ (So(rest) = "positional" /\ EndIn(rest))

\* How it understands the line, until it meets an error.
Aligned == \/ Kinds(argv)[at - 1] = "positional"
           \/ Kinds(argv)[at - 1] \in Fresh /\ So(rest) \in Fresh /\ options
LineInv == pc = "scan" /\ ~code =>
  /\ at <= Len(argv) => Aligned
  /\ \A n \in 1 .. at - 1 : Sets(argv, n) =>
       (IF argv[n].flag = "db" THEN "explicit" \in asks ELSE TypedIn(rest, argv[n].flag))

\* What it found in the line, once the parser reads the rest.
Understands ==
  /\ \A n \in DOMAIN line.argv : Sets(line.argv, n) /\ line.argv[n].flag # "db" =>
       TypedIn(argv, line.argv[n].flag)
  /\ cmd \in Scheduled => /\ Typed("db") => "explicit" \in asks
                          /\ Typed("help") => "help" \in asks

\* The command typed, or the one "tatr help" dispatches to.
Mine == /\ pc \in {"main", "scan"} => argv = line.argv
        /\ LineInv
        /\ pc \in {"parse", "run"} /\ ~code => Understands
Helped == /\ ~Typed("help") /\ Untouched /\ "debug" \notin asks
          /\ pc = "main" => argv = <<Flag("help")>>
          /\ pc = "scan" => /\ argv = <<Flag("help")>>
                            /\ (at = 1 /\ options /\ asks = {}) \/ (at = 2 /\ "help" \in asks)

\* What was opened, and which handlers run without.
DispatchInv == pc \in {"parse", "run"} =>
  /\ opened = "none" => lock = "none"
  /\ opened # "none" =>
       /\ ~code /\ cmd \in Scheduled /\ "help" \notin asks /\ ~Helped
       /\ lock = IF Exclusive THEN "exclusive" ELSE "shared"
       /\ "explicit" \in asks => opened = "given"
       /\ cmd \in {"set", "check", "ready"} => "explicit" \in asks
  /\ opened = "none" /\ handler = "text" =>
       cmd \in Unscheduled \cup {"todo"} \/ (cmd = "ls" /\ "debug" \in asks)
  /\ cmd \in Scheduled => Scanned(argv)

\* The parser has set exactly the flags that stand where they may.
ParseInv == pc = "parse" =>
  /\ Kinds(argv)[at - 1] \in Fresh \/ (Loops /\ Kinds(argv)[at - 1] = "positional")
  /\ \A n \in 1 .. at - 1 : Sets(argv, n) => Has(argv[n].flag)
FlagInv == pc \in {"parse", "run"} => \A x \in flags :
  /\ x[1] \in Bools \cup Words \cup {"HUID"}
  /\ ~Loops => TypedIn(argv, x[1])
RunInv == pc = "run" =>
  /\ \A n \in DOMAIN argv : Sets(argv, n) => Has(argv[n].flag)
  /\ cmd = "ls" /\ EndIn(argv) => \E n \in DOMAIN rest : rest[n].word # "query"

Running == /\ Types /\ Early /\ ScanInv /\ (Mine \/ Helped)
           /\ DispatchInv /\ ParseInv /\ FlagInv /\ RunInv
Ending == pc = "done" /\ WritesLocked /\ OneDatabase
EntryInv == Running \/ Ending

-----------------------------------------------------------------------------
(* Kinds, a recursive function: it has the values its equation says.         *)

\* A set of naturals that is not empty has a least member.
LEMMA LeastOf ==
  ASSUME NEW S \in SUBSET Nat, S # {}
  PROVE  \E x \in S : \A y \in S : x <= y
<1> DEFINE Less == {ss \in Nat \X Nat : ss[1] < ss[2]}
<1>1. IsWellFoundedOn(Less, Nat)
  BY NatLessThanWellFounded DEF OpToRel
<1>2. PICK x \in S : \A y \in S : ~(<<y, x>> \in Less)
  <2> HIDE DEF Less
  <2> QED BY <1>1, WFMin
<1>3. ASSUME NEW y \in S PROVE x <= y
  <2>1. x \in Nat /\ y \in Nat /\ ~(y < x)
    BY <1>2
  <2> QED BY <2>1
<1> QED BY <1>3

\* What one argument is, after the kind of the one before it.
LEMMA Read ==
  ASSUME NEW before, NEW a
  PROVE  /\ Reading(before, a) \in AllKinds
         /\ before = "positional" => Reading(before, a) = "positional"
         /\ before = "valued" => Reading(before, a) = "value"
         /\ before \in Fresh => Reading(before, a) =
              IF ~Dash(a) \/ a = End THEN "positional"
              ELSE IF a.mark = "" /\ a.flag \in Valued \cup {"db"} THEN "valued" ELSE "option"
  BY DEF Reading, AllKinds, Fresh, Options

\* A sequence has kinds up to each of its places, only one for each, and so the kinds that
\* Kinds chooses.
Begins(f, s, n) == f \in [0 .. n -> AllKinds] /\
  \A k \in 0 .. n : f[k] = IF k = 0 THEN "option" ELSE Reading(f[k - 1], s[k])

\* The beginning of any length has them: a first place without would have one before it with.
LEMMA KindsBegin == \A s : \A n \in Nat : \E f : Begins(f, s, n)
<1> SUFFICES ASSUME NEW s, {n \in Nat : ~\E f : Begins(f, s, n)} # {} PROVE FALSE
  OBVIOUS
<1>1. PICK n \in Nat : /\ ~\E f : Begins(f, s, n)
                       /\ \A m \in Nat : (~\E f : Begins(f, s, m)) => n <= m
  BY LeastOf
<1>2. CASE n = 0
  <2>1. Begins([k \in 0 .. 0 |-> "option"], s, 0)
    BY DEF Begins, AllKinds, Options
  <2> QED BY <1>1, <1>2, <2>1
<1>3. CASE n # 0
  <2>1. n - 1 \in Nat /\ ~(n <= n - 1)
    BY <1>3
  <2>2. PICK f : Begins(f, s, n - 1)
    BY <1>1, <2>1
  <2> DEFINE g == [k \in 0 .. n |-> IF k = n THEN Reading(f[n - 1], s[n]) ELSE f[k]]
  <2>3. \A k \in 0 .. n : g[k] \in AllKinds
    <3> SUFFICES ASSUME NEW k \in 0 .. n PROVE g[k] \in AllKinds
      OBVIOUS
    <3>1. CASE k = n
      <4>1. Reading(f[n - 1], s[n]) \in AllKinds
        BY Read
      <4> QED BY <3>1, <4>1
    <3>2. CASE k # n
      <4>1. k \in 0 .. n - 1 /\ g[k] = f[k]
        BY <3>2
      <4> QED BY <4>1, <2>2 DEF Begins
    <3> QED BY <3>1, <3>2
  <2>4. \A k \in 0 .. n : g[k] = IF k = 0 THEN "option" ELSE Reading(g[k - 1], s[k])
    <3> SUFFICES ASSUME NEW k \in 0 .. n PROVE g[k] = IF k = 0 THEN "option" ELSE Reading(g[k - 1], s[k])
      OBVIOUS
    <3>1. CASE k = n
      <4>1. n - 1 \in 0 .. n /\ n - 1 # n /\ g[n - 1] = f[n - 1]
        BY <1>3, <2>1
      <4>2. g[n] = Reading(f[n - 1], s[n])
        OBVIOUS
      <4> HIDE DEF g
      <4> QED BY <3>1, <4>1, <4>2, <1>3
    <3>2. CASE k # n
      <4>1. k \in 0 .. n - 1 /\ g[k] = f[k] /\ (k # 0 => k - 1 \in 0 .. n /\ k - 1 # n /\ g[k - 1] = f[k - 1])
        BY <3>2
      <4> QED BY <4>1, <2>2 DEF Begins
    <3> QED BY <3>1, <3>2
  <2>5. Begins(g, s, n)
    <3> HIDE DEF g
    <3>1. g \in [0 .. n -> AllKinds]
      BY <2>3 DEF g
    <3> QED BY <3>1, <2>4 DEF Begins
  <2> QED BY <2>5, <1>1
<1> QED BY <1>2, <1>3

\* Two beginnings agree where both have places.
LEMMA KindsOne ==
  ASSUME NEW s, NEW n \in Nat, NEW m \in Nat, NEW f, NEW g, Begins(f, s, n), Begins(g, s, m)
  PROVE  \A k \in 0 .. n : k <= m => f[k] = g[k]
<1> DEFINE Differ == {k \in 0 .. n : k <= m /\ f[k] # g[k]}
<1> SUFFICES ASSUME Differ # {} PROVE FALSE
  OBVIOUS
<1>1. PICK k \in 0 .. n : /\ k <= m /\ f[k] # g[k]
                          /\ \A j \in 0 .. n : j <= m /\ f[j] # g[j] => k <= j
  <2>1. Differ \in SUBSET Nat
    OBVIOUS
  <2> HIDE DEF Differ
  <2>2. \E k \in Differ : \A j \in Differ : k <= j
    BY <2>1, LeastOf
  <2> QED BY <2>2 DEF Differ
<1>2. k # 0
  BY <1>1 DEF Begins
<1>3. k - 1 \in 0 .. n /\ k - 1 <= m /\ ~(k <= k - 1)
  BY <1>1, <1>2
<1>4. f[k - 1] = g[k - 1]
  BY <1>1, <1>3
<1>5. k \in 0 .. m
  BY <1>1
<1> QED BY <1>1, <1>2, <1>4, <1>5 DEF Begins

\* Kinds satisfies its own recursive definition.
LEMMA KindsAre ==
  ASSUME NEW s
  PROVE  /\ Kinds(s)[0] = "option"
         /\ \A n \in Nat : Kinds(s)[n] \in AllKinds
         /\ \A n \in Nat \ {0} : Kinds(s)[n] = Reading(Kinds(s)[n - 1], s[n])
<1> DEFINE Some(n) == CHOOSE f : Begins(f, s, n)
           all == [n \in Nat |-> Some(n)[n]]
<1>1. \A n \in Nat : Begins(Some(n), s, n)
  BY KindsBegin
<1> HIDE DEF Some
<1>2. \A n \in Nat : all[n] \in AllKinds
  BY <1>1 DEF Begins
<1>3. \A n \in Nat : all[n] = IF n = 0 THEN "option" ELSE Reading(all[n - 1], s[n])
  <2> SUFFICES ASSUME NEW n \in Nat PROVE all[n] = IF n = 0 THEN "option" ELSE Reading(all[n - 1], s[n])
    OBVIOUS
  <2>1. Begins(Some(n), s, n)
    BY <1>1
  <2>2. CASE n = 0
    BY <2>1, <2>2 DEF Begins
  <2>3. CASE n # 0
    <3>1. n - 1 \in Nat /\ n - 1 \in 0 .. n - 1 /\ n - 1 <= n /\ n \in 0 .. n
      BY <2>3
    <3>2. Begins(Some(n - 1), s, n - 1)
      BY <1>1, <3>1
    <3>3. Some(n - 1)[n - 1] = Some(n)[n - 1]
      BY <2>1, <3>1, <3>2, KindsOne
    <3>4. Some(n)[n] = Reading(Some(n)[n - 1], s[n])
      BY <2>1, <2>3, <3>1 DEF Begins
    <3> QED BY <2>3, <3>1, <3>3, <3>4
  <2> QED BY <2>2, <2>3
<1>4. all = [n \in Nat |-> IF n = 0 THEN "option" ELSE Reading(all[n - 1], s[n])]
  <2> DEFINE again == [n \in Nat |-> IF n = 0 THEN "option" ELSE Reading(all[n - 1], s[n])]
  <2>1. \A n \in Nat : all[n] = again[n]
    <3> HIDE DEF all
    <3> QED BY <1>3
  <2>2. all = [n \in Nat |-> all[n]]
    OBVIOUS
  <2> QED BY <1>3, <2>2
<1>5. Kinds(s) = [n \in Nat |-> IF n = 0 THEN "option" ELSE Reading(Kinds(s)[n - 1], s[n])]
  <2> HIDE DEF all
  <2> QED BY <1>4, Zenon DEF Kinds
<1> HIDE DEF all
<1>6. \A n \in Nat : Kinds(s)[n] = IF n = 0 THEN "option" ELSE Reading(Kinds(s)[n - 1], s[n])
  BY <1>5, Zenon
<1>7. \A n \in Nat : Kinds(s)[n] \in AllKinds
  <2>1. "option" \in AllKinds
    BY DEF AllKinds, Options
  <2> SUFFICES ASSUME NEW n \in Nat PROVE Kinds(s)[n] \in AllKinds
    OBVIOUS
  <2>2. Reading(Kinds(s)[n - 1], s[n]) \in AllKinds
    BY Read
  <2> QED BY <1>6, <2>1, <2>2
<1> QED BY <1>6, <1>7

\* What two sequences share they read alike.
LEMMA Same ==
  ASSUME NEW s, NEW t, NEW k \in Nat, \A n \in 1 .. k : s[n] = t[n]
  PROVE  \A n \in 0 .. k : Kinds(s)[n] = Kinds(t)[n]
<1> DEFINE Differ == {n \in 0 .. k : Kinds(s)[n] # Kinds(t)[n]}
<1> SUFFICES ASSUME Differ # {} PROVE FALSE
  OBVIOUS
<1>1. PICK n \in 0 .. k : /\ Kinds(s)[n] # Kinds(t)[n]
                          /\ \A m \in 0 .. k : Kinds(s)[m] # Kinds(t)[m] => n <= m
  <2>1. Differ \in SUBSET Nat
    OBVIOUS
  <2> HIDE DEF Differ
  <2>2. \E n \in Differ : \A m \in Differ : n <= m
    BY <2>1, LeastOf
  <2> QED BY <2>2 DEF Differ
<1>2. n # 0
  BY <1>1, KindsAre
<1>3. n \in Nat \ {0} /\ n \in 1 .. k /\ n - 1 \in 0 .. k /\ ~(n <= n - 1)
  BY <1>2
<1>4. Kinds(s)[n - 1] = Kinds(t)[n - 1]
  BY <1>1, <1>3
<1>5. Kinds(s)[n] = Reading(Kinds(s)[n - 1], s[n]) /\ Kinds(t)[n] = Reading(Kinds(t)[n - 1], t[n])
  BY <1>3, KindsAre
<1> QED BY <1>1, <1>3, <1>4, <1>5

\* After a positional there are only positionals.
LEMMA Later ==
  ASSUME NEW s, NEW n \in Nat, NEW m \in Nat, n <= m, Kinds(s)[n] = "positional"
  PROVE  Kinds(s)[m] = "positional"
<1> DEFINE Odd == {k \in Nat : n <= k /\ Kinds(s)[k] # "positional"}
<1> SUFFICES ASSUME Odd # {} PROVE FALSE
  OBVIOUS
<1>1. PICK k \in Nat : /\ n <= k /\ Kinds(s)[k] # "positional"
                       /\ \A j \in Nat : n <= j /\ Kinds(s)[j] # "positional" => k <= j
  <2>1. Odd \in SUBSET Nat
    OBVIOUS
  <2> HIDE DEF Odd
  <2>2. \E k \in Odd : \A j \in Odd : k <= j
    BY <2>1, LeastOf
  <2> QED BY <2>2 DEF Odd
<1>2. k \in Nat \ {0} /\ k - 1 \in Nat /\ n <= k - 1 /\ ~(k <= k - 1)
  BY <1>1
<1>3. Kinds(s)[k - 1] = "positional"
  BY <1>1, <1>2
<1>4. Kinds(s)[k] = Reading(Kinds(s)[k - 1], s[k])
  BY <1>2, KindsAre
<1> QED BY <1>1, <1>3, <1>4, Read

\* An argument sets the flag f, or is a "--" that is taken for a word.
Stands(before, a, f) == a.flag = f /\ a.mark # "/" /\ Reading(before, a) \in Options
Stays(before, a) == a = End /\ Reading(before, a) = "positional"

\* Nothing is typed in an empty line.
LEMMA Empty == So(<<>>) = "option" /\ (\A f : ~TypedIn(<<>>, f)) /\ ~EndIn(<<>>)
  BY KindsAre DEF So, TypedIn, EndIn

\* What one more argument adds to a line: the kind it is read as, and at most one flag.
LEMMA Appended ==
  ASSUME NEW S, NEW s \in Seq(S), NEW a \in S
  PROVE  /\ So(Append(s, a)) = Reading(So(s), a)
         /\ \A f : TypedIn(Append(s, a), f) <=> TypedIn(s, f) \/ Stands(So(s), a, f)
         /\ EndIn(Append(s, a)) <=> EndIn(s) \/ Stays(So(s), a)
<1> DEFINE t == Append(s, a)
           l == Len(s)
<1>1. /\ l \in Nat /\ t \in Seq(S) /\ Len(t) = l + 1 /\ t[l + 1] = a
      /\ \A n \in 1 .. l : t[n] = s[n]
      /\ DOMAIN t = 1 .. l + 1 /\ DOMAIN s = 1 .. l
  OBVIOUS
<1> HIDE DEF t, l
<1>2. \A n \in 0 .. l : Kinds(t)[n] = Kinds(s)[n]
  BY <1>1, Same
<1>3. Kinds(t)[l + 1] = Reading(Kinds(s)[l], a)
  <2>1. Kinds(t)[l + 1] = Reading(Kinds(t)[(l + 1) - 1], t[l + 1])
    BY <1>1, KindsAre
  <2>2. (l + 1) - 1 = l /\ l \in 0 .. l
    BY <1>1
  <2> QED BY <1>1, <1>2, <2>1, <2>2
<1>4. So(s) = Kinds(s)[l] /\ So(t) = Kinds(t)[l + 1]
  BY <1>1 DEF So, l
<1>5. ASSUME NEW f PROVE TypedIn(t, f) <=> TypedIn(s, f) \/ Stands(So(s), a, f)
  <2>1. \A n \in 1 .. l + 1 : n \in 1 .. l \/ n = l + 1
    BY <1>1
  <2>2. \A n \in 1 .. l : n \in 1 .. l + 1 /\ n \in 0 .. l
    BY <1>1
  <2>3. l + 1 \in 1 .. l + 1
    BY <1>1
  <2> QED BY <1>1, <1>2, <1>3, <1>4, <2>1, <2>2, <2>3 DEF TypedIn, Stands, Options
<1>6. EndIn(t) <=> EndIn(s) \/ Stays(So(s), a)
  <2>1. \A n \in 1 .. l + 1 : n \in 1 .. l \/ n = l + 1
    BY <1>1
  <2>2. \A n \in 1 .. l : n \in 1 .. l + 1 /\ n \in 0 .. l
    BY <1>1
  <2>3. l + 1 \in 1 .. l + 1
    BY <1>1
  <2> QED BY <1>1, <1>2, <1>3, <1>4, <2>1, <2>2, <2>3 DEF EndIn, Stays
<1> QED BY <1>3, <1>4, <1>5, <1>6 DEF t

\* TypedIn, in terms of the places that set a flag.
LEMMA TypedSets == \A s, f : TypedIn(s, f) <=> \E n \in DOMAIN s : Sets(s, n) /\ s[n].flag = f
  BY DEF TypedIn, Sets, Options

-----------------------------------------------------------------------------
(* The command line, from main to the handler.                               *)

\* What the flag f stands for, and what is an option or takes a word.
LEMMA PlainFacts ==
  ASSUME NEW a \in Plain
  PROVE  /\ a.flag \in {"db", "update", "help", "debug"} => a.mark # "="
         /\ a.flag \in Valued \cup {"db"} => a.mark # "/"
         /\ a.mark \in {"", "=", "/"}
         /\ a = End => a.flag = "-" /\ a.mark = "" /\ Dash(a)
<1>1. End.flag = "-" /\ End.mark = "" /\ Dash(End)
  BY DEF End, Flag, Dash
<1>2. a.mark \in {"", "=", "/"}
  <2>1. a \in Arg => a.mark \in {"", "=", "/"}
    BY DEF Arg
  <2>2. Flag("help").mark = "" /\ Word("id").mark = ""
    BY DEF Flag, Word
  <2> QED BY <2>1, <2>2 DEF Plain
<1> QED BY <1>1, <1>2 DEF Plain, Agreed

\* The two arguments the program puts in itself are spelled as both readers expect.
LEMMA WordsArePlain == Flag("help") \in Plain /\ Word("id") \in Plain
<1>1. Flag("help").flag = "help" /\ Flag("help").mark = ""
  BY DEF Flag
<1>2. Word("id").flag = "" /\ Word("id").mark = "" /\ "" \notin Valued \cup {"db"}
  BY DEF Word, Valued
<1> QED BY <1>1, <1>2 DEF Plain, Agreed

\* Main: a line that is scanned, parsed or refused.
LEMMA MainKeeps ==
  ASSUME Running, Main
  PROVE  EntryInv'
<1>1. /\ pc = "main" /\ rest = <<>> /\ flags = {} /\ at = 1 /\ asks = {} /\ options /\ ~code
      /\ opened = "none" /\ lock = "none" /\ handler \in {"text", "scheduler"}
      /\ cmd \notin Scheduled => handler = "text"
  BY DEF Running, Main, Early, Unread, Untouched, Types
<1>2. /\ UNCHANGED <<line, found, at, cmd, argv, options, asks, db, code>>
      /\ opened' = opened /\ lock' = lock /\ handler' = handler /\ flags' = flags
  BY DEF Main, store, parsed
<1>0. Types /\ (Mine \/ Helped) /\ cmd \in Scheduled \cup Unscheduled \cup {"", "unknown"}
  BY DEF Running, Types
<1>3. CASE pc' = "done"
  <2>1. effect' = "refused"
    BY <1>3, <1>1 DEF Main, Goto, Ended, Scheduled, Unscheduled
  <2> QED BY <1>3, <2>1, <1>1, <1>2 DEF EntryInv, Ending, WritesLocked, OneDatabase, Works
<1>4. CASE cmd \in Unscheduled /\ pc' = "parse" /\ rest' = argv /\ effect' = effect
  <2>1. cmd \notin Scheduled
    BY <1>4 DEF Scheduled, Unscheduled
  <2>2. Types'
    BY <1>0, <1>1, <1>2, <1>4 DEF Types
  <2>3. Early'
    BY <1>1, <1>2, <1>4, <2>1 DEF Early, Unread, Untouched
  <2>4. ScanInv' /\ RunInv'
    BY <1>4 DEF ScanInv, RunInv
  <2>5. (Mine \/ Helped)'
    <3>1. CASE Mine
      <4>1. argv' = line'.argv /\ LineInv'
        BY <3>1, <1>1, <1>2, <1>4 DEF Mine, LineInv
      <4>2. \A n \in DOMAIN argv : Sets(argv, n) => TypedIn(argv, argv[n].flag)
        BY TypedSets
      <4>3. argv = line.argv
        BY <3>1, <1>1 DEF Mine
      <4> QED BY <4>1, <4>2, <4>3, <2>1, <1>2, <1>4 DEF Mine, Understands
    <3>2. CASE Helped
      BY <3>2, <1>1, <1>2, <1>4 DEF Helped, Typed, Untouched
    <3> QED BY <3>1, <3>2, <1>0
  <2>6. DispatchInv'
    BY <1>1, <1>2, <1>4, <2>1 DEF DispatchInv
  <2>7. ParseInv' /\ FlagInv'
    <3>1. Kinds(argv)[0] = "option"
      BY KindsAre
    <3> QED BY <3>1, <1>1, <1>2, <1>4 DEF ParseInv, FlagInv, Fresh
  <2> QED BY <2>2, <2>3, <2>4, <2>5, <2>6, <2>7 DEF EntryInv, Running
<1>5. CASE cmd \in Scheduled /\ pc' = "scan" /\ rest' = rest /\ effect' = effect
  <2>1. Types'
    BY <1>0, <1>1, <1>2, <1>5 DEF Types
  <2>2. Early'
    BY <1>1, <1>2, <1>5 DEF Early, Unread, Untouched
  <2>3. So(<<>>) = "option" /\ (\A f : ~TypedIn(<<>>, f))
    BY Empty
  <2>4. ScanInv'
    BY <2>3, <1>1, <1>2, <1>5 DEF ScanInv, Scanned, Fresh
  <2>5. (Mine \/ Helped)'
    <3>1. CASE Mine
      <4>1. Kinds(argv)[0] = "option"
        BY KindsAre
      <4>2. argv = line.argv
        BY <3>1, <1>1 DEF Mine
      <4> QED BY <4>1, <4>2, <2>3, <1>1, <1>2, <1>5 DEF Mine, LineInv, Aligned, Fresh
    <3>2. CASE Helped
      BY <3>2, <1>1, <1>2, <1>5 DEF Helped, Typed, Untouched
    <3> QED BY <3>1, <3>2, <1>0
  <2>6. DispatchInv' /\ ParseInv' /\ FlagInv' /\ RunInv'
    BY <1>5 DEF DispatchInv, ParseInv, FlagInv, RunInv
  <2> QED BY <2>1, <2>2, <2>4, <2>5, <2>6 DEF EntryInv, Running
<1> QED BY <1>3, <1>4, <1>5 DEF Main, Goto, Ended

\* -db: the line's next place is after the directory.
LEMMA ScanDbKeeps ==
  ASSUME Running, ScanDb
  PROVE  EntryInv'
<1>1. /\ pc = "scan" /\ at <= Len(argv) /\ options /\ Exact(argv[at], "db") /\ cmd \in Scheduled
      /\ opened = "none" /\ lock = "none" /\ flags = {} /\ argv \in Seq(Plain) /\ at \in Nat \ {0}
  <2>1. Len(argv) \in Nat /\ argv \in Seq(Plain) /\ at \in 1 .. Len(argv) + 1
    <3>1. argv \in Seq(Plain) /\ at \in 1 .. Len(argv) + 1
      BY DEF Running, Types
    <3> QED BY <3>1
  <2> QED BY <2>1 DEF Running, ScanDb, Early, Untouched
<1>2. /\ UNCHANGED <<line, found, pc, cmd, argv, options, rest, handler, flags, json, effect>>
      /\ opened' = opened /\ lock' = lock /\ asks' = asks \cup {"explicit"}
  BY DEF ScanDb, store, parsed
<1>3. \/ code' = TRUE /\ at' = at + 1
      \/ code' = code /\ at' = at + 2 /\ at # Len(argv)
  BY DEF ScanDb
<1>4. Len(argv) \in Nat /\ at' \in 1 .. Len(argv) + 1 /\ (at' <= Len(argv) => at <= Len(argv))
  BY <1>1, <1>3
<1>0. Types /\ Early /\ ScanInv /\ (Mine \/ Helped) /\ DispatchInv
  BY DEF Running
<1>5. Types'
  BY <1>0, <1>1, <1>2, <1>3, <1>4 DEF Types
<1>6. Early'
  BY <1>1, <1>2 DEF Early, Untouched
<1>7. ScanInv'
  <2>1. /\ Scanned(rest) /\ (options /\ at <= Len(argv) =>
             So(rest) \in Fresh \/ (So(rest) = "positional" /\ EndIn(rest)))
    BY <1>0, <1>1 DEF ScanInv
  <2>2. Scanned(rest)'
    BY <2>1, <1>2 DEF Scanned
  <2> QED BY <2>1, <2>2, <1>1, <1>2, <1>4 DEF ScanInv
<1>8. Mine'
  <2>1. ~Helped
    <3>1. Len(<<Flag("help")>>) = 1 /\ <<Flag("help")>>[1] = Flag("help") /\ Flag("help").flag = "help"
      BY DEF Flag
    <3>2. Flag("help").flag # "db"
      BY <3>1
    <3>3. at = 1 => ~Exact(<<Flag("help")>>[at], "db")
      BY <3>1, <3>2 DEF Exact
    <3> QED BY <3>1, <3>3, <1>1 DEF Helped
  <2>2. Mine
    BY <1>0, <2>1
  <2>3. argv' = line'.argv
    BY <2>2, <1>1, <1>2 DEF Mine
  <2>4. LineInv'
    <3> SUFFICES ASSUME ~code' PROVE LineInv'
      BY DEF LineInv
    <3>1. ~code /\ at' = at + 2 /\ at + 1 <= Len(argv)
      BY <1>1, <1>3, <1>4
    <3>2. /\ Aligned
          /\ \A n \in 1 .. at - 1 : Sets(argv, n) =>
               (IF argv[n].flag = "db" THEN "explicit" \in asks ELSE TypedIn(rest, argv[n].flag))
      BY <2>2, <3>1, <1>1 DEF Mine, LineInv
    <3>3. /\ Kinds(argv)[at] = Reading(Kinds(argv)[at - 1], argv[at])
          /\ Kinds(argv)[at + 1] = Reading(Kinds(argv)[at], argv[at + 1])
      <4>1. at + 1 \in Nat \ {0} /\ (at + 1) - 1 = at
        BY <1>1
      <4> QED BY <4>1, <1>1, KindsAre
    <3>4. \/ Kinds(argv)[at - 1] = "positional" /\ Kinds(argv)[at + 1] = "positional"
          \/ Kinds(argv)[at + 1] = "value" /\ So(rest) \in Fresh
      <4>1. Dash(argv[at]) /\ argv[at] # End /\ argv[at].mark = "" /\ argv[at].flag \in Valued \cup {"db"}
        <5>1. End.flag = "-" /\ argv[at].flag = "db" /\ argv[at].mark = ""
          BY <1>1 DEF Exact, End, Flag
        <5> QED BY <5>1 DEF Dash
      <4>2. Kinds(argv)[at - 1] \in Fresh => Kinds(argv)[at] = "valued"
        BY <4>1, <3>3, Read
      <4>3. Kinds(argv)[at] = "valued" => Kinds(argv)[at + 1] = "value"
        BY <3>3, Read
      <4>4. Kinds(argv)[at - 1] = "positional" => Kinds(argv)[at + 1] = "positional"
        BY <3>3, Read
      <4> QED BY <3>2, <4>2, <4>3, <4>4 DEF Aligned
    <3>5. Aligned'
      <4>1. at' - 1 = at + 1
        BY <3>1, <1>1
      <4> QED BY <4>1, <3>4, <1>1, <1>2 DEF Aligned, Fresh
    <3>6. \A n \in 1 .. at' - 1 : n \in 1 .. at - 1 \/ n = at \/ n = at + 1
      BY <3>1, <1>1
    <3>7. Kinds(argv)[at + 1] \notin Options
      BY <3>4 DEF Options
    <3> QED BY <3>2, <3>5, <3>6, <3>7, <1>1, <1>2 DEF LineInv, Exact, Sets
  <2> QED BY <2>3, <2>4, <1>1, <1>2 DEF Mine
<1>9. DispatchInv' /\ ParseInv' /\ FlagInv' /\ RunInv'
  BY <1>1, <1>2 DEF DispatchInv, ParseInv, FlagInv, RunInv
<1> QED BY <1>5, <1>6, <1>7, <1>8, <1>9 DEF EntryInv, Running

\* What the scan leaves to the parser, one argument or two.
LEMMA ScanLeaves ==
  ASSUME Types, at <= Len(argv)
  PROVE  /\ argv[at] \in Plain
         /\ rest \o SubSeq(argv, at, at) = Append(rest, argv[at])
         /\ at < Len(argv) => /\ argv[at + 1] \in Plain
                              /\ rest \o SubSeq(argv, at, at + 1) = Append(Append(rest, argv[at]), argv[at + 1])
<1>1. argv \in Seq(Plain) /\ rest \in Seq(Plain) /\ at \in 1 .. Len(argv) + 1
  BY DEF Types
<1>2. Len(argv) \in Nat /\ at \in Nat /\ 1 <= at
  BY <1>1
<1>3. SubSeq(argv, at, at) = <<argv[at]>> /\ argv[at] \in Plain
  <2>1. argv[at] \in Plain /\ at \in Int /\ \A i \in at .. at : argv[i] \in Plain
    BY <1>1, <1>2
  <2> DEFINE t == SubSeq(argv, at, at)
  <2>2. t \in Seq(Plain) /\ Len(t) = 1 /\ t[1] = argv[at]
    <3>1. ASSUME NEW n \in Int, n = at
          PROVE  /\ SubSeq(argv, at, n) \in Seq(Plain)
                 /\ Len(SubSeq(argv, at, n)) = IF at <= n THEN n - at + 1 ELSE 0
                 /\ \A i \in 1 .. n - at + 1 : SubSeq(argv, at, n)[i] = argv[at + i - 1]
      <4>1. at \in Int /\ \A i \in at .. n : argv[i] \in Plain
        BY <2>1, <3>1
      <4> HIDE DEF t
      <4> QED BY <4>1, SubSeqProperties
    <3>2. PICK n \in Int : n = at
      BY <2>1
    <3>3. n - at + 1 = 1 /\ at + 1 - 1 = at /\ 1 \in 1 .. 1 /\ at <= n
      BY <3>2, <1>2
    <3> QED BY <3>1, <3>2, <3>3
  <2> HIDE DEF t
  <2>3. t = <<argv[at]>>
    BY <2>1, <2>2
  <2> QED BY <2>1, <2>3 DEF t
<1>4. ASSUME at < Len(argv)
      PROVE  SubSeq(argv, at, at + 1) = <<argv[at], argv[at + 1]>> /\ argv[at + 1] \in Plain
  <2>1. /\ argv[at + 1] \in Plain /\ at \in Int /\ at + 1 \in Int
        /\ \A i \in at .. at + 1 : argv[i] \in Plain
    BY <1>1, <1>2, <1>4
  <2> DEFINE t == SubSeq(argv, at, at + 1)
  <2>2. t \in Seq(Plain) /\ Len(t) = 2 /\ t[1] = argv[at] /\ t[2] = argv[at + 1]
    <3>1. /\ t \in Seq(Plain) /\ Len(t) = IF at <= at + 1 THEN at + 1 - at + 1 ELSE 0
          /\ \A i \in 1 .. at + 1 - at + 1 : t[i] = argv[at + i - 1]
      BY <2>1, SubSeqProperties
    <3> HIDE DEF t
    <3>2. /\ 1 \in 1 .. at + 1 - at + 1 /\ at + 1 - 1 = at /\ at <= at + 1 /\ at + 1 - at + 1 = 2
          /\ 2 \in 1 .. at + 1 - at + 1 /\ at + 2 - 1 = at + 1
      BY <1>2
    <3>3. t[1] = argv[at + 1 - 1] /\ t[2] = argv[at + 2 - 1]
      BY <3>1, <3>2
    <3> QED BY <3>1, <3>2, <3>3
  <2> HIDE DEF t
  <2>3. t = <<argv[at], argv[at + 1]>>
    BY <2>1, <2>2, <1>3
  <2> QED BY <2>1, <2>3 DEF t
<1>5. rest \o <<argv[at]>> = Append(rest, argv[at])
  BY <1>1, <1>3
<1>6. ASSUME at < Len(argv)
      PROVE  rest \o <<argv[at], argv[at + 1]>> = Append(Append(rest, argv[at]), argv[at + 1])
  BY <1>1, <1>3, <1>4, <1>6
<1> QED BY <1>3, <1>4, <1>5, <1>6

\* How an argument is scanned while options go on.
LEMMA ScanReads ==
  ASSUME Types, options, at <= Len(argv), ~Exact(argv[at], "db"), NEW before \in Fresh
  PROVE  LET a == argv[at]  kind == Reading(before, a) IN
         /\ kind = "positional" => Skipped(a) = 1 /\ (StillOptions(a) => a = End)
         /\ kind = "option" => Skipped(a) = 1 /\ StillOptions(a)
         /\ kind = "valued" => StillOptions(a) /\ Skipped(a) = IF at < Len(argv) THEN 2 ELSE 1
         /\ kind \in {"positional", "option", "valued"}
         /\ kind \in Options /\ a.mark # "/" =>
              /\ a.flag # "db"
              /\ a.flag \in {"help", "update"} => a.flag \in Understood(a)
         /\ "debug" \in Understood(a) =>
              cmd = "ls" /\ a.flag = "debug" /\ a.mark # "/" /\ kind = "option"
         /\ Understood(a) \subseteq {"help", "debug", "update", "json"}
<1> DEFINE a == argv[at]
<1>1. a \in Plain
  BY ScanLeaves
<1>2. Reading(before, a) = IF ~Dash(a) \/ a = End THEN "positional"
                           ELSE IF a.mark = "" /\ a.flag \in Valued \cup {"db"} THEN "valued" ELSE "option"
  BY Read
<1>3. /\ a.flag \in {"db", "update", "help", "debug"} => a.mark # "="
      /\ a.flag \in Valued \cup {"db"} => a.mark # "/"
      /\ a.mark \in {"", "=", "/"}
      /\ a = End => a.flag = "-" /\ a.mark = "" /\ Dash(a)
  BY <1>1, PlainFacts
<1>4. ~(a.flag = "db" /\ a.mark = "")
  BY DEF Exact
<1> HIDE DEF a
<1>5. /\ Skipped(a) = (IF a.mark = "" /\ a.flag \in Valued /\ at < Len(argv) THEN 2 ELSE 1)
      /\ StillOptions(a) <=> Dash(a)
      /\ Understood(a) = (IF a.mark = "" /\ (a.flag # "debug" \/ cmd = "ls")
                          THEN {a.flag} \cap {"json", "help", "debug", "update"} ELSE {})
  BY DEF Skipped, StillOptions, Understood
<1>6. "" \notin Valued /\ "-" \notin Valued /\ "debug" \notin Valued
  BY DEF Valued
<1>7. CASE ~Dash(a) \/ a = End
  <2>1. Reading(before, a) = "positional" /\ a.flag \notin Valued /\ a.flag # "debug"
    BY <1>2, <1>3, <1>6, <1>7 DEF Dash
  <2> QED BY <2>1, <1>3, <1>5, <1>7 DEF Options, a
<1>8. CASE Dash(a) /\ a # End /\ a.mark = "" /\ a.flag \in Valued \cup {"db"}
  <2>1. Reading(before, a) = "valued" /\ a.flag \in Valued
    BY <1>2, <1>4, <1>8
  <2> QED BY <2>1, <1>4, <1>5, <1>6, <1>8 DEF Options, a
<1>9. CASE Dash(a) /\ a # End /\ ~(a.mark = "" /\ a.flag \in Valued \cup {"db"})
  <2>1. Reading(before, a) = "option"
    BY <1>2, <1>9
  <2>2. a.mark # "/" => a.flag # "db" /\ (a.flag \in {"help", "update"} => a.mark = "")
    BY <1>3, <1>4
  <2> QED BY <2>1, <2>2, <1>5, <1>9 DEF Options, a
<1> QED BY <1>7, <1>8, <1>9

\* Scan: what is left grows by one argument, or by a flag and its word.
LEMMA ScanKeeps ==
  ASSUME Running, Scan
  PROVE  EntryInv'
<1> DEFINE a == argv[at]
           b == argv[at + 1]
           one == Append(rest, a)
           two == Append(one, b)
<1>0. Types /\ Early /\ ScanInv /\ (Mine \/ Helped)
  BY DEF Running
<1>1. /\ pc = "scan" /\ at <= Len(argv) /\ cmd \in Scheduled
      /\ opened = "none" /\ lock = "none" /\ flags = {}
      /\ argv \in Seq(Plain) /\ rest \in Seq(Plain) /\ at \in Nat \ {0} /\ Len(argv) \in Nat
  <2>1. argv \in Seq(Plain) /\ rest \in Seq(Plain) /\ at \in 1 .. Len(argv) + 1
    BY <1>0 DEF Types
  <2>2. Len(argv) \in Nat
    BY <2>1
  <2> QED BY <1>0, <2>1, <2>2 DEF Scan, Early, Untouched
<1>2. /\ UNCHANGED <<line, found, pc, cmd, argv, code, handler, flags, effect>>
      /\ opened' = opened /\ lock' = lock /\ asks' = asks \cup Understood(a)
      /\ ~(options /\ Exact(a, "db")) /\ options' = StillOptions(a) /\ at' = at + Skipped(a)
      /\ rest' = rest \o SubSeq(argv, at, at + Skipped(a) - 1)
  BY DEF Scan, store, parsed
<1>3. a \in Plain /\ (at < Len(argv) => b \in Plain)
  BY <1>0, <1>1, ScanLeaves
<1>4. \/ Skipped(a) = 1 /\ at' = at + 1 /\ rest' = one
      \/ Skipped(a) = 2 /\ at' = at + 2 /\ rest' = two /\ at < Len(argv) /\ options
  <2>1. Skipped(a) = 1 \/ (Skipped(a) = 2 /\ at < Len(argv) /\ options)
    BY DEF Skipped
  <2>2. at + 1 - 1 = at /\ at + 2 - 1 = at + 1
    BY <1>1
  <2> QED BY <2>1, <2>2, <1>0, <1>1, <1>2, ScanLeaves
<1> HIDE DEF a, b
<1>5. /\ one \in Seq(Plain) /\ So(one) = Reading(So(rest), a)
      /\ \A f : TypedIn(one, f) <=> TypedIn(rest, f) \/ Stands(So(rest), a, f)
      /\ EndIn(one) <=> EndIn(rest) \/ Stays(So(rest), a)
  BY <1>1, <1>3, Appended
<1>6. at < Len(argv) =>
        /\ two \in Seq(Plain) /\ So(two) = Reading(So(one), b)
        /\ \A f : TypedIn(two, f) <=> TypedIn(one, f) \/ Stands(So(one), b, f)
        /\ EndIn(two) <=> EndIn(one) \/ Stays(So(one), b)
  <2> SUFFICES ASSUME at < Len(argv)
               PROVE  /\ two \in Seq(Plain) /\ So(two) = Reading(So(one), b)
                      /\ \A f : TypedIn(two, f) <=> TypedIn(one, f) \/ Stands(So(one), b, f)
                      /\ EndIn(two) <=> EndIn(one) \/ Stays(So(one), b)
    OBVIOUS
  <2>1. one \in Seq(Plain) /\ b \in Plain
    BY <1>3, <1>5
  <2> HIDE DEF one
  <2> QED BY <2>1, Appended
<1> HIDE DEF one, two
\* What was found in the rest stays found, and nothing is found after a positional.
<1>7. /\ rest' \in Seq(Plain)
      /\ \A f : TypedIn(rest, f) => TypedIn(rest', f)
      /\ EndIn(rest) => EndIn(rest')
  BY <1>4, <1>5, <1>6
<1>8. So(rest) = "positional" => /\ So(rest') = "positional"
                                 /\ \A f : TypedIn(rest', f) => TypedIn(rest, f)
  <2>1. \A x : Reading("positional", x) = "positional"
    BY Read
  <2>2. \A x, f : ~Stands("positional", x, f)
    BY <2>1 DEF Stands, Options
  <2> QED BY <2>1, <2>2, <1>4, <1>5, <1>6
\* While both readers wait for a flag, they take the argument for the same.
<1>9. ASSUME options, NEW before \in Fresh, NEW kind, kind = Reading(before, a)
      PROVE  /\ kind = "positional" => Skipped(a) = 1 /\ (StillOptions(a) => a = End)
             /\ kind = "option" => Skipped(a) = 1 /\ StillOptions(a)
             /\ kind = "valued" => StillOptions(a) /\ Skipped(a) = IF at < Len(argv) THEN 2 ELSE 1
             /\ kind \in {"positional", "option", "valued"}
             /\ kind \in Options /\ a.mark # "/" =>
                  /\ a.flag # "db"
                  /\ a.flag \in {"help", "update"} => a.flag \in Understood(a)
             /\ "debug" \in Understood(a) =>
                  cmd = "ls" /\ a.flag = "debug" /\ a.mark # "/" /\ kind = "option"
  BY <1>0, <1>1, <1>2, <1>9, ScanReads DEF a
<1>10. ASSUME options, So(rest) \in Fresh
       PROVE  /\ \A f : TypedIn(rest', f) <=> TypedIn(rest, f) \/ Stands(So(rest), a, f)
              /\ Stays(So(rest), a) => EndIn(rest')
              /\ So(rest') = IF Skipped(a) = 2 THEN "value" ELSE Reading(So(rest), a)
              /\ Skipped(a) = 2 => Reading(So(rest), a) = "valued"
  <2>1. Skipped(a) = 2 => So(one) = "valued" /\ Reading(So(rest), a) = "valued"
    BY <1>5, <1>9, <1>10
  <2>2. Reading("valued", b) = "value" /\ \A f : ~Stands("valued", b, f)
    <3>1. Reading("valued", b) = "value"
      BY Read
    <3> QED BY <3>1 DEF Stands, Options
  <2> QED BY <2>1, <2>2, <1>4, <1>5, <1>6
<1>11. Types'
  <2>1. at' \in 1 .. Len(argv) + 1
    BY <1>1, <1>4
  <2>2. options' \in BOOLEAN
    BY <1>2, <1>0 DEF StillOptions, Types, Dash
  <2> QED BY <2>1, <2>2, <1>0, <1>2, <1>7 DEF Types
<1>12. Early'
  BY <1>1, <1>2 DEF Early, Untouched
<1>13. ScanInv'
  <2>0. /\ Scanned(rest) /\ (~options => So(rest) = "positional")
        /\ options => So(rest) \in Fresh \/ (So(rest) = "positional" /\ EndIn(rest))
    BY <1>0, <1>1 DEF ScanInv
  <2>2. CASE ~options
    <3>1. Understood(a) = {} /\ ~options'
      BY <2>2, <1>2 DEF Understood, StillOptions
    <3>2. Scanned(rest)'
      BY <2>0, <2>2, <3>1, <1>2, <1>7, <1>8 DEF Scanned
    <3> QED BY <2>0, <2>2, <3>1, <3>2, <1>8 DEF ScanInv
  <2>3. CASE options /\ So(rest) = "positional"
    <3>1. "debug" \in Understood(a) => cmd = "ls"
      BY DEF Understood
    <3>2. EndIn(rest)
      BY <2>0, <2>3 DEF Fresh
    <3>3. Scanned(rest)'
      BY <2>0, <2>3, <3>1, <3>2, <1>2, <1>7, <1>8 DEF Scanned
    <3> QED BY <2>3, <3>2, <3>3, <1>7, <1>8 DEF ScanInv
  <2>4. CASE options /\ So(rest) \in Fresh
    <3> DEFINE kind == Reading(So(rest), a)
    <3>1. /\ kind = "positional" => Skipped(a) = 1 /\ (StillOptions(a) => a = End)
          /\ kind = "option" => Skipped(a) = 1 /\ StillOptions(a)
          /\ kind = "valued" => StillOptions(a) /\ Skipped(a) = IF at < Len(argv) THEN 2 ELSE 1
          /\ kind \in {"positional", "option", "valued"}
          /\ kind \in Options /\ a.mark # "/" /\ a.flag \in {"help", "update"} => a.flag \in Understood(a)
          /\ "debug" \in Understood(a) =>
               cmd = "ls" /\ a.flag = "debug" /\ a.mark # "/" /\ kind = "option"
      BY <2>4, <1>9
    <3>2. \A f : Stands(So(rest), a, f) <=> a.flag = f /\ a.mark # "/" /\ kind \in Options
      BY DEF Stands
    <3>3. Stays(So(rest), a) <=> a = End /\ kind = "positional"
      BY DEF Stays
    <3> HIDE DEF kind
    <3>4. Scanned(rest)'
      <4>1. TypedIn(rest', "update") => "update" \in asks'
        BY <2>0, <2>4, <3>1, <3>2, <1>2, <1>10 DEF Scanned
      <4>2. TypedIn(rest', "help") => "help" \in asks'
        BY <2>0, <2>4, <3>1, <3>2, <1>2, <1>10 DEF Scanned
      <4>3. "debug" \in asks' => cmd = "ls" /\ (TypedIn(rest', "debug") \/ EndIn(rest'))
        BY <2>0, <2>4, <3>1, <3>2, <1>2, <1>7, <1>10 DEF Scanned, Options
      <4> QED BY <4>1, <4>2, <4>3, <1>2 DEF Scanned
    <3>5. So(rest') = IF Skipped(a) = 2 THEN "value" ELSE kind
      BY <2>4, <1>10 DEF kind
    <3>6. ~options' => So(rest') = "positional"
      BY <3>1, <3>5, <1>2
    <3>7. options' /\ at' <= Len(argv) => So(rest') \in Fresh \/ (So(rest') = "positional" /\ EndIn(rest'))
      <4>1. kind = "valued" => So(rest') = "value" \/ ~(at' <= Len(argv))
        BY <3>1, <3>5, <1>1, <1>4
      <4>2. kind = "positional" /\ options' => So(rest') = "positional" /\ EndIn(rest')
        BY <2>4, <3>1, <3>3, <3>5, <1>2, <1>10
      <4> QED BY <3>1, <3>5, <4>1, <4>2 DEF Fresh
    <3> QED BY <3>4, <3>6, <3>7, <1>2 DEF ScanInv
  <2> QED BY <2>0, <2>2, <2>3, <2>4
<1>14. (Mine \/ Helped)'
  <2>1. CASE Helped
    <3>1. Len(<<Flag("help")>>) = 1 /\ <<Flag("help")>>[1] = Flag("help")
      OBVIOUS
    <3>2. Flag("help").flag = "help" /\ Flag("help").mark = ""
      BY DEF Flag
    <3>3. at = 1 /\ options /\ asks = {} /\ argv = <<Flag("help")>>
      <4>1. argv = <<Flag("help")>>
        BY <2>1, <1>1 DEF Helped
      <4>2. Len(argv) = 1
        BY <3>1, <4>1
      <4>3. at # 2
        BY <4>2, <1>1
      <4> QED BY <2>1, <4>1, <4>3, <1>1 DEF Helped
    <3>4. a = Flag("help")
      BY <3>1, <3>3 DEF a
    <3>5. Understood(a) = {"help"}
      BY <3>2, <3>3, <3>4 DEF Understood
    <3>6. at' = 2
      BY <3>1, <3>3, <1>1, <1>4
    <3> QED BY <2>1, <3>3, <3>5, <3>6, <1>1, <1>2 DEF Helped, Untouched, Typed
  <2>2. CASE Mine
    <3>1. argv = line.argv /\ LineInv
      BY <2>2, <1>1 DEF Mine
    <3>2. LineInv'
      <4> SUFFICES ASSUME ~code PROVE LineInv'
        BY <1>2 DEF LineInv
      <4>1. /\ Aligned
            /\ \A n \in 1 .. at - 1 : Sets(argv, n) =>
                 (IF argv[n].flag = "db" THEN "explicit" \in asks ELSE TypedIn(rest, argv[n].flag))
        BY <3>1, <1>1 DEF LineInv
      <4>2. /\ Kinds(argv)[at] = Reading(Kinds(argv)[at - 1], a)
            /\ Kinds(argv)[at + 1] = Reading(Kinds(argv)[at], b)
        <5>1. at + 1 \in Nat \ {0} /\ (at + 1) - 1 = at
          BY <1>1
        <5> QED BY <5>1, <1>1, KindsAre DEF a, b
      <4>3. \A n \in 1 .. at' - 1 : n \in 1 .. at - 1 \/ n = at \/ (n = at + 1 /\ Skipped(a) = 2)
        <5>1. \A n \in 1 .. at : n \in 1 .. at - 1 \/ n = at
          BY <1>1
        <5>2. \A n \in 1 .. at + 1 : n \in 1 .. at - 1 \/ n = at \/ n = at + 1
          BY <1>1
        <5>3. at' - 1 = at \/ (at' - 1 = at + 1 /\ Skipped(a) = 2)
          BY <1>1, <1>4
        <5> QED BY <5>1, <5>2, <5>3
      <4>4. CASE Kinds(argv)[at - 1] = "positional"
        <5>1. Kinds(argv)[at] = "positional" /\ Kinds(argv)[at + 1] = "positional"
          BY <4>2, <4>4, Read
        <5>2. ~Sets(argv, at) /\ ~Sets(argv, at + 1)
          BY <5>1 DEF Sets, Options
        <5>3. Kinds(argv)[at' - 1] = "positional"
          <6>1. at' - 1 = at \/ at' - 1 = at + 1
            BY <1>1, <1>4
          <6> QED BY <6>1, <5>1
        <5>4. Aligned'
          BY <5>3, <1>2 DEF Aligned
        <5>5. \A n \in 1 .. at' - 1 : Sets(argv, n) => n \in 1 .. at - 1
          BY <4>3, <5>2
        <5> QED BY <4>1, <5>4, <5>5, <1>2, <1>7 DEF LineInv
      <4>5. CASE Kinds(argv)[at - 1] \in Fresh /\ So(rest) \in Fresh /\ options
        <5> DEFINE kind == Kinds(argv)[at]
        <5>1. kind = Reading(So(rest), a)
          <6>1. /\ Reading(So(rest), a) = IF ~Dash(a) \/ a = End THEN "positional"
                     ELSE IF a.mark = "" /\ a.flag \in Valued \cup {"db"} THEN "valued" ELSE "option"
                /\ Reading(Kinds(argv)[at - 1], a) = IF ~Dash(a) \/ a = End THEN "positional"
                     ELSE IF a.mark = "" /\ a.flag \in Valued \cup {"db"} THEN "valued" ELSE "option"
            BY <4>5, Read
          <6> QED BY <6>1, <4>2
        <5>2. /\ kind = "positional" => Skipped(a) = 1
              /\ kind = "option" => Skipped(a) = 1 /\ StillOptions(a)
              /\ kind = "valued" => StillOptions(a) /\ Skipped(a) = IF at < Len(argv) THEN 2 ELSE 1
              /\ kind \in {"positional", "option", "valued"}
              /\ kind \in Options /\ a.mark # "/" => a.flag # "db"
          BY <4>5, <5>1, <1>9
        <5>3. So(rest') = IF Skipped(a) = 2 THEN "value" ELSE kind
          BY <4>5, <5>1, <1>10
        <5>4. kind = "valued" => Kinds(argv)[at + 1] = "value"
          BY <4>2, Read
        <5>5. \A f : TypedIn(rest', f) <=> TypedIn(rest, f) \/ (a.flag = f /\ a.mark # "/" /\ kind \in Options)
          BY <4>5, <5>1, <1>10 DEF Stands
        <5> HIDE DEF kind
        <5>6. at' <= Len(argv) => Aligned'
          <6>1. CASE Skipped(a) = 2
            <7>1. at' - 1 = at + 1 /\ kind = "valued"
              BY <6>1, <5>2, <1>1, <1>4
            <7> QED BY <7>1, <6>1, <5>2, <5>3, <5>4, <1>2 DEF Aligned, Fresh
          <6>2. CASE Skipped(a) = 1
            <7>1. at' - 1 = at /\ (at' <= Len(argv) => kind # "valued")
              BY <6>2, <5>2, <1>1, <1>4
            <7>2. at' <= Len(argv) => Kinds(argv)[at' - 1] = "positional" \/
                    (Kinds(argv)[at' - 1] = "option" /\ So(rest') = "option" /\ options')
              BY <7>1, <6>2, <5>2, <5>3, <1>2 DEF kind
            <7> QED BY <7>2, <1>2 DEF Aligned, Fresh
          <6> QED BY <6>1, <6>2, <1>4
        <5>7. \A n \in 1 .. at' - 1 : Sets(argv, n) =>
                (IF argv[n].flag = "db" THEN "explicit" \in asks' ELSE TypedIn(rest', argv[n].flag))
          <6>1. Sets(argv, at) => a.flag # "db" /\ TypedIn(rest', argv[at].flag)
            BY <5>2, <5>5 DEF Sets, kind, a
          <6>2. Skipped(a) = 2 => ~Sets(argv, at + 1)
            BY <5>2, <5>4 DEF Sets, Options
          <6>3. \A n \in 1 .. at - 1 : Sets(argv, n) =>
                  (IF argv[n].flag = "db" THEN "explicit" \in asks' ELSE TypedIn(rest', argv[n].flag))
            BY <4>1, <1>2, <1>7
          <6> QED BY <6>1, <6>2, <6>3, <4>3 DEF a
        <5> QED BY <5>6, <5>7, <1>2 DEF LineInv
      <4> QED BY <4>1, <4>4, <4>5 DEF Aligned
    <3> QED BY <3>1, <3>2, <1>1, <1>2 DEF Mine
  <2> QED BY <2>1, <2>2, <1>0
<1>15. DispatchInv' /\ ParseInv' /\ FlagInv' /\ RunInv'
  BY <1>1, <1>2 DEF DispatchInv, ParseInv, FlagInv, RunInv
<1> QED BY <1>11, <1>12, <1>13, <1>14, <1>15 DEF EntryInv, Running

-----------------------------------------------------------------------------
(* The end of the scan.                                                      *)

\* With the whole line scanned, what it was found to hold is there for the parser.
LEMMA ScanUnderstands ==
  ASSUME Running, ScanDone, ~code, Mine
  PROVE  /\ \A n \in DOMAIN line.argv : Sets(line.argv, n) /\ line.argv[n].flag # "db" =>
              TypedIn(rest, line.argv[n].flag)
         /\ Typed("db") => "explicit" \in asks
         /\ Typed("help") => "help" \in asks
<1>1. argv = line.argv /\ Scanned(rest) /\ pc = "scan"
      /\ \A n \in 1 .. at - 1 : Sets(argv, n) =>
           (IF argv[n].flag = "db" THEN "explicit" \in asks ELSE TypedIn(rest, argv[n].flag))
  BY DEF Running, ScanDone, ScanInv, Mine, LineInv
<1>2. DOMAIN argv = 1 .. at - 1
  <2>1. argv \in Seq(Plain) /\ at \in 1 .. Len(argv) + 1 /\ at > Len(argv)
    BY DEF Running, Types, ScanDone
  <2>2. Len(argv) \in Nat /\ DOMAIN argv = 1 .. Len(argv)
    BY <2>1
  <2>3. at - 1 = Len(argv)
    BY <2>1, <2>2
  <2> QED BY <2>2, <2>3
<1>3. Typed("db") => "explicit" \in asks
  BY <1>1, <1>2, TypedSets DEF Typed
<1>4. Typed("help") => "help" \in asks
  BY <1>1, <1>2, TypedSets DEF Typed, Scanned
<1> QED BY <1>1, <1>2, <1>3, <1>4

\* To the parser, with what is left, whichever store was opened.
LEMMA ToParserKeeps ==
  ASSUME Running, ScanDone, ToParser, handler' \in {"text", "scheduler"},
         \/ UNCHANGED store
         \/ /\ opened' \in {"given", "found"} /\ ~code /\ "help" \notin asks
            /\ lock' = IF Exclusive THEN "exclusive" ELSE "shared"
            /\ "explicit" \in asks => opened' = "given"
            /\ cmd \in {"set", "check", "ready"} => "explicit" \in asks,
         opened' = "none" /\ handler' = "text" => cmd = "todo" \/ (cmd = "ls" /\ "debug" \in asks)
  PROVE  EntryInv'
<1>0. Types /\ Early /\ ScanInv /\ (Mine \/ Helped)
  BY DEF Running
<1>1. /\ pc = "scan" /\ cmd \in Scheduled /\ opened = "none" /\ lock = "none" /\ flags = {}
      /\ rest \in Seq(Plain) /\ Scanned(rest)
  BY <1>0 DEF ScanDone, Types, Early, Untouched, ScanInv
<1>2. /\ pc' = "parse" /\ argv' = rest /\ at' = 1
      /\ UNCHANGED <<line, found, cmd, options, asks, db, rest, code, flags, effect>>
  BY DEF ToParser, Goto, scan
<1>3. \/ opened' = "none" /\ lock' = "none"
      \/ /\ opened' # "none" /\ ~code /\ "help" \notin asks
         /\ lock' = IF Exclusive THEN "exclusive" ELSE "shared"
         /\ "explicit" \in asks => opened' = "given"
         /\ cmd \in {"set", "check", "ready"} => "explicit" \in asks
  BY <1>1 DEF store
<1>4. Types'
  <2>1. 1 \in 1 .. Len(rest) + 1
    BY <1>1
  <2>2. lock' \in {"none", "shared", "exclusive"}
    BY <1>3
  <2> QED BY <2>1, <2>2, <1>0, <1>1, <1>2 DEF Types
<1>5. Early'
  BY <1>1, <1>2 DEF Early
<1>6. ScanInv' /\ RunInv'
  BY <1>2 DEF ScanInv, RunInv
<1>7. Helped => "help" \in asks \/ (Untouched' /\ Helped')
  <2> SUFFICES ASSUME Helped, "help" \notin asks PROVE Untouched' /\ Helped'
    OBVIOUS
  <2>1. argv = <<Flag("help")>> /\ at = 1
    BY <1>1 DEF Helped
  <2>2. Len(<<Flag("help")>>) = 1
    OBVIOUS
  <2>3. FALSE
    BY <2>1, <2>2 DEF ScanDone
  <2> QED BY <2>3
<1>8. ~Helped'  \/ (Untouched' /\ opened' = "none")
  BY DEF Helped, Untouched
<1>9. opened' # "none" => Mine
  BY <1>0, <1>1, <1>3, <1>7 DEF Untouched
<1>10. (Mine \/ Helped)'
  <2>1. CASE Mine
    <3>1. LineInv'
      BY <1>2 DEF LineInv
    <3>2. ~code => Understands'
      <4> SUFFICES ASSUME ~code PROVE Understands'
        OBVIOUS
      <4>1. /\ \A n \in DOMAIN line.argv : Sets(line.argv, n) /\ line.argv[n].flag # "db" =>
                 TypedIn(rest, line.argv[n].flag)
            /\ Typed("db") => "explicit" \in asks
            /\ Typed("help") => "help" \in asks
        BY <2>1, ScanUnderstands
      <4> QED BY <4>1, <1>2 DEF Understands, Typed
    <3> QED BY <3>1, <3>2, <1>2 DEF Mine
  <2>2. CASE Helped /\ opened' = "none"
    BY <2>2, <1>2, <1>3 DEF Helped, Untouched, Typed
  <2> QED BY <2>1, <2>2, <1>0, <1>9
<1>11. DispatchInv'
  <2>1. Exclusive' <=> Exclusive
    BY <1>2 DEF Exclusive
  <2>2. Scanned(argv)'
    BY <1>1, <1>2 DEF Scanned
  <2>3. opened' # "none" => ~Helped'
    BY <1>8
  <2> QED BY <2>1, <2>2, <2>3, <1>1, <1>2, <1>3 DEF DispatchInv
<1>12. ParseInv' /\ FlagInv'
  <2>1. Kinds(rest)[0] = "option"
    BY KindsAre
  <2> QED BY <2>1, <1>1, <1>2 DEF ParseInv, FlagInv, Fresh
<1> QED BY <1>4, <1>5, <1>6, <1>10, <1>11, <1>12 DEF EntryInv, Running

\* ls -debug; -help; and the store that is opened, or the error.
LEMMA DebugKeeps ==
  ASSUME Running, DispatchDebug
  PROVE  EntryInv'
<1>1. /\ ScanDone /\ "debug" \in asks /\ handler' = "text" /\ ToParser /\ UNCHANGED store
  BY DEF DispatchDebug, DebugOnly, Handle
<1>2. cmd = "ls"
  BY <1>1 DEF Running, ScanInv, ScanDone, Scanned
<1> QED BY <1>1, <1>2, ToParserKeeps

\* -help: without a database, to the handler that prints the usage.
LEMMA HelpKeeps ==
  ASSUME Running, DispatchHelp
  PROVE  EntryInv'
<1>1. /\ ScanDone /\ ToParser /\ UNCHANGED store
      /\ handler' = IF cmd \in {"ls", "find"} THEN "scheduler" ELSE Scheduler
  BY DEF DispatchHelp, Handle
<1>2. handler' \in {"text", "scheduler"}
  BY <1>1 DEF Scheduler
<1>3. cmd \in Scheduled
  BY <1>1 DEF Running, Early, ScanDone
<1>4. handler' = "text" => cmd = "todo"
  BY <1>1, <1>3 DEF Scheduler, Machine, Scheduled
<1> QED BY <1>1, <1>2, <1>4, ToParserKeeps

\* The store is opened as the scan decided, or the command ends with an error.
LEMMA OpenKeeps ==
  ASSUME Running, DispatchOpen
  PROVE  EntryInv'
<1>1. ScanDone /\ "help" \notin asks
  BY DEF DispatchOpen, HelpFirst
<1>2. CASE /\ ~code /\ ~MissingDb /\ Directory # "none"
           /\ opened' = Directory /\ lock' = IF Exclusive THEN "exclusive" ELSE "shared"
           /\ Handle(Scheduler) /\ ToParser
  <2>1. opened' \in {"given", "found"} /\ ("explicit" \in asks => opened' = "given")
    BY <1>2 DEF Directory
  <2>2. cmd \in {"set", "check", "ready"} => "explicit" \in asks
    BY <1>2 DEF MissingDb
  <2>3. handler' \in {"text", "scheduler"}
    BY <1>2 DEF Handle, Scheduler
  <2> QED BY <1>1, <1>2, <2>1, <2>2, <2>3, ToParserKeeps
<1>3. CASE Ended("refused") /\ UNCHANGED store
  <2>1. pc' = "done" /\ effect' = "refused" /\ lock' = "none"
    BY <1>1, <1>3 DEF Ended, Goto, store, Running, Early, Untouched, ScanDone
  <2> QED BY <2>1 DEF EntryInv, Ending, WritesLocked, OneDatabase, Works
<1> QED BY <1>2, <1>3 DEF DispatchOpen

-----------------------------------------------------------------------------
(* The flag parser.                                                          *)

\* A flag that is set takes no word of its own, and every flag with a word is one the scan
\* skips a word after.
LEMMA Tables ==
  ASSUME NEW f
  PROVE  /\ f \in Bools => f \notin Valued \cup {"db"}
         /\ f \in Words => f \in Valued \cup {"db"}
<1>1. f \in Bools => f \in {"help", "json", "c", "a", "id", "debug", "path-only", "no-readme", "d"}
  <2>1. Of(SchedulerBools, {}) \subseteq {"c", "a", "id", "debug", "path-only"}
    BY DEF Of, SchedulerBools
  <2>2. Of(TextFlags, Flags({}, {})).bools \subseteq {"c", "a", "id", "debug", "path-only", "no-readme", "d"}
    BY DEF Of, TextFlags, Flags, InitFlags, TagFlags, UntagFlags, LsFlags, TodoFlags, FindFlags,
           SummaryFlags, HelpFlags
  <2> QED BY <2>1, <2>2 DEF Bools
<1>2. f \in Words => f \in {"db", "property", "p", "s", "body-file", "t", "expect", "spec", "update"}
  <2>1. Of(SchedulerWords, {}) \subseteq {"property", "p", "s", "body-file", "t", "expect", "spec", "update"}
    BY DEF Of, SchedulerWords
  <2>2. Of(TextFlags, Flags({}, {})).words \subseteq {"t", "update", "db", "s"}
    BY DEF Of, TextFlags, Flags, InitFlags, TagFlags, UntagFlags, LsFlags, TodoFlags, FindFlags,
           SummaryFlags, HelpFlags
  <2> QED BY <2>1, <2>2 DEF Words
<1> QED BY <1>1, <1>2 DEF Valued

\* ParseFlag: the parser and the documentation agree on how many arguments a flag takes.
LEMMA ParseFlagKeeps ==
  ASSUME Running, ParseFlag
  PROVE  EntryInv'
<1> DEFINE a == argv[at]
           next == a.flag \in Words /\ a.mark # "="
<1>0. Types /\ Early /\ (Mine \/ Helped) /\ DispatchInv /\ ParseInv /\ FlagInv
  BY DEF Running
<1>1. /\ pc = "parse" /\ at <= Len(argv) /\ argv \in Seq(Plain) /\ at \in Nat \ {0} /\ Len(argv) \in Nat
      /\ Dash(a) /\ a # End /\ ~ParseError /\ DOMAIN argv = 1 .. Len(argv)
  <2>1. argv \in Seq(Plain) /\ at \in 1 .. Len(argv) + 1
    BY <1>0 DEF Types
  <2>2. Len(argv) \in Nat /\ DOMAIN argv = 1 .. Len(argv)
    BY <2>1
  <2> QED BY <2>1, <2>2 DEF ParseFlag
<1>2. /\ UNCHANGED <<line, found, pc, cmd, argv, options, asks, db, rest, code, opened, lock, handler, effect>>
      /\ at' = at + (IF next THEN 2 ELSE 1)
      /\ a.mark = "/" => flags' = flags
      /\ a.mark # "/" => \E w : Set(a.flag, w)
  BY DEF ParseFlag, scan, store
<1>3. a \in Plain
  BY <1>1
<1>4. /\ a.flag \in Bools \cup Words
      /\ next => at < Len(argv)
  <2>1. ~(a.flag \notin Bools \cup Words) /\ ~(next /\ at = Len(argv))
    BY <1>1 DEF ParseError
  <2>2. at # Len(argv) => at < Len(argv)
    <3>1. at \in Nat /\ Len(argv) \in Nat /\ at <= Len(argv)
      BY <1>1
    <3> QED BY <3>1
  <2> HIDE DEF next
  <2> QED BY <2>1, <2>2, Zenon
<1> HIDE DEF a
<1> DEFINE HasNow(f) == \E x \in flags' : x[1] = f
<1>5. \A f : HasNow(f) <=> Has(f) \/ (f = a.flag /\ a.mark # "/")
  <2>1. CASE a.mark = "/"
    BY <2>1, <1>2 DEF Has
  <2>2. CASE a.mark # "/"
    <3>1. PICK w : flags' = {x \in flags : x[1] # a.flag \/ a.flag \in {"property", "t", "update"}} \cup {<<a.flag, w>>}
      BY <2>2, <1>2 DEF Set
    <3>2. <<a.flag, w>>[1] = a.flag
      OBVIOUS
    <3> QED BY <2>2, <3>1, <3>2 DEF Has
  <2> QED BY <2>1, <2>2
<1> HIDE DEF HasNow
<1>6. \A x \in flags' : x \in flags \/ (x[1] = a.flag /\ a.mark # "/")
  BY <1>2 DEF Set
<1>7. /\ Kinds(argv)[at] = Reading(Kinds(argv)[at - 1], a)
      /\ Kinds(argv)[at + 1] = Reading(Kinds(argv)[at], argv[at + 1])
  <2>1. at + 1 \in Nat \ {0} /\ (at + 1) - 1 = at
    BY <1>1
  <2> QED BY <2>1, <1>1, KindsAre DEF a
<1>8. Kinds(argv)[at - 1] \in Fresh \/ (Loops /\ Kinds(argv)[at - 1] = "positional")
  BY <1>0, <1>1 DEF ParseInv
\* A flag that may stand here: an option, or one that takes the next argument.
<1>9. Kinds(argv)[at - 1] \in Fresh => IF next THEN Kinds(argv)[at] = "valued" ELSE Kinds(argv)[at] = "option"
  <2> SUFFICES ASSUME Kinds(argv)[at - 1] \in Fresh
               PROVE  IF next THEN Kinds(argv)[at] = "valued" ELSE Kinds(argv)[at] = "option"
    OBVIOUS
  <2>1. Kinds(argv)[at] = IF a.mark = "" /\ a.flag \in Valued \cup {"db"} THEN "valued" ELSE "option"
    BY <1>1, <1>7, Read DEF a
  <2>2. /\ a.flag \in Bools => a.flag \notin Valued \cup {"db"}
        /\ a.flag \in Words => a.flag \in Valued \cup {"db"}
    BY Tables
  <2>3. a.flag \in Valued \cup {"db"} => a.mark # "/"
    BY <1>3, PlainFacts
  <2>4. a.mark \in {"", "=", "/"}
    BY <1>3, PlainFacts
  <2> QED BY <1>4, <2>1, <2>2, <2>3, <2>4
<1>10. next => Kinds(argv)[at + 1] \in {"value", "positional"}
  <2>1. CASE Kinds(argv)[at - 1] \in Fresh
    BY <2>1, <1>7, <1>9, Read
  <2>2. CASE Kinds(argv)[at - 1] = "positional"
    <3>1. Kinds(argv)[at] = "positional"
      BY <2>2, <1>7, Read
    <3> QED BY <3>1, <1>7, Read
  <2> QED BY <2>1, <2>2, <1>8
<1> HIDE DEF next
<1>11. \/ ~next /\ at' = at + 1 /\ at' - 1 = at
       \/ next /\ at' = at + 2 /\ at' - 1 = at + 1 /\ at < Len(argv)
  BY <1>1, <1>2, <1>4
<1>12. Types'
  <2>1. at' \in 1 .. Len(argv) + 1
    BY <1>1, <1>11
  <2> QED BY <2>1, <1>0, <1>2 DEF Types
<1>13. Early'
  BY <1>0, <1>1, <1>2 DEF Early, Untouched, Unread
<1>14. ScanInv' /\ RunInv'
  BY <1>1, <1>2 DEF ScanInv, RunInv
<1>15. (Mine \/ Helped)'
  <2>1. CASE Mine
    <3>1. LineInv'
      BY <1>1, <1>2 DEF LineInv
    <3> QED BY <2>1, <3>1, <1>1, <1>2 DEF Mine, Understands, Typed
  <2>2. CASE Helped
    BY <2>2, <1>1, <1>2 DEF Helped, Typed, Untouched
  <2> QED BY <2>1, <2>2, <1>0
<1>16. DispatchInv'
  BY <1>0, <1>1, <1>2 DEF DispatchInv, Scanned, Exclusive, Helped, Typed, Untouched
<1>17. ParseInv'
  <2>1. Loops' <=> Loops
    BY <1>2 DEF Loops
  <2>2. Kinds(argv)[at' - 1] \in Fresh \/ (Loops /\ Kinds(argv)[at' - 1] = "positional")
    <3>1. CASE Kinds(argv)[at - 1] \in Fresh
      <4>1. next => Kinds(argv)[at + 1] = "value"
        BY <3>1, <1>7, <1>9, Read
      <4> QED BY <3>1, <4>1, <1>9, <1>11 DEF Fresh
    <3>2. CASE Loops /\ Kinds(argv)[at - 1] = "positional"
      <4>1. Kinds(argv)[at] = "positional" /\ Kinds(argv)[at + 1] = "positional"
        BY <3>2, <1>7, Read
      <4> QED BY <3>2, <4>1, <1>11
    <3> QED BY <3>1, <3>2, <1>8
  <2>3. \A n \in 1 .. at' - 1 : n \in 1 .. at - 1 \/ n = at \/ (n = at + 1 /\ next)
    <3>1. \A n \in 1 .. at : n \in 1 .. at - 1 \/ n = at
      BY <1>1
    <3>2. \A n \in 1 .. at + 1 : n \in 1 .. at - 1 \/ n = at \/ n = at + 1
      BY <1>1
    <3>3. 1 .. at' - 1 = 1 .. at \/ (1 .. at' - 1 = 1 .. at + 1 /\ next)
      BY <1>11
    <3> QED BY <3>1, <3>2, <3>3
  <2>4. next => ~Sets(argv, at + 1)
    BY <1>10 DEF Sets, Options
  <2>5. Sets(argv, at) => HasNow(argv[at].flag)
    BY <1>5 DEF Sets, a
  <2>6. \A n \in 1 .. at - 1 : Sets(argv, n) => HasNow(argv[n].flag)
    BY <1>0, <1>1, <1>5 DEF ParseInv
  <2>7. \A n \in 1 .. at' - 1 : Sets(argv, n) => HasNow(argv[n].flag)
    BY <2>3, <2>4, <2>5, <2>6
  <2> QED BY <2>1, <2>2, <2>7, <1>2 DEF ParseInv, Has, HasNow
<1>18. FlagInv'
  <2>1. Loops' <=> Loops
    BY <1>2 DEF Loops
  <2>2. (Bools \cup Words \cup {"HUID"})' = Bools \cup Words \cup {"HUID"}
    BY <1>2 DEF Bools, Words, Of
  <2>3. ~Loops /\ a.mark # "/" => TypedIn(argv, a.flag)
    <3> SUFFICES ASSUME ~Loops, a.mark # "/" PROVE TypedIn(argv, a.flag)
      OBVIOUS
    <3>1. Sets(argv, at)
      BY <1>8, <1>9 DEF Sets, Options, a
    <3> QED BY <3>1, <1>1, TypedSets DEF a
  <2> QED BY <2>1, <2>2, <2>3, <1>0, <1>1, <1>2, <1>4, <1>6 DEF FlagInv
<1> QED BY <1>12, <1>13, <1>14, <1>15, <1>16, <1>17, <1>18 DEF EntryInv, Running

\* ParseOn: find and ref take a word and parse on.
LEMMA ParseOnKeeps ==
  ASSUME Running, ParseOn
  PROVE  EntryInv'
<1>0. Types /\ Early /\ (Mine \/ Helped) /\ DispatchInv /\ ParseInv /\ FlagInv
  BY DEF Running
<1>1. /\ pc = "parse" /\ at <= Len(argv) /\ at \in Nat \ {0} /\ Len(argv) \in Nat
      /\ argv[at] = Word("id") /\ Loops
  <2>1. argv \in Seq(Plain) /\ at \in 1 .. Len(argv) + 1
    BY <1>0 DEF Types
  <2>2. Len(argv) \in Nat
    BY <2>1
  <2> QED BY <2>1, <2>2 DEF ParseOn, Stops
<1>2. /\ UNCHANGED <<line, found, pc, cmd, argv, options, asks, db, rest, code, opened, lock, handler, effect>>
      /\ at' = at + 1 /\ Set("HUID", "id")
  BY DEF ParseOn, scan, store
<1>3. \A x \in flags : x[1] # "HUID" => x \in flags'
  BY <1>2 DEF Set
<1>4. \A x \in flags' : x \in flags \/ x[1] = "HUID"
  BY <1>2 DEF Set
<1>5. Kinds(argv)[at] = "positional"
  <2>1. Kinds(argv)[at] = Reading(Kinds(argv)[at - 1], Word("id"))
    BY <1>1, KindsAre
  <2>2. ~Dash(Word("id"))
    BY DEF Dash, Word
  <2>3. Kinds(argv)[at - 1] \in Fresh \/ Kinds(argv)[at - 1] = "positional"
    BY <1>0, <1>1 DEF ParseInv
  <2> QED BY <2>1, <2>2, <2>3, Read
<1>6. Types'
  <2>1. at' \in 1 .. Len(argv) + 1
    BY <1>1, <1>2
  <2> QED BY <2>1, <1>0, <1>2 DEF Types
<1>7. Early'
  BY <1>0, <1>1, <1>2 DEF Early, Untouched, Unread
<1>8. ScanInv' /\ RunInv'
  BY <1>1, <1>2 DEF ScanInv, RunInv
<1>9. (Mine \/ Helped)'
  <2>1. CASE Mine
    <3>1. LineInv'
      BY <1>1, <1>2 DEF LineInv
    <3> QED BY <2>1, <3>1, <1>1, <1>2 DEF Mine, Understands, Typed
  <2>2. CASE Helped
    BY <2>2, <1>1, <1>2 DEF Helped, Typed, Untouched
  <2> QED BY <2>1, <2>2, <1>0
<1>10. DispatchInv'
  BY <1>0, <1>1, <1>2 DEF DispatchInv, Scanned, Exclusive, Helped, Typed, Untouched
<1> DEFINE HasNow(f) == \E x \in flags' : x[1] = f
<1>11. ParseInv'
  <2>1. Loops'
    BY <1>1, <1>2 DEF Loops
  <2>2. at' - 1 = at
    BY <1>1, <1>2
  <2>3. \A n \in 1 .. at : n \in 1 .. at - 1 \/ n = at
    BY <1>1
  <2>4. ~Sets(argv, at)
    BY <1>5 DEF Sets, Options
  <2>5. \A f : Has(f) => HasNow(f)
    <3>1. <<"HUID", "id">> \in flags' /\ <<"HUID", "id">>[1] = "HUID"
      BY <1>2 DEF Set
    <3> QED BY <3>1, <1>3 DEF Has
  <2> HIDE DEF HasNow
  <2>6. \A n \in 1 .. at : Sets(argv, n) => HasNow(argv[n].flag)
    BY <2>3, <2>4, <2>5, <1>0, <1>1 DEF ParseInv
  <2> QED BY <2>1, <2>2, <2>6, <1>2, <1>5 DEF ParseInv, Has, HasNow
<1>12. FlagInv'
  <2>1. Loops'
    BY <1>1, <1>2 DEF Loops
  <2>2. (Bools \cup Words)' = Bools \cup Words
    BY <1>2 DEF Bools, Words, Of
  <2> QED BY <2>1, <2>2, <1>0, <1>1, <1>2, <1>4 DEF FlagInv
<1> QED BY <1>6, <1>7, <1>8, <1>9, <1>10, <1>11, <1>12 DEF EntryInv, Running

\* ParseEnd: whatever stands where a flag may is set; what follows goes to the command.
LEMMA ParseEndKeeps ==
  ASSUME Running, ParseEnd
  PROVE  EntryInv'
<1>0. Types /\ Early /\ (Mine \/ Helped) /\ DispatchInv /\ ParseInv /\ FlagInv
  BY DEF Running
<1>1. /\ pc = "parse" /\ at \in 1 .. Len(argv) + 1 /\ Len(argv) \in Nat /\ argv \in Seq(Plain)
      /\ DOMAIN argv = 1 .. Len(argv) /\ at \in Nat \ {0}
  <2>1. argv \in Seq(Plain) /\ at \in 1 .. Len(argv) + 1
    BY <1>0 DEF Types
  <2>2. Len(argv) \in Nat /\ DOMAIN argv = 1 .. Len(argv)
    BY <2>1
  <2> QED BY <2>1, <2>2 DEF ParseEnd, Stops
<1>2. /\ UNCHANGED <<line, found, at, cmd, argv, options, asks, db, code, opened, lock, handler, flags, effect>>
      /\ pc' = "run" /\ rest' = Arguments
  BY DEF ParseEnd, store, parsed, Goto
\* Where the parser stops, the positionals begin.
<1>3. at <= Len(argv) => ~Loops /\ (~Dash(argv[at]) \/ argv[at] = End)
  BY DEF ParseEnd, Stops
<1>4. at <= Len(argv) => /\ Kinds(argv)[at] = "positional" /\ Kinds(argv)[at - 1] \in Fresh
  <2> SUFFICES ASSUME at <= Len(argv) PROVE Kinds(argv)[at] = "positional" /\ Kinds(argv)[at - 1] \in Fresh
    OBVIOUS
  <2>1. Kinds(argv)[at] = Reading(Kinds(argv)[at - 1], argv[at])
    BY <1>1, KindsAre
  <2>2. Kinds(argv)[at - 1] \in Fresh
    BY <1>0, <1>1, <1>3 DEF ParseInv
  <2> QED BY <2>1, <2>2, <1>3, Read
<1>5. \A n \in DOMAIN argv : n \in 1 .. at - 1 \/ (at <= n /\ at <= Len(argv) /\ n \in Nat)
  BY <1>1
<1>6. \A n \in DOMAIN argv : Sets(argv, n) => n \in 1 .. at - 1
  <2> SUFFICES ASSUME NEW n \in DOMAIN argv, at <= n, at <= Len(argv), n \in Nat PROVE ~Sets(argv, n)
    BY <1>5
  <2>1. Kinds(argv)[n] = "positional"
    BY <1>1, <1>4, Later
  <2> QED BY <2>1 DEF Sets, Options
<1>7. rest' \in Seq(Plain)
  <2>1. <<Word("id")>> \in Seq(Plain)
    BY WordsArePlain
  <2>2. SubSeq(argv, at, Len(argv)) \in Seq(Plain)
    <3>1. at \in Int /\ Len(argv) \in Int /\ \A i \in at .. Len(argv) : argv[i] \in Plain
      BY <1>1
    <3> QED BY <3>1, SubSeqProperties
  <2> QED BY <2>1, <2>2, <1>2 DEF Arguments
<1>8. Types'
  BY <1>0, <1>2, <1>7 DEF Types
<1>9. Early'
  BY <1>0, <1>1, <1>2 DEF Early, Untouched, Unread
<1>10. ScanInv' /\ ParseInv'
  BY <1>1, <1>2 DEF ScanInv, ParseInv
<1>11. (Mine \/ Helped)'
  <2>1. CASE Mine
    <3>1. LineInv'
      BY <1>1, <1>2 DEF LineInv
    <3> QED BY <2>1, <3>1, <1>1, <1>2 DEF Mine, Understands, Typed
  <2>2. CASE Helped
    BY <2>2, <1>1, <1>2 DEF Helped, Typed, Untouched
  <2> QED BY <2>1, <2>2, <1>0
<1>12. DispatchInv'
  BY <1>0, <1>1, <1>2 DEF DispatchInv, Scanned, Exclusive, Helped, Typed, Untouched
<1>13. FlagInv'
  <2>1. (Loops' <=> Loops) /\ Bools' = Bools /\ Words' = Words
    BY <1>2 DEF Loops, Bools, Words, Of
  <2> QED BY <2>1, <1>0, <1>1, <1>2 DEF FlagInv
<1>14. RunInv'
  <2>1. \A n \in DOMAIN argv : Sets(argv, n) => Has(argv[n].flag)
    BY <1>0, <1>1, <1>6 DEF ParseInv
  \* A "--" taken for a word is no query.
  <2>2. ASSUME cmd = "ls", EndIn(argv) PROVE \E n \in DOMAIN rest' : rest'[n].word # "query"
    <3>1. ~Loops
      BY <2>2 DEF Loops
    <3>2. PICK n \in DOMAIN argv : argv[n] = End /\ Kinds(argv)[n] = "positional"
      BY <2>2 DEF EndIn
    <3>3. Kinds(argv)[at - 1] \in Fresh
      BY <3>1, <1>0, <1>1 DEF ParseInv
    <3>4. at <= n /\ n \in Nat
      <4> SUFFICES ASSUME n \in 1 .. at - 1 PROVE FALSE
        BY <1>5
      <4>1. n \in Nat /\ at - 1 \in Nat /\ n <= at - 1
        BY <1>1
      <4>2. Kinds(argv)[at - 1] = "positional"
        BY <4>1, <3>2, Later
      <4> QED BY <4>2, <3>3 DEF Fresh
    <3>5. rest' = SubSeq(argv, at, Len(argv))
      BY <3>1, <1>2 DEF Arguments
    <3>6. /\ at \in Int /\ Len(argv) \in Int /\ \A i \in at .. Len(argv) : argv[i] \in Plain
          /\ n - at + 1 \in 1 .. Len(argv) - at + 1 /\ at + (n - at + 1) - 1 = n /\ at <= Len(argv)
      BY <3>4, <1>1
    <3>7. /\ rest' \in Seq(Plain) /\ Len(rest') = Len(argv) - at + 1
          /\ rest'[n - at + 1] = argv[at + (n - at + 1) - 1]
      BY <3>5, <3>6, SubSeqProperties
    <3>8. n - at + 1 \in DOMAIN rest'
      BY <3>6, <3>7
    <3>9. rest'[n - at + 1] = End
      BY <3>2, <3>6, <3>7
    <3>10. End.word # "query"
      BY DEF End, Flag
    <3> QED BY <3>8, <3>9, <3>10
  <2> QED BY <2>1, <2>2, <1>2 DEF RunInv, Has
<1> QED BY <1>8, <1>9, <1>10, <1>11, <1>12, <1>13, <1>14 DEF EntryInv, Running

-----------------------------------------------------------------------------
(* What the handlers may rely on.                                            *)

\* Where a database is open, the line was understood, and asked for no help.
LEMMA Opened ==
  ASSUME Running, pc \in {"parse", "run"}
  PROVE  /\ opened = "none" => lock = "none"
         /\ opened # "none" => /\ ~code /\ Mine /\ Understands /\ ~Typed("help")
                               /\ lock = IF Exclusive THEN "exclusive" ELSE "shared"
                               /\ "explicit" \in asks => opened = "given"
                               /\ Typed("db") \/ cmd \in {"set", "check", "ready"} => "explicit" \in asks
<1>1. /\ opened = "none" => lock = "none"
      /\ opened # "none" =>
           /\ ~code /\ cmd \in Scheduled /\ "help" \notin asks /\ ~Helped
           /\ lock = IF Exclusive THEN "exclusive" ELSE "shared"
           /\ "explicit" \in asks => opened = "given"
           /\ cmd \in {"set", "check", "ready"} => "explicit" \in asks
  BY DEF Running, DispatchInv
<1>2. ~Helped => Mine
  BY DEF Running
<1>3. Mine /\ ~code => Understands
  BY DEF Mine
<1>4. Understands /\ cmd \in Scheduled => ("help" \notin asks => ~Typed("help")) /\ (Typed("db") => "explicit" \in asks)
  BY DEF Understands
<1> QED BY <1>1, <1>2, <1>3, <1>4

\* A flag that was typed is set by the time the command runs.
LEMMA TypedIsSet ==
  ASSUME Running, pc = "run", Understands, NEW f, f # "db", Typed(f)
  PROVE  Has(f)
<1>1. PICK n \in DOMAIN line.argv : Sets(line.argv, n) /\ line.argv[n].flag = f
  BY TypedSets DEF Typed
<1>2. TypedIn(argv, f)
  BY <1>1 DEF Understands
<1>3. PICK m \in DOMAIN argv : Sets(argv, m) /\ argv[m].flag = f
  BY <1>2, TypedSets
<1> QED BY <1>3 DEF Running, RunInv

\* A command without a database of its own knows whether it was asked for help.
LEMMA HelpIsSet ==
  ASSUME Running, pc = "run", cmd \notin Scheduled, Typed("help")
  PROVE  Has("help")
<1>1. ~code /\ Mine
  BY DEF Running, Early, Unread, Helped
<1>2. Understands
  BY <1>1 DEF Mine
<1> QED BY <1>2, TypedIsSet

\* Whatever ends without work keeps the promises, if it does not act where help was asked for.
LEMMA Ends ==
  ASSUME Running, pc \in {"parse", "run"}, pc' = "done",
         UNCHANGED <<line, cmd, opened, lock>>, effect' \notin {"read", "write"},
         Typed("help") => effect' \in {"usage", "refused", "debug"}
  PROVE  EntryInv'
<1>1. Typed("help") => lock = "none"
  BY Opened
<1>2. ~Works'
  BY DEF Works
<1>3. Typed("help")' <=> Typed("help")
  BY DEF Typed
<1>4. WritesLocked' /\ OneDatabase'
  BY <1>1, <1>2, <1>3 DEF WritesLocked, OneDatabase
<1> QED BY <1>4 DEF EntryInv, Ending

\* And so does work on what was opened, under the lock that goes with it.
LEMMA Worked ==
  ASSUME Running, pc = "run", pc' = "done", UNCHANGED <<line, cmd, opened, lock>>,
         effect' \in {"read", "write"}, opened # "none",
         effect' = "write" => Exclusive, ~Typed("debug")
  PROVE  EntryInv'
<1>1. /\ ~Typed("help") /\ lock = IF Exclusive THEN "exclusive" ELSE "shared"
      /\ Typed("db") \/ cmd \in {"set", "check", "ready"} => opened = "given"
  BY Opened
<1>2. (Typed("help")' <=> Typed("help")) /\ (Typed("debug")' <=> Typed("debug")) /\ (Typed("db")' <=> Typed("db"))
  BY DEF Typed
<1>3. WritesLocked' /\ OneDatabase'
  BY <1>1, <1>2 DEF WritesLocked, OneDatabase, Works
<1> QED BY <1>3 DEF EntryInv, Ending

\* ParseFails ends with an error, or with the usage.
LEMMA ParseFailsKeeps ==
  ASSUME Running, ParseFails
  PROVE  EntryInv'
<1>1. /\ pc = "parse" /\ pc' = "done" /\ UNCHANGED <<line, cmd, opened, lock>>
      /\ effect' \in {"usage", "refused"}
  BY DEF ParseFails, ParseError, Stops, Refused, Ended, Goto, store
<1> QED BY <1>1, Ends

-----------------------------------------------------------------------------
(* The handlers.                                                             *)

\* scheduler_run works only for a line without error, and on an open store.
LEMMA SchedulerKeeps ==
  ASSUME Running, RunScheduler
  PROVE  EntryInv'
<1>1. /\ pc = "run" /\ handler = "scheduler" /\ pc' = "done" /\ UNCHANGED <<line, cmd, opened, lock>>
      /\ effect' = IF Has("help") THEN "usage"
                   ELSE IF ~WellFormed \/ opened = "none" THEN "refused"
                   ELSE IF cmd \in {"new", "set"} THEN "write"
                   ELSE IF cmd = "todo" THEN "crash" ELSE "read"
  BY DEF RunScheduler, Ended, Goto, store
<1>2. opened # "none" => ~Typed("help") /\ Understands
  BY <1>1, Opened
<1>3. CASE effect' \in {"read", "write"}
  <2>1. opened # "none" /\ WellFormed /\ (effect' = "write" => cmd \in {"new", "set"})
    BY <1>1, <1>3
  <2>2. ~Has("debug")
    BY <2>1 DEF WellFormed, TextOnly
  <2>3. ~Typed("debug")
    BY <2>1, <2>2, <1>1, <1>2, TypedIsSet
  <2>4. effect' = "write" => Exclusive
    BY <2>1 DEF Exclusive
  <2> QED BY <2>1, <2>3, <2>4, <1>1, <1>3, Worked
<1>4. CASE effect' \notin {"read", "write"}
  <2>1. Typed("help") => effect' \in {"usage", "refused", "debug"}
    BY <1>1, <1>2
  <2> QED BY <2>1, <1>1, <1>4, Ends
<1> QED BY <1>3, <1>4

\* How an answer of the text commands is carried out.
LEMMA Answered ==
  ASSUME NEW e, Answers(e)
  PROVE  /\ pc' = "done" /\ effect' = (IF Has("help") THEN "usage" ELSE e)
         /\ UNCHANGED <<line, cmd, opened, lock>>
  BY DEF Answers, Ended, Goto, store

\* ls finds what to explain, what to update and that "--" is no query where the scan did.
LEMMA LsKeeps ==
  ASSUME Running, RunLs
  PROVE  EntryInv'
<1> DEFINE e == IF ~Compiles THEN "refused"
                ELSE IF Has("debug") THEN "debug"
                ELSE IF (Has("update") /\ rest = <<>>) \/ ~Somewhere THEN "refused"
                ELSE IF Has("update") THEN "write" ELSE "read"
<1>1. pc = "run" /\ handler = "text" /\ cmd = "ls" /\ Answers(e)
  BY DEF RunLs, RunsText
<1>2. pc' = "done" /\ effect' = (IF Has("help") THEN "usage" ELSE e) /\ UNCHANGED <<line, cmd, opened, lock>>
  BY <1>1, Answered
<1>3. CASE effect' \in {"read", "write"}
  <2>1. Compiles /\ ~Has("debug") /\ (effect' = "write" => Has("update"))
    BY <1>2, <1>3
  <2>2. opened # "none"
    <3> SUFFICES ASSUME opened = "none" PROVE FALSE
      OBVIOUS
    <3>1. "debug" \in asks /\ Scanned(argv)
      <4>1. cmd \notin Unscheduled \cup {"todo"} /\ cmd \in Scheduled
        BY <1>1 DEF Unscheduled, Scheduled
      <4> QED BY <4>1, <1>1 DEF Running, DispatchInv
    <3>2. CASE TypedIn(argv, "debug")
      <4>1. PICK n \in DOMAIN argv : Sets(argv, n) /\ argv[n].flag = "debug"
        BY <3>2, TypedSets
      <4> QED BY <4>1, <1>1, <2>1 DEF Running, RunInv
    <3>3. CASE EndIn(argv)
      BY <3>3, <1>1, <2>1 DEF Running, RunInv, Compiles
    <3> QED BY <3>1, <3>2, <3>3 DEF Scanned
  <2>3. Understands
    BY <2>2, <1>1, Opened
  <2>4. ~Typed("debug")
    BY <2>1, <2>3, <1>1, TypedIsSet
  <2>5. Has("update") => Exclusive
    <3> SUFFICES ASSUME Has("update") PROVE Exclusive
      OBVIOUS
    <3>1. ~Loops
      BY <1>1 DEF Loops
    <3>2. TypedIn(argv, "update")
      BY <3>1, <1>1 DEF Has, Running, FlagInv
    <3>3. cmd \in Scheduled
      BY <1>1 DEF Scheduled
    <3> QED BY <3>2, <3>3, <1>1 DEF Running, DispatchInv, Scanned, Exclusive
  <2> QED BY <2>1, <2>2, <2>4, <2>5, <1>1, <1>2, <1>3, Worked
<1>4. CASE effect' \notin {"read", "write"}
  <2>1. effect' \in {"usage", "refused", "debug"}
    BY <1>2, <1>4
  <2> QED BY <2>1, <1>1, <1>2, <1>4, Ends
<1> QED BY <1>3, <1>4

\* find and todo work on what the scan opened, and know no -debug.
LEMMA FindKeeps ==
  ASSUME Running, RunFind
  PROVE  EntryInv'
<1> DEFINE e == IF rest # <<>> /\ Somewhere THEN "read" ELSE "refused"
<1>1. pc = "run" /\ handler = "text" /\ cmd = "find" /\ Answers(e)
  BY DEF RunFind, RunsText
<1>2. pc' = "done" /\ effect' = (IF Has("help") THEN "usage" ELSE e) /\ UNCHANGED <<line, cmd, opened, lock>>
  BY <1>1, Answered
<1>3. opened # "none"
  <2>1. cmd \notin Unscheduled \cup {"todo"} /\ cmd # "ls"
    BY <1>1 DEF Unscheduled
  <2> QED BY <2>1, <1>1 DEF Running, DispatchInv
<1>4. CASE effect' \in {"read", "write"}
  <2>1. effect' = "read" /\ Understands
    BY <1>1, <1>2, <1>3, <1>4, Opened
  <2>2. ~Has("debug")
    <3>1. Bools = {"help", "path-only"} /\ Words = {}
      BY <1>1 DEF Bools, Words, Of, TextFlags, FindFlags, Flags
    <3> QED BY <3>1, <1>1 DEF Has, Running, FlagInv
  <2>3. ~Typed("debug")
    BY <2>1, <2>2, <1>1, TypedIsSet
  <2> QED BY <2>1, <2>3, <1>1, <1>2, <1>3, Worked
<1>5. CASE effect' \notin {"read", "write"}
  <2>1. effect' \in {"usage", "refused"}
    BY <1>2, <1>5
  <2> QED BY <2>1, <1>1, <1>2, <1>5, Ends
<1> QED BY <1>4, <1>5

\* todo works only on an open store, which the scan opened exclusively.
LEMMA TodoKeeps ==
  ASSUME Running, RunTodo
  PROVE  EntryInv'
<1> DEFINE e == IF rest # <<>> /\ rest[1] = Word("file") /\ opened # "none" THEN "write" ELSE "refused"
<1>1. pc = "run" /\ handler = "text" /\ cmd = "todo" /\ Answers(e)
  BY DEF RunTodo, RunsText
<1>2. pc' = "done" /\ effect' = (IF Has("help") THEN "usage" ELSE e) /\ UNCHANGED <<line, cmd, opened, lock>>
  BY <1>1, Answered
<1>3. CASE effect' \in {"read", "write"}
  <2>1. opened # "none"
    BY <1>2, <1>3
  <2>2. Understands
    BY <2>1, <1>1, Opened
  <2>3. ~Has("debug")
    <3>1. Bools = {"help"} /\ Words = {"db", "s"}
      BY <1>1 DEF Bools, Words, Of, TextFlags, TodoFlags, Flags
    <3> QED BY <3>1, <1>1 DEF Has, Running, FlagInv
  <2>4. ~Typed("debug")
    BY <2>2, <2>3, <1>1, TypedIsSet
  <2>5. Exclusive
    BY <1>1 DEF Exclusive
  <2> QED BY <2>1, <2>4, <2>5, <1>1, <1>2, <1>3, Worked
<1>4. CASE effect' \notin {"read", "write"}
  <2>1. effect' \in {"usage", "refused"}
    BY <1>2, <1>4
  <2> QED BY <2>1, <1>1, <1>2, <1>4, Ends
<1> QED BY <1>3, <1>4

\* The commands without a database of their own.
LEMMA OwnKeeps ==
  ASSUME Running, RunTag \/ RunUntag \/ RunReport \/ RunId \/ RunRef \/ RunOwn
  PROVE  EntryInv'
<1>1. /\ pc = "run" /\ cmd \in Unscheduled
      /\ \E e \in {"told", "refused", "unlocked", "own"} : Answers(e)
  BY DEF RunTag, RunUntag, RunReport, RunId, RunRef, RunOwn, RunsText, Unscheduled
<1>2. PICK e \in {"told", "refused", "unlocked", "own"} : Answers(e)
  BY <1>1
<1>3. pc' = "done" /\ effect' = (IF Has("help") THEN "usage" ELSE e) /\ UNCHANGED <<line, cmd, opened, lock>>
  BY <1>2, Answered
<1>4. cmd \notin Scheduled
  BY <1>1 DEF Scheduled, Unscheduled
<1>5. Typed("help") => effect' = "usage"
  BY <1>1, <1>3, <1>4, HelpIsSet
<1> QED BY <1>1, <1>3, <1>5, Ends

\* help starts over with the command it is asked about, and nothing read or opened.
LEMMA HelpCommandKeeps ==
  ASSUME Running, RunHelp
  PROVE  EntryInv'
<1>0. Types /\ Early /\ (Mine \/ Helped)
  BY DEF Running
<1>1. /\ pc = "run" /\ cmd = "help" /\ cmd \notin Scheduled
      /\ UNCHANGED <<line, found, options, asks, db, code, opened, lock, handler>>
  BY DEF RunHelp, store, Scheduled
<1>2. /\ asks = {} /\ options /\ ~code /\ opened = "none" /\ lock = "none" /\ handler = "text"
  BY <1>0, <1>1 DEF Early, Unread, Untouched
<1>3. CASE pc' = "done" /\ cmd' = cmd /\ effect' \in {"usage", "refused"}
  BY <1>1, <1>3, Ends
<1>4. CASE /\ ~Has("help") /\ cmd' \in Scheduled \cup Unscheduled /\ argv' = <<Flag("help")>>
           /\ rest' = <<>> /\ at' = 1 /\ flags' = {} /\ pc' = "main" /\ effect' = effect
  <2>1. Types'
    <3>1. <<Flag("help")>> \in Seq(Plain) /\ <<>> \in Seq(Plain) /\ 1 \in 1 .. Len(<<Flag("help")>>) + 1
      BY WordsArePlain
    <3> QED BY <3>1, <1>0, <1>1, <1>4 DEF Types
  <2>2. Early'
    BY <1>1, <1>2, <1>4 DEF Early, Unread, Untouched
  <2>3. Helped'
    <3>1. ~Typed("help")
      BY <1>1, <1>4, HelpIsSet
    <3> QED BY <3>1, <1>1, <1>2, <1>4 DEF Helped, Typed, Untouched
  <2>4. ScanInv' /\ DispatchInv' /\ ParseInv' /\ FlagInv' /\ RunInv'
    BY <1>4 DEF ScanInv, DispatchInv, ParseInv, FlagInv, RunInv
  <2> QED BY <2>1, <2>2, <2>3, <2>4 DEF EntryInv, Running
<1> QED BY <1>3, <1>4, <1>1 DEF RunHelp, Ended, Goto

-----------------------------------------------------------------------------
\* The invariant holds for every line as it is typed.
LEMMA EntryInit == SpelledOut /\ Init => EntryInv
<1> SUFFICES ASSUME SpelledOut, Init PROVE EntryInv
  OBVIOUS
<1>1. /\ line \in Lines /\ pc = "main" /\ at = 1 /\ cmd = line.cmd /\ argv = line.argv
      /\ options = TRUE /\ asks = {} /\ code = FALSE /\ rest = <<>> /\ opened = "none"
      /\ lock = "none" /\ handler = "text" /\ flags = {} /\ effect = "none"
  BY DEF Init
<1>2. argv \in Seq(Plain)
  <2>1. argv \in Seq(Arg)
    BY <1>1, LinesAssumption
  <2>2. DOMAIN argv = 1 .. Len(argv) /\ \A n \in 1 .. Len(argv) : argv[n] \in Arg
    BY <2>1
  <2>3. \A n \in 1 .. Len(argv) : Agreed(argv[n])
    BY <2>2, <1>1 DEF SpelledOut
  <2>4. \A n \in 1 .. Len(argv) : argv[n] \in Plain
    BY <2>2, <2>3 DEF Plain
  <2>5. Range(argv) \subseteq Plain
    BY <2>1, <2>4, RangeEquality
  <2>6. argv \in Seq(Range(argv))
    BY <2>1, SeqOfRange
  <2> QED BY <2>5, <2>6, SeqMonotonic
<1>3. Types
  <2>1. cmd \in Scheduled \cup Unscheduled \cup {"", "unknown"}
    BY <1>1, LinesAssumption
  <2>2. <<>> \in Seq(Plain)
    OBVIOUS
  <2>3. Len(argv) \in Nat
    BY <1>2
  <2>4. 1 \in 1 .. Len(argv) + 1
    BY <2>3
  <2> QED BY <2>1, <2>2, <2>4, <1>1, <1>2 DEF Types
<1>4. Early /\ Mine
  BY <1>1 DEF Early, Unread, Untouched, Mine, LineInv
<1>5. ScanInv /\ DispatchInv /\ ParseInv /\ FlagInv /\ RunInv
  BY <1>1 DEF ScanInv, DispatchInv, ParseInv, FlagInv, RunInv
<1> QED BY <1>3, <1>4, <1>5 DEF EntryInv, Running

\* Every step of the program keeps the invariant.
LEMMA EntryNext == EntryInv /\ [Next]_vars => EntryInv'
<1> SUFFICES ASSUME EntryInv, [Next]_vars PROVE EntryInv'
  OBVIOUS
<1>1. CASE UNCHANGED vars
  <2>1. /\ UNCHANGED <<line, found, pc, at, cmd, argv, options, asks, db, rest, code, opened, lock>>
        /\ UNCHANGED <<handler, flags, json, effect>>
    BY <1>1 DEF vars, scan, store, parsed
  <2>2. Types' <=> Types
    BY <2>1 DEF Types
  <2>3. Early' <=> Early
    BY <2>1 DEF Early, Untouched, Unread
  <2>4. ScanInv' <=> ScanInv
    BY <2>1 DEF ScanInv, Scanned
  <2>5. Mine' <=> Mine
    BY <2>1 DEF Mine, LineInv, Aligned, Understands, Typed
  <2>6. Helped' <=> Helped
    BY <2>1 DEF Helped, Typed, Untouched
  <2>7. DispatchInv' <=> DispatchInv
    BY <2>1, <2>6 DEF DispatchInv, Scanned, Exclusive
  <2>8. (Loops' <=> Loops) /\ Bools' = Bools /\ Words' = Words
    BY <2>1 DEF Loops, Bools, Words, Of
  <2>9. ParseInv' <=> ParseInv
    BY <2>1, <2>8 DEF ParseInv, Has
  <2>10. FlagInv' <=> FlagInv
    BY <2>1, <2>8 DEF FlagInv
  <2>11. RunInv' <=> RunInv
    BY <2>1 DEF RunInv, Has
  <2>12. Ending' <=> Ending
    BY <2>1 DEF Ending, WritesLocked, OneDatabase, Works, Typed
  <2> QED BY <2>2, <2>3, <2>4, <2>5, <2>6, <2>7, <2>9, <2>10, <2>11, <2>12 DEF EntryInv, Running
<1>2. CASE Next
  <2>1. pc # "done"
    BY <1>2 DEF Next, Main, ScanDb, Scan, DispatchDebug, DispatchHelp, DispatchOpen, ScanDone,
           ParseFlag, ParseOn, ParseEnd, ParseFails, ParseError, Stops, RunScheduler, RunLs, RunFind,
           RunTodo, RunTag, RunUntag, RunReport, RunId, RunRef, RunOwn, RunHelp, RunsText
  <2>2. Running
    BY <2>1 DEF EntryInv, Ending
  <2> QED BY <1>2, <2>2, MainKeeps, ScanDbKeeps, ScanKeeps, DebugKeeps, HelpKeeps, OpenKeeps,
          ParseFlagKeeps, ParseOnKeeps, ParseEndKeeps, ParseFailsKeeps, SchedulerKeeps, LsKeeps,
          FindKeeps, TodoKeeps, OwnKeeps, HelpCommandKeeps DEF Next
<1> QED BY <1>1, <1>2

\* In every reachable state of every line that is spelled out, EntryInv holds.
THEOREM EntryInvariant == SpelledOut => (Spec => []EntryInv)
<1> SUFFICES ASSUME SpelledOut PROVE Spec => []EntryInv
  OBVIOUS
<1>1. Init => EntryInv
  BY EntryInit
<1>2. EntryInv /\ [Next]_vars => EntryInv'
  BY EntryNext
<1> QED BY <1>1, <1>2, PTL DEF Spec

\* While a line is being read nothing has been done yet.
LEMMA EntrySafe == EntryInv => WritesLocked /\ OneDatabase
<1> SUFFICES ASSUME EntryInv PROVE WritesLocked /\ OneDatabase
  OBVIOUS
<1>1. Running => pc # "done" /\ effect = "none"
  BY DEF Running, Types
<1> QED BY <1>1 DEF EntryInv, Ending, WritesLocked, OneDatabase, Works

\* Whatever line is typed: what writes holds the exclusive lock, what reads holds one, and
\* who asks for help or for an explanation gets no work done.
THEOREM LockedAsTyped == SpelledOut => (Spec => []WritesLocked)
<1> SUFFICES ASSUME SpelledOut PROVE Spec => []WritesLocked
  OBVIOUS
<1>1. EntryInv => WritesLocked
  BY EntrySafe
<1> QED BY <1>1, EntryInvariant, PTL

\* Whatever line is typed: a database that is named is the one worked on, and set, check and
\* ready work on no other.
THEOREM NamedIsOpened == SpelledOut => (Spec => []OneDatabase)
<1> SUFFICES ASSUME SpelledOut PROVE Spec => []OneDatabase
  OBVIOUS
<1>1. EntryInv => OneDatabase
  BY EntrySafe
<1> QED BY <1>1, EntryInvariant, PTL

-----------------------------------------------------------------------------
(* Paths: sequences of parts, and trees.                                     *)

Cut(p, n) == SubSeq(p, 1, n)
Name == STRING \cup {"", ".", "..", "tasks", "none"}  \* the provers do not know which are strings
Real == Name \ {"", ".", ".."}

LEMMA Names == Seq(STRING) \subseteq Seq(Name) /\ {"", ".", "..", "tasks", "none"} \subseteq Name
<1>1. ASSUME NEW p \in Seq(STRING) PROVE p \in Seq(Name)
  <2>1. Len(p) \in Nat /\ p \in [1 .. Len(p) -> STRING]
    BY LenProperties
  <2>2. p \in [1 .. Len(p) -> Name]
    BY <2>1 DEF Name
  <2> HIDE DEF Name
  <2> QED BY <2>1, <2>2, SeqDef
<1> QED BY <1>1 DEF Name

\* The first parts of a path.
LEMMA CutIs ==
  ASSUME NEW p \in Seq(Name), NEW n \in 0 .. Len(p)
  PROVE  /\ Cut(p, n) \in Seq(Name) /\ Len(Cut(p, n)) = n
         /\ \A k \in 1 .. n : Cut(p, n)[k] = p[k]
         /\ \A m \in 0 .. n : Cut(Cut(p, n), m) = Cut(p, m)
<1>1. Cut(p, n) \in Seq(Name) /\ Len(Cut(p, n)) = n /\ \A k \in 1 .. n : Cut(p, n)[k] = p[k]
  BY DEF Cut
<1>2. ASSUME NEW m \in 0 .. n PROVE Cut(Cut(p, n), m) = Cut(p, m)
  <2>1. /\ Cut(Cut(p, n), m) \in Seq(Name) /\ Len(Cut(Cut(p, n), m)) = m
        /\ \A k \in 1 .. m : Cut(Cut(p, n), m)[k] = Cut(p, n)[k]
    BY <1>1 DEF Cut
  <2>2. Cut(p, m) \in Seq(Name) /\ Len(Cut(p, m)) = m /\ \A k \in 1 .. m : Cut(p, m)[k] = p[k]
    BY DEF Cut
  <2>3. \A k \in 1 .. m : Cut(Cut(p, n), m)[k] = Cut(p, m)[k]
    BY <1>1, <2>1, <2>2
  <2> QED BY <2>1, <2>2, <2>3, SeqEqual
<1> QED BY <1>1, <1>2

LEMMA CutEnds == ASSUME NEW p \in Seq(Name) PROVE Cut(p, Len(p)) = p /\ Cut(p, 0) = <<>>
<1>1. Cut(p, 0) \in Seq(Name) /\ Len(Cut(p, 0)) = 0
  BY CutIs
<1> QED BY <1>1, EmptySeq, SubSeqFull DEF Cut

\* One part more.
LEMMA CutAppend ==
  ASSUME NEW p \in Seq(Name), NEW x \in Name
  PROVE  /\ Append(p, x) \in Seq(Name) /\ Len(Append(p, x)) = Len(p) + 1
         /\ P!Front(Append(p, x)) = p /\ P!Last(Append(p, x)) = x /\ Append(p, x) # <<>>
         /\ \A n \in 0 .. Len(p) : Cut(Append(p, x), n) = Cut(p, n)
<1> DEFINE q == Append(p, x)
<1>1. q \in Seq(Name) /\ Len(q) = Len(p) + 1 /\ q[Len(p) + 1] = x /\ \A k \in 1 .. Len(p) : q[k] = p[k]
  <2>1. q \in Seq(Name) /\ Len(q) = Len(p) + 1
    BY AppendProperties
  <2>2. q[Len(p) + 1] = x
    BY AppendProperties
  <2>3. \A k \in 1 .. Len(p) : q[k] = p[k]
    OBVIOUS
  <2> QED BY <2>1, <2>2, <2>3
<1>2. q # <<>>
  BY AppendProperties
<1> HIDE DEF q
<1>3. ASSUME NEW n \in 0 .. Len(p) PROVE Cut(q, n) = Cut(p, n)
  <2>1. /\ Cut(q, n) \in Seq(Name) /\ Len(Cut(q, n)) = n /\ \A k \in 1 .. n : Cut(q, n)[k] = q[k]
        /\ Cut(p, n) \in Seq(Name) /\ Len(Cut(p, n)) = n /\ \A k \in 1 .. n : Cut(p, n)[k] = p[k]
    BY <1>1, CutIs
  <2>2. \A k \in 1 .. n : Cut(q, n)[k] = Cut(p, n)[k]
    BY <1>1, <2>1
  <2> QED BY <2>1, <2>2, SeqEqual
<1>4. P!Front(q) = p
  <2>1. P!Front(q) = Cut(q, Len(p))
    BY <1>1 DEF P!Front, Cut
  <2> QED BY <1>3, <2>1, CutEnds
<1>5. P!Last(q) = x
  BY <1>1 DEF P!Last
<1> QED BY <1>1, <1>2, <1>3, <1>4, <1>5 DEF q

LEMMA CutNext ==
  ASSUME NEW p \in Seq(Name), NEW n \in 1 .. Len(p)
  PROVE  /\ Cut(p, n) = Append(Cut(p, n - 1), p[n]) /\ Cut(p, n - 1) \in Seq(Name) /\ p[n] \in Name
         /\ P!Front(Cut(p, n)) = Cut(p, n - 1) /\ P!Last(Cut(p, n)) = p[n] /\ Cut(p, n) # <<>>
<1>1. n - 1 \in 0 .. Len(p) /\ p[n] \in Name
  BY ElementOfSeq
<1>2. Cut(p, n - 1) \in Seq(Name) /\ Len(Cut(p, n - 1)) = n - 1 /\ \A k \in 1 .. n - 1 : Cut(p, n - 1)[k] = p[k]
  BY <1>1, CutIs
<1>3. Cut(p, n) \in Seq(Name) /\ Len(Cut(p, n)) = n /\ \A k \in 1 .. n : Cut(p, n)[k] = p[k]
  BY CutIs
<1> DEFINE q == Append(Cut(p, n - 1), p[n])
<1>4. q \in Seq(Name) /\ Len(q) = n /\ q[n] = p[n] /\ \A k \in 1 .. n - 1 : q[k] = p[k]
  BY <1>1, <1>2, AppendProperties
<1>5. \A k \in 1 .. n : q[k] = Cut(p, n)[k]
  BY <1>3, <1>4
<1> HIDE DEF q
<1>6. Cut(p, n) = q
  BY <1>3, <1>4, <1>5, SeqEqual
<1>7. P!Front(q) = Cut(p, n - 1) /\ P!Last(q) = p[n] /\ q # <<>>
  BY <1>1, <1>2, CutAppend DEF q
<1>8. q = Append(Cut(p, n - 1), p[n])
  BY DEF q
<1> QED BY <1>1, <1>2, <1>6, <1>7, <1>8

\* What is there is below directories, and its path has real names.
LEMMA TreeIs ==
  ASSUME NEW t \in Trees, NEW p \in DOMAIN t
  PROVE  /\ p \in Seq(Name) /\ t[p].kind \in P!Kinds
         /\ \A n \in 0 .. Len(p) - 1 : Cut(p, n) \in DOMAIN t /\ t[Cut(p, n)].kind \in P!Directories
         /\ \A n \in 1 .. Len(p) : p[n] \in Real
<1>1. /\ \A q \in DOMAIN t : q \in Seq(Name) /\ t[q].kind \in P!Kinds
      /\ \A q \in DOMAIN t \ {<<>>} : /\ P!Last(q) \notin {"", ".", ".."}
                                      /\ P!Front(q) \in DOMAIN t /\ t[P!Front(q)].kind \in P!Directories
  BY TreesAssumption, Names DEF P!PathsAssumption
<1>2. p \in Seq(Name) /\ Len(p) \in Nat
  <2>1. p \in Seq(Name)
    BY <1>1
  <2> QED BY <2>1
<1>3. \A n \in 0 .. Len(p) : Cut(p, Len(p) - n) \in DOMAIN t
  <2> DEFINE Not == {n \in 0 .. Len(p) : Cut(p, Len(p) - n) \notin DOMAIN t}
  <2> SUFFICES ASSUME Not # {} PROVE FALSE
    OBVIOUS
  <2>1. PICK n \in Not : \A m \in Not : n <= m
    <3>1. Not \in SUBSET Nat
      OBVIOUS
    <3> HIDE DEF Not
    <3> QED BY <3>1, LeastOf
  <2>2. p \in Seq(Name) /\ Cut(p, Len(p)) \in DOMAIN t
    BY <1>1, CutEnds
  <2>3. n # 0 /\ n \in 0 .. Len(p) /\ Len(p) \in Nat
    BY <2>2
  <2>4. n - 1 \in 0 .. Len(p) /\ ~(n <= n - 1)
    BY <2>3
  <2>5. Cut(p, Len(p) - (n - 1)) \in DOMAIN t
    BY <2>1, <2>4
  <2>6. Len(p) - (n - 1) \in 1 .. Len(p) /\ Len(p) - (n - 1) - 1 = Len(p) - n
    BY <2>3
  <2>7. Cut(p, Len(p) - (n - 1)) # <<>> /\ P!Front(Cut(p, Len(p) - (n - 1))) = Cut(p, Len(p) - n)
    BY <2>2, <2>6, CutNext
  <2> QED BY <1>1, <2>1, <2>5, <2>7
<1>4. ASSUME NEW n \in 1 .. Len(p) PROVE p[n] \in Real /\ t[Cut(p, n - 1)].kind \in P!Directories /\ Cut(p, n - 1) \in DOMAIN t
  <2>2. Len(p) - n \in 0 .. Len(p) /\ Len(p) - (Len(p) - n) = n
    BY <1>2
  <2>3. Cut(p, n) \in DOMAIN t
    BY <1>3, <2>2
  <2>4. P!Front(Cut(p, n)) = Cut(p, n - 1) /\ P!Last(Cut(p, n)) = p[n] /\ Cut(p, n) # <<>> /\ p[n] \in Name
    BY <1>2, CutNext
  <2> QED BY <1>1, <2>3, <2>4 DEF Real
<1>5. ASSUME NEW n \in 0 .. Len(p) - 1 PROVE Cut(p, n) \in DOMAIN t /\ t[Cut(p, n)].kind \in P!Directories
  <2>1. n + 1 \in 1 .. Len(p) /\ (n + 1) - 1 = n
    BY <1>2
  <2> QED BY <1>4, <2>1
<1> QED BY <1>1, <1>4, <1>5

-----------------------------------------------------------------------------
(* Paths: what is found on a path, and what it says, part by part.           *)

\* The recursive function Places has the values its equation says: there is one that has.
PlacesTo(f, p, n) == f = [k \in 0 .. n |-> IF k = 0 THEN <<"at", <<>>>> ELSE P!Enter(P!Through(f[k - 1]), p[k])]
LEMMA PlacesAre ==
  ASSUME NEW p, Len(p) \in Nat
  PROVE  /\ P!Places(p)[0] = <<"at", <<>>>>
         /\ \A n \in 1 .. Len(p) : P!Places(p)[n] = P!Enter(P!Through(P!Places(p)[n - 1]), p[n])
<1>1. \A n \in Nat : \E f : PlacesTo(f, p, n)
  <2> SUFFICES ASSUME {n \in Nat : ~\E f : PlacesTo(f, p, n)} # {} PROVE FALSE
    OBVIOUS
  <2>1. PICK n \in Nat : (~\E f : PlacesTo(f, p, n)) /\ \A m \in Nat : (~\E f : PlacesTo(f, p, m)) => n <= m
    BY LeastOf
  <2>2. n # 0
    <3>1. PlacesTo([k \in 0 .. 0 |-> <<"at", <<>>>>], p, 0)
      BY DEF PlacesTo
    <3> QED BY <2>1, <3>1
  <2>3. n - 1 \in Nat /\ ~(n <= n - 1)
    BY <2>2
  <2>4. PICK f : PlacesTo(f, p, n - 1)
    BY <2>1, <2>3
  <2> DEFINE g == [k \in 0 .. n |-> IF k = n THEN P!Enter(P!Through(f[n - 1]), p[n]) ELSE f[k]]
  <2>5. \A k \in 0 .. n : g[k] = IF k = 0 THEN <<"at", <<>>>> ELSE P!Enter(P!Through(g[k - 1]), p[k])
    <3> SUFFICES ASSUME NEW k \in 0 .. n PROVE g[k] = IF k = 0 THEN <<"at", <<>>>> ELSE P!Enter(P!Through(g[k - 1]), p[k])
      OBVIOUS
    <3>1. CASE k = n
      <4>1. n - 1 \in 0 .. n /\ n - 1 # n /\ g[n - 1] = f[n - 1]
        BY <2>2, <2>3
      <4>2. g[n] = P!Enter(P!Through(f[n - 1]), p[n])
        OBVIOUS
      <4> HIDE DEF g
      <4> QED BY <2>2, <3>1, <4>1, <4>2
    <3>2. CASE k # n
      <4>1. k \in 0 .. n - 1 /\ g[k] = f[k] /\ (k # 0 => k - 1 \in 0 .. n /\ k - 1 # n /\ g[k - 1] = f[k - 1])
        BY <3>2
      <4>2. f[k] = IF k = 0 THEN <<"at", <<>>>> ELSE P!Enter(P!Through(f[k - 1]), p[k])
        <5> HIDE DEF g
        <5> QED BY <2>4, <4>1 DEF PlacesTo
      <4> HIDE DEF g
      <4> QED BY <4>1, <4>2
    <3> QED BY <3>1, <3>2
  <2>6. g = [k \in 0 .. n |-> g[k]]
    OBVIOUS
  <2> HIDE DEF g
  <2>7. PlacesTo(g, p, n)
    BY <2>5, <2>6 DEF PlacesTo
  <2> QED BY <2>1, <2>7
<1>2. PICK f : PlacesTo(f, p, Len(p))
  BY <1>1
<1>3. PlacesTo(P!Places(p), p, Len(p))
  BY <1>2, Zenon DEF P!Places, PlacesTo
<1>4. 0 \in 0 .. Len(p) /\ \A n \in 1 .. Len(p) : n \in 0 .. Len(p) /\ n # 0
  OBVIOUS
<1> QED BY <1>3, <1>4 DEF PlacesTo

\* And so has Saying.
SaysTo(f, p, n) == f = [k \in 0 .. n |-> IF k = 0 THEN <<>> ELSE P!Says(f[k - 1], p[k])]
LEMMA SayingAre ==
  ASSUME NEW p, Len(p) \in Nat
  PROVE  /\ DOMAIN P!Saying(p) = 0 .. Len(p) /\ P!Saying(p)[0] = <<>>
         /\ \A n \in 1 .. Len(p) : P!Saying(p)[n] = P!Says(P!Saying(p)[n - 1], p[n])
<1>1. \A n \in Nat : \E f : SaysTo(f, p, n)
  <2> SUFFICES ASSUME {n \in Nat : ~\E f : SaysTo(f, p, n)} # {} PROVE FALSE
    OBVIOUS
  <2>1. PICK n \in Nat : (~\E f : SaysTo(f, p, n)) /\ \A m \in Nat : (~\E f : SaysTo(f, p, m)) => n <= m
    BY LeastOf
  <2>2. n # 0
    <3>1. SaysTo([k \in 0 .. 0 |-> <<>>], p, 0)
      BY DEF SaysTo
    <3> QED BY <2>1, <3>1
  <2>3. n - 1 \in Nat /\ ~(n <= n - 1)
    BY <2>2
  <2>4. PICK f : SaysTo(f, p, n - 1)
    BY <2>1, <2>3
  <2> DEFINE g == [k \in 0 .. n |-> IF k = n THEN P!Says(f[n - 1], p[n]) ELSE f[k]]
  <2>5. \A k \in 0 .. n : g[k] = IF k = 0 THEN <<>> ELSE P!Says(g[k - 1], p[k])
    <3> SUFFICES ASSUME NEW k \in 0 .. n PROVE g[k] = IF k = 0 THEN <<>> ELSE P!Says(g[k - 1], p[k])
      OBVIOUS
    <3>1. CASE k = n
      <4>1. n - 1 \in 0 .. n /\ n - 1 # n /\ g[n - 1] = f[n - 1]
        BY <2>2, <2>3
      <4>2. g[n] = P!Says(f[n - 1], p[n])
        OBVIOUS
      <4> HIDE DEF g
      <4> QED BY <2>2, <3>1, <4>1, <4>2
    <3>2. CASE k # n
      <4>1. k \in 0 .. n - 1 /\ g[k] = f[k] /\ (k # 0 => k - 1 \in 0 .. n /\ k - 1 # n /\ g[k - 1] = f[k - 1])
        BY <3>2
      <4>2. f[k] = IF k = 0 THEN <<>> ELSE P!Says(f[k - 1], p[k])
        <5> HIDE DEF g
        <5> QED BY <2>4, <4>1 DEF SaysTo
      <4> HIDE DEF g
      <4> QED BY <4>1, <4>2
    <3> QED BY <3>1, <3>2
  <2>6. g = [k \in 0 .. n |-> g[k]]
    OBVIOUS
  <2> HIDE DEF g
  <2>7. SaysTo(g, p, n)
    BY <2>5, <2>6 DEF SaysTo
  <2> QED BY <2>1, <2>7
<1>2. PICK f : SaysTo(f, p, Len(p))
  BY <1>1
<1>3. SaysTo(P!Saying(p), p, Len(p))
  BY <1>2, Zenon DEF P!Saying, SaysTo
<1>4. 0 \in 0 .. Len(p) /\ \A n \in 1 .. Len(p) : n \in 0 .. Len(p) /\ n # 0
  OBVIOUS
<1> QED BY <1>3, <1>4 DEF SaysTo

\* Parts say a path.
LEMMA SaysIs ==
  ASSUME NEW s \in Seq(Name), NEW x \in Name
  PROVE  /\ x \in {"", "."} => P!Says(s, x) = s
         /\ x = ".." => P!Says(s, x) = IF s = <<>> THEN s ELSE P!Front(s)
         /\ x \in Real => P!Says(s, x) = Append(s, x)
         /\ s # <<>> => P!Front(s) \in Seq(Name) /\ s = Append(P!Front(s), s[Len(s)]) /\ s[Len(s)] \in Name
         /\ P!Says(s, x) \in Seq(Name)
<1>1. /\ x \in {"", "."} => P!Says(s, x) = s
      /\ x = ".." => P!Says(s, x) = IF s = <<>> THEN s ELSE P!Front(s)
      /\ x \in Real => P!Says(s, x) = Append(s, x)
  BY DEF P!Says, Real
<1>2. ASSUME s # <<>> PROVE P!Front(s) \in Seq(Name) /\ s = Append(P!Front(s), s[Len(s)]) /\ s[Len(s)] \in Name
  <2>1. Len(s) \in 1 .. Len(s)
    BY <1>2, EmptySeq
  <2>2. Cut(s, Len(s)) = s
    BY CutEnds
  <2> QED BY <2>1, <2>2, CutNext
<1>3. x \in Real \/ x \in {"", "."} \/ x = ".."
  BY DEF Real
<1>4. x \in Real => Append(s, x) \in Seq(Name)
  BY CutAppend
<1> QED BY <1>1, <1>2, <1>3, <1>4

LEMMA SayingIs ==
  ASSUME NEW p \in Seq(Name)
  PROVE  /\ DOMAIN P!Saying(p) = 0 .. Len(p) /\ P!Saying(p)[0] = <<>>
         /\ \A n \in 0 .. Len(p) : P!Saying(p)[n] \in Seq(Name)
         /\ \A n \in 1 .. Len(p) : P!Saying(p)[n] = P!Says(P!Saying(p)[n - 1], p[n])
<1>1. Len(p) \in Nat
  OBVIOUS
<1>2. /\ DOMAIN P!Saying(p) = 0 .. Len(p) /\ P!Saying(p)[0] = <<>>
      /\ \A n \in 1 .. Len(p) : P!Saying(p)[n] = P!Says(P!Saying(p)[n - 1], p[n])
  BY <1>1, SayingAre
<1>3. \A n \in 0 .. Len(p) : P!Saying(p)[n] \in Seq(Name)
  <2> DEFINE Not == {n \in 0 .. Len(p) : P!Saying(p)[n] \notin Seq(Name)}
  <2> SUFFICES ASSUME Not # {} PROVE FALSE
    OBVIOUS
  <2>1. PICK n \in Not : \A m \in Not : n <= m
    <3>1. Not \in SUBSET Nat
      OBVIOUS
    <3> HIDE DEF Not
    <3> QED BY <3>1, LeastOf
  <2>2. n # 0
    <3>1. <<>> \in Seq(Name)
      BY EmptySeq
    <3> QED BY <1>2, <2>1, <3>1
  <2>3. n \in 1 .. Len(p) /\ n - 1 \in 0 .. Len(p) /\ ~(n <= n - 1)
    BY <2>2
  <2>4. P!Saying(p)[n - 1] \in Seq(Name) /\ p[n] \in Name
    BY <2>1, <2>3, ElementOfSeq
  <2>5. P!Says(P!Saying(p)[n - 1], p[n]) \in Seq(Name)
    BY <2>4, SaysIs
  <2> QED BY <1>2, <2>1, <2>3, <2>5
<1> QED BY <1>2, <1>3

\* A directory that can be reached, and whether a directory on the way to a place may not be searched.
Reached(p) == P!Kind(p) \in P!Directories /\ \A q \in P!Above(p) : P!Kind(q) # "dark"
Barred(p, n) == \E k \in 0 .. n - 1 : P!Kind(Cut(p, k)) = "dark"

\* lstat of what has only directories above it.
LEMMA LstatIs ==
  ASSUME NEW p \in Seq(Name), \A n \in 0 .. Len(p) - 1 : P!Kind(Cut(p, n)) \in P!Directories
  PROVE  P!Lstat(p) = IF Barred(p, Len(p)) THEN <<"denied">> ELSE <<"at", p>>
<1> DEFINE Right(n) == P!Places(p)[n] = IF Barred(p, n) THEN <<"denied">> ELSE <<"at", Cut(p, n)>>
<1>1. Len(p) \in Nat
  OBVIOUS
<1>2. /\ P!Places(p)[0] = <<"at", <<>>>>
      /\ \A n \in 1 .. Len(p) : P!Places(p)[n] = P!Enter(P!Through(P!Places(p)[n - 1]), p[n])
  BY <1>1, PlacesAre
<1>3. \A n \in 0 .. Len(p) : Right(n)
  <2> DEFINE Not == {n \in 0 .. Len(p) : ~Right(n)}
  <2> SUFFICES ASSUME Not # {} PROVE FALSE
    OBVIOUS
  <2>1. PICK n \in Not : \A m \in Not : n <= m
    <3>1. Not \in SUBSET Nat
      OBVIOUS
    <3> HIDE DEF Not
    <3> QED BY <3>1, LeastOf
  <2>2. n # 0
    <3>1. Cut(p, 0) = <<>>
      BY CutEnds
    <3>2. ~Barred(p, 0)
      BY DEF Barred
    <3>3. Right(0)
      BY <1>2, <3>1, <3>2
    <3> QED BY <2>1, <3>3
  <2>3. n \in 1 .. Len(p) /\ n - 1 \in 0 .. Len(p) - 1 /\ n - 1 \in 0 .. Len(p) /\ ~(n <= n - 1)
    BY <1>1, <2>2
  <2>4. Right(n - 1)
    <3> HIDE DEF Right
    <3> QED BY <2>1, <2>3
  <2> DEFINE q == Cut(p, n - 1)
  <2>5. Cut(p, n) = Append(q, p[n]) /\ P!Kind(q) \in P!Directories
    BY <2>3, CutNext
  <2>6. Barred(p, n) <=> Barred(p, n - 1) \/ P!Kind(q) = "dark"
    BY <2>3 DEF Barred
  <2>7. P!Places(p)[n] = P!Enter(P!Through(P!Places(p)[n - 1]), p[n])
    BY <1>2, <2>3
  <2>8. CASE Barred(p, n - 1)
    <3>1. P!Places(p)[n - 1] = <<"denied">>
      BY <2>4, <2>8
    <3>2. <<"denied">>[1] # "at"
      OBVIOUS
    <3>3. P!Through(<<"denied">>) = <<"denied">>
      BY <3>2, Zenon DEF P!Through
    <3>4. P!Enter(<<"denied">>, p[n]) = <<"denied">>
      BY <3>2, SMT DEF P!Enter
    <3> QED BY <2>6, <2>7, <2>8, <3>1, <3>3, <3>4
  <2>9. CASE ~Barred(p, n - 1)
    <3> HIDE DEF q
    <3>1. P!Places(p)[n - 1] = <<"at", q>>
      BY <2>4, <2>9 DEF q
    <3>2. P!Through(<<"at", q>>) = <<"at", q>>
      BY <2>5 DEF P!Through, P!Leads, P!Directories
    <3>3. P!Enter(<<"at", q>>, p[n]) = IF P!Kind(q) = "dark" THEN <<"denied">> ELSE <<"at", Append(q, p[n])>>
      BY <2>5 DEF P!Enter, P!Directories
    <3>4. Right(n)
      BY <2>5, <2>6, <2>7, <2>9, <3>1, <3>2, <3>3
    <3> QED BY <3>4
  <2> QED BY <2>8, <2>9
<1>4. Right(Len(p)) /\ Cut(p, Len(p)) = p
  BY <1>1, <1>3, CutEnds
<1> QED BY <1>4 DEF P!Lstat

-----------------------------------------------------------------------------
(* Paths: what can be reached, and the parts that are left.                  *)

\* What can be reached is there, and found where it is.
LEMMA ReachedIs ==
  ASSUME tree \in Trees, NEW p, Reached(p)
  PROVE  /\ p \in DOMAIN tree /\ p \in Seq(Name) /\ \A n \in 1 .. Len(p) : p[n] \in Real
         /\ P!Lstat(p) = <<"at", p>> /\ P!LstatKind(p) = P!Kind(p)
         /\ p # <<>> => Reached(P!Front(p))
<1>1. p \in DOMAIN tree
  BY DEF Reached, P!Kind, P!Directories
<1>2. /\ p \in Seq(Name) /\ \A n \in 1 .. Len(p) : p[n] \in Real
      /\ \A n \in 0 .. Len(p) - 1 : Cut(p, n) \in DOMAIN tree /\ tree[Cut(p, n)].kind \in P!Directories
  BY <1>1, TreeIs
<1>3. \A n \in 0 .. Len(p) - 1 : P!Kind(Cut(p, n)) \in P!Directories /\ P!Kind(Cut(p, n)) # "dark"
  BY <1>2 DEF Reached, P!Kind, P!Above, Cut
<1>4. ~Barred(p, Len(p))
  BY <1>3 DEF Barred
<1>5. P!Lstat(p) = <<"at", p>>
  BY <1>2, <1>3, <1>4, LstatIs
<1>6. P!LstatKind(p) = P!Kind(p)
  BY <1>5 DEF P!LstatKind
<1>7. ASSUME p # <<>> PROVE Reached(P!Front(p))
  <2>1. Len(p) \in Nat \ {0}
    BY <1>2, <1>7, EmptySeq
  <2> DEFINE m == Len(p) - 1
  <2>2. m \in 0 .. Len(p) - 1 /\ m \in 0 .. Len(p)
    BY <2>1
  <2>3. P!Front(p) = Cut(p, m)
    BY DEF P!Front, Cut
  <2> HIDE DEF m
  <2>4. Len(Cut(p, m)) = m /\ \A n \in 0 .. m : Cut(Cut(p, m), n) = Cut(p, n)
    BY <1>2, <2>2, CutIs
  <2>5. ASSUME NEW q \in P!Above(Cut(p, m)) PROVE P!Kind(q) # "dark"
    <3>1. PICK n \in 0 .. m - 1 : q = Cut(Cut(p, m), n)
      BY <2>4 DEF P!Above, Cut
    <3>2. n \in 0 .. m /\ n \in 0 .. Len(p) - 1
      BY <2>1, <2>2
    <3> QED BY <1>3, <2>4, <3>1, <3>2
  <2> QED BY <1>3, <2>2, <2>3, <2>5 DEF Reached
<1> QED BY <1>1, <1>2, <1>5, <1>6, <1>7

\* A name in what can be reached.
LEMMA NameIn ==
  ASSUME tree \in Trees, NEW p, Reached(p), NEW x \in Real
  PROVE  /\ P!Kind(p) = "dark" => P!Lstat(Append(p, x)) = <<"denied">>
         /\ P!Kind(p) # "dark" => P!Lstat(Append(p, x)) = <<"at", Append(p, x)>>
         /\ Reached(Append(p, x)) <=> P!Kind(p) # "dark" /\ P!Kind(Append(p, x)) \in P!Directories
         /\ p \in P!Above(Append(p, x))
<1> DEFINE q == Append(p, x)
<1>1. p \in DOMAIN tree /\ p \in Seq(Name) /\ x \in Name /\ Len(p) \in Nat
  <2>1. p \in DOMAIN tree /\ p \in Seq(Name) /\ x \in Name
    BY ReachedIs DEF Real
  <2> QED BY <2>1
<1>2. q \in Seq(Name) /\ Len(q) = Len(p) + 1 /\ \A n \in 0 .. Len(p) : Cut(q, n) = Cut(p, n)
  BY <1>1, CutAppend
<1> HIDE DEF q
<1>3. Cut(p, Len(p)) = p
  BY <1>1, CutEnds
<1>4. \A n \in 0 .. Len(p) - 1 : P!Kind(Cut(p, n)) \in P!Directories /\ P!Kind(Cut(p, n)) # "dark"
  BY <1>1, TreeIs DEF Reached, P!Kind, P!Above, Cut
<1>5. \A n \in 0 .. Len(q) - 1 : n \in 0 .. Len(p) - 1 \/ n = Len(p)
  BY <1>1, <1>2
<1>6. \A n \in 0 .. Len(q) - 1 : P!Kind(Cut(q, n)) \in P!Directories
  BY <1>1, <1>2, <1>3, <1>4, <1>5 DEF Reached
<1>7. Barred(q, Len(q)) <=> P!Kind(p) = "dark"
  <2>1. Len(p) \in 0 .. Len(q) - 1
    BY <1>1, <1>2
  <2> QED BY <1>2, <1>3, <1>4, <1>5, <2>1 DEF Barred
<1>8. P!Lstat(q) = IF P!Kind(p) = "dark" THEN <<"denied">> ELSE <<"at", q>>
  BY <1>2, <1>6, <1>7, LstatIs
<1>9. p \in P!Above(q) /\ ((\A a \in P!Above(q) : P!Kind(a) # "dark") <=> P!Kind(p) # "dark")
  <2>1. P!Above(q) = {Cut(q, n) : n \in 0 .. Len(q) - 1}
    BY DEF P!Above, Cut
  <2>2. Len(p) \in 0 .. Len(q) - 1 /\ Len(p) \in 0 .. Len(p)
    BY <1>1, <1>2
  <2>3. \A n \in 0 .. Len(q) - 1 : Cut(q, n) = Cut(p, n)
    BY <1>1, <1>2
  <2> QED BY <1>3, <1>4, <1>5, <2>1, <2>2, <2>3
<1> QED BY <1>8, <1>9 DEF q, Reached

\* What is left of a path.
Remain(p, k) == SubSeq(p, k + 1, Len(p))
LEMMA RemainIs ==
  ASSUME NEW p \in Seq(Name)
  PROVE  /\ Remain(p, 0) = p
         /\ \A k \in 0 .. Len(p) : /\ Remain(p, k) \in Seq(Name) /\ Len(Remain(p, k)) = Len(p) - k
                                   /\ \A n \in 1 .. Len(p) - k : Remain(p, k)[n] = p[k + n]
                                   /\ Remain(p, k) = <<>> <=> k = Len(p)
         /\ \A k \in 0 .. Len(p) - 1 : Tail(Remain(p, k)) = Remain(p, k + 1)
<1>1. Len(p) \in Nat
  OBVIOUS
<1>2. ASSUME NEW k \in 0 .. Len(p)
      PROVE  /\ Remain(p, k) \in Seq(Name) /\ Len(Remain(p, k)) = Len(p) - k
             /\ \A n \in 1 .. Len(p) - k : Remain(p, k)[n] = p[k + n]
             /\ Remain(p, k) = <<>> <=> k = Len(p)
  <2>1. Remain(p, k) \in Seq(Name) /\ Len(Remain(p, k)) = Len(p) - k /\ \A n \in 1 .. Len(p) - k : Remain(p, k)[n] = p[k + n]
    BY <1>1 DEF Remain
  <2> QED BY <1>1, <2>1, EmptySeq
<1>3. Remain(p, 0) = p
  BY SubSeqFull DEF Remain
<1>4. ASSUME NEW k \in 0 .. Len(p) - 1 PROVE Tail(Remain(p, k)) = Remain(p, k + 1)
  <2>1. k + 1 \in 1 .. Len(p) /\ Len(p) \in k + 1 .. Len(p)
    BY <1>1
  <2> QED BY <2>1, HeadTailOfSubSeq DEF Remain
<1> QED BY <1>2, <1>3, <1>4

-----------------------------------------------------------------------------
(* Paths: the walk of store_open.                                            *)

PathTypes ==
  /\ tree \in Trees /\ cwd \in DOMAIN tree /\ tree[cwd].kind \in P!Directories
  /\ given.parts \in Seq(Name)
  /\ step \in {"start", "find", "open", "opened", "failed"}
  /\ step \notin {"failed", "opened"} => error = ""

\* So far it has come to directories only, and holds the last of them if it may be read.
Walked(k) == /\ k \in 0 .. Len(P!Asked) /\ todo = Remain(P!Asked, k)
             /\ path = P!Visited[k] /\ \A n \in 0 .. k : Reached(P!Visited[n])
             /\ fd = IF P!Kind(path) = "dir" THEN <<"open", path>> ELSE <<"closed">>
WalkInv == step = "open" => P!Asked \in Seq(Name) /\ \E k \in 0 .. Len(P!Asked) : Walked(k)

\* The next part.
LEMMA PartIs ==
  ASSUME P!Asked \in Seq(Name), NEW k \in 0 .. Len(P!Asked), Walked(k), todo # <<>>
  PROVE  /\ k + 1 \in 0 .. Len(P!Asked) /\ k + 1 \in 1 .. Len(P!Asked) /\ k \in 0 .. Len(P!Asked) - 1
         /\ P!Part = P!Asked[k + 1] /\ P!Part \in Name /\ Tail(todo) = Remain(P!Asked, k + 1)
         /\ P!Visited[k + 1] = P!Says(path, P!Part)
<1>1. k # Len(P!Asked) /\ Len(P!Asked) \in Nat
  BY RemainIs DEF Walked
<1>2. k + 1 \in 0 .. Len(P!Asked) /\ k + 1 \in 1 .. Len(P!Asked) /\ k \in 0 .. Len(P!Asked) - 1 /\ (k + 1) - 1 = k
  BY <1>1
<1>3. 1 \in 1 .. Len(P!Asked) - k
  BY <1>1
<1>4. P!Part = P!Asked[k + 1] /\ Tail(todo) = Remain(P!Asked, k + 1)
  BY <1>2, <1>3, RemainIs DEF Walked, P!Part
<1>5. P!Part \in Name
  BY <1>2, <1>4, ElementOfSeq
<1>6. P!Visited[k + 1] = P!Says(P!Visited[k], P!Asked[k + 1])
  BY <1>2, SayingIs DEF P!Visited
<1> QED BY <1>2, <1>4, <1>5, <1>6 DEF Walked

\* However it opens a part, it opens what is there.
LEMMA GotIs ==
  ASSUME tree \in Trees, Reached(path), P!Part \in Name, P!Part \notin {"", "."},
         fd = IF P!Kind(path) = "dir" THEN <<"open", path>> ELSE <<"closed">>,
         NEW new, new = P!Lexical(path, P!Part)
  PROVE  /\ new = P!Says(path, P!Part) /\ P!Got = P!OpenDir(P!Lstat(new)) /\ P!Named = P!LstatKind(new)
         /\ P!Part = ".." => Reached(new) /\ P!MayPass
         /\ P!Part # ".." => P!Part \in Real /\ new = Append(path, P!Part)
<1>1. new = P!Says(path, P!Part) /\ P!Named = P!LstatKind(new)
  BY DEF P!Lexical, P!Says, P!Named
<1>2. P!Part # ".." => P!Part \in Real /\ new = Append(path, P!Part)
  BY DEF P!Lexical, Real
<1>3. P!Part = ".." => P!MayPass /\ new = IF path = <<>> THEN <<>> ELSE P!Front(path)
  BY DEF P!Lexical, P!MayPass
<1>4. P!Part = ".." => Reached(new) /\ P!Lstat(new) = <<"at", new>> /\ P!Named \in P!Directories
  <2>1. P!Part = ".." => Reached(new)
    BY <1>3, ReachedIs
  <2> QED BY <1>1, <2>1, ReachedIs DEF Reached
<1>5. P!Whole = P!OpenDir(P!Lstat(new))
  BY <1>4 DEF P!Whole
<1>6. ASSUME fd[1] = "open" PROVE P!Below = P!OpenDir(P!Lstat(new))
  <2>1. fd = <<"open", path>> /\ fd[2] = path /\ P!Kind(path) = "dir"
    BY <1>6
  <2>2. CASE P!Part = ".."
    BY <1>3, <1>4, <2>1, <2>2 DEF P!Below
  <2>3. CASE P!Part # ".."
    <3>1. P!Enter(<<"at", path>>, P!Part) = <<"at", new>>
      BY <1>2, <2>1, <2>3 DEF P!Enter
    <3>2. P!Lstat(new) = <<"at", new>>
      BY <1>2, <2>1, <2>3, NameIn
    <3> QED BY <2>1, <2>3, <3>1, <3>2 DEF P!Below
  <2> QED BY <2>2, <2>3
<1>7. P!Got = P!OpenDir(P!Lstat(new))
  BY <1>5, <1>6 DEF P!Got
<1> QED BY <1>1, <1>2, <1>3, <1>4, <1>7

\* What there may be instead of a directory.
LEMMA OpenDirIs ==
  ASSUME tree \in Trees, NEW p
  PROVE  /\ P!OpenDir(<<"denied">>) = <<"denied">>
         /\ P!Kind(p) = "dir" => P!OpenDir(<<"at", p>>) = <<"open", p>>
         /\ P!Kind(p) \in {"pass", "dark"} => P!OpenDir(<<"at", p>>) = <<"denied">>
         /\ P!Kind(p) = "missing" => P!OpenDir(<<"at", p>>) = <<"missing">>
         /\ P!Kind(p) \in {"file", "link"} => P!OpenDir(<<"at", p>>) = <<"notdir">>
         /\ P!Kind(p) \in {"dir", "pass", "dark", "missing", "file", "link"}
<1>1. P!Kind(p) \in {"dir", "pass", "dark", "missing", "file", "link"}
  BY TreeIs DEF P!Kind, P!Kinds
<1>2. <<"denied">>[1] # "at" /\ <<"at", p>>[1] = "at" /\ <<"at", p>>[2] = p
  OBVIOUS
<1>3. P!OpenDir(<<"denied">>) = <<"denied">>
  BY <1>2 DEF P!OpenDir
<1> QED BY <1>1, <1>2, <1>3 DEF P!OpenDir

\* Where the walk comes to next.
LEMMA NewIs ==
  ASSUME PathTypes, P!Asked \in Seq(Name), NEW k \in 0 .. Len(P!Asked), Walked(k), P!AtPart,
         NEW new, new = P!Lexical(path, P!Part)
  PROVE  /\ new = P!Visited[k + 1] /\ P!Got = P!OpenDir(P!Lstat(new)) /\ P!Named = P!LstatKind(new)
         /\ \/ P!Lstat(new) = <<"at", new>> /\ P!Named = P!Kind(new)
               /\ (P!Kind(new) \in P!Directories => Reached(new))
            \/ P!Lstat(new) = <<"denied">> /\ P!Named = "denied" /\ P!Kind(path) = "dark" /\ path \in P!Above(new)
         /\ P!Part = ".." => P!MayPass /\ Reached(new)
<1>1. P!Part \in Name /\ P!Visited[k + 1] = P!Says(path, P!Part) /\ P!Part \notin {"", "."}
  BY PartIs DEF P!AtPart
<1>2. Reached(path) /\ tree \in Trees /\ fd = IF P!Kind(path) = "dir" THEN <<"open", path>> ELSE <<"closed">>
  <2>1. k \in 0 .. k
    OBVIOUS
  <2> QED BY <2>1 DEF Walked, PathTypes
<1>3. /\ new = P!Says(path, P!Part) /\ P!Got = P!OpenDir(P!Lstat(new)) /\ P!Named = P!LstatKind(new)
      /\ P!Part = ".." => Reached(new) /\ P!MayPass
      /\ P!Part # ".." => P!Part \in Real /\ new = Append(path, P!Part)
  BY <1>1, <1>2, GotIs
<1>4. P!Lstat(new) = <<"at", new>> => P!LstatKind(new) = P!Kind(new)
  BY DEF P!LstatKind
<1>5. P!Lstat(new) = <<"denied">> => P!LstatKind(new) = "denied"
  BY DEF P!LstatKind
<1>6. CASE P!Part = ".."
  BY <1>1, <1>2, <1>3, <1>4, <1>6, ReachedIs
<1>7. CASE P!Part # ".."
  <2>1. P!Part \in Real /\ new = Append(path, P!Part)
    BY <1>3, <1>7
  <2>2. /\ P!Kind(path) = "dark" => P!Lstat(new) = <<"denied">>
        /\ P!Kind(path) # "dark" => P!Lstat(new) = <<"at", new>>
        /\ Reached(new) <=> P!Kind(path) # "dark" /\ P!Kind(new) \in P!Directories
        /\ path \in P!Above(new)
    BY <1>2, <2>1, NameIn
  <2> QED BY <1>1, <1>3, <1>4, <1>5, <1>7, <2>2
<1> QED BY <1>6, <1>7

\* A command does not change what it asked for, nor do others what is there.
LEMMA WalkSame ==
  ASSUME UNCHANGED <<tree, cwd, given, dir>>
  PROVE  /\ P!Asked' = P!Asked /\ P!Visited' = P!Visited /\ P!NoDb' = P!NoDb
         /\ \A p : P!Kind(p)' = P!Kind(p) /\ Reached(p)' = Reached(p)
<1>1. P!NoDb' = P!NoDb
  BY DEF P!NoDb
<1>2. P!Asked' = P!Asked
  BY <1>1 DEF P!Asked
<1>3. P!Visited' = P!Visited
  BY <1>2 DEF P!Visited
<1>4. \A p : P!Kind(p)' = P!Kind(p)
  BY DEF P!Kind
<1>5. \A p : Reached(p)' = Reached(p)
  BY <1>4 DEF Reached
<1> QED BY <1>1, <1>2, <1>3, <1>4, <1>5

\* At the root.
LEMMA RootIs ==
  ASSUME tree \in Trees, NEW asked \in Seq(Name)
  PROVE  /\ Reached(<<>>) /\ P!Saying(asked)[0] = <<>> /\ Remain(asked, 0) = asked /\ 0 \in 0 .. Len(asked)
<1>1. P!Kind(<<>>) \in P!Directories
  BY TreesAssumption DEF P!PathsAssumption, P!Kind
<1>2. P!Above(<<>>) = {}
  BY DEF P!Above
<1> QED BY <1>1, <1>2, SayingIs, RemainIs DEF Reached

\* A part is passed.
LEMMA WalkGoes ==
  ASSUME PathTypes, WalkInv, P!Skip \/ P!Descend \/ P!PassBy
  PROVE  PathTypes' /\ WalkInv'
<1>1. UNCHANGED <<tree, cwd, given, dir, step, error>> /\ step = "open" /\ todo # <<>> /\ todo' = Tail(todo)
  BY DEF P!Skip, P!Descend, P!PassBy, P!Step, P!Keeps, P!AtPart
<1>2. PICK k \in 0 .. Len(P!Asked) : P!Asked \in Seq(Name) /\ Walked(k)
  BY <1>1 DEF WalkInv
<1>3. /\ k + 1 \in 0 .. Len(P!Asked) /\ k + 1 \in 1 .. Len(P!Asked) /\ k \in 0 .. Len(P!Asked) - 1
      /\ P!Part = P!Asked[k + 1] /\ P!Part \in Name /\ Tail(todo) = Remain(P!Asked, k + 1)
      /\ P!Visited[k + 1] = P!Says(path, P!Part)
  BY <1>1, <1>2, PartIs
<1>4. \A n \in 0 .. k + 1 : n \in 0 .. k \/ n = k + 1
  BY <1>3
<1>5. Reached(path) /\ path \in Seq(Name) /\ tree \in Trees
  <2>1. k \in 0 .. k
    BY <1>3
  <2> QED BY <1>2, <2>1, ReachedIs DEF Walked, PathTypes
<1>6. /\ path' = P!Visited[k + 1] /\ Reached(path')
      /\ fd' = IF P!Kind(path') = "dir" THEN <<"open", path'>> ELSE <<"closed">>
  <2>1. CASE P!Skip
    <3>1. P!Says(path, P!Part) = path /\ path' = path /\ fd' = fd
      BY <1>3, <1>5, <2>1, SaysIs DEF P!Skip
    <3> QED BY <1>2, <1>3, <1>5, <3>1 DEF Walked
  <2>2. CASE P!Descend \/ P!PassBy
    <3> DEFINE new == P!Lexical(path, P!Part)
    <3>1. P!AtPart /\ path' = new
      BY <2>2 DEF P!Descend, P!PassBy, P!Step
    <3>2. /\ new = P!Visited[k + 1] /\ P!Got = P!OpenDir(P!Lstat(new)) /\ P!Named = P!LstatKind(new)
          /\ \/ P!Lstat(new) = <<"at", new>> /\ P!Named = P!Kind(new)
                /\ (P!Kind(new) \in P!Directories => Reached(new))
             \/ P!Lstat(new) = <<"denied">> /\ P!Named = "denied"
      BY <1>2, <3>1, NewIs
    <3> HIDE DEF new
    <3>3. /\ P!OpenDir(<<"denied">>) = <<"denied">>
          /\ P!Kind(new) = "dir" => P!OpenDir(<<"at", new>>) = <<"open", new>>
          /\ P!Kind(new) \in {"pass", "dark"} => P!OpenDir(<<"at", new>>) = <<"denied">>
          /\ P!Kind(new) = "missing" => P!OpenDir(<<"at", new>>) = <<"missing">>
          /\ P!Kind(new) \in {"file", "link"} => P!OpenDir(<<"at", new>>) = <<"notdir">>
          /\ P!Kind(new) \in {"dir", "pass", "dark", "missing", "file", "link"}
      BY <1>5, OpenDirIs
    <3>4. CASE P!Descend
      <4>1. P!Got[1] = "open" /\ fd' = P!Got
        BY <3>4 DEF P!Descend, P!Step
      <4>2. P!Lstat(new) = <<"at", new>> /\ P!Kind(new) = "dir" /\ P!Got = <<"open", new>>
        BY <3>2, <3>3, <4>1
      <4>3. Reached(new)
        BY <3>2, <4>2 DEF P!Directories
      <4> QED BY <3>1, <3>2, <4>1, <4>2, <4>3
    <3>5. CASE P!PassBy
      <4>1. P!Got[1] = "denied" /\ P!Named \in P!Directories /\ fd' = <<"closed">>
        BY <3>5 DEF P!PassBy, P!Step, P!Passes
      <4>2. P!Lstat(new) = <<"at", new>> /\ P!Named = P!Kind(new) /\ Reached(new)
        BY <3>2, <4>1 DEF P!Directories
      <4>3. P!Kind(new) # "dir"
        BY <3>2, <3>3, <4>1, <4>2
      <4> QED BY <3>1, <3>2, <4>1, <4>2, <4>3
    <3> QED BY <2>2, <3>4, <3>5
  <2> QED BY <2>1, <2>2 DEF P!Descend, P!PassBy
<1>7. /\ P!Asked' = P!Asked /\ P!Visited' = P!Visited
      /\ \A p : P!Kind(p)' = P!Kind(p) /\ Reached(p)' = Reached(p)
  BY <1>1, WalkSame
<1>8. Walked(k + 1)'
  <2>1. \A n \in 0 .. k + 1 : Reached(P!Visited[n])
    BY <1>2, <1>4, <1>6 DEF Walked
  <2>2. \A n \in 0 .. k + 1 : Reached(P!Visited[n])'
    BY <1>7, <2>1 DEF Reached
  <2> QED BY <1>1, <1>3, <1>6, <1>7, <2>2 DEF Walked
<1>9. PathTypes'
  BY <1>1 DEF PathTypes
<1> QED BY <1>2, <1>3, <1>7, <1>8, <1>9 DEF WalkInv

-----------------------------------------------------------------------------
(* Paths: what path_relative answers.                                        *)

\* One path after another.
LEMMA JoinIs ==
  ASSUME NEW a \in Seq(Name), NEW b \in Seq(Name)
  PROVE  /\ a \o b \in Seq(Name) /\ Len(a \o b) = Len(a) + Len(b)
         /\ \A j \in 1 .. Len(a) : (a \o b)[j] = a[j]
         /\ \A j \in 1 .. Len(b) : (a \o b)[Len(a) + j] = b[j]
<1> DEFINE r == a \o b
<1>1. r \in Seq(Name) /\ Len(r) = Len(a) + Len(b) /\ Len(a) \in Nat /\ Len(b) \in Nat
  BY ConcatProperties
<1>2. \A j \in 1 .. Len(a) + Len(b) : r[j] = IF j <= Len(a) THEN a[j] ELSE b[j - Len(a)]
  BY ConcatProperties
<1> HIDE DEF r
<1>3. \A j \in 1 .. Len(a) : r[j] = a[j]
  BY <1>1, <1>2
<1>4. ASSUME NEW j \in 1 .. Len(b) PROVE r[Len(a) + j] = b[j]
  <2>1. Len(a) + j \in 1 .. Len(a) + Len(b) /\ ~(Len(a) + j <= Len(a)) /\ (Len(a) + j) - Len(a) = j
    BY <1>1
  <2> QED BY <1>2, <2>1
<1> QED BY <1>1, <1>3, <1>4 DEF r

\* Where two paths part.
LEMMA CommonIs ==
  ASSUME NEW a \in Seq(Name), NEW b \in Seq(Name), NEW c, c = P!Common(a, b)
  PROVE  /\ c \in 0 .. Len(a) /\ c \in 0 .. Len(b) /\ Cut(a, c) = Cut(b, c)
         /\ c < Len(a) /\ c < Len(b) => a[c + 1] # b[c + 1]
<1>1. Len(a) \in Nat /\ Len(b) \in Nat
  OBVIOUS
<1> DEFINE Parted == {n \in 0 .. Len(a) : n < Len(a) /\ n < Len(b) => a[n + 1] # b[n + 1]}
<1>2. PICK n \in Parted : \A m \in Parted : n <= m
  <2>1. Parted \in SUBSET Nat /\ Len(a) \in Parted
    BY <1>1
  <2> HIDE DEF Parted
  <2> QED BY <2>1, LeastOf
<1>3. n \in 0 .. Len(a) /\ (n < Len(a) /\ n < Len(b) => a[n + 1] # b[n + 1])
  BY <1>2
<1>4. n <= Len(b)
  <2>1. Len(b) < n => Len(b) \in Parted
    BY <1>1, <1>3
  <2> HIDE DEF Parted
  <2> QED BY <1>1, <1>2, <1>3, <2>1
<1>5. \A k \in 1 .. n : a[k] = b[k]
  <2> SUFFICES ASSUME NEW k \in 1 .. n PROVE a[k] = b[k]
    OBVIOUS
  <2>1. k - 1 \in 0 .. Len(a) /\ k - 1 < Len(a) /\ k - 1 < Len(b) /\ ~(n <= k - 1) /\ (k - 1) + 1 = k
    BY <1>1, <1>3, <1>4
  <2>2. k - 1 \notin Parted
    <3> HIDE DEF Parted
    <3> QED BY <1>2, <2>1
  <2> QED BY <2>1, <2>2
<1>6. Cut(a, n) = Cut(b, n)
  <2>1. /\ Cut(a, n) \in Seq(Name) /\ Len(Cut(a, n)) = n /\ \A k \in 1 .. n : Cut(a, n)[k] = a[k]
        /\ Cut(b, n) \in Seq(Name) /\ Len(Cut(b, n)) = n /\ \A k \in 1 .. n : Cut(b, n)[k] = b[k]
    BY <1>1, <1>3, <1>4, CutIs
  <2>2. \A k \in 1 .. n : Cut(a, n)[k] = Cut(b, n)[k]
    BY <1>5, <2>1
  <2> QED BY <2>1, <2>2, SeqEqual
<1>7. c = CHOOSE m \in 0 .. Len(a) : /\ m <= Len(b) /\ Cut(a, m) = Cut(b, m)
                                     /\ m < Len(a) /\ m < Len(b) => a[m + 1] # b[m + 1]
  BY DEF P!Common, Cut
<1>8. /\ c \in 0 .. Len(a) /\ c <= Len(b) /\ Cut(a, c) = Cut(b, c)
      /\ c < Len(a) /\ c < Len(b) => a[c + 1] # b[c + 1]
  BY <1>3, <1>4, <1>6, <1>7
<1> QED BY <1>1, <1>8

\* Up to there, or nowhere, and down.
LEMMA RelativeIs ==
  ASSUME NEW a \in Seq(Name), NEW b \in Seq(Name), NEW c, c = P!Common(a, b),
         NEW u, u = IF c = Len(a) THEN 1 ELSE Len(a) - c, NEW r, r = P!Relative(a, b)
  PROVE  /\ r \in Seq(Name) /\ Len(r) = u + (Len(b) - c) /\ u \in Nat \ {0}
         /\ \A j \in 1 .. u : r[j] = IF c = Len(a) THEN "." ELSE ".."
         /\ \A j \in 1 .. Len(b) - c : r[u + j] = b[c + j]
<1>1. c \in 0 .. Len(a) /\ c \in 0 .. Len(b) /\ Len(a) \in Nat /\ Len(b) \in Nat
  BY CommonIs
<1> DEFINE up == [k \in 1 .. Len(a) - c |-> ".."]
           way == IF up = <<>> THEN <<".">> ELSE up
           down == SubSeq(b, c + 1, Len(b))
<1>2. "." \in Name /\ ".." \in Name
  BY Names
<1>3. up \in Seq(Name) /\ Len(up) = Len(a) - c /\ \A j \in 1 .. Len(a) - c : up[j] = ".."
  BY <1>1, <1>2
<1>4. up = <<>> <=> c = Len(a)
  <2> HIDE DEF up
  <2> QED BY <1>1, <1>3, EmptySeq
<1>5. way \in Seq(Name) /\ Len(way) = u /\ u \in Nat \ {0} /\ \A j \in 1 .. u : way[j] = IF c = Len(a) THEN "." ELSE ".."
  <2>1. CASE c = Len(a)
    <3>1. way = <<".">> /\ u = 1
      BY <1>4, <2>1
    <3> HIDE DEF way
    <3> QED BY <1>2, <2>1, <3>1
  <2>2. CASE c # Len(a)
    <3>1. way = up /\ u = Len(a) - c
      BY <1>4, <2>2
    <3> HIDE DEF way, up
    <3> QED BY <1>1, <1>3, <2>2, <3>1
  <2> QED BY <2>1, <2>2
<1>6. down \in Seq(Name) /\ Len(down) = Len(b) - c /\ \A j \in 1 .. Len(b) - c : down[j] = b[c + j]
  BY <1>1
<1>7. r = way \o down
  BY DEF P!Relative
<1> HIDE DEF up, way, down
<1>8. /\ r \in Seq(Name) /\ Len(r) = Len(way) + Len(down)
      /\ \A j \in 1 .. Len(way) : r[j] = way[j]
      /\ \A j \in 1 .. Len(down) : r[Len(way) + j] = down[j]
  <2>1. way \in Seq(Name) /\ down \in Seq(Name)
    BY <1>5, <1>6
  <2> QED BY <1>7, <2>1, JoinIs
<1>9. Len(way) = u /\ Len(down) = Len(b) - c
  BY <1>5, <1>6
<1> QED BY <1>5, <1>6, <1>8, <1>9

\* Whatever goes the way the parts say is what they say.
LEMMA SayingTo ==
  ASSUME NEW p \in Seq(Name), NEW way, way[0] = <<>>,
         \A n \in 1 .. Len(p) : way[n] = P!Says(way[n - 1], p[n])
  PROVE  \A n \in 0 .. Len(p) : P!Saying(p)[n] = way[n]
<1> DEFINE Not == {n \in 0 .. Len(p) : P!Saying(p)[n] # way[n]}
<1> SUFFICES ASSUME Not # {} PROVE FALSE
  OBVIOUS
<1>1. PICK n \in Not : \A m \in Not : n <= m
  <2>1. Not \in SUBSET Nat
    OBVIOUS
  <2> HIDE DEF Not
  <2> QED BY <2>1, LeastOf
<1>2. n \in 0 .. Len(p) /\ P!Saying(p)[n] # way[n] /\ n # 0
  BY <1>1, SayingIs
<1>3. n \in 1 .. Len(p) /\ n - 1 \in 0 .. Len(p) /\ ~(n <= n - 1)
  BY <1>2
<1>4. P!Saying(p)[n - 1] = way[n - 1]
  BY <1>1, <1>3
<1> HIDE DEF Not
<1> QED BY <1>2, <1>3, <1>4, SayingIs

\* One part more to say.
LEMMA SayMore ==
  ASSUME NEW p \in Seq(Name), NEW x \in Name
  PROVE  P!Normal(Append(p, x)) = P!Says(P!Normal(p), x)
<1> DEFINE q == Append(p, x)
<1>1. q \in Seq(Name) /\ Len(q) = Len(p) + 1 /\ q[Len(p) + 1] = x /\ (\A k \in 1 .. Len(p) : q[k] = p[k]) /\ Len(p) \in Nat
  BY AppendProperties
<1> HIDE DEF q
<1>2. P!Saying(q)[0] = <<>> /\ \A n \in 1 .. Len(q) : P!Saying(q)[n] = P!Says(P!Saying(q)[n - 1], q[n])
  BY <1>1, SayingIs
<1>3. \A n \in 1 .. Len(p) : P!Saying(q)[n] = P!Says(P!Saying(q)[n - 1], p[n])
  BY <1>1, <1>2
<1>4. P!Saying(p)[Len(p)] = P!Saying(q)[Len(p)]
  BY <1>1, <1>2, <1>3, SayingTo
<1>5. P!Saying(q)[Len(p) + 1] = P!Says(P!Saying(q)[Len(p)], x)
  <2>1. Len(p) + 1 \in 1 .. Len(q) /\ (Len(p) + 1) - 1 = Len(p)
    BY <1>1
  <2> QED BY <1>1, <1>2, <2>1
<1> QED BY <1>1, <1>4, <1>5 DEF P!Normal, q

AllReal(p) == \A k \in 1 .. Len(p) : p[k] \in Real
Route(s, a, b) == s = a \o P!Relative(a, b)

\* From the root to one path and from there, by the relative one, to another: what is passed
\* is above or at the two.
LEMMA RouteIs ==
  ASSUME NEW a \in Seq(Name), AllReal(a), NEW b \in Seq(Name), AllReal(b), NEW s, Route(s, a, b)
  PROVE  /\ s \in Seq(Name) /\ P!Normal(s) = b
         /\ \A k \in 0 .. Len(s) : \/ \E n \in 0 .. Len(a) : P!Saying(s)[k] = Cut(a, n)
                                   \/ \E n \in 0 .. Len(b) : P!Saying(s)[k] = Cut(b, n)
<1> DEFINE c == P!Common(a, b)
           u == IF c = Len(a) THEN 1 ELSE Len(a) - c
           r == P!Relative(a, b)
           way == [k \in 0 .. Len(s) |->
                     IF k <= Len(a) THEN Cut(a, k)
                     ELSE IF k <= Len(a) + u THEN IF c = Len(a) THEN a ELSE Cut(a, 2 * Len(a) - k)
                     ELSE Cut(b, c + (k - Len(a) - u))]
<1>13. /\ \A k \in 1 .. Len(a) : a[k] \in Real
       /\ \A k \in 1 .. Len(b) : b[k] \in Real
       /\ s = a \o P!Relative(a, b)
  BY DEF AllReal, Route
<1>1. /\ c \in 0 .. Len(a) /\ c \in 0 .. Len(b) /\ Cut(a, c) = Cut(b, c)
      /\ Len(a) \in Nat /\ Len(b) \in Nat /\ (c = Len(a) => u = 1) /\ (c # Len(a) => u = Len(a) - c)
  <2> HIDE DEF c
  <2>1. c = P!Common(a, b)
    BY DEF c
  <2> QED BY <2>1, CommonIs
<1>2. /\ r \in Seq(Name) /\ Len(r) = u + (Len(b) - c) /\ u \in Nat \ {0}
      /\ \A j \in 1 .. u : r[j] = IF c = Len(a) THEN "." ELSE ".."
      /\ \A j \in 1 .. Len(b) - c : r[u + j] = b[c + j]
  BY RelativeIs
<1> HIDE DEF c, u, r
<1>3. /\ s \in Seq(Name) /\ Len(s) = Len(a) + (u + (Len(b) - c))
      /\ \A k \in 1 .. Len(a) : s[k] = a[k]
      /\ \A j \in 1 .. u + (Len(b) - c) : s[Len(a) + j] = r[j]
  <2>1. s = a \o r
    BY <1>13 DEF r
  <2>2. r \in Seq(Name)
    BY <1>2
  <2>3. /\ a \o r \in Seq(Name) /\ Len(a \o r) = Len(a) + Len(r)
        /\ \A k \in 1 .. Len(a) : (a \o r)[k] = a[k]
        /\ \A j \in 1 .. Len(r) : (a \o r)[Len(a) + j] = r[j]
    BY <2>2, JoinIs
  <2>4. Len(r) = u + (Len(b) - c)
    BY <1>2
  <2> QED BY <2>1, <2>3, <2>4
<1> DEFINE La == Len(a)
           Lb == Len(b)
           Ls == Len(s)
<1>12. /\ La \in Nat /\ Lb \in Nat /\ Ls \in Nat /\ c \in Nat /\ u \in Nat /\ 1 <= u /\ La + u <= Ls /\ c <= La /\ c <= Lb
       /\ Ls = La + (u + (Lb - c))
  <2>1. La \in Nat /\ Lb \in Nat /\ c \in 0 .. La /\ c \in 0 .. Lb /\ u \in Nat \ {0} /\ Ls = La + (u + (Lb - c))
    BY <1>1, <1>2, <1>3
  <2> HIDE DEF La, Lb, Ls
  <2> QED BY <2>1
<1>4. \A k \in 0 .. Len(a) : way[k] = Cut(a, k)
  BY <1>1, <1>2, <1>3
<1>5. c = Len(a) => way[Len(a) + 1] = a
  <2>1. Len(a) + 1 \in 0 .. Len(s) /\ ~(Len(a) + 1 <= Len(a)) /\ Len(a) + 1 <= Len(a) + u
    BY <1>12
  <2> QED BY <2>1
<1>6. ASSUME c # Len(a), NEW k \in Len(a) .. Len(a) + u PROVE way[k] = Cut(a, 2 * Len(a) - k)
  <2>1. CASE k = Len(a)
    <3>1. 2 * Len(a) - k = Len(a) /\ Len(a) \in 0 .. Len(a)
      BY <1>12, <2>1
    <3> HIDE DEF way
    <3> QED BY <1>4, <2>1, <3>1
  <2>2. CASE k # Len(a)
    <3>1. k \in 0 .. Len(s) /\ ~(k <= Len(a)) /\ k <= Len(a) + u
      BY <1>12, <2>2
    <3> QED BY <1>6, <3>1
  <2> QED BY <2>1, <2>2
<1>7. \A k \in Len(a) + u .. Len(s) : way[k] = Cut(b, c + (k - Len(a) - u))
  <2>1. way[Len(a) + u] = Cut(b, c)
    <3>1. c # Len(a) => Len(a) + u \in Len(a) .. Len(a) + u /\ 2 * Len(a) - (Len(a) + u) = c
      BY <1>1
    <3>2. c = Len(a) => a = Cut(a, c)
      BY CutEnds
    <3> HIDE DEF way
    <3> QED BY <1>1, <1>5, <1>6, <3>1, <3>2
  <2>2. ASSUME NEW k \in Len(a) + u .. Len(s) PROVE way[k] = Cut(b, c + (k - Len(a) - u))
    <3>1. CASE k = Len(a) + u
      <4>1. c + (k - Len(a) - u) = c
        BY <1>12, <3>1
      <4> HIDE DEF way
      <4> QED BY <2>1, <3>1, <4>1
    <3>2. CASE k # Len(a) + u
      <4>1. k \in 0 .. Len(s) /\ ~(k <= Len(a)) /\ ~(k <= Len(a) + u)
        <5> DEFINE e == Len(a) + u
        <5>1. e \in Nat /\ Len(a) \in Nat /\ Len(s) \in Nat /\ Len(a) < e
          BY <1>12
        <5>2. k \in e .. Len(s) /\ k # e
          BY <3>2
        <5> HIDE DEF e
        <5>3. k \in 0 .. Len(s) /\ ~(k <= Len(a)) /\ ~(k <= e)
          BY <5>1, <5>2
        <5> QED BY <5>3 DEF e
      <4> QED BY <4>1
    <3> QED BY <3>1, <3>2
  <2> HIDE DEF way
  <2> QED BY <2>2
<1> HIDE DEF way
<1>8. ASSUME NEW n \in 1 .. Len(s) PROVE way[n] = P!Says(way[n - 1], s[n])
  <2>1. CASE n <= Len(a)
    <3>1. n \in 1 .. Len(a) /\ n - 1 \in 0 .. Len(a) /\ n \in 0 .. Len(a)
      BY <1>1, <2>1
    <3>2. Cut(a, n) = Append(Cut(a, n - 1), a[n]) /\ Cut(a, n - 1) \in Seq(Name) /\ a[n] \in Name /\ a[n] \in Real
      BY <1>13, <3>1, CutNext
    <3>3. P!Says(Cut(a, n - 1), a[n]) = Cut(a, n)
      BY <3>2, SaysIs
    <3> QED BY <1>3, <1>4, <3>1, <3>3
  <2>2. CASE Len(a) < n /\ n <= Len(a) + u
    <3> DEFINE j == n - Len(a)
    <3>1. j \in 1 .. u /\ j \in 1 .. u + (Len(b) - c) /\ n = Len(a) + j
      BY <1>1, <1>2, <2>2
    <3>2. s[n] = IF c = Len(a) THEN "." ELSE ".."
      <4> HIDE DEF j
      <4> QED BY <1>2, <1>3, <3>1
    <3>3. CASE c = Len(a)
      <4>1. n = Len(a) + 1 /\ n - 1 = Len(a) /\ Len(a) \in 0 .. Len(a) /\ s[n] = "."
        BY <1>1, <3>1, <3>2, <3>3
      <4>2. way[n] = a /\ way[n - 1] = a
        BY <1>4, <1>5, <3>3, <4>1, CutEnds
      <4>3. P!Says(a, ".") = a
        BY Names, SaysIs
      <4> QED BY <4>1, <4>2, <4>3
    <3>4. CASE c # Len(a)
      <4> DEFINE m == 2 * Len(a) - (n - 1)
      <4>1. /\ m \in 1 .. Len(a) /\ m \in 0 .. Len(a) /\ m - 1 = 2 * Len(a) - n
            /\ n \in Len(a) .. Len(a) + u /\ n - 1 \in Len(a) .. Len(a) + u
        BY <1>1, <1>2, <2>2, <3>4
      <4>2. way[n - 1] = Cut(a, m) /\ way[n] = Cut(a, m - 1)
        BY <1>6, <3>4, <4>1
      <4> HIDE DEF m
      <4>3. P!Front(Cut(a, m)) = Cut(a, m - 1) /\ Cut(a, m) # <<>> /\ Cut(a, m) \in Seq(Name)
        BY <4>1, CutNext, CutIs
      <4>4. P!Says(Cut(a, m), "..") = Cut(a, m - 1)
        BY <4>3, Names, SaysIs
      <4> QED BY <3>2, <3>4, <4>2, <4>4
    <3> QED BY <3>3, <3>4
  <2>3. CASE Len(a) + u < n
    <3> DEFINE m == c + (n - Len(a) - u)
               i == n - Len(a) - u
    <3>1. /\ n \in Len(a) + u .. Len(s) /\ n - 1 \in Len(a) + u .. Len(s)
          /\ c + ((n - 1) - Len(a) - u) = m - 1 /\ m \in 1 .. Len(b)
      BY <1>1, <1>2, <1>3, <2>3
    <3>2. i \in 1 .. Len(b) - c /\ u + i \in 1 .. u + (Len(b) - c) /\ n = Len(a) + (u + i) /\ c + i = m
      BY <1>1, <1>2, <1>3, <2>3
    <3>3. way[n] = Cut(b, m) /\ way[n - 1] = Cut(b, m - 1)
      BY <1>7, <3>1
    <3> HIDE DEF m, i
    <3>4. s[n] = b[m]
      BY <1>2, <1>3, <3>2
    <3>5. Cut(b, m) = Append(Cut(b, m - 1), b[m]) /\ Cut(b, m - 1) \in Seq(Name) /\ b[m] \in Name /\ b[m] \in Real
      BY <1>13, <3>1, CutNext
    <3>6. P!Says(Cut(b, m - 1), b[m]) = Cut(b, m)
      BY <3>5, SaysIs
    <3> QED BY <3>3, <3>4, <3>6
  <2>4. n <= Len(a) \/ (Len(a) < n /\ n <= Len(a) + u) \/ Len(a) + u < n
    BY <1>1, <1>2
  <2> QED BY <2>1, <2>2, <2>3, <2>4
<1>9. \A k \in 0 .. Len(s) : P!Saying(s)[k] = way[k]
  <2>1. way[0] = <<>>
    BY <1>1, <1>4, CutEnds
  <2> QED BY <1>3, <1>8, <2>1, SayingTo
<1>10. P!Normal(s) = b
  <2>1. /\ Len(s) \in Len(a) + u .. Len(s) /\ Len(s) \in 0 .. Len(s)
        /\ c + (Len(s) - Len(a) - u) = Len(b)
    BY <1>1, <1>2, <1>3
  <2>2. way[Len(s)] = Cut(b, Len(b))
    BY <1>7, <2>1
  <2> QED BY <1>9, <2>1, <2>2, CutEnds DEF P!Normal
<1>11. ASSUME NEW k \in 0 .. Len(s)
       PROVE  \/ \E n \in 0 .. Len(a) : P!Saying(s)[k] = Cut(a, n)
              \/ \E n \in 0 .. Len(b) : P!Saying(s)[k] = Cut(b, n)
  <2>1. P!Saying(s)[k] = way[k]
    BY <1>9
  <2>2. CASE k <= Len(a)
    <3>1. k \in 0 .. Len(a)
      BY <2>2
    <3> QED BY <1>4, <2>1, <3>1
  <2>3. CASE Len(a) < k /\ k < Len(a) + u
    <3>1. c # Len(a) /\ k \in Len(a) .. Len(a) + u /\ 2 * Len(a) - k \in 0 .. Len(a)
      BY <1>1, <1>2, <2>3
    <3> QED BY <1>6, <2>1, <3>1
  <2>4. CASE Len(a) + u <= k
    <3>1. k \in Len(a) + u .. Len(s) /\ c + (k - Len(a) - u) \in 0 .. Len(b)
      BY <1>1, <1>2, <1>3, <2>4
    <3> QED BY <1>7, <2>1, <3>1
  <2> QED BY <1>1, <1>2, <2>2, <2>3, <2>4
<1> QED BY <1>3, <1>10, <1>11

\* One part up is said of what is right below.
LEMMA InsideIs ==
  ASSUME NEW a \in Seq(Name), NEW b \in Seq(Name)
  PROVE  P!Relative(a, b) = <<"..">> <=> a = Append(b, P!Last(a))
<1> DEFINE c == P!Common(a, b)
           u == IF c = Len(a) THEN 1 ELSE Len(a) - c
           r == P!Relative(a, b)
<1>1. /\ c \in 0 .. Len(a) /\ c \in 0 .. Len(b) /\ Cut(a, c) = Cut(b, c)
      /\ (c < Len(a) /\ c < Len(b) => a[c + 1] # b[c + 1])
      /\ Len(a) \in Nat /\ Len(b) \in Nat /\ (c = Len(a) => u = 1) /\ (c # Len(a) => u = Len(a) - c)
  <2> HIDE DEF c
  <2>1. c = P!Common(a, b)
    BY DEF c
  <2> QED BY <2>1, CommonIs
<1>2. /\ r \in Seq(Name) /\ Len(r) = u + (Len(b) - c) /\ u \in Nat \ {0}
      /\ \A j \in 1 .. u : r[j] = IF c = Len(a) THEN "." ELSE ".."
  BY RelativeIs
<1> HIDE DEF c, u, r
<1>3. 1 \in 1 .. u /\ r[1] = IF c = Len(a) THEN "." ELSE ".."
  BY <1>2
<1>4. ASSUME r = <<"..">> PROVE a = Append(b, P!Last(a))
  <2>1. Len(r) = 1 /\ r[1] = ".."
    BY <1>4
  <2>2. c # Len(a)
    BY <1>3, <2>1
  <2>3. c = Len(b) /\ Len(a) - 1 = c /\ Len(a) \in 1 .. Len(a)
    <3>1. Len(a) \in Nat /\ Len(b) \in Nat /\ c \in Nat /\ c <= Len(a) /\ c <= Len(b) /\ u = Len(a) - c
      BY <1>1, <2>2
    <3>2. u + (Len(b) - c) = 1
      BY <1>2, <2>1
    <3> QED BY <2>2, <3>1, <3>2
  <2>4. Cut(a, Len(a) - 1) = b
    BY <1>1, <2>3, CutEnds
  <2>5. a = Append(b, a[Len(a)])
    <3>1. Cut(a, Len(a)) = Append(Cut(a, Len(a) - 1), a[Len(a)])
      BY <2>3, CutNext
    <3> QED BY <2>4, <3>1, CutEnds
  <2> QED BY <2>5 DEF P!Last
<1>5. ASSUME a = Append(b, P!Last(a)) PROVE r = <<"..">>
  <2> DEFINE x == P!Last(a)
  <2>1. a # <<>>
    <3> HIDE DEF x
    <3> QED BY <1>5, AppendProperties
  <2>2. x \in Name
    <3>1. Len(a) \in 1 .. Len(a)
      BY <1>1, <2>1, EmptySeq
    <3>2. a[Len(a)] \in Name
      BY <3>1, ElementOfSeq
    <3> QED BY <3>2 DEF P!Last
  <2> HIDE DEF x
  <2>3. a = Append(b, x)
    BY <1>5 DEF x
  <2>4. Len(a) = Len(b) + 1 /\ \A k \in 1 .. Len(b) : a[k] = b[k]
    BY <2>2, <2>3, AppendProperties
  <2>5. c = Len(b)
    <3>1. c # Len(b) => c < Len(a) /\ c < Len(b) /\ c + 1 \in 1 .. Len(b)
      BY <1>1, <2>4
    <3> QED BY <1>1, <2>4, <3>1
  <2>6. u = 1 /\ Len(r) = 1 /\ r[1] = ".."
    <3>1. c # Len(a) /\ u = 1
      BY <1>1, <2>4, <2>5
    <3> QED BY <1>1, <1>2, <1>3, <2>5, <3>1
  <2>7. <<"..">> \in Seq(Name) /\ Len(<<"..">>) = 1 /\ <<"..">>[1] = ".."
    <3>1. ".." \in Name
      BY Names
    <3> QED BY <3>1
  <2> DEFINE up == <<"..">>
  <2> HIDE DEF up
  <2>8. up \in Seq(Name) /\ Len(up) = 1 /\ up[1] = ".."
    BY <2>7 DEF up
  <2>9. \A k \in 1 .. 1 : r[k] = up[k]
    BY <2>6, <2>8
  <2>10. r = up
    BY <1>2, <2>6, <2>8, <2>9, SeqEqual
  <2> QED BY <2>10 DEF up
<1> QED BY <1>4, <1>5 DEF r

\* One part up after all others.
LEMMA UpAfter ==
  ASSUME NEW a \in Seq(Name), NEW r \in Seq(Name), NEW x \in Name
  PROVE  a \o (r \o <<x>>) = Append(a \o r, x)
<1>1. <<x>> \in Seq(Name)
  OBVIOUS
<1>2. a \o r \in Seq(Name)
  BY JoinIs
<1>3. Append(a \o r, x) = (a \o r) \o <<x>>
  BY <1>2, AppendIsConcat
<1>4. (a \o r) \o <<x>> = a \o (r \o <<x>>)
  BY <1>1, ConcatAssociative
<1> QED BY <1>3, <1>4

-----------------------------------------------------------------------------
(* Paths: the search of find_tasks_database, and the beginning of the walk.  *)

Nearest(n) == n \in P!HasTasks /\ \A k \in P!HasTasks : k <= n

\* The search has passed no tasks directory, and what is opened is the nearest one.
NearInv ==
  /\ step = "start" => dir = cwd
  /\ step = "find" => P!NoDb /\ \E m \in 0 .. Len(cwd) : dir = Cut(cwd, m) /\ \A n \in P!HasTasks : n <= m
  /\ step \in {"open", "opened", "failed"} /\ P!NoDb =>
       \/ step = "failed" /\ P!HasTasks = {} /\ error = "no tasks"
       \/ error # "no tasks" /\ \E n : Nearest(n) /\ dir = P!Tasks(n)

\* Directories above a working directory, and a tasks in one of them.
LEMMA HereIs ==
  ASSUME PathTypes
  PROVE  /\ cwd \in Seq(Name) /\ Len(cwd) \in Nat /\ \A n \in 1 .. Len(cwd) : cwd[n] \in Real
         /\ \A n \in 0 .. Len(cwd) : P!Kind(Cut(cwd, n)) \in P!Directories
         /\ P!HasTasks \subseteq 1 .. Len(cwd)
         /\ \A m \in 1 .. Len(cwd) : P!Here(Cut(cwd, m)) <=> m \in P!HasTasks
<1>1. cwd \in Seq(Name) /\ Len(cwd) \in Nat /\ \A n \in 1 .. Len(cwd) : cwd[n] \in Real
  <2>1. cwd \in Seq(Name) /\ \A n \in 1 .. Len(cwd) : cwd[n] \in Real
    BY TreeIs DEF PathTypes
  <2> QED BY <2>1
<1>2. ASSUME NEW n \in 0 .. Len(cwd) PROVE P!Kind(Cut(cwd, n)) \in P!Directories
  <2>1. CASE n = Len(cwd)
    BY <1>1, <2>1, CutEnds DEF PathTypes, P!Kind
  <2>2. CASE n # Len(cwd)
    <3>1. n \in 0 .. Len(cwd) - 1
      BY <1>1, <2>2
    <3> QED BY <3>1, TreeIs DEF PathTypes, P!Kind
  <2> QED BY <2>1, <2>2
<1>3. P!HasTasks \subseteq 1 .. Len(cwd)
  BY DEF P!HasTasks
<1>4. ASSUME NEW m \in 1 .. Len(cwd) PROVE P!Here(Cut(cwd, m)) <=> m \in P!HasTasks
  <2> DEFINE d == Cut(cwd, m)
             q == Append(d, "tasks")
  <2>1. d \in Seq(Name) /\ Len(d) = m /\ \A n \in 0 .. m : Cut(d, n) = Cut(cwd, n)
    <3>1. m \in 0 .. Len(cwd)
      BY <1>1
    <3> QED BY <1>1, <3>1, CutIs
  <2>2. "tasks" \in Name
    BY Names
  <2>3. P!Here(d) <=> P!LstatKind(q) \in P!Directories
    BY DEF P!Here
  <2>4. m \in P!HasTasks <=> P!Kind(q) \in P!Directories /\ \A p \in P!Above(q) : P!Kind(p) # "dark"
    BY DEF P!HasTasks, P!Tasks, Cut
  <2> HIDE DEF d
  <2>5. q \in Seq(Name) /\ Len(q) = m + 1 /\ \A n \in 0 .. m : Cut(q, n) = Cut(d, n)
    BY <2>1, <2>2, CutAppend
  <2> HIDE DEF q
  <2>6. \A n \in 0 .. Len(q) - 1 : n \in 0 .. m /\ n \in 0 .. Len(cwd)
    BY <1>1, <2>5
  <2>7. \A n \in 0 .. Len(q) - 1 : P!Kind(Cut(q, n)) \in P!Directories
    BY <1>2, <2>1, <2>5, <2>6
  <2>8. P!Lstat(q) = IF Barred(q, Len(q)) THEN <<"denied">> ELSE <<"at", q>>
    BY <2>5, <2>7, LstatIs
  <2>9. Barred(q, Len(q)) <=> \E p \in P!Above(q) : P!Kind(p) = "dark"
    BY DEF Barred, P!Above, Cut
  <2>10. P!LstatKind(q) = IF Barred(q, Len(q)) THEN "denied" ELSE P!Kind(q)
    BY <2>8 DEF P!LstatKind
  <2> QED BY <2>3, <2>4, <2>9, <2>10 DEF d, P!Directories
<1> QED BY <1>1, <1>2, <1>3, <1>4

\* The walk begins at the root, with all the parts it was asked for.
LEMMA WalkBegins ==
  ASSUME tree \in Trees, UNCHANGED tree, P!Asked' \in Seq(Name), P!Walk(P!Asked')
  PROVE  WalkInv'
<1>1. /\ Reached(<<>>) /\ P!Saying(P!Asked')[0] = <<>> /\ Remain(P!Asked', 0) = P!Asked' /\ 0 \in 0 .. Len(P!Asked')
  BY RootIs
<1>2. todo' = P!Asked' /\ path' = <<>> /\ fd' = IF P!Kind(<<>>) = "dir" THEN <<"open", <<>>>> ELSE <<"closed">>
  BY DEF P!Walk
<1>3. \A p : P!Kind(p)' = P!Kind(p)
  BY DEF P!Kind
<1>4. \A p : Reached(p)' = Reached(p)
  BY <1>3 DEF Reached
<1>5. P!Visited'[0] = <<>>
  BY <1>1 DEF P!Visited
<1>6. Walked(0)'
  <2>1. \A n \in 0 .. 0 : Reached(P!Visited[n])'
    BY <1>1, <1>4, <1>5 DEF Reached
  <2> QED BY <1>1, <1>2, <1>3, <1>5, <2>1 DEF Walked
<1> QED BY <1>1, <1>6 DEF WalkInv

LEMMA SearchGoes ==
  ASSUME PathTypes, NearInv, P!Explicit \/ P!Discover \/ P!FindUp \/ P!FindHere \/ P!FindNone
  PROVE  PathTypes' /\ WalkInv' /\ NearInv'
<1>1. UNCHANGED <<tree, cwd, given>> /\ step \in {"start", "find"} /\ error = ""
  BY DEF P!Explicit, P!Discover, P!FindUp, P!FindHere, P!FindNone, PathTypes
<1>2. /\ cwd \in Seq(Name) /\ Len(cwd) \in Nat
      /\ P!HasTasks \subseteq 1 .. Len(cwd)
      /\ \A m \in 1 .. Len(cwd) : P!Here(Cut(cwd, m)) <=> m \in P!HasTasks
  BY HereIs
<1>3. P!HasTasks' = P!HasTasks /\ P!NoDb' = P!NoDb
  BY <1>1 DEF P!HasTasks, P!Tasks, P!Above, P!Kind, P!NoDb
<1>4. CASE P!Explicit
  <2>1. ~P!NoDb /\ step' = "open" /\ error' = "" /\ P!Walk(IF given.absolute THEN given.parts ELSE cwd \o given.parts)
    BY <1>1, <1>4 DEF P!Explicit, P!Walk
  <2>2. P!Asked' = IF given.absolute THEN given.parts ELSE cwd \o given.parts
    BY <1>1, <1>3, <2>1 DEF P!Asked
  <2>3. P!Asked' \in Seq(Name)
    <3>1. given.parts \in Seq(Name) /\ cwd \o given.parts \in Seq(Name)
      BY <1>2, JoinIs DEF PathTypes
    <3> QED BY <2>2, <3>1
  <2>4. WalkInv'
    BY <1>1, <2>1, <2>2, <2>3, WalkBegins DEF PathTypes
  <2>5. PathTypes'
    BY <1>1, <2>1 DEF PathTypes
  <2> QED BY <1>3, <2>1, <2>4, <2>5 DEF NearInv
<1>5. CASE P!Discover
  <2>1. P!NoDb /\ step' = "find" /\ dir' = cwd /\ error' = ""
    BY <1>1, <1>5 DEF P!Discover, NearInv
  <2>2. cwd = Cut(cwd, Len(cwd)) /\ Len(cwd) \in 0 .. Len(cwd) /\ \A n \in P!HasTasks : n <= Len(cwd)
    BY <1>2, CutEnds
  <2>3. WalkInv' /\ PathTypes'
    BY <1>1, <2>1 DEF WalkInv, PathTypes
  <2> QED BY <1>1, <1>3, <2>1, <2>2, <2>3 DEF NearInv
<1>6. CASE P!FindUp \/ P!FindHere \/ P!FindNone
  <2>1. step = "find"
    BY <1>6 DEF P!FindUp, P!FindHere, P!FindNone
  <2>2. PICK m \in 0 .. Len(cwd) : P!NoDb /\ dir = Cut(cwd, m) /\ \A n \in P!HasTasks : n <= m
    BY <2>1 DEF NearInv
  <2>7. m \in Nat /\ (m # 0 => m \in 1 .. Len(cwd) /\ m - 1 \in 0 .. Len(cwd))
    <3>1. Len(cwd) \in Nat
      BY <1>2
    <3> QED BY <3>1
  <2>3. dir = <<>> <=> m = 0
    BY <1>2, <2>2, <2>7, CutNext, CutEnds
  <2>4. CASE P!FindUp
    <3>1. m # 0 /\ m \in 1 .. Len(cwd) /\ ~P!Here(Cut(cwd, m)) /\ dir' = P!Front(Cut(cwd, m)) /\ step' = "find" /\ error' = ""
      <4>1. dir # <<>> /\ ~P!Here(dir) /\ dir' = P!Front(dir) /\ step' = "find" /\ error' = ""
        BY <1>1, <2>1, <2>4 DEF P!FindUp
      <4> QED BY <2>2, <2>3, <2>7, <4>1
    <3>2. dir' = Cut(cwd, m - 1) /\ m - 1 \in 0 .. Len(cwd)
      <4>1. P!Front(Cut(cwd, m)) = Cut(cwd, m - 1)
        BY <1>2, <3>1, CutNext
      <4>2. m # 0 /\ dir' = P!Front(Cut(cwd, m))
        BY <3>1
      <4> QED BY <2>7, <4>1, <4>2
    <3>3. \A n \in P!HasTasks : n <= m - 1
      <4> SUFFICES ASSUME NEW n \in P!HasTasks PROVE n <= m - 1
        OBVIOUS
      <4>1. n \in Nat /\ n <= m /\ n # m
        <5>1. n \in 1 .. Len(cwd) /\ n \in Nat
          BY <1>2
        <5>2. n # m
          BY <1>2, <3>1
        <5> QED BY <2>2, <5>1, <5>2
      <4>2. m \in Nat
        BY <2>7
      <4> QED BY <4>1, <4>2
    <3>4. WalkInv' /\ PathTypes'
      BY <1>1, <3>1 DEF WalkInv, PathTypes
    <3> QED BY <1>1, <1>3, <2>2, <3>1, <3>2, <3>3, <3>4 DEF NearInv
  <2>5. CASE P!FindHere
    <3>1. /\ m \in 1 .. Len(cwd) /\ P!Here(Cut(cwd, m)) /\ dir' = Append(dir, "tasks") /\ step' = "open" /\ error' = ""
          /\ P!Walk(cwd \o P!Relative(cwd, Append(dir, "tasks")))
      <4>1. dir # <<>> /\ P!Here(dir)
        BY <2>5 DEF P!FindHere
      <4>2. m \in 1 .. Len(cwd) /\ P!Here(Cut(cwd, m))
        BY <2>2, <2>3, <2>7, <4>1
      <4> QED BY <1>1, <2>5, <4>2 DEF P!FindHere, P!Walk
    <3>2. Nearest(m) /\ dir' = P!Tasks(m)
      BY <1>2, <2>2, <3>1 DEF Nearest, P!Tasks, Cut
    <3>3. P!Asked' = cwd \o P!Relative(cwd, Append(dir, "tasks"))
      <4>1. ~given.absolute /\ P!NoDb' /\ cwd' = cwd /\ given' = given
        BY <1>1, <1>3, <2>2 DEF P!NoDb
      <4> QED BY <3>1, <4>1 DEF P!Asked
    <3>4. P!Asked' \in Seq(Name)
      <4> DEFINE q == Append(dir, "tasks")
      <4>1. q \in Seq(Name)
        <5>1. dir \in Seq(Name) /\ "tasks" \in Name
          BY <1>2, <2>2, CutIs, Names
        <5> QED BY <5>1, CutAppend
      <4> HIDE DEF q
      <4>2. P!Relative(cwd, q) \in Seq(Name)
        BY <1>2, <4>1, RelativeIs
      <4>3. cwd \o P!Relative(cwd, q) \in Seq(Name)
        BY <1>2, <4>2, JoinIs
      <4> QED BY <3>3, <4>3 DEF q
    <3>5. WalkInv'
      BY <1>1, <3>1, <3>3, <3>4, WalkBegins DEF PathTypes
    <3>6. PathTypes'
      BY <1>1, <3>1 DEF PathTypes
    <3>7. P!Tasks(m)' = P!Tasks(m) /\ Nearest(m)'
      BY <1>1, <1>3, <3>2 DEF P!Tasks, Nearest
    <3>8. error' # "no tasks" /\ dir' = P!Tasks(m)'
      BY <3>1, <3>2, <3>7
    <3> QED BY <3>1, <3>5, <3>6, <3>7, <3>8 DEF NearInv
  <2>6. CASE P!FindNone
    <3>1. m = 0 /\ step' = "failed" /\ error' = "no tasks"
      BY <2>3, <2>6 DEF P!FindNone, P!GiveUp
    <3>2. P!HasTasks = {}
      <4> SUFFICES ASSUME NEW n \in P!HasTasks PROVE FALSE
        OBVIOUS
      <4>1. n \in 1 .. Len(cwd)
        BY <1>2
      <4>2. n <= 0
        BY <2>2, <3>1
      <4> QED BY <4>1, <4>2
    <3>3. WalkInv' /\ PathTypes'
      BY <1>1, <3>1 DEF WalkInv, PathTypes
    <3> QED BY <1>3, <3>1, <3>2, <3>3 DEF NearInv
  <2> QED BY <1>6, <2>4, <2>5, <2>6
<1> QED BY <1>4, <1>5, <1>6

-----------------------------------------------------------------------------
(* Paths: how the walk ends.                                                 *)

\* After the last part there is nothing to say.
LEMMA LastSays ==
  ASSUME P!Asked \in Seq(Name), NEW k \in 0 .. Len(P!Asked) - 1, todo = Remain(P!Asked, k), P!IsLast
  PROVE  P!Normal(P!Asked) = P!Visited[k + 1]
<1> DEFINE l == Len(P!Asked)
<1>1. l \in Nat /\ k \in 0 .. l
  <2>1. l \in Nat
    OBVIOUS
  <2> HIDE DEF l
  <2>2. k \in 0 .. l - 1
    BY DEF l
  <2> QED BY <2>1, <2>2
<1>2. \A j \in k + 2 .. l : P!Asked[j] = ""
  <2> SUFFICES ASSUME NEW j \in k + 2 .. l PROVE P!Asked[j] = ""
    OBVIOUS
  <2> DEFINE n == j - k
  <2>1. n \in 2 .. l - k /\ n \in 1 .. l - k /\ k + n = j
    <3> HIDE DEF l
    <3> QED BY <1>1
  <2>2. Len(todo) = l - k /\ todo[n] = P!Asked[k + n]
    <3> HIDE DEF n
    <3> QED BY <1>1, <2>1, RemainIs
  <2>3. todo[n] = ""
    <3> HIDE DEF n, l
    <3> QED BY <2>1, <2>2 DEF P!IsLast
  <2> QED BY <2>1, <2>2, <2>3
<1>3. \A j \in k + 1 .. l : P!Visited[j] = P!Visited[k + 1]
  <2> DEFINE Not == {j \in k + 1 .. l : P!Visited[j] # P!Visited[k + 1]}
  <2> SUFFICES ASSUME Not # {} PROVE FALSE
    OBVIOUS
  <2>1. PICK j \in Not : \A m \in Not : j <= m
    <3>1. Not \in SUBSET Nat
      OBVIOUS
    <3> HIDE DEF Not
    <3> QED BY <3>1, LeastOf
  <2>2. j \in k + 1 .. l /\ P!Visited[j] # P!Visited[k + 1]
    OBVIOUS
  <2>3. j # k + 1
    BY <2>2
  <2>4. j \in k + 2 .. l /\ j \in 1 .. l /\ j - 1 \in k + 1 .. l /\ j - 1 \in 0 .. l /\ ~(j <= j - 1)
    <3> HIDE DEF l
    <3> QED BY <1>1, <2>2, <2>3
  <2>5. P!Visited[j - 1] = P!Visited[k + 1]
    BY <2>1, <2>4
  <2> HIDE DEF Not
  <2>6. P!Asked[j] = "" /\ P!Visited[j] = P!Says(P!Visited[j - 1], P!Asked[j]) /\ P!Visited[j - 1] \in Seq(Name)
    BY <1>2, <2>4, SayingIs DEF P!Visited
  <2>7. P!Says(P!Visited[j - 1], "") = P!Visited[j - 1]
    BY <2>6, Names, SaysIs
  <2> QED BY <2>2, <2>5, <2>6, <2>7
<1>4. l \in k + 1 .. l
  <2>1. k \in 0 .. l - 1
    OBVIOUS
  <2> HIDE DEF l
  <2> QED BY <1>1, <2>1
<1> QED BY <1>3, <1>4 DEF P!Normal, P!Visited

\* What may be opened.
Good == P!Kind(P!Normal(P!Asked)) = "dir" /\ \A n \in 0 .. Len(P!Asked) : Reached(P!Visited[n])

LEMMA FailsRightly ==
  ASSUME P!Asked \in Seq(Name), UNCHANGED <<tree, cwd, given, dir>>, step' = "failed", ~Good,
         error' = "database_not_found" => \E n \in 0 .. Len(P!Asked) : P!Kind(P!Visited[n]) = "missing",
         error' = "unsafe_path" => \E n \in 0 .. Len(P!Asked) : P!Kind(P!Visited[n]) \in {"file", "link"}
  PROVE  P!OpensWhatItMay'
<1>1. DOMAIN P!Visited = 0 .. Len(P!Asked)
  BY SayingIs DEF P!Visited
<1>2. P!Asked' = P!Asked /\ P!Visited' = P!Visited
  BY WalkSame
<1>3. ~(/\ P!Kind(P!Normal(P!Asked)) = "dir"
        /\ \A n \in DOMAIN P!Visited : /\ P!Kind(P!Visited[n]) \in P!Directories
                                       /\ \A p \in P!Above(P!Visited[n]) : P!Kind(p) # "dark")
  BY <1>1 DEF Good, Reached
<1>4. ~(/\ P!Kind(P!Normal(P!Asked)) = "dir"
        /\ \A n \in DOMAIN P!Visited : /\ P!Kind(P!Visited[n]) \in P!Directories
                                       /\ \A p \in P!Above(P!Visited[n]) : P!Kind(p) # "dark")'
  BY <1>2, <1>3 DEF P!Kind
<1>5. /\ error' = "database_not_found" => (\E n \in DOMAIN P!Visited : P!Kind(P!Visited[n]) = "missing")'
      /\ error' = "unsafe_path" => (\E n \in DOMAIN P!Visited : P!Kind(P!Visited[n]) \in {"file", "link"})'
  BY <1>1, <1>2 DEF P!Kind
<1> QED BY <1>4, <1>5 DEF P!OpensWhatItMay, P!Answered

LEMMA OpensRightly ==
  ASSUME P!Asked \in Seq(Name), UNCHANGED <<tree, cwd, given, dir, path, error>>, step' = "opened", error = "", Good,
         tree \in Trees, path = P!Normal(P!Asked), fd' = <<"open", path>>
  PROVE  P!OpensWhatItMay'
<1>1. DOMAIN P!Visited = 0 .. Len(P!Asked)
  BY SayingIs DEF P!Visited
<1>2. P!Asked' = P!Asked /\ P!Visited' = P!Visited
  BY WalkSame
<1>3. /\ P!Kind(P!Normal(P!Asked)) = "dir"
      /\ \A n \in DOMAIN P!Visited : /\ P!Kind(P!Visited[n]) \in P!Directories
                                     /\ \A p \in P!Above(P!Visited[n]) : P!Kind(p) # "dark"
  BY <1>1 DEF Good, Reached
<1>4. (/\ P!Kind(P!Normal(P!Asked)) = "dir"
       /\ \A n \in DOMAIN P!Visited : /\ P!Kind(P!Visited[n]) \in P!Directories
                                      /\ \A p \in P!Above(P!Visited[n]) : P!Kind(p) # "dark")'
  BY <1>2, <1>3 DEF P!Kind
<1>5. \A p \in P!Above(path) : P!Kind(p) \in P!Directories
  <2>1. path \in DOMAIN tree
    BY <1>3 DEF P!Kind
  <2> QED BY <2>1, TreeIs DEF P!Above, Cut, P!Kind
<1>6. (fd[2] = path /\ path = P!Normal(P!Asked) /\ \A p \in P!Above(path) : P!Kind(p) \in P!Directories)'
  BY <1>2, <1>5 DEF P!Kind
<1> QED BY <1>4, <1>6 DEF P!OpensWhatItMay, P!Answered

LEMMA Refuses ==
  ASSUME PathTypes, WalkInv, P!Refuse
  PROVE  PathTypes' /\ WalkInv' /\ error' # "no tasks" /\ P!OpensWhatItMay'
<1>1. UNCHANGED <<tree, cwd, given, dir>> /\ step = "open" /\ P!AtPart /\ step' = "failed"
  BY DEF P!Refuse, P!AtPart, P!GiveUp
<1>2. PICK k \in 0 .. Len(P!Asked) : P!Asked \in Seq(Name) /\ Walked(k)
  BY <1>1 DEF WalkInv
<1>3. /\ k + 1 \in 0 .. Len(P!Asked) /\ k \in 0 .. Len(P!Asked) - 1 /\ tree \in Trees
      /\ todo = Remain(P!Asked, k)
  BY <1>1, <1>2, PartIs DEF P!AtPart, Walked, PathTypes
<1> DEFINE new == P!Lexical(path, P!Part)
<1>4. /\ new = P!Visited[k + 1] /\ P!Got = P!OpenDir(P!Lstat(new)) /\ P!Named = P!LstatKind(new)
      /\ \/ P!Lstat(new) = <<"at", new>> /\ P!Named = P!Kind(new)
            /\ (P!Kind(new) \in P!Directories => Reached(new))
         \/ P!Lstat(new) = <<"denied">> /\ P!Named = "denied" /\ P!Kind(path) = "dark" /\ path \in P!Above(new)
      /\ P!Part = ".." => P!MayPass /\ Reached(new)
  BY <1>1, <1>2, NewIs
<1> HIDE DEF new
<1>5. /\ P!OpenDir(<<"denied">>) = <<"denied">>
      /\ P!Kind(new) = "dir" => P!OpenDir(<<"at", new>>) = <<"open", new>>
      /\ P!Kind(new) \in {"pass", "dark"} => P!OpenDir(<<"at", new>>) = <<"denied">>
      /\ P!Kind(new) = "missing" => P!OpenDir(<<"at", new>>) = <<"missing">>
      /\ P!Kind(new) \in {"file", "link"} => P!OpenDir(<<"at", new>>) = <<"notdir">>
      /\ P!Kind(new) \in {"dir", "pass", "dark", "missing", "file", "link"}
  BY <1>3, OpenDirIs
<1>6. \/ ~P!Passes /\ error' = P!Error(P!Got[1])
      \/ P!Passes /\ P!Named \notin P!Directories /\ error' = P!Error(P!Named)
  BY DEF P!Refuse, P!GiveUp
<1>7. P!Got[1] # "open"
  BY DEF P!Refuse
<1>8. /\ P!Error("missing") = "database_not_found" /\ P!Error("denied") = "io_error" /\ P!Error("notdir") = "unsafe_path"
  BY DEF P!Error
<1>9. Good => Reached(new)
  BY <1>3, <1>4 DEF Good
<1>10. PathTypes' /\ WalkInv'
  BY <1>1 DEF PathTypes, WalkInv
<1>11. CASE P!Lstat(new) = <<"at", new>> /\ P!Named = P!Kind(new) /\ (P!Kind(new) \in P!Directories => Reached(new))
  <2>1. CASE P!Kind(new) = "dir"
    <3>1. P!Got = <<"open", new>>
      BY <1>4, <1>5, <1>11, <2>1
    <3>2. P!Got[1] = "open"
      BY <3>1
    <3> QED BY <1>7, <3>2
  <2>2. CASE P!Kind(new) \in {"pass", "dark"}
    <3>1. P!Got[1] = "denied" /\ P!Named \in P!Directories
      BY <1>4, <1>5, <1>11, <2>2 DEF P!Directories
    <3>2. ~P!MayPass /\ error' = "io_error"
      BY <1>6, <1>8, <3>1 DEF P!Passes
    <3>3. P!Normal(P!Asked) = new
      <4>1. P!IsLast
        BY <3>2 DEF P!MayPass
      <4> QED BY <1>2, <1>3, <1>4, <4>1, LastSays
    <3>4. ~Good
      BY <2>2, <3>3 DEF Good
    <3> QED BY <1>1, <1>2, <1>10, <3>2, <3>4, FailsRightly
  <2>3. CASE P!Kind(new) = "missing"
    <3>1. P!Got[1] = "missing"
      BY <1>4, <1>5, <1>11, <2>3
    <3>2. error' = "database_not_found"
      BY <1>6, <1>8, <3>1 DEF P!Passes
    <3>3. ~Good
      BY <1>9, <2>3 DEF Reached, P!Directories
    <3> QED BY <1>1, <1>2, <1>3, <1>4, <1>10, <2>3, <3>2, <3>3, FailsRightly
  <2>4. CASE P!Kind(new) \in {"file", "link"}
    <3>1. P!Got[1] = "notdir"
      BY <1>4, <1>5, <1>11, <2>4
    <3>2. error' = "unsafe_path"
      BY <1>6, <1>8, <3>1 DEF P!Passes
    <3>3. ~Good
      BY <1>9, <2>4 DEF Reached, P!Directories
    <3> QED BY <1>1, <1>2, <1>3, <1>4, <1>10, <2>4, <3>2, <3>3, FailsRightly
  <2> QED BY <1>5, <2>1, <2>2, <2>3, <2>4
<1>12. CASE P!Lstat(new) = <<"denied">> /\ P!Named = "denied" /\ P!Kind(path) = "dark" /\ path \in P!Above(new)
  <2>1. P!Got[1] = "denied" /\ error' = "io_error"
    BY <1>4, <1>5, <1>6, <1>8, <1>12
  <2>2. ~Good
    BY <1>9, <1>12 DEF Reached
  <2> QED BY <1>1, <1>2, <1>10, <2>1, <2>2, FailsRightly
<1> QED BY <1>4, <1>11, <1>12

LEMMA Opens ==
  ASSUME PathTypes, WalkInv, P!Opened
  PROVE  PathTypes' /\ WalkInv' /\ error' # "no tasks" /\ P!OpensWhatItMay'
<1>1. UNCHANGED <<tree, cwd, given, dir, path, fd>> /\ step = "open" /\ todo = <<>> /\ error = ""
  BY DEF P!Opened, P!GiveUp, PathTypes
<1>2. PICK k \in 0 .. Len(P!Asked) : P!Asked \in Seq(Name) /\ Walked(k)
  BY <1>1 DEF WalkInv
<1>3. k = Len(P!Asked) /\ tree \in Trees
  BY <1>1, <1>2, RemainIs DEF Walked, PathTypes
<1>4. path = P!Normal(P!Asked)
  BY <1>2, <1>3 DEF Walked, P!Visited, P!Normal
<1>5. /\ \A n \in 0 .. Len(P!Asked) : Reached(P!Visited[n])
      /\ fd = IF P!Kind(path) = "dir" THEN <<"open", path>> ELSE <<"closed">>
  BY <1>2, <1>3 DEF Walked
<1>6. CASE P!Kind(path) = "dir"
  <2>1. step' = "opened" /\ UNCHANGED error /\ fd = <<"open", path>>
    BY <1>5, <1>6 DEF P!Opened
  <2>2. Good
    BY <1>4, <1>5, <1>6 DEF Good
  <2>3. PathTypes' /\ WalkInv'
    BY <1>1, <2>1 DEF PathTypes, WalkInv
  <2> QED BY <1>1, <1>2, <1>3, <1>4, <2>1, <2>2, <2>3, OpensRightly
<1>7. CASE P!Kind(path) # "dir"
  <2>1. step' = "failed" /\ error' = "io_error"
    BY <1>5, <1>7 DEF P!Opened, P!GiveUp
  <2>2. ~Good
    BY <1>4, <1>7 DEF Good
  <2>3. PathTypes' /\ WalkInv'
    BY <1>1, <2>1 DEF PathTypes, WalkInv
  <2> QED BY <1>1, <1>2, <2>1, <2>2, <2>3, FailsRightly
<1> QED BY <1>6, <1>7

\* A step that looks no further changes nothing of the search.
LEMMA NearStays ==
  ASSUME NearInv, UNCHANGED <<tree, cwd, given, dir>>, step = "open", error # "no tasks",
         step' \in {"open", "opened", "failed"}, error' # "no tasks"
  PROVE  NearInv'
<1>1. P!HasTasks' = P!HasTasks /\ P!NoDb' = P!NoDb
  BY DEF P!HasTasks, P!Tasks, P!Above, P!Kind, P!NoDb
<1>2. CASE ~P!NoDb
  BY <1>1, <1>2 DEF NearInv
<1>3. CASE P!NoDb
  <2>1. PICK n : Nearest(n) /\ dir = P!Tasks(n)
    BY <1>3 DEF NearInv
  <2>2. Nearest(n)' /\ dir' = P!Tasks(n)'
    BY <1>1, <2>1 DEF Nearest, P!Tasks
  <2> QED BY <1>1, <2>2 DEF NearInv
<1> QED BY <1>2, <1>3

-----------------------------------------------------------------------------
(* Paths: the invariant.                                                     *)

PathsInv == PathTypes /\ WalkInv /\ NearInv /\ P!OpensWhatItMay

LEMMA PathsInitially == ASSUME P!Init PROVE PathsInv
<1>1. /\ tree \in Trees /\ cwd \in DOMAIN tree /\ tree[cwd].kind \in P!Directories
      /\ given \in Dbs \cup {[absolute |-> FALSE, parts |-> <<"none">>]}
      /\ step = "start" /\ dir = cwd /\ error = ""
  BY DEF P!Init
<1>2. given.parts \in Seq(Name)
  <2>1. CASE given \in Dbs
    BY <2>1, TreesAssumption, Names DEF P!PathsAssumption
  <2>2. CASE given = [absolute |-> FALSE, parts |-> <<"none">>]
    <3>1. "none" \in Name
      BY Names
    <3>2. <<"none">> \in Seq(Name) /\ given.parts = <<"none">>
      BY <2>2, <3>1
    <3> QED BY <3>2
  <2> QED BY <1>1, <2>1, <2>2
<1> QED BY <1>1, <1>2 DEF PathsInv, PathTypes, WalkInv, NearInv, P!OpensWhatItMay, P!Answered

LEMMA PathsStep == ASSUME PathsInv, P!Next PROVE PathsInv'
<1>1. CASE P!Explicit \/ P!Discover \/ P!FindUp \/ P!FindHere \/ P!FindNone
  <2>1. PathTypes' /\ WalkInv' /\ NearInv'
    BY <1>1, SearchGoes DEF PathsInv
  <2>2. step' \in {"find", "open"} \/ (step' = "failed" /\ error' = "no tasks")
    BY <1>1 DEF P!Explicit, P!Discover, P!FindUp, P!FindHere, P!FindNone, P!Walk, P!GiveUp
  <2> QED BY <2>1, <2>2 DEF PathsInv, P!OpensWhatItMay, P!Answered
<1>2. CASE P!Skip \/ P!Descend \/ P!PassBy
  <2>1. UNCHANGED <<tree, cwd, given, dir, step, error>> /\ step = "open"
    BY <1>2 DEF P!Skip, P!Descend, P!PassBy, P!Step, P!Keeps, P!AtPart
  <2>2. PathTypes' /\ WalkInv'
    BY <1>2, WalkGoes DEF PathsInv
  <2>3. error = ""
    BY <2>1 DEF PathsInv, PathTypes
  <2>4. NearInv'
    BY <2>1, <2>3, NearStays DEF PathsInv
  <2> QED BY <2>1, <2>2, <2>4 DEF PathsInv, P!OpensWhatItMay, P!Answered
<1>3. CASE P!Refuse \/ P!Opened
  <2>1. UNCHANGED <<tree, cwd, given, dir>> /\ step = "open" /\ step' \in {"opened", "failed"}
    BY <1>3 DEF P!Refuse, P!Opened, P!AtPart, P!GiveUp
  <2>2. PathTypes' /\ WalkInv' /\ error' # "no tasks" /\ P!OpensWhatItMay'
    BY <1>3, Refuses, Opens DEF PathsInv
  <2>3. error = ""
    BY <2>1 DEF PathsInv, PathTypes
  <2>4. NearInv'
    BY <2>1, <2>2, <2>3, NearStays DEF PathsInv
  <2> QED BY <2>2, <2>4 DEF PathsInv
<1> QED BY <1>1, <1>2, <1>3 DEF P!Next

LEMMA PathsStutters == ASSUME PathsInv, UNCHANGED walk PROVE PathsInv'
<1>1. UNCHANGED <<tree, cwd, given, step, dir, todo, path, fd, error>>
  BY DEF walk
<1>2. P!HasTasks' = P!HasTasks /\ P!NoDb' = P!NoDb /\ P!Asked' = P!Asked /\ P!Visited' = P!Visited
  <2>1. P!HasTasks' = P!HasTasks
    BY <1>1 DEF P!HasTasks, P!Tasks, P!Above, P!Kind
  <2> QED BY <1>1, <2>1, WalkSame
<1>3. PathTypes'
  BY <1>1 DEF PathsInv, PathTypes
<1>4. WalkInv'
  <2>1. SUFFICES ASSUME step = "open" PROVE WalkInv'
    BY <1>1 DEF WalkInv
  <2>2. PICK k \in 0 .. Len(P!Asked) : P!Asked \in Seq(Name) /\ Walked(k)
    BY <2>1 DEF PathsInv, WalkInv
  <2>3. Walked(k)'
    BY <1>1, <1>2, <2>2 DEF Walked, Reached, P!Kind
  <2> QED BY <1>2, <2>2, <2>3 DEF WalkInv
<1>5. NearInv'
  BY <1>1, <1>2 DEF PathsInv, NearInv, Nearest, P!Tasks
<1>6. P!OpensWhatItMay'
  BY <1>1, <1>2 DEF PathsInv, P!OpensWhatItMay, P!Answered, P!Kind
<1> QED BY <1>3, <1>4, <1>5, <1>6 DEF PathsInv

-----------------------------------------------------------------------------
(* Paths: the nearest tasks directory.                                       *)

LEMMA NearestIs == ASSUME PathsInv PROVE P!NearestOpened
<1> SUFFICES ASSUME step \in {"opened", "failed"}, P!NoDb
             PROVE  IF P!HasTasks = {} THEN error = "no tasks"
                    ELSE LET n == CHOOSE n \in P!HasTasks : \A k \in P!HasTasks : k <= n IN
                         /\ IF step = "opened" THEN path = P!Tasks(n)
                            ELSE P!Kind(P!Tasks(n)) # "dir" \/ \E p \in P!Above(cwd) : P!Kind(p) = "dark"
                         /\ P!IdPrints = IF cwd = Append(P!Tasks(n), P!Last(cwd)) THEN P!Last(cwd) ELSE "nothing"
                         /\ P!Normal(cwd \o P!Searched) = Cut(cwd, n)
  BY DEF P!NearestOpened, Cut
<1>1. CASE P!HasTasks = {} /\ error = "no tasks"
  BY <1>1
<1>2. CASE error # "no tasks" /\ \E n : Nearest(n) /\ dir = P!Tasks(n)
  <2>1. PICK n : Nearest(n) /\ dir = P!Tasks(n)
    BY <1>2
  <2>2. /\ cwd \in Seq(Name) /\ Len(cwd) \in Nat /\ \A k \in 1 .. Len(cwd) : cwd[k] \in Real
        /\ \A k \in 0 .. Len(cwd) : P!Kind(Cut(cwd, k)) \in P!Directories
        /\ P!HasTasks \subseteq 1 .. Len(cwd)
    BY HereIs DEF PathsInv
  <2>3. n \in 1 .. Len(cwd) /\ n \in 0 .. Len(cwd) /\ n \in Nat
    <3>1. n \in 1 .. Len(cwd)
      BY <2>1, <2>2 DEF Nearest
    <3> HIDE DEF Nearest
    <3> QED BY <2>2, <3>1
  <2>4. P!HasTasks # {} /\ n = CHOOSE m \in P!HasTasks : \A k \in P!HasTasks : k <= m
    <3>1. ASSUME NEW m \in P!HasTasks, \A k \in P!HasTasks : k <= m PROVE m = n
      <4>1. m \in 1 .. Len(cwd) /\ n <= m /\ m <= n
        BY <2>1, <2>2, <3>1 DEF Nearest
      <4> QED BY <2>3, <4>1
    <3> QED BY <2>1, <3>1 DEF Nearest
  <2> DEFINE b == P!Tasks(n)
  <2>5. /\ b \in Seq(Name) /\ Len(b) = n + 1 /\ P!Front(b) = Cut(cwd, n) /\ b # <<>>
        /\ \A k \in 0 .. n : Cut(b, k) = Cut(cwd, k)
        /\ \A k \in 1 .. Len(b) : b[k] \in Real
    <3> DEFINE d == Cut(cwd, n)
    <3>1. d \in Seq(Name) /\ Len(d) = n /\ (\A k \in 1 .. n : d[k] = cwd[k]) /\ \A k \in 0 .. n : Cut(d, k) = Cut(cwd, k)
      BY <2>2, <2>3, CutIs
    <3>2. "tasks" \in Name /\ "tasks" \in Real
      BY Names DEF Real
    <3>3. b = Append(d, "tasks")
      BY DEF P!Tasks, Cut
    <3> HIDE DEF d, b
    <3>4. b \in Seq(Name) /\ Len(b) = n + 1 /\ P!Front(b) = d /\ b # <<>> /\ \A k \in 0 .. n : Cut(b, k) = Cut(d, k)
      BY <3>1, <3>2, <3>3, CutAppend
    <3>5. ASSUME NEW k \in 1 .. Len(b) PROVE b[k] \in Real
      <4>1. k \in 1 .. n \/ k = n + 1
        BY <2>3, <3>4
      <4>2. k \in 1 .. n => b[k] = cwd[k] /\ k \in 1 .. Len(cwd)
        BY <2>2, <2>3, <3>1, <3>2, <3>3, AppendProperties
      <4>3. b[n + 1] = "tasks"
        BY <3>1, <3>2, <3>3, AppendProperties
      <4> QED BY <2>2, <3>2, <4>1, <4>2, <4>3
    <3> QED BY <3>1, <3>4, <3>5 DEF d
  <2>6. P!Asked = cwd \o P!Relative(cwd, b)
    BY <2>1 DEF P!Asked, P!NoDb
  <2>7. dir = b
    BY <2>1
  <2>8. \A p \in P!Above(b) : P!Kind(p) # "dark"
    BY <2>1 DEF Nearest, P!HasTasks
  <2> HIDE DEF b
  <2>9. /\ P!Asked \in Seq(Name) /\ P!Normal(P!Asked) = b
        /\ \A k \in 0 .. Len(P!Asked) : \/ \E i \in 0 .. Len(cwd) : P!Visited[k] = Cut(cwd, i)
                                        \/ \E i \in 0 .. Len(b) : P!Visited[k] = Cut(b, i)
    <3>1. cwd \in Seq(Name) /\ AllReal(cwd) /\ b \in Seq(Name) /\ AllReal(b)
      BY <2>2, <2>5 DEF AllReal
    <3> DEFINE s == P!Asked
    <3> HIDE DEF s
    <3>2. Route(s, cwd, b)
      BY <2>6 DEF s, Route
    <3>3. /\ s \in Seq(Name) /\ P!Normal(s) = b
          /\ \A k \in 0 .. Len(s) : \/ \E i \in 0 .. Len(cwd) : P!Saying(s)[k] = Cut(cwd, i)
                                    \/ \E i \in 0 .. Len(b) : P!Saying(s)[k] = Cut(b, i)
      BY <3>1, <3>2, RouteIs
    <3> QED BY <3>3 DEF s, P!Visited
  <2>10. DOMAIN P!Visited = 0 .. Len(P!Asked)
    BY <2>9, SayingIs DEF P!Visited
  <2>11. P!Answered /\ P!OpensWhatItMay
    BY <1>2 DEF P!Answered, PathsInv
  <2>12. step = "opened" => path = b
    BY <2>9, <2>11 DEF P!OpensWhatItMay
  <2>13. ASSUME step # "opened", P!Kind(b) = "dir", \A p \in P!Above(cwd) : P!Kind(p) # "dark" PROVE FALSE
    <3>1. ASSUME NEW i \in 0 .. Len(cwd) PROVE Reached(Cut(cwd, i))
      <4>1. ASSUME NEW q \in P!Above(Cut(cwd, i)) PROVE P!Kind(q) # "dark"
        <5>1. Len(Cut(cwd, i)) = i /\ \A j \in 0 .. i : Cut(Cut(cwd, i), j) = Cut(cwd, j)
          BY <2>2, CutIs
        <5>2. PICK j \in 0 .. i - 1 : q = Cut(Cut(cwd, i), j)
          BY <5>1 DEF P!Above, Cut
        <5>3. j \in 0 .. i /\ j \in 0 .. Len(cwd) - 1
          BY <2>2, <5>2
        <5>4. q \in P!Above(cwd)
          BY <5>1, <5>2, <5>3 DEF P!Above, Cut
        <5> QED BY <2>13, <5>4
      <4> QED BY <2>2, <4>1 DEF Reached
    <3>2. ASSUME NEW i \in 0 .. Len(b) PROVE Reached(Cut(b, i))
      <4>1. CASE i = Len(b)
        <5>1. Cut(b, i) = b
          BY <2>5, <4>1, CutEnds
        <5> QED BY <2>8, <2>13, <5>1 DEF Reached, P!Directories
      <4>2. CASE i # Len(b)
        <5>1. i \in 0 .. n /\ i \in 0 .. Len(cwd)
          BY <2>2, <2>3, <2>5, <4>2
        <5> QED BY <2>5, <3>1, <5>1
      <4> QED BY <4>1, <4>2
    <3>3. \A k \in DOMAIN P!Visited : Reached(P!Visited[k])
      BY <2>9, <2>10, <3>1, <3>2
    <3> QED BY <2>9, <2>11, <2>13, <3>3 DEF P!OpensWhatItMay, Reached
  <2>14. P!IdPrints = IF cwd = Append(b, P!Last(cwd)) THEN P!Last(cwd) ELSE "nothing"
    BY <2>2, <2>5, <2>7, InsideIs DEF P!IdPrints, P!Inside
  <2>15. P!Normal(cwd \o P!Searched) = Cut(cwd, n)
    <3> DEFINE r == P!Relative(cwd, b)
    <3>1. r \in Seq(Name) /\ ".." \in Name
      <4>1. cwd \in Seq(Name) /\ b \in Seq(Name)
        BY <2>2, <2>5
      <4>2. r \in Seq(Name)
        BY <4>1, RelativeIs
      <4> QED BY <4>2, Names
    <3>2. P!Searched = r \o <<"..">> /\ P!Asked = cwd \o r
      BY <2>6, <2>7 DEF P!Searched
    <3> HIDE DEF r
    <3>3. cwd \o P!Searched = Append(P!Asked, "..")
      BY <2>2, <3>1, <3>2, UpAfter
    <3>4. P!Normal(Append(P!Asked, "..")) = P!Says(b, "..")
      BY <2>9, <3>1, SayMore
    <3>5. P!Says(b, "..") = P!Front(b)
      BY <2>5, <3>1, SaysIs
    <3> QED BY <2>5, <3>3, <3>4, <3>5
  <2> QED BY <2>4, <2>12, <2>13, <2>14, <2>15 DEF b
<1> QED BY <1>1, <1>2 DEF PathsInv, NearInv

-----------------------------------------------------------------------------
(* Paths: the theorems.                                                      *)

PathsPartInv == part = "paths" => PathsInv
LEMMA PathsPart == PartsSpec => []PathsPartInv
<1>1. PartsInit => PathsPartInv
  BY PathsInitially DEF PartsInit, PathsPartInv
<1>2. PathsPartInv /\ [PartsNext]_<<vars, walk, part>> => PathsPartInv'
  <2> SUFFICES ASSUME PathsPartInv, [PartsNext]_<<vars, walk, part>>, part' = "paths" PROVE PathsInv'
    BY DEF PathsPartInv
  <2>1. part = "paths" /\ PathsInv
    BY DEF PartsNext, PathsPartInv
  <2>2. P!Next \/ UNCHANGED walk
    BY <2>1 DEF PartsNext
  <2> QED BY <2>1, <2>2, PathsStep, PathsStutters
<1> QED BY <1>1, <1>2, PTL DEF PartsSpec

\* A path is opened if and only if all its parts are directories that can be reached and the last one
\* may be read, without links and under one identity (store_open).
THEOREM DatabaseOpened == PartsSpec => []OpensWhatItMay
<1>1. PathsPartInv => OpensWhatItMay
  BY DEF PathsPartInv, PathsInv, OpensWhatItMay
<1> QED BY <1>1, PathsPart, PTL

\* Without -db it is the nearest tasks directory that is opened, and id and ref speak of it.
THEOREM NearestDatabase == PartsSpec => []NearestOpened
<1>1. PathsPartInv => NearestOpened
  BY NearestIs DEF PathsPartInv, NearestOpened
<1> QED BY <1>1, PathsPart, PTL
=============================================================================
