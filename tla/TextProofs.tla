----------------------------- MODULE TextProofs -----------------------------
(***************************************************************************)
(* Proofs about what the program writes, in Text and Formats: that it is   *)
(* read again as it was meant, for texts of any length over any            *)
(* characters.  The first lemmas are about folds, which both the readers   *)
(* and the writers are: what they keep is kept along a chain of values,    *)
(* each from the one before it.                                            *)
(***************************************************************************)
EXTENDS MCDecisions, TLAPS, SequenceTheorems, WellFoundedInduction, FiniteSetTheorems

\* A set of numbers that is not empty has a least.
LEMMA LeastOf ==
  ASSUME NEW S \in SUBSET Nat, S # {}
  PROVE  \E x \in S : \A y \in S : x <= y
<1> DEFINE Less == {ss \in Nat \X Nat : ss[1] < ss[2]}
<1>1. IsWellFoundedOn(Less, Nat)
  BY NatLessThanWellFounded DEF OpToRel
<1>2. PICK x \in S : \A y \in S : ~(<<y, x>> \in Less)
  <2> HIDE DEF Less
  <2> QED BY <1>1, WFMin
<1>3. ASSUME NEW y \in S PROVE x <= y
  <2>1. x \in Nat /\ y \in Nat /\ ~(y < x)
    BY <1>2
  <2> QED BY <2>1
<1> QED BY <1>3

\* Division with a remainder,
LEMMA ModExact ==
  ASSUME NEW w \in Nat \ {0}, NEW a \in Int
  PROVE  a \div w \in Int /\ a % w \in 0 .. w - 1 /\ a = w * (a \div w) + (a % w)
OBVIOUS

\* which is the only one.
LEMMA ModIs ==
  ASSUME NEW w \in Nat \ {0}, NEW q \in Int, NEW r \in 0 .. w - 1, NEW a \in Int, a = w * q + r
  PROVE  a % w = r
<1> DEFINE p == a \div w m == a % w
<1>1. p \in Int /\ m \in 0 .. w - 1 /\ a = w * p + m
  BY ModExact
<1> HIDE DEF p
<1> SUFFICES m = r
  OBVIOUS
<1> HIDE DEF m
<1>2. \A x, y \in Int : x >= y + 1 => w * x >= w * y + w
  OBVIOUS
<1>3. CASE p >= q + 1
  <2>1. w * p >= w * q + w /\ w * p \in Int /\ w * q \in Int
    BY <1>1, <1>2, <1>3
  <2> QED BY <1>1, <2>1
<1>4. CASE q >= p + 1
  <2>1. w * q >= w * p + w /\ w * p \in Int /\ w * q \in Int
    BY <1>1, <1>2, <1>4
  <2> QED BY <1>1, <2>1
<1>5. CASE p = q
  <2>1. w * q \in Int
    OBVIOUS
  <2> QED BY <1>1, <1>5, <2>1
<1> QED BY <1>1, <1>3, <1>4, <1>5

\* A part of a text, and its end.
LEMMA PartIs ==
  ASSUME NEW A, NEW s \in Seq(A), NEW a \in 0 .. Len(s), NEW b \in a .. Len(s)
  PROVE  /\ SubSeq(s, a + 1, b) \in Seq(A) /\ Len(SubSeq(s, a + 1, b)) = b - a
         /\ \A k \in 1 .. b - a : SubSeq(s, a + 1, b)[k] = s[a + k]
OBVIOUS

\* A fold from the left as the folds of the community modules define it: g holds the
\* results for the sets of positions, the greatest of which comes last.
Folds(g, op, base, qs, n) ==
  g = [s \in SUBSET (1 .. n) |->
         IF s = {} THEN base ELSE op[<<g[s \ {X!Max(s)}], qs[X!Max(s)]>>]]

\* The greatest of the first so many positions,
LEMMA MaxIs ==
  ASSUME NEW n \in Nat, NEW s \in SUBSET (1 .. n + 1), n + 1 \in s
  PROVE  X!Max(s) = n + 1
<1>1. \A y \in s : y \in Nat /\ n + 1 >= y
  OBVIOUS
<1>2. \A x \in s : (\A y \in s : x >= y) => x = n + 1
  BY <1>1
<1>3. \E x \in s : \A y \in s : x >= y
  BY <1>1
<1>4. X!Max(s) \in s /\ \A y \in s : X!Max(s) >= y
  BY <1>3, Zenon DEF X!Max
<1> QED BY <1>2, <1>4

\* and of any set of them.
LEMMA GreatestIs ==
  ASSUME NEW n \in Nat, NEW s \in SUBSET (1 .. n), s # {}
  PROVE  X!Max(s) \in s /\ X!Max(s) \in 1 .. n /\ s \ {X!Max(s)} \in SUBSET (1 .. n)
<1> DEFINE I == {n - i : i \in s}
<1>1. I \in SUBSET Nat /\ I # {}
  <2>1. \A i \in s : n - i \in Nat
    OBVIOUS
  <2>2. PICK i \in s : TRUE
    OBVIOUS
  <2>3. n - i \in I
    OBVIOUS
  <2> QED BY <2>1, <2>3
<1>2. PICK x \in I : \A y \in I : x <= y
  <2> HIDE DEF I
  <2> QED BY <1>1, LeastOf
<1>3. PICK m \in s : x = n - m
  OBVIOUS
<1>4. ASSUME NEW i \in s PROVE m >= i
  <2>1. n - m <= n - i
    BY <1>2, <1>3
  <2> QED BY <2>1
<1>5. X!Max(s) \in s
  BY <1>4, Zenon DEF X!Max
<1> QED BY <1>5

\* The sets of the first so many positions.
LEMMA FirstSets ==
  ASSUME NEW n \in Nat
  PROVE  /\ 1 .. 0 = {} /\ \A k \in 0 .. n : 1 .. k \in SUBSET (1 .. n)
         /\ \A k \in 1 .. n : /\ k \in 0 .. n /\ k - 1 \in 0 .. n /\ 1 .. k # {}
                              /\ X!Max(1 .. k) = k /\ (1 .. k) \ {k} = 1 .. k - 1
<1>1. 1 .. 0 = {} /\ \A k \in 0 .. n : 1 .. k \in SUBSET (1 .. n)
  OBVIOUS
<1>2. ASSUME NEW k \in 1 .. n
      PROVE  /\ k \in 0 .. n /\ k - 1 \in 0 .. n /\ 1 .. k # {}
             /\ X!Max(1 .. k) = k /\ (1 .. k) \ {k} = 1 .. k - 1
  <2>1. k \in 0 .. n /\ k - 1 \in 0 .. n /\ k \in Nat /\ k \in 1 .. k /\ k - 1 \in Nat /\ (k - 1) + 1 = k
    OBVIOUS
  <2>2. \A i : i \in (1 .. k) \ {k} <=> i \in 1 .. k - 1
    BY <2>1
  <2>3. (1 .. k) \ {k} = 1 .. k - 1
    BY <2>2, Zenon
  <2>4. X!Max(1 .. k) = k
    BY <2>1, MaxIs
  <2> QED BY <2>1, <2>3, <2>4
<1> QED BY <1>1, <1>2

\* Induction over the positions of a chain.
LEMMA AlongChain ==
  ASSUME NEW n \in Nat, NEW S, 0 \in S, \A k \in 1 .. n : k - 1 \in S => k \in S
  PROVE  \A k \in 0 .. n : k \in S
<1> DEFINE Bad == {k \in 0 .. n : k \notin S}
<1>1. SUFFICES ASSUME Bad # {} PROVE FALSE
  OBVIOUS
<1>2. Bad \in SUBSET Nat
  OBVIOUS
<1>3. PICK k \in Bad : \A y \in Bad : k <= y
  <2> HIDE DEF Bad
  <2> QED BY <1>1, <1>2, LeastOf
<1>4. k \in 1 .. n /\ k \notin S /\ k - 1 \in 0 .. n /\ ~(k <= k - 1)
  OBVIOUS
<1>5. k - 1 \in S
  BY <1>3, <1>4
<1> QED BY <1>4, <1>5

\* There is such a fold,
LEMMA FoldsExist ==
  ASSUME NEW A, NEW B, NEW op \in [A \X B -> A], NEW base \in A, NEW qs \in Seq(B)
  PROVE  \E g \in [SUBSET (1 .. Len(qs)) -> A] : Folds(g, op, base, qs, Len(qs))
<1> DEFINE Bad == {n \in 0 .. Len(qs) : ~ \E g \in [SUBSET (1 .. n) -> A] : Folds(g, op, base, qs, n)}
<1>1. SUFFICES ASSUME Bad # {} PROVE FALSE
  <2>1. Bad = {} => Len(qs) \notin Bad
    OBVIOUS
  <2>2. Len(qs) \in 0 .. Len(qs)
    OBVIOUS
  <2> QED BY <2>1, <2>2, Zenon
<1>2. Bad \in SUBSET Nat
  OBVIOUS
<1>3. PICK n \in Bad : \A y \in Bad : n <= y
  <2> HIDE DEF Bad
  <2> QED BY <1>1, <1>2, LeastOf
<1>4. n \in 0 .. Len(qs)
  OBVIOUS
<1>5. ~ \E g \in [SUBSET (1 .. n) -> A] : Folds(g, op, base, qs, n)
  OBVIOUS
<1>6. CASE n = 0
  <2> DEFINE g == [s \in SUBSET (1 .. 0) |-> base]
  <2>1. 1 .. 0 = {}
    OBVIOUS
  <2>2. \A s \in SUBSET (1 .. 0) : s = {}
    BY <2>1
  <2>3. g \in [SUBSET (1 .. 0) -> A]
    OBVIOUS
  <2>4. Folds(g, op, base, qs, 0)
    BY <2>2, Zenon DEF Folds
  <2> HIDE DEF g
  <2> QED BY <1>5, <1>6, <2>3, <2>4
<1>7. CASE n # 0
  <2> DEFINE m == n - 1
  <2>1. m \in 0 .. Len(qs) /\ m \in Nat /\ n = m + 1 /\ ~(n <= m) /\ n \in 1 .. Len(qs)
    BY <1>4, <1>7
  <2> HIDE DEF m
  <2>2. PICK g \in [SUBSET (1 .. m) -> A] : Folds(g, op, base, qs, m)
    BY <1>3, <2>1
  <2>3. \A s \in SUBSET (1 .. n) : s \ {n} \in SUBSET (1 .. m)
    BY <2>1
  <2>4. \A s \in SUBSET (1 .. n) : n \notin s => s \in SUBSET (1 .. m)
    BY <2>1
  <2>5. n \notin 1 .. m
    BY <2>1
  <2>6. \A s \in SUBSET (1 .. n) : n \in s => X!Max(s) = n
    BY <2>1, MaxIs
  <2> DEFINE h == [s \in SUBSET (1 .. n) |-> IF n \in s THEN op[<<g[s \ {n}], qs[n]>>] ELSE g[s]]
  <2>7. \A s \in SUBSET (1 .. m) : g[s] \in A
    OBVIOUS
  <2>8. qs[n] \in B
    BY <2>1
  <2>9. h \in [SUBSET (1 .. n) -> A]
    <3>1. ASSUME NEW s \in SUBSET (1 .. n)
          PROVE  (IF n \in s THEN op[<<g[s \ {n}], qs[n]>>] ELSE g[s]) \in A
      <4>1. CASE n \in s
        <5>1. g[s \ {n}] \in A
          BY <2>3, <2>7
        <5>2. <<g[s \ {n}], qs[n]>> \in A \X B
          BY <5>1, <2>8
        <5> QED BY <4>1, <5>2
      <4>2. CASE n \notin s
        BY <4>2, <2>4, <2>7
      <4> QED BY <4>1, <4>2
    <3> QED BY <3>1
  <2>10. \A s \in SUBSET (1 .. m) : h[s] = g[s]
    <3>1. \A s \in SUBSET (1 .. m) : s \in SUBSET (1 .. n) /\ n \notin s
      BY <2>1, <2>5
    <3> QED BY <3>1
  <2>11. ASSUME NEW s \in SUBSET (1 .. n)
         PROVE  h[s] = IF s = {} THEN base ELSE op[<<h[s \ {X!Max(s)}], qs[X!Max(s)]>>]
    <3>1. CASE n \in s
      <4>1. h[s] = op[<<g[s \ {n}], qs[n]>>]
        BY <3>1
      <4>2. h[s \ {n}] = g[s \ {n}]
        BY <2>3, <2>10
      <4> HIDE DEF h
      <4> QED BY <3>1, <4>1, <4>2, <2>6
    <3>2. CASE n \notin s
      <4>1. s \in SUBSET (1 .. m) /\ s \ {X!Max(s)} \in SUBSET (1 .. m)
        BY <3>2, <2>4
      <4>2. g[s] = IF s = {} THEN base ELSE op[<<g[s \ {X!Max(s)}], qs[X!Max(s)]>>]
        <5>1. g = [z \in SUBSET (1 .. m) |->
                     IF z = {} THEN base ELSE op[<<g[z \ {X!Max(z)}], qs[X!Max(z)]>>]]
          BY <2>2 DEF Folds
        <5> QED BY <4>1, <5>1, Zenon
      <4> HIDE DEF h
      <4> QED BY <4>1, <4>2, <2>10
    <3> QED BY <3>1, <3>2
  <2>12. Folds(h, op, base, qs, n)
    <3>1. h = [s \in SUBSET (1 .. n) |-> h[s]]
      BY <2>9
    <3> HIDE DEF h
    <3>2. h = [s \in SUBSET (1 .. n) |->
                 IF s = {} THEN base ELSE op[<<h[s \ {X!Max(s)}], qs[X!Max(s)]>>]]
      BY <3>1, <2>11, Zenon
    <3> QED BY <3>2 DEF Folds
  <2> HIDE DEF h
  <2> QED BY <1>5, <2>9, <2>12
<1> QED BY <1>6, <1>7

\* The same of f, which need not be g, as far as its values are in A.
Unfolds(f, op, base, qs, A) ==
  /\ f[{}] = base
  /\ \A s \in SUBSET (1 .. Len(qs)) : s # {} /\ f[s \ {X!Max(s)}] \in A =>
       f[s] = op[<<f[s \ {X!Max(s)}], qs[X!Max(s)]>>]

\* What it holds for the first so many positions.
Chained(f, op, base, qs, A) ==
  \E h \in [0 .. Len(qs) -> A] :
    /\ h[0] = base /\ h[Len(qs)] = f[1 .. Len(qs)]
    /\ \A k \in 1 .. Len(qs) : h[k] = op[<<h[k - 1], qs[k]>>]

\* and it is what one application after the other makes.
LEMMA FoldsChain ==
  ASSUME NEW A, NEW B, NEW op \in [A \X B -> A], NEW base \in A, NEW qs \in Seq(B), NEW f,
         Unfolds(f, op, base, qs, A)
  PROVE  Chained(f, op, base, qs, A)
<1> DEFINE h == [k \in 0 .. Len(qs) |-> f[1 .. k]] S == {k \in 0 .. Len(qs) : f[1 .. k] \in A}
<1>1. Len(qs) \in Nat /\ \A i \in 1 .. Len(qs) : qs[i] \in B
  OBVIOUS
<1>2. f[1 .. 0] = base
  BY <1>1, FirstSets DEF Unfolds
<1>3. ASSUME NEW k \in 1 .. Len(qs), f[1 .. k - 1] \in A
      PROVE  f[1 .. k] = op[<<f[1 .. k - 1], qs[k]>>] /\ f[1 .. k] \in A
  <2>1. /\ 1 .. k \in SUBSET (1 .. Len(qs)) /\ 1 .. k # {}
        /\ X!Max(1 .. k) = k /\ (1 .. k) \ {k} = 1 .. k - 1
    <3>1. k \in 0 .. Len(qs)
      BY <1>1
    <3> QED BY <1>1, <3>1, FirstSets
  <2>2. f[1 .. k] = op[<<f[1 .. k - 1], qs[k]>>]
    BY <1>3, <2>1, Zenon DEF Unfolds
  <2>3. <<f[1 .. k - 1], qs[k]>> \in A \X B
    BY <1>1, <1>3
  <2> QED BY <2>2, <2>3
<1>4. \A k \in 0 .. Len(qs) : k \in S
  <2>1. 0 \in S
    BY <1>1, <1>2
  <2>2. \A k \in 1 .. Len(qs) : k \in 0 .. Len(qs)
    BY <1>1
  <2>3. \A k \in 1 .. Len(qs) : k - 1 \in S => k \in S
    <3>1. \A k \in 1 .. Len(qs) : k - 1 \in S => f[1 .. k - 1] \in A
      OBVIOUS
    <3> QED BY <1>3, <2>2, <3>1
  <2> HIDE DEF S
  <2> QED BY <1>1, <2>1, <2>3, AlongChain
<1>5. h \in [0 .. Len(qs) -> A]
  BY <1>4
<1>6. \A k \in 1 .. Len(qs) : h[k] = op[<<h[k - 1], qs[k]>>]
  <2>1. ASSUME NEW k \in 1 .. Len(qs) PROVE h[k] = op[<<h[k - 1], qs[k]>>]
    <3>1. k \in 0 .. Len(qs) /\ k - 1 \in 0 .. Len(qs)
      BY <1>1
    <3>2. f[1 .. k - 1] \in A
      BY <1>4, <3>1
    <3> QED BY <1>3, <3>1, <3>2
  <2> QED BY <2>1
<1>7. h[0] = base /\ h[Len(qs)] = f[1 .. Len(qs)]
  BY <1>1, <1>2
<1> HIDE DEF h
<1> QED BY <1>5, <1>6, <1>7 DEF Chained

\* A text is characters of its kind.
LEMMA TextsTyped ==
  ASSUME text \in Seq(Alphabet[kind]), [PartsNext]_<<vars, src, kind, text, part>>
  PROVE  text' \in Seq(Alphabet'[kind'])
<1>1. CASE part = "text" /\ X!Next /\ UNCHANGED <<vars, src>>
  <2>1. PICK c \in Alphabet[kind] : text' = Append(text, c) /\ kind' = kind
    BY <1>1 DEF X!Next
  <2> QED BY <2>1
<1>2. CASE UNCHANGED <<kind, text>>
  BY <1>2
<1> QED BY <1>1, <1>2 DEF PartsNext

-----------------------------------------------------------------------------
(* UTF-8: a character of scheduler_utf8 is a row of the table.               *)

\* The bits of a byte that continues a character.
Low(c) == c % 64
\* What is left of a byte without the bits that say how long a character is.
LEMMA LowIs == /\ \A c \in Nat : Low(c) \in Nat
               /\ \A c \in 128 .. 191 : Low(c) = c - 128
<1>1. ASSUME NEW c \in Nat PROVE Low(c) \in Nat
  BY SMT DEF Low
<1>2. ASSUME NEW c \in 128 .. 191 PROVE Low(c) = c - 128
  <2>1. PICK r : r = c - 128
    OBVIOUS
  <2>2. r \in 0 .. 64 - 1 /\ c = 64 * 2 + r /\ c \in Int /\ 64 \in Nat \ {0} /\ 2 \in Int
    BY <2>1, SMT
  <2>3. c % 64 = r
    BY <2>2, ModIs
  <2> QED BY <2>1, <2>3 DEF Low
<1> QED BY <1>1, <1>2

\* The number the bytes behind the first add up to.
Code(base, q) == X!FoldLeft(LAMBDA v, c : v * 64 + Low(c), base, q)
Sixes == [x \in Nat \X Nat |-> x[1] * 64 + Low(x[2])]

\* It is added up byte by byte.
LEMMA CodeIs ==
  ASSUME NEW q \in Seq(Nat), NEW b \in Nat
  PROVE  \E h \in [0 .. Len(q) -> Nat] :
           /\ h[0] = b /\ h[Len(q)] = Code(b, q)
           /\ \A k \in 1 .. Len(q) : h[k] = h[k - 1] * 64 + Low(q[k])
<1>1. \A x \in Nat, c \in Nat : Sixes[<<x, c>>] = x * 64 + Low(c) /\ Sixes[<<x, c>>] \in Nat
  <2>1. \A c \in Nat : Low(c) \in Nat
    BY LowIs
  <2>2. \A x, d \in Nat : x * 64 + d \in Nat
    OBVIOUS
  <2>3. \A x \in Nat, c \in Nat : Sixes[<<x, c>>] = x * 64 + Low(c)
    BY DEF Sixes
  <2>4. ASSUME NEW x \in Nat, NEW c \in Nat PROVE Sixes[<<x, c>>] \in Nat
    <3>1. PICK d \in Nat : d = Low(c)
      BY <2>1
    <3> QED BY <2>2, <2>3, <3>1
  <2> QED BY <2>3, <2>4
<1>2. Sixes \in [Nat \X Nat -> Nat]
  <2>1. \A z \in Nat \X Nat : z = <<z[1], z[2]>> /\ z[1] \in Nat /\ z[2] \in Nat
    OBVIOUS
  <2>2. \A z \in Nat \X Nat : Sixes[z] \in Nat
    BY <1>1, <2>1
  <2> QED BY <2>2 DEF Sixes
<1>3. Len(q) \in Nat /\ DOMAIN q = 1 .. Len(q) /\ \A i \in 1 .. Len(q) : q[i] \in Nat
  OBVIOUS
<1> HIDE DEF Sixes
<1>4. \E f : /\ f = [s \in SUBSET DOMAIN q |->
                      IF s = {} THEN b ELSE LET x == X!Max(s) IN f[s \ {x}] * 64 + Low(q[x])]
             /\ Code(b, q) = f[DOMAIN q]
  <2>1. PICK g \in [SUBSET (1 .. Len(q)) -> Nat] : Folds(g, Sixes, b, q, Len(q))
    BY <1>2, <1>3, FoldsExist
  <2>2. \A s \in SUBSET (1 .. Len(q)) : s # {} => X!Max(s) \in 1 .. Len(q) /\ s \ {X!Max(s)} \in SUBSET (1 .. Len(q))
    BY <1>3, GreatestIs
  <2>3. ASSUME NEW s \in SUBSET (1 .. Len(q)), s # {}
        PROVE  Sixes[<<g[s \ {X!Max(s)}], q[X!Max(s)]>>] = g[s \ {X!Max(s)}] * 64 + Low(q[X!Max(s)])
    BY <2>3, <1>1, <1>3, <2>2
  <2>4. g = [s \in SUBSET (1 .. Len(q)) |-> IF s = {} THEN b ELSE Sixes[<<g[s \ {X!Max(s)}], q[X!Max(s)]>>]]
    BY <2>1 DEF Folds
  <2>5. g = [s \in SUBSET (1 .. Len(q)) |-> IF s = {} THEN b ELSE g[s \ {X!Max(s)}] * 64 + Low(q[X!Max(s)])]
    BY <2>3, <2>4, Zenon
  <2>6. g = [s \in SUBSET DOMAIN q |-> IF s = {} THEN b ELSE LET x == X!Max(s) IN g[s \ {x}] * 64 + Low(q[x])]
    BY <2>5, <1>3, Zenon
  <2> QED BY <2>6, Zenon DEF Code, Low, X!FoldLeft, X!MapThenFoldSet
<1>5. PICK f : /\ f = [s \in SUBSET DOMAIN q |->
                      IF s = {} THEN b ELSE LET x == X!Max(s) IN f[s \ {x}] * 64 + Low(q[x])]
               /\ Code(b, q) = f[DOMAIN q]
  BY <1>4
<1>6. \A s \in SUBSET (1 .. Len(q)) : f[s] = IF s = {} THEN b ELSE f[s \ {X!Max(s)}] * 64 + Low(q[X!Max(s)])
  BY <1>3, <1>5, Zenon
<1>7. Unfolds(f, Sixes, b, q, Nat)
  <2>1. ASSUME NEW s \in SUBSET (1 .. Len(q)), s # {}, f[s \ {X!Max(s)}] \in Nat
        PROVE  f[s] = Sixes[<<f[s \ {X!Max(s)}], q[X!Max(s)]>>]
    BY <1>1, <1>3, <1>6, <2>1, GreatestIs
  <2> QED BY <1>6, <2>1, Zenon DEF Unfolds
<1>8. Chained(f, Sixes, b, q, Nat)
  BY <1>2, <1>3, <1>7, FoldsChain
<1>9. PICK h \in [0 .. Len(q) -> Nat] :
           /\ h[0] = b /\ h[Len(q)] = f[1 .. Len(q)]
           /\ \A k \in 1 .. Len(q) : h[k] = Sixes[<<h[k - 1], q[k]>>]
  BY <1>8 DEF Chained
<1>10. \A k \in 1 .. Len(q) : h[k] = h[k - 1] * 64 + Low(q[k])
  <2>1. \A k \in 1 .. Len(q) : h[k - 1] \in Nat /\ q[k] \in Nat
    BY <1>3
  <2> QED BY <1>1, <1>9, <2>1
<1> QED BY <1>3, <1>5, <1>9, <1>10

\* The bytes that follow the first of a character.
Continues(c) == c \in 128 .. 191

\* Of one to three of these.
OfTwoMore(b, c, d) == b * 4096 + (c - 128) * 64 + (d - 128)
OfThreeMore(b, c, d, e) == b * 262144 + (c - 128) * 4096 + (d - 128) * 64 + (e - 128)

\* The code point that a lead and so many bytes behind it make.
LEMMA CodeOfNone == ASSUME NEW q \in Seq(Nat), NEW b \in Nat, Len(q) = 0 PROVE Code(b, q) = b
<1>1. PICK h \in [0 .. Len(q) -> Nat] : h[0] = b /\ h[Len(q)] = Code(b, q)
  BY CodeIs
<1> QED BY <1>1

LEMMA CodeOfOne ==
  ASSUME NEW q \in Seq(Nat), NEW b \in Nat, Len(q) = 1, \A k \in 1 .. Len(q) : Continues(q[k])
  PROVE  Code(b, q) = b * 64 + (q[1] - 128)
<1>1. PICK h \in [0 .. Len(q) -> Nat] :
           /\ h[0] = b /\ h[Len(q)] = Code(b, q)
           /\ \A k \in 1 .. Len(q) : h[k] = h[k - 1] * 64 + Low(q[k])
  BY CodeIs
<1>2. 1 \in 1 .. Len(q) /\ 1 - 1 = 0
  OBVIOUS
<1>3. Low(q[1]) = q[1] - 128
  BY <1>2, LowIs DEF Continues
<1> QED BY <1>1, <1>2, <1>3, Zenon

LEMMA CodeOfTwo ==
  ASSUME NEW q \in Seq(Nat), NEW b \in Nat, Len(q) = 2, \A k \in 1 .. Len(q) : Continues(q[k])
  PROVE  Code(b, q) = OfTwoMore(b, q[1], q[2])
<1>1. PICK h \in [0 .. Len(q) -> Nat] :
           /\ h[0] = b /\ h[Len(q)] = Code(b, q)
           /\ \A k \in 1 .. Len(q) : h[k] = h[k - 1] * 64 + Low(q[k])
  BY CodeIs
<1>2. 1 \in 1 .. Len(q) /\ 2 \in 1 .. Len(q) /\ 1 - 1 = 0 /\ 2 - 1 = 1
  OBVIOUS
<1>3. PICK x, y : x = q[1] - 128 /\ y = q[2] - 128
  OBVIOUS
<1>4. Low(q[1]) = x /\ Low(q[2]) = y /\ x \in Nat /\ y \in Nat
  <2>1. \A c \in 128 .. 191 : Low(c) = c - 128 /\ c - 128 \in Nat
    <3>1. \A c \in 128 .. 191 : c - 128 \in Nat
      OBVIOUS
    <3> QED BY <3>1, LowIs, Zenon
  <2> QED BY <1>2, <1>3, <2>1, Zenon DEF Continues
<1>5. Code(b, q) = (b * 64 + x) * 64 + y
  BY <1>1, <1>2, <1>4, Zenon
<1>6. Code(b, q) = b * 4096 + x * 64 + y
  BY <1>4, <1>5, SMT
<1> QED BY <1>3, <1>6, SMT DEF OfTwoMore

LEMMA CodeOfThree ==
  ASSUME NEW q \in Seq(Nat), NEW b \in Nat, Len(q) = 3, \A k \in 1 .. Len(q) : Continues(q[k])
  PROVE  Code(b, q) = OfThreeMore(b, q[1], q[2], q[3])
<1>1. PICK h \in [0 .. Len(q) -> Nat] :
           /\ h[0] = b /\ h[Len(q)] = Code(b, q)
           /\ \A k \in 1 .. Len(q) : h[k] = h[k - 1] * 64 + Low(q[k])
  BY CodeIs
<1>2. /\ 1 \in 1 .. Len(q) /\ 2 \in 1 .. Len(q) /\ 3 \in 1 .. Len(q)
      /\ 1 - 1 = 0 /\ 2 - 1 = 1 /\ 3 - 1 = 2
  OBVIOUS
<1>3. PICK x, y, z : x = q[1] - 128 /\ y = q[2] - 128 /\ z = q[3] - 128
  OBVIOUS
<1>4. Low(q[1]) = x /\ Low(q[2]) = y /\ Low(q[3]) = z /\ x \in Nat /\ y \in Nat /\ z \in Nat
  <2>1. \A c \in 128 .. 191 : Low(c) = c - 128 /\ c - 128 \in Nat
    <3>1. \A c \in 128 .. 191 : c - 128 \in Nat
      OBVIOUS
    <3> QED BY <3>1, LowIs, Zenon
  <2> QED BY <1>2, <1>3, <2>1, Zenon DEF Continues
<1>5. Code(b, q) = ((b * 64 + x) * 64 + y) * 64 + z
  <2>1. h[1] = h[0] * 64 + x
    BY <1>1, <1>2, <1>4, Zenon
  <2>2. h[2] = h[1] * 64 + y
    BY <1>1, <1>2, <1>4, Zenon
  <2>3. h[3] = h[2] * 64 + z
    BY <1>1, <1>2, <1>4, Zenon
  <2> QED BY <1>1, <2>1, <2>2, <2>3, Zenon
<1>6. Code(b, q) = b * 262144 + x * 4096 + y * 64 + z
  BY <1>4, <1>5, SMT
<1> QED BY <1>3, <1>6, SMT DEF OfThreeMore

\* The first bytes of characters of one to four bytes, and what is none.
Ones == 0 .. 127
Twos == 194 .. 223
Threes == 224 .. 239
Fours == 240 .. 244
Strays == 128 .. 193 \cup 245 .. 255
Bytes == 0 .. 255

\* A byte is one of these,
LEMMA KindsAre ==
  /\ Bytes = Ones \cup Twos \cup Threes \cup Fours \cup Strays
  /\ \A c : /\ c \in Ones => c \notin Twos /\ c \notin Threes /\ c \notin Fours /\ c \notin Strays
            /\ c \in Twos => c \notin Threes /\ c \notin Fours /\ c \notin Strays /\ c # 0
            /\ c \in Threes => c \notin Fours /\ c \notin Strays /\ c # 0
            /\ c \in Fours => c \notin Strays /\ c # 0
BY SMT DEF Bytes, Ones, Twos, Threes, Fours, Strays

\* and it says how many follow.
LEMMA CountsAre ==
  /\ \A c : X!Lead(c).count \in -1 .. 3
  /\ \A c \in Ones : X!Lead(c).count = 0
  /\ \A c \in Twos : X!Lead(c).count = 1
  /\ \A c \in Threes : X!Lead(c).count = 2
  /\ \A c \in Fours : X!Lead(c).count = 3
  /\ \A c \in Strays : X!Lead(c).count = -1
<1>1. ASSUME NEW c PROVE X!Lead(c).count \in -1 .. 3
  BY SMT DEF X!Lead
<1>2. ASSUME NEW c \in Ones PROVE X!Lead(c).count = 0
  BY SMT DEF X!Lead, Ones
<1>3. ASSUME NEW c \in Twos PROVE X!Lead(c).count = 1
  BY SMT DEF X!Lead, Twos
<1>4. ASSUME NEW c \in Threes PROVE X!Lead(c).count = 2
  BY SMT DEF X!Lead, Threes
<1>5. ASSUME NEW c \in Fours PROVE X!Lead(c).count = 3
  BY SMT DEF X!Lead, Fours
<1>6. ASSUME NEW c \in Strays PROVE X!Lead(c).count = -1
  BY SMT DEF X!Lead, Strays
<1> QED BY <1>1, <1>2, <1>3, <1>4, <1>5, <1>6

\* What the first byte of a character says of the second.
OfThree(c, d) == c \in Threes /\ (c = 224 => d >= 160) /\ (c = 237 => d <= 159)
OfFour(c, d) == c \in Fours /\ (c = 240 => d >= 144) /\ (c = 244 => d <= 143)

\* A character of j bytes from byte n on.
Shape(n, j) ==
  /\ n + j - 1 <= Len(text) /\ \A k \in 1 .. j - 1 : Continues(text[n + k])
  /\ \/ j = 1 /\ text[n] \in Ones /\ text[n] # 0
     \/ j = 2 /\ text[n] \in Twos
     \/ j = 3 /\ OfThree(text[n], text[n + 1])
     \/ j = 4 /\ OfFour(text[n], text[n + 1])

\* A row of the table from byte n on.
Row(n, row) == n + Len(row) - 1 <= Len(text) /\ \A k \in DOMAIN row : text[n - 1 + k] \in row[k]

\* What this says of the rows of one to four bytes.
LEMMA RowsOf ==
  ASSUME NEW n \in Nat \ {0}, NEW A, NEW B, NEW C, NEW D, Len(text) \in Nat
  PROVE  /\ Len(<<A>>) = 1 /\ Len(<<A, B>>) = 2 /\ Len(<<A, B, C>>) = 3 /\ Len(<<A, B, C, D>>) = 4
         /\ Row(n, <<A>>) <=> n <= Len(text) /\ text[n] \in A
         /\ Row(n, <<A, B>>) <=> n + 1 <= Len(text) /\ text[n] \in A /\ text[n + 1] \in B
         /\ Row(n, <<A, B, C>>) <=> n + 2 <= Len(text) /\ text[n] \in A /\ text[n + 1] \in B /\ text[n + 2] \in C
         /\ Row(n, <<A, B, C, D>>) <=> /\ n + 3 <= Len(text) /\ text[n] \in A /\ text[n + 1] \in B
                                       /\ text[n + 2] \in C /\ text[n + 3] \in D
<1>1. n - 1 + 1 = n /\ n - 1 + 2 = n + 1 /\ n - 1 + 3 = n + 2 /\ n - 1 + 4 = n + 3
  OBVIOUS
<1>2. /\ n + 1 - 1 <= Len(text) <=> n <= Len(text)
      /\ n + 2 - 1 <= Len(text) <=> n + 1 <= Len(text)
      /\ n + 3 - 1 <= Len(text) <=> n + 2 <= Len(text)
      /\ n + 4 - 1 <= Len(text) <=> n + 3 <= Len(text)
  OBVIOUS
<1>3. Row(n, <<A>>) <=> n <= Len(text) /\ text[n] \in A
  <2>1. DOMAIN <<A>> = {1} /\ <<A>>[1] = A /\ Len(<<A>>) = 1
    OBVIOUS
  <2> QED BY <1>1, <1>2, <2>1, Zenon DEF Row
<1>4. Row(n, <<A, B>>) <=> n + 1 <= Len(text) /\ text[n] \in A /\ text[n + 1] \in B
  <2>1. PICK r : r = <<A, B>>
    OBVIOUS
  <2>2. DOMAIN r = {1, 2} /\ r[1] = A /\ r[2] = B /\ Len(r) = 2
    BY <2>1
  <2>3. (\A k \in DOMAIN r : text[n - 1 + k] \in r[k]) <=> text[n] \in A /\ text[n + 1] \in B
    BY <1>1, <2>2
  <2> QED BY <1>2, <2>1, <2>2, <2>3 DEF Row
<1>5. Row(n, <<A, B, C>>) <=> n + 2 <= Len(text) /\ text[n] \in A /\ text[n + 1] \in B /\ text[n + 2] \in C
  <2>1. PICK r : r = <<A, B, C>>
    OBVIOUS
  <2>2. DOMAIN r = {1, 2, 3} /\ r[1] = A /\ r[2] = B /\ r[3] = C /\ Len(r) = 3
    BY <2>1
  <2>3. (\A k \in DOMAIN r : text[n - 1 + k] \in r[k]) <=> text[n] \in A /\ text[n + 1] \in B /\ text[n + 2] \in C
    BY <1>1, <2>2
  <2> QED BY <1>2, <2>1, <2>2, <2>3 DEF Row
<1>6. Row(n, <<A, B, C, D>>) <=> /\ n + 3 <= Len(text) /\ text[n] \in A /\ text[n + 1] \in B
                                 /\ text[n + 2] \in C /\ text[n + 3] \in D
  <2>1. PICK r : r = <<A, B, C, D>>
    OBVIOUS
  <2>2. DOMAIN r = {1, 2, 3, 4} /\ r[1] = A /\ r[2] = B /\ r[3] = C /\ r[4] = D /\ Len(r) = 4
    BY <2>1
  <2>3. (\A k \in DOMAIN r : text[n - 1 + k] \in r[k])
          <=> text[n] \in A /\ text[n + 1] \in B /\ text[n + 2] \in C /\ text[n + 3] \in D
    BY <1>1, <2>2
  <2> QED BY <1>2, <2>1, <2>2, <2>3 DEF Row
<1> QED BY <1>3, <1>4, <1>5, <1>6

\* The rows of the table have these shapes.
LEMMA RowShape ==
  ASSUME NEW n \in Nat \ {0}, Len(text) \in Nat
  PROVE  /\ \A row \in X!Table : Len(row) \in 1 .. 4
         /\ \A j \in 1 .. 4 : (\E row \in X!Table : Len(row) = j /\ Row(n, row)) <=> Shape(n, j)
<1> DEFINE C == 128 .. 191 P1 == 1 .. 127 P2 == 194 .. 223
           P3 == {224} Q3 == 160 .. 191 P4 == 225 .. 236 P5 == {237} Q5 == 128 .. 159 P6 == 238 .. 239
           P7 == {240} Q7 == 144 .. 191 P8 == 241 .. 243 P9 == {244} Q9 == 128 .. 143
<1>1. X!Table = {<<P1>>, <<P2, C>>, <<P3, Q3, C>>, <<P4, C, C>>, <<P5, Q5, C>>, <<P6, C, C>>,
                 <<P7, Q7, C, C>>, <<P8, C, C, C>>, <<P9, Q9, C, C>>}
  BY DEF X!Table
<1>2. \A c : (c \in C <=> Continues(c)) /\ (c \in Ones /\ c # 0 <=> c \in P1) /\ (c \in Twos <=> c \in P2)
  <2>1. \A c : c \in C <=> Continues(c)
    BY Zenon DEF Continues
  <2>2. \A c : c \in Ones /\ c # 0 <=> c \in P1
    <3>1. \A c \in 0 .. 127 : c # 0 => c \in 1 .. 127
      BY SMT
    <3>2. \A c \in 1 .. 127 : c \in 0 .. 127 /\ c # 0
      BY SMT
    <3> QED BY <3>1, <3>2, Zenon DEF Ones
  <2>3. \A c : c \in Twos <=> c \in P2
    BY Zenon DEF Twos
  <2> HIDE DEF C, P1, P2
  <2> QED BY <2>1, <2>2, <2>3
<1>3. ASSUME NEW c, NEW d
      PROVE  /\ Continues(d) /\ OfThree(c, d)
                  <=> (c \in P3 /\ d \in Q3) \/ (c \in P4 /\ d \in C) \/ (c \in P5 /\ d \in Q5) \/ (c \in P6 /\ d \in C)
             /\ Continues(d) /\ OfFour(c, d)
                  <=> (c \in P7 /\ d \in Q7) \/ (c \in P8 /\ d \in C) \/ (c \in P9 /\ d \in Q9)
  <2>1. ASSUME c \in 224 .. 239, d \in 128 .. 191
        PROVE  (c = 224 => d >= 160) /\ (c = 237 => d <= 159)
                  <=> (c \in P3 /\ d \in Q3) \/ (c \in P4 /\ d \in C) \/ (c \in P5 /\ d \in Q5) \/ (c \in P6 /\ d \in C)
    <3>1. c = 224 \/ c \in 225 .. 236 \/ c = 237 \/ c \in 238 .. 239
      BY <2>1, SMT
    <3>2. CASE c = 224
      BY <2>1, <3>2, SMT
    <3>3. CASE c \in 225 .. 236
      BY <2>1, <3>3, SMT
    <3>4. CASE c = 237
      BY <2>1, <3>4, SMT
    <3>5. CASE c \in 238 .. 239
      BY <2>1, <3>5, SMT
    <3> QED BY <2>1, <3>1, <3>2, <3>3, <3>4, <3>5
  <2>2. ASSUME c \in 240 .. 244, d \in 128 .. 191
        PROVE  (c = 240 => d >= 144) /\ (c = 244 => d <= 143)
                  <=> (c \in P7 /\ d \in Q7) \/ (c \in P8 /\ d \in C) \/ (c \in P9 /\ d \in Q9)
    <3>1. c = 240 \/ c \in 241 .. 243 \/ c = 244
      BY <2>2, SMT
    <3>2. CASE c = 240
      BY <2>2, <3>2, SMT
    <3>3. CASE c \in 241 .. 243
      BY <2>2, <3>3, SMT
    <3>4. CASE c = 244
      BY <2>2, <3>4, SMT
    <3> QED BY <2>2, <3>1, <3>2, <3>3, <3>4
  <2>3. (c \in P3 /\ d \in Q3) \/ (c \in P4 /\ d \in C) \/ (c \in P5 /\ d \in Q5) \/ (c \in P6 /\ d \in C)
          => c \in 224 .. 239 /\ d \in 128 .. 191
    BY SMT
  <2>4. (c \in P7 /\ d \in Q7) \/ (c \in P8 /\ d \in C) \/ (c \in P9 /\ d \in Q9) => c \in 240 .. 244 /\ d \in 128 .. 191
    BY SMT
  <2> HIDE DEF C, P1, P2, P3, Q3, P4, P5, Q5, P6, P7, Q7, P8, P9, Q9
  <2>5. Continues(d) <=> d \in 128 .. 191
    BY DEF Continues
  <2>6. Continues(d) /\ OfThree(c, d)
                  <=> (c \in P3 /\ d \in Q3) \/ (c \in P4 /\ d \in C) \/ (c \in P5 /\ d \in Q5) \/ (c \in P6 /\ d \in C)
    <3>1. CASE c \in 224 .. 239 /\ d \in 128 .. 191
      <4>1. OfThree(c, d) <=> (c = 224 => d >= 160) /\ (c = 237 => d <= 159)
        BY <3>1 DEF OfThree, Threes
      <4>2. (c = 224 => d >= 160) /\ (c = 237 => d <= 159)
              <=> (c \in P3 /\ d \in Q3) \/ (c \in P4 /\ d \in C) \/ (c \in P5 /\ d \in Q5) \/ (c \in P6 /\ d \in C)
        BY <2>1, <3>1
      <4> QED BY <2>5, <3>1, <4>1, <4>2
    <3>2. CASE ~(c \in 224 .. 239 /\ d \in 128 .. 191)
      BY <2>3, <2>5, <3>2, Zenon DEF OfThree, Threes
    <3> QED BY <3>1, <3>2
  <2>7. Continues(d) /\ OfFour(c, d)
                  <=> (c \in P7 /\ d \in Q7) \/ (c \in P8 /\ d \in C) \/ (c \in P9 /\ d \in Q9)
    <3>1. CASE c \in 240 .. 244 /\ d \in 128 .. 191
      <4>1. OfFour(c, d) <=> (c = 240 => d >= 144) /\ (c = 244 => d <= 143)
        BY <3>1 DEF OfFour, Fours
      <4>2. (c = 240 => d >= 144) /\ (c = 244 => d <= 143)
              <=> (c \in P7 /\ d \in Q7) \/ (c \in P8 /\ d \in C) \/ (c \in P9 /\ d \in Q9)
        BY <2>2, <3>1
      <4> QED BY <2>5, <3>1, <4>1, <4>2
    <3>2. CASE ~(c \in 240 .. 244 /\ d \in 128 .. 191)
      BY <2>4, <2>5, <3>2, Zenon DEF OfFour, Fours
    <3> QED BY <3>1, <3>2
  <2> QED BY <2>6, <2>7
<1> HIDE DEF C, P1, P2, P3, Q3, P4, P5, Q5, P6, P7, Q7, P8, P9, Q9
<1> DEFINE L == Len(text) Rowed(j) == \E row \in X!Table : Len(row) = j /\ Row(n, row)
<1>4. /\ Len(<<P1>>) = 1 /\ Len(<<P2, C>>) = 2
      /\ Len(<<P3, Q3, C>>) = 3 /\ Len(<<P4, C, C>>) = 3 /\ Len(<<P5, Q5, C>>) = 3 /\ Len(<<P6, C, C>>) = 3
      /\ Len(<<P7, Q7, C, C>>) = 4 /\ Len(<<P8, C, C, C>>) = 4 /\ Len(<<P9, Q9, C, C>>) = 4
  BY RowsOf, Zenon
<1>5. \A row \in X!Table : Len(row) = 1 \/ Len(row) = 2 \/ Len(row) = 3 \/ Len(row) = 4
  BY <1>1, <1>4, Zenon
<1>6. Rowed(1) <=> Shape(n, 1)
  <2>1. Rowed(1) <=> Row(n, <<P1>>)
    <3>1. 1 # 2 /\ 1 # 3 /\ 1 # 4
      OBVIOUS
    <3> QED BY <1>1, <1>4, <3>1, Zenon
  <2>2. Row(n, <<P1>>) <=> n <= L /\ text[n] \in P1
    BY RowsOf, Zenon
  <2>3. Shape(n, 1) <=> n <= L /\ text[n] \in P1
    <3>1. n + 1 - 1 = n /\ 1 # 2 /\ 1 # 3 /\ 1 # 4 /\ \A k : k \notin 1 .. 1 - 1
      OBVIOUS
    <3> QED BY <1>2, <3>1, Zenon DEF Shape
  <2> QED BY <2>1, <2>2, <2>3
<1>7. Rowed(2) <=> Shape(n, 2)
  <2>1. Rowed(2) <=> Row(n, <<P2, C>>)
    <3>1. 2 # 1 /\ 2 # 3 /\ 2 # 4
      OBVIOUS
    <3> QED BY <1>1, <1>4, <3>1, Zenon
  <2>2. Row(n, <<P2, C>>) <=> n + 1 <= L /\ text[n] \in P2 /\ text[n + 1] \in C
    BY RowsOf, Zenon
  <2>3. Shape(n, 2) <=> n + 1 <= L /\ text[n] \in P2 /\ Continues(text[n + 1])
    <3>1. n + 2 - 1 <= L <=> n + 1 <= L
      OBVIOUS
    <3>2. \A k \in 1 .. 2 - 1 : k = 1
      OBVIOUS
    <3> QED BY <1>2, <3>1, <3>2 DEF Shape
  <2> QED BY <1>2, <2>1, <2>2, <2>3
<1>8. Rowed(3) <=> Shape(n, 3)
  <2>1. Rowed(3) <=> Row(n, <<P3, Q3, C>>) \/ Row(n, <<P4, C, C>>) \/ Row(n, <<P5, Q5, C>>) \/ Row(n, <<P6, C, C>>)
    <3>1. 3 # 1 /\ 3 # 2 /\ 3 # 4
      OBVIOUS
    <3> QED BY <1>1, <1>4, <3>1, Zenon
  <2>2. \A A, B : Row(n, <<A, B, C>>) <=> n + 2 <= L /\ text[n] \in A /\ text[n + 1] \in B /\ text[n + 2] \in C
    BY RowsOf, Zenon
  <2>3. Shape(n, 3) <=> n + 2 <= L /\ Continues(text[n + 1]) /\ Continues(text[n + 2]) /\ OfThree(text[n], text[n + 1])
    <3>1. n + 3 - 1 <= L <=> n + 2 <= L
      OBVIOUS
    <3>2. \A k : k \in 1 .. 3 - 1 <=> k = 1 \/ k = 2
      OBVIOUS
    <3>3. 3 # 1 /\ 3 # 2 /\ 3 # 4
      OBVIOUS
    <3> QED BY <3>1, <3>2, <3>3, Zenon DEF Shape
  <2>4. PICK c, d, e : c = text[n] /\ d = text[n + 1] /\ e = text[n + 2]
    OBVIOUS
  <2>5. Rowed(3) <=> n + 2 <= L /\ e \in C /\ ((c \in P3 /\ d \in Q3) \/ (c \in P4 /\ d \in C) \/ (c \in P5 /\ d \in Q5) \/ (c \in P6 /\ d \in C))
    <3> HIDE DEF Rowed
    <3>1. /\ Row(n, <<P3, Q3, C>>) <=> n + 2 <= L /\ c \in P3 /\ d \in Q3 /\ e \in C
          /\ Row(n, <<P4, C, C>>) <=> n + 2 <= L /\ c \in P4 /\ d \in C /\ e \in C
          /\ Row(n, <<P5, Q5, C>>) <=> n + 2 <= L /\ c \in P5 /\ d \in Q5 /\ e \in C
          /\ Row(n, <<P6, C, C>>) <=> n + 2 <= L /\ c \in P6 /\ d \in C /\ e \in C
      BY <2>2, <2>4, Zenon
    <3> QED BY <2>1, <3>1, ZenonT(30)
  <2>6. Shape(n, 3) <=> n + 2 <= L /\ e \in C /\ Continues(d) /\ OfThree(c, d)
    BY <1>2, <2>3, <2>4
  <2> HIDE DEF Rowed
  <2> QED BY <1>3, <2>5, <2>6
<1>9. Rowed(4) <=> Shape(n, 4)
  <2>1. Rowed(4) <=> Row(n, <<P7, Q7, C, C>>) \/ Row(n, <<P8, C, C, C>>) \/ Row(n, <<P9, Q9, C, C>>)
    <3>1. 4 # 1 /\ 4 # 2 /\ 4 # 3
      OBVIOUS
    <3> QED BY <1>1, <1>4, <3>1, Zenon
  <2>2. \A A, B : Row(n, <<A, B, C, C>>) <=> /\ n + 3 <= L /\ text[n] \in A /\ text[n + 1] \in B
                                             /\ text[n + 2] \in C /\ text[n + 3] \in C
    BY RowsOf, Zenon
  <2>3. Shape(n, 4) <=> /\ n + 3 <= L /\ Continues(text[n + 1]) /\ Continues(text[n + 2]) /\ Continues(text[n + 3])
                        /\ OfFour(text[n], text[n + 1])
    <3>1. n + 4 - 1 <= L <=> n + 3 <= L
      OBVIOUS
    <3>2. \A k : k \in 1 .. 4 - 1 <=> k = 1 \/ k = 2 \/ k = 3
      OBVIOUS
    <3>3. 4 # 1 /\ 4 # 2 /\ 4 # 3
      OBVIOUS
    <3> QED BY <3>1, <3>2, <3>3, Zenon DEF Shape
  <2>4. PICK c, d, e, f : c = text[n] /\ d = text[n + 1] /\ e = text[n + 2] /\ f = text[n + 3]
    OBVIOUS
  <2>5. Rowed(4) <=> n + 3 <= L /\ e \in C /\ f \in C /\ ((c \in P7 /\ d \in Q7) \/ (c \in P8 /\ d \in C) \/ (c \in P9 /\ d \in Q9))
    <3> HIDE DEF Rowed
    <3>1. /\ Row(n, <<P7, Q7, C, C>>) <=> n + 3 <= L /\ c \in P7 /\ d \in Q7 /\ e \in C /\ f \in C
          /\ Row(n, <<P8, C, C, C>>) <=> n + 3 <= L /\ c \in P8 /\ d \in C /\ e \in C /\ f \in C
          /\ Row(n, <<P9, Q9, C, C>>) <=> n + 3 <= L /\ c \in P9 /\ d \in Q9 /\ e \in C /\ f \in C
      BY <2>2, <2>4, Zenon
    <3> QED BY <2>1, <3>1, ZenonT(30)
  <2>6. Shape(n, 4) <=> n + 3 <= L /\ e \in C /\ f \in C /\ Continues(d) /\ OfFour(c, d)
    BY <1>2, <2>3, <2>4
  <2> HIDE DEF Rowed
  <2> QED BY <1>3, <2>5, <2>6
<1>10. \A j \in 1 .. 4 : j = 1 \/ j = 2 \/ j = 3 \/ j = 4
  OBVIOUS
<1>11. ASSUME NEW j \in 1 .. 4 PROVE Rowed(j) <=> Shape(n, j)
  <2> HIDE DEF Rowed
  <2> QED BY <1>6, <1>7, <1>8, <1>9, <1>10, Zenon
<1>12. \A row \in X!Table : Len(row) \in 1 .. 4
  BY <1>5
<1> QED BY <1>11, <1>12

\* What the first byte has itself, and the least value of such a character.
LEMMA LeadIs ==
  /\ \A c \in Ones : X!Lead(c).bits = c /\ X!Lead(c).min = 0
  /\ \A c \in Twos : X!Lead(c).bits = c - 192 /\ X!Lead(c).min = 128
  /\ \A c \in Threes : X!Lead(c).bits = c - 224 /\ X!Lead(c).min = 2048
  /\ \A c \in Fours : X!Lead(c).bits = c - 240 /\ X!Lead(c).min = 65536
<1>1. ASSUME NEW c \in Ones PROVE X!Lead(c).bits = c /\ X!Lead(c).min = 0
  BY SMT DEF X!Lead, Ones
<1>2. ASSUME NEW c \in Twos PROVE X!Lead(c).bits = c - 192 /\ X!Lead(c).min = 128
  <2>1. PICK r : r = c - 192
    OBVIOUS
  <2>2. r \in 0 .. 32 - 1 /\ c = 32 * 6 + r /\ c \in Int /\ 32 \in Nat \ {0} /\ 6 \in Int
    BY <2>1, SMT DEF Twos
  <2>3. c % 32 = r
    BY <2>2, ModIs
  <2>4. X!Lead(c).bits = c % 32 /\ X!Lead(c).min = 128
    BY SMT DEF X!Lead, Twos
  <2> QED BY <2>1, <2>3, <2>4
<1>3. ASSUME NEW c \in Threes PROVE X!Lead(c).bits = c - 224 /\ X!Lead(c).min = 2048
  <2>1. PICK r : r = c - 224
    OBVIOUS
  <2>2. r \in 0 .. 16 - 1 /\ c = 16 * 14 + r /\ c \in Int /\ 16 \in Nat \ {0} /\ 14 \in Int
    BY <2>1, SMT DEF Threes
  <2>3. c % 16 = r
    BY <2>2, ModIs
  <2>4. X!Lead(c).bits = c % 16 /\ X!Lead(c).min = 2048
    BY SMT DEF X!Lead, Threes
  <2> QED BY <2>1, <2>3, <2>4, SMT
<1>4. ASSUME NEW c \in Fours PROVE X!Lead(c).bits = c - 240 /\ X!Lead(c).min = 65536
  <2>1. PICK r : r = c - 240
    OBVIOUS
  <2>2. r \in 0 .. 8 - 1 /\ c = 8 * 30 + r /\ c \in Int /\ 8 \in Nat \ {0} /\ 30 \in Int
    BY <2>1, SMT DEF Fours
  <2>3. c % 8 = r
    BY <2>2, ModIs
  <2>4. X!Lead(c).bits = c % 8 /\ X!Lead(c).min = 65536
    BY SMT DEF X!Lead, Fours
  <2> QED BY <2>1, <2>3, <2>4, SMT
<1> QED BY <1>1, <1>2, <1>3, <1>4, SMT

\* The number a first byte and the bytes behind it make is that of a character.
Sum(c, q) == Code(X!Lead(c).bits, q)
Enough(c, q) == Sum(c, q) >= X!Lead(c).min /\ X!Scalar(Sum(c, q))

\* It always is when there is at most one behind it; with more, the second byte decides.
LEMMA OnesEnough ==
  ASSUME NEW c \in Ones, NEW q \in Seq(Nat), Len(q) = 0
  PROVE  Enough(c, q)
<1>1. c \in Nat /\ \A k \in 1 .. Len(q) : q[k] \in 128 .. 191
  BY SMT DEF Ones
<1>2. Sum(c, q) = c
  <2>1. Code(c, q) = c
    BY <1>1, CodeOfNone
  <2> QED BY <2>1, LeadIs DEF Sum
<1>3. c >= 0 /\ X!Scalar(c)
  BY SMT DEF Ones, X!Scalar
<1>4. X!Lead(c).min = 0
  BY LeadIs
<1> QED BY <1>2, <1>3, <1>4 DEF Enough

\* A character of two, three or four bytes has the range of its length, and is no surrogate,
\* exactly if its second byte is in the range the standard gives for the first.
LEMMA TwosEnough ==
  ASSUME NEW c \in Twos, NEW q \in Seq(Nat), Len(q) = 1, \A k \in 1 .. Len(q) : Continues(q[k])
  PROVE  Enough(c, q)
<1>1. PICK b : b = c - 192
  OBVIOUS
<1>2. b \in 2 .. 31
  BY <1>1, SMT DEF Twos
<1>3. b \in Nat /\ \A k \in 1 .. Len(q) : q[k] \in 128 .. 191
  BY <1>2, SMT DEF Continues
<1>4. PICK d : d = q[1]
  OBVIOUS
<1>5. d \in 128 .. 191
  BY <1>3, <1>4
<1>6. Sum(c, q) = b * 64 + (d - 128)
  <2>1. Code(b, q) = b * 64 + (q[1] - 128)
    BY <1>3, CodeOfOne
  <2>2. X!Lead(c).bits = b
    BY <1>1, LeadIs
  <2> QED BY <1>4, <2>1, <2>2 DEF Sum
<1>7. PICK v : v = b * 64 + (d - 128)
  OBVIOUS
<1>8. v >= 128 /\ v <= 1114111 /\ v \notin 55296 .. 57343
  BY <1>2, <1>5, <1>7, SMT
<1>9. X!Lead(c).min = 128
  BY LeadIs
<1>10. Sum(c, q) = v
  BY <1>6, <1>7, Zenon
<1> QED BY <1>8, <1>9, <1>10, SMT DEF Enough, X!Scalar

LEMMA ThreesEnough ==
  ASSUME NEW c \in Threes, NEW q \in Seq(Nat), Len(q) = 2, \A k \in 1 .. Len(q) : Continues(q[k])
  PROVE  Enough(c, q) <=> OfThree(c, q[1])
<1>1. PICK b : b = c - 224
  OBVIOUS
<1>2. b \in 0 .. 15
  BY <1>1, SMT DEF Threes
<1>3. b \in Nat /\ \A k \in 1 .. Len(q) : q[k] \in 128 .. 191
  BY <1>2, SMT DEF Continues
<1>4. PICK d, e : d = q[1] /\ e = q[2]
  OBVIOUS
<1>5. d \in 128 .. 191 /\ e \in 128 .. 191
  BY <1>3, <1>4
<1>6. PICK v : v = OfTwoMore(b, d, e)
  OBVIOUS
<1>7. Sum(c, q) = v
  <2>1. Code(b, q) = OfTwoMore(b, q[1], q[2])
    BY <1>3, CodeOfTwo, Zenon
  <2>2. X!Lead(c).bits = b
    BY <1>1, LeadIs
  <2> QED BY <1>4, <1>6, <2>1, <2>2 DEF Sum
<1>8. v >= 2048 /\ v <= 1114111 /\ v \notin 55296 .. 57343 <=> (b = 0 => d >= 160) /\ (b = 13 => d <= 159)
  BY <1>2, <1>5, <1>6, SMT DEF OfTwoMore
<1>9. OfThree(c, d) <=> (b = 0 => d >= 160) /\ (b = 13 => d <= 159)
  <2>1. (c = 224 <=> b = 0) /\ (c = 237 <=> b = 13)
    BY <1>1, SMT DEF Threes
  <2> QED BY <2>1 DEF OfThree
<1>10. X!Lead(c).min = 2048
  BY LeadIs
<1>11. Enough(c, q) <=> v >= 2048 /\ v <= 1114111 /\ v \notin 55296 .. 57343
  BY <1>7, <1>10, SMT DEF Enough, X!Scalar
<1> QED BY <1>4, <1>8, <1>9, <1>11, SMT

LEMMA FoursEnough ==
  ASSUME NEW c \in Fours, NEW q \in Seq(Nat), Len(q) = 3, \A k \in 1 .. Len(q) : Continues(q[k])
  PROVE  Enough(c, q) <=> OfFour(c, q[1])
<1>1. PICK b : b = c - 240
  OBVIOUS
<1>2. b \in 0 .. 4
  BY <1>1, SMT DEF Fours
<1>3. b \in Nat /\ \A k \in 1 .. Len(q) : q[k] \in 128 .. 191
  BY <1>2, SMT DEF Continues
<1>4. PICK d, e, f : d = q[1] /\ e = q[2] /\ f = q[3]
  OBVIOUS
<1>5. d \in 128 .. 191 /\ e \in 128 .. 191 /\ f \in 128 .. 191
  BY <1>3, <1>4
<1>6. PICK v : v = OfThreeMore(b, d, e, f)
  OBVIOUS
<1>7. Sum(c, q) = v
  <2>1. Code(b, q) = OfThreeMore(b, q[1], q[2], q[3])
    BY <1>3, CodeOfThree, Zenon
  <2>2. X!Lead(c).bits = b
    BY <1>1, LeadIs
  <2> QED BY <1>4, <1>6, <2>1, <2>2 DEF Sum
<1>8. v >= 65536 /\ v <= 1114111 /\ v \notin 55296 .. 57343 <=> (b = 0 => d >= 144) /\ (b = 4 => d <= 143)
  BY <1>2, <1>5, <1>6, SMT DEF OfThreeMore
<1>9. OfFour(c, d) <=> (b = 0 => d >= 144) /\ (b = 4 => d <= 143)
  <2>1. (c = 240 <=> b = 0) /\ (c = 244 <=> b = 4)
    BY <1>1, SMT DEF Fours
  <2> QED BY <2>1 DEF OfFour
<1>10. X!Lead(c).min = 65536
  BY LeadIs
<1>11. Enough(c, q) <=> v >= 65536 /\ v <= 1114111 /\ v \notin 55296 .. 57343
  BY <1>7, <1>10, SMT DEF Enough, X!Scalar
<1> QED BY <1>4, <1>8, <1>9, <1>11, SMT

\* How many bytes follow the one at n, these bytes, and whether it is a character.
Behind(n) == X!Lead(text[n]).count
Following(n) == X!Slice(text, n + 1, n + Behind(n))
Char(n) == /\ text[n] # 0 /\ Behind(n) >= 0 /\ Len(Following(n)) = Behind(n)
           /\ \A k \in DOMAIN Following(n) : Continues(Following(n)[k])
           /\ Enough(text[n], Following(n))

\* The bytes that follow are there, or too few of them.
LEMMA FollowIs ==
  ASSUME text \in Seq(Bytes), NEW n \in 1 .. Len(text)
  PROVE  /\ Behind(n) \in -1 .. 3
         /\ Behind(n) >= 0 =>
              /\ Len(Following(n)) = Behind(n) <=> n + Behind(n) <= Len(text)
              /\ n + Behind(n) <= Len(text) =>
                   /\ Following(n) \in Seq(Nat) /\ DOMAIN Following(n) = 1 .. Behind(n)
                   /\ \A k \in 1 .. Behind(n) : Following(n)[k] = text[n + k]
<1>1. PICK m : m = Behind(n)
  OBVIOUS
<1>2. m \in -1 .. 3
  BY <1>1, CountsAre DEF Behind
<1>3. PICK q : q = Following(n)
  OBVIOUS
<1>4. Len(text) \in Nat /\ text \in Seq(Nat)
  <2>1. Bytes \subseteq Nat
    BY DEF Bytes
  <2>2. \A k \in 1 .. Len(text) : text[k] \in Bytes
    OBVIOUS
  <2>3. \A k \in 1 .. Len(text) : text[k] \in Nat
    BY <2>1, <2>2
  <2> QED BY <2>3
<1>5. q = SubSeq(text, n + 1, IF n + m < Len(text) THEN n + m ELSE Len(text))
  BY <1>1, <1>3 DEF Following, X!Slice
<1>6. CASE m >= 0 /\ n + m <= Len(text)
  <2>1. n + m \in n .. Len(text) /\ n \in 0 .. Len(text) /\ (n + m) - n = m
    BY <1>2, <1>4, <1>6
  <2>2. q = SubSeq(text, n + 1, n + m)
    BY <1>2, <1>4, <1>5, <1>6
  <2>3. q \in Seq(Nat) /\ Len(q) = m /\ \A k \in 1 .. m : q[k] = text[n + k]
    BY <1>4, <2>1, <2>2, PartIs
  <2>4. DOMAIN q = 1 .. m
    BY <2>3
  <2> QED BY <1>1, <1>2, <1>3, <1>6, <2>3, <2>4
<1>7. CASE m >= 0 /\ ~(n + m <= Len(text))
  <2>1. q = SubSeq(text, n + 1, Len(text))
    BY <1>2, <1>4, <1>5, <1>7
  <2>2. n \in 0 .. Len(text) /\ Len(text) \in n .. Len(text)
    BY <1>4
  <2>3. Len(q) = Len(text) - n
    BY <1>4, <2>1, <2>2, PartIs
  <2>4. Len(q) # m
    BY <1>2, <1>4, <1>7, <2>3
  <2> QED BY <1>1, <1>2, <1>3, <1>7, <2>4
<1> QED BY <1>1, <1>2, <1>6, <1>7

\* A character of scheduler_utf8 has a shape of the table, and no other.
LEMMA CharShape ==
  ASSUME text \in Seq(Bytes), NEW n \in 1 .. Len(text)
  PROVE  /\ Behind(n) \in -1 .. 3
         /\ Char(n) <=> Behind(n) >= 0 /\ Shape(n, Behind(n) + 1)
         /\ \A j \in 1 .. 4 : Shape(n, j) => j = Behind(n) + 1
<1>1. PICK m : m = Behind(n)
  OBVIOUS
<1>2. PICK c : c = text[n]
  OBVIOUS
<1>3. PICK q : q = Following(n)
  OBVIOUS
<1>4. PICK L : L = Len(text)
  OBVIOUS
<1>5. L \in Nat /\ c \in Bytes /\ n \in 1 .. L
  BY <1>2, <1>4
<1>6. m \in -1 .. 3
  BY <1>1, FollowIs
<1>7. m >= 0 => (Len(q) = m <=> n + m <= L)
  BY <1>1, <1>3, <1>4, FollowIs
<1> DEFINE Full == n + m <= L /\ \A k \in 1 .. m : Continues(text[n + k])
<1>8. m >= 0 /\ n + m <= L => q \in Seq(Nat) /\ Len(q) = m /\ DOMAIN q = 1 .. m /\ \A k \in 1 .. m : q[k] = text[n + k]
  BY <1>1, <1>3, <1>4, <1>7, FollowIs
<1>9. Char(n) <=> c # 0 /\ m >= 0 /\ Full /\ Enough(c, q)
  <2>1. Char(n) <=> c # 0 /\ m >= 0 /\ Len(q) = m /\ (\A k \in DOMAIN q : Continues(q[k])) /\ Enough(c, q)
    BY <1>1, <1>2, <1>3, Zenon DEF Char
  <2>2. CASE m >= 0 /\ n + m <= L
    <3>1. (\A k \in DOMAIN q : Continues(q[k])) <=> \A k \in 1 .. m : Continues(text[n + k])
      BY <1>8, <2>2, Zenon
    <3> QED BY <1>8, <2>1, <2>2, <3>1
  <2>3. CASE ~(m >= 0 /\ n + m <= L)
    BY <1>7, <2>1, <2>3
  <2> QED BY <2>2, <2>3
<1>10. ASSUME m >= 0, Full
       PROVE  /\ q \in Seq(Nat) /\ Len(q) = m /\ \A k \in 1 .. Len(q) : Continues(q[k])
              /\ (m >= 1) => (q[1] = text[n + 1])
  BY <1>6, <1>8, <1>10
<1>11. \A j : Shape(n, j) <=> /\ n + j - 1 <= L /\ \A k \in 1 .. j - 1 : Continues(text[n + k])
                              /\ \/ j = 1 /\ c \in Ones /\ c # 0
                                 \/ j = 2 /\ c \in Twos
                                 \/ j = 3 /\ OfThree(c, text[n + 1])
                                 \/ j = 4 /\ OfFour(c, text[n + 1])
  BY <1>2, <1>4, Zenon DEF Shape
<1>12. c \in Ones \/ c \in Twos \/ c \in Threes \/ c \in Fours \/ c \in Strays
  BY <1>5, KindsAre, Zenon
<1> DEFINE Goal == /\ Char(n) <=> m >= 0 /\ Shape(n, m + 1)
                   /\ \A j \in 1 .. 4 : Shape(n, j) => j = m + 1
<1>13. Shape(n, m + 1) <=> /\ Full
                           /\ \/ m = 0 /\ c \in Ones /\ c # 0
                              \/ m = 1 /\ c \in Twos
                              \/ m = 2 /\ OfThree(c, text[n + 1])
                              \/ m = 3 /\ OfFour(c, text[n + 1])
  <2>1. n + (m + 1) - 1 = n + m /\ (m + 1) - 1 = m
    BY <1>5, <1>6
  <2>2. (m + 1 = 1 <=> m = 0) /\ (m + 1 = 2 <=> m = 1) /\ (m + 1 = 3 <=> m = 2) /\ (m + 1 = 4 <=> m = 3)
    BY <1>6
  <2> QED BY <1>11, <2>1, <2>2, Zenon
<1> HIDE DEF Full
<1>14. \A j : Shape(n, j) =>
         \/ j = 1 /\ c \in Ones
         \/ j = 2 /\ c \in Twos
         \/ j = 3 /\ c \in Threes
         \/ j = 4 /\ c \in Fours
  <2>1. \A d : (OfThree(c, d) => c \in Threes) /\ (OfFour(c, d) => c \in Fours)
    BY DEF OfThree, OfFour
  <2>2. SUFFICES ASSUME NEW j, Shape(n, j)
                 PROVE  \/ j = 1 /\ c \in Ones
                        \/ j = 2 /\ c \in Twos
                        \/ j = 3 /\ c \in Threes
                        \/ j = 4 /\ c \in Fours
    BY Zenon
  <2> QED BY <1>11, <2>1, <2>2
<1>15. ASSUME c \in Ones PROVE Goal
  <2>1. m = 0
    BY <1>1, <1>2, <1>15, CountsAre, Zenon DEF Behind
  <2>2. Full => Enough(c, q)
    <3>1. Full => q \in Seq(Nat) /\ Len(q) = 0
      BY <1>10, <2>1
    <3> QED BY <1>15, <3>1, OnesEnough
  <2>3. Char(n) <=> m >= 0 /\ Shape(n, m + 1)
    BY <1>9, <1>13, <1>15, <2>1, <2>2
  <2>4. \A j : Shape(n, j) => j = 1
    BY <1>14, <1>15, KindsAre, Zenon
  <2> QED BY <2>1, <2>3, <2>4
<1>16. ASSUME c \in Twos PROVE Goal
  <2>1. m = 1
    BY <1>1, <1>2, <1>16, CountsAre, Zenon DEF Behind
  <2>2. Full => Enough(c, q)
    <3>1. Full => q \in Seq(Nat) /\ Len(q) = 1 /\ \A k \in 1 .. Len(q) : Continues(q[k])
      BY <1>10, <2>1
    <3> QED BY <1>16, <3>1, TwosEnough
  <2>3. c # 0
    BY <1>16, KindsAre, Zenon
  <2>4. Char(n) <=> m >= 0 /\ Shape(n, m + 1)
    BY <1>9, <1>13, <1>16, <2>1, <2>2, <2>3
  <2>5. \A j : Shape(n, j) => j = 2
    BY <1>14, <1>16, KindsAre, Zenon
  <2> QED BY <2>1, <2>4, <2>5
<1>17. ASSUME c \in Threes PROVE Goal
  <2>1. m = 2
    BY <1>1, <1>2, <1>17, CountsAre, Zenon DEF Behind
  <2>2. Full => (Enough(c, q) <=> OfThree(c, text[n + 1]))
    <3>1. Full => q \in Seq(Nat) /\ Len(q) = 2 /\ (\A k \in 1 .. Len(q) : Continues(q[k])) /\ q[1] = text[n + 1]
      BY <1>10, <2>1
    <3> QED BY <1>17, <3>1, ThreesEnough, Zenon
  <2>3. c # 0
    BY <1>17, KindsAre, Zenon
  <2>4. Char(n) <=> m >= 0 /\ Shape(n, m + 1)
    BY <1>9, <1>13, <1>17, <2>1, <2>2, <2>3
  <2>5. \A j : Shape(n, j) => j = 3
    BY <1>14, <1>17, KindsAre, Zenon
  <2> QED BY <2>1, <2>4, <2>5
<1>18. ASSUME c \in Fours PROVE Goal
  <2>1. m = 3
    BY <1>1, <1>2, <1>18, CountsAre, Zenon DEF Behind
  <2>2. Full => (Enough(c, q) <=> OfFour(c, text[n + 1]))
    <3>1. Full => q \in Seq(Nat) /\ Len(q) = 3 /\ (\A k \in 1 .. Len(q) : Continues(q[k])) /\ q[1] = text[n + 1]
      BY <1>10, <2>1
    <3> QED BY <1>18, <3>1, FoursEnough, Zenon
  <2>3. c # 0
    BY <1>18, KindsAre, Zenon
  <2>4. Char(n) <=> m >= 0 /\ Shape(n, m + 1)
    BY <1>9, <1>13, <1>18, <2>1, <2>2, <2>3
  <2>5. \A j : Shape(n, j) => j = 4
    BY <1>14, <1>18, KindsAre, Zenon
  <2> QED BY <2>1, <2>4, <2>5
<1>19. ASSUME c \in Strays PROVE Goal
  <2>1. m = -1
    BY <1>1, <1>2, <1>19, CountsAre, Zenon DEF Behind
  <2>2. ~Char(n) /\ ~(m >= 0)
    BY <1>9, <2>1
  <2>3. \A j : ~Shape(n, j)
    BY <1>14, <1>19, KindsAre, Zenon
  <2> QED BY <2>2, <2>3
<1>20. Goal
  BY <1>12, <1>15, <1>16, <1>17, <1>18, <1>19, Zenon
<1> QED BY <1>1, <1>6, <1>20, Zenon

-----------------------------------------------------------------------------
\* scheduler_utf8 satisfies its equation: from n on there are characters if n is among
\* positions of characters that each lead to another of them, or behind the end.
Leads8(S) == \A i \in S : i <= Len(text) /\ Char(i) /\ (i + 1 + Behind(i) \in S \/ i + 1 + Behind(i) > Len(text))
\* scheduler_utf8 takes one character after the other.
LEMMA Utf8Is ==
  ASSUME text \in Seq(Bytes)
  PROVE  \A n \in Nat : X!Utf8From[n] = IF n > Len(text) THEN TRUE ELSE Char(n) /\ X!Utf8From[n + 1 + Behind(n)]
<1>1. Len(text) \in Nat
  OBVIOUS
<1>2. \A n : Behind(n) \in -1 .. 3
  BY CountsAre DEF Behind
<1> DEFINE Step(f, n) == IF n > Len(text) THEN TRUE ELSE Char(n) /\ f[n + 1 + Behind(n)]
<1> DEFINE Body(f, n) ==
      IF n > Len(text) THEN TRUE
      ELSE LET lead == X!Lead(text[n])
               more == X!Slice(text, n + 1, n + lead.count)
               value == X!FoldLeft(LAMBDA v, c : v * 64 + (c % 64), lead.bits, more) IN
           /\ text[n] # 0 /\ lead.count >= 0 /\ Len(more) = lead.count
           /\ \A k \in DOMAIN more : more[k] \in 128 .. 191
           /\ value >= lead.min /\ X!Scalar(value)
           /\ f[n + 1 + lead.count]
<1> DEFINE W == [n \in Nat |-> n > Len(text) \/ \E S \in SUBSET Nat : n \in S /\ Leads8(S)]
<1>3. ASSUME NEW n \in Nat PROVE W[n] = Step(W, n)
  <2>1. CASE n > Len(text)
    BY <2>1
  <2>2. CASE ~(n > Len(text)) /\ Char(n)
    <3>1. PICK e : e = n + 1 + Behind(n)
      OBVIOUS
    <3>2. e \in Nat
      BY <1>2, <3>1
    <3>3. n <= Len(text)
      BY <1>1, <2>2
    <3>4. ASSUME W[n] PROVE W[e]
      <4>1. PICK S \in SUBSET Nat : n \in S /\ Leads8(S)
        BY <2>2, <3>4
      <4>2. e \in S \/ e > Len(text)
        BY <3>1, <4>1 DEF Leads8
      <4> QED BY <3>2, <4>1, <4>2
    <3>5. ASSUME W[e] PROVE W[n]
      <4>1. CASE e > Len(text)
        <5>1. Leads8({n})
          BY <2>2, <3>1, <3>3, <4>1 DEF Leads8
        <5> QED BY <5>1
      <4>2. CASE ~(e > Len(text))
        <5>1. PICK S \in SUBSET Nat : e \in S /\ Leads8(S)
          BY <3>2, <3>5, <4>2
        <5>2. Leads8(S \cup {n})
          BY <2>2, <3>1, <3>3, <5>1 DEF Leads8
        <5>3. S \cup {n} \in SUBSET Nat /\ n \in S \cup {n}
          OBVIOUS
        <5> QED BY <5>2, <5>3
      <4> QED BY <4>1, <4>2
    <3>6. W[n] \in BOOLEAN /\ W[e] \in BOOLEAN
      BY <3>2
    <3> HIDE DEF W
    <3> QED BY <2>2, <3>1, <3>4, <3>5, <3>6
  <2>3. CASE ~(n > Len(text)) /\ ~Char(n)
    BY <2>3 DEF Leads8
  <2> QED BY <2>1, <2>2, <2>3
<1>4. \A f, n : Step(f, n) = Body(f, n)
  <2>1. ASSUME NEW f, NEW n PROVE Step(f, n) = Body(f, n)
    <3>1. Sum(text[n], Following(n)) = X!FoldLeft(LAMBDA v, c : v * 64 + (c % 64), X!Lead(text[n]).bits, Following(n))
      BY Zenon DEF Sum, Code, Low
    <3> DEFINE value == X!FoldLeft(LAMBDA v, c : v * 64 + (c % 64), X!Lead(text[n]).bits, Following(n))
    <3>2. Body(f, n) = IF n > Len(text) THEN TRUE
                       ELSE /\ text[n] # 0 /\ Behind(n) >= 0 /\ Len(Following(n)) = Behind(n)
                            /\ \A k \in DOMAIN Following(n) : Continues(Following(n)[k])
                            /\ value >= X!Lead(text[n]).min /\ X!Scalar(value)
                            /\ f[n + 1 + Behind(n)]
      BY Zenon DEF Continues, Following, Behind
    <3>3. value = Sum(text[n], Following(n))
      BY <3>1
    <3> HIDE DEF value, Body
    <3> QED BY <3>2, <3>3, Zenon DEF Char, Enough
  <2> QED BY <2>1
<1>5. W = [n \in Nat |-> Body(W, n)]
  <2>1. W = [n \in Nat |-> W[n]]
    OBVIOUS
  <2> HIDE DEF W, Body, Step
  <2>2. \A n \in Nat : W[n] = Body(W, n)
    BY <1>3, <1>4, Zenon
  <2> QED BY <2>1, <2>2, Zenon
<1> HIDE DEF W
<1>6. X!Utf8From = [n \in Nat |-> Body(X!Utf8From, n)]
  <2>1. \E f : f = [n \in Nat |-> Body(f, n)]
    BY <1>5
  <2> QED BY <2>1, Zenon DEF X!Utf8From
<1> HIDE DEF Body, Step
<1>7. \A n \in Nat : X!Utf8From[n] = Step(X!Utf8From, n)
  BY <1>4, <1>6, Zenon
<1> QED BY <1>7, Zenon DEF Step

\* And so does the table.
Ends(n, row) == Len(row) <= n /\ \A k \in DOMAIN row : text[n - Len(row) + k] \in row[k]
Back(S) == \A i \in S : i = 0 \/ \E row \in X!Table : Ends(i, row) /\ i - Len(row) \in S
\* So does a reader of the standard's table, from the end.
LEMMA TableIs ==
  ASSUME text \in Seq(Bytes)
  PROVE  \A n \in 0 .. Len(text) : X!WellFormed[n] = (n = 0 \/ \E row \in X!Table : Ends(n, row) /\ X!WellFormed[n - Len(row)])
<1>1. Len(text) \in Nat
  OBVIOUS
<1>2. \A row \in X!Table : Len(row) \in 1 .. 4
  BY <1>1, RowShape
<1> DEFINE Step(f, n) == n = 0 \/ \E row \in X!Table : Ends(n, row) /\ f[n - Len(row)]
<1> DEFINE W == [n \in 0 .. Len(text) |-> \E S \in SUBSET (0 .. Len(text)) : n \in S /\ Back(S)]
<1>3. ASSUME NEW n \in 0 .. Len(text) PROVE W[n] <=> Step(W, n)
  <2>1. ASSUME W[n], n # 0 PROVE Step(W, n)
    <3>1. PICK S \in SUBSET (0 .. Len(text)) : n \in S /\ Back(S)
      BY <2>1
    <3>2. PICK row \in X!Table : Ends(n, row) /\ n - Len(row) \in S
      BY <2>1, <3>1 DEF Back
    <3>3. W[n - Len(row)]
      BY <3>1, <3>2
    <3> HIDE DEF W
    <3> QED BY <3>2, <3>3
  <2>2. ASSUME NEW row \in X!Table, Ends(n, row), W[n - Len(row)] PROVE W[n]
    <3>1. n - Len(row) \in 0 .. Len(text)
      BY <1>1, <1>2, <2>2 DEF Ends
    <3>2. PICK S \in SUBSET (0 .. Len(text)) : n - Len(row) \in S /\ Back(S)
      BY <2>2, <3>1
    <3>3. Back(S \cup {n})
      BY <2>2, <3>2 DEF Back
    <3>4. S \cup {n} \in SUBSET (0 .. Len(text)) /\ n \in S \cup {n}
      OBVIOUS
    <3> QED BY <3>3, <3>4
  <2>3. ASSUME n = 0 PROVE W[n]
    <3>1. Back({0}) /\ {0} \in SUBSET (0 .. Len(text)) /\ n \in {0}
      BY <1>1, <2>3 DEF Back
    <3> QED BY <3>1
  <2> HIDE DEF W
  <2> QED BY <2>1, <2>2, <2>3
<1>4. W = [n \in 0 .. Len(text) |-> Step(W, n)]
  <2>1. \A n \in 0 .. Len(text) : W[n] \in BOOLEAN
    OBVIOUS
  <2>2. W = [n \in 0 .. Len(text) |-> W[n]]
    OBVIOUS
  <2> HIDE DEF W
  <2>3. \A n \in 0 .. Len(text) : W[n] = Step(W, n)
    BY <1>3, <2>1
  <2> QED BY <2>2, <2>3
<1>5. X!WellFormed = CHOOSE f : f = [n \in 0 .. Len(text) |-> Step(f, n)]
  BY Zenon DEF X!WellFormed, Ends
<1> HIDE DEF Step, W
<1>6. X!WellFormed = [n \in 0 .. Len(text) |-> Step(X!WellFormed, n)]
  BY <1>4, <1>5
<1> QED BY <1>6 DEF Step

\* What ends at n begins before it.
LEMMA EndsIs ==
  ASSUME text \in Seq(Bytes), NEW n \in 0 .. Len(text), NEW row \in X!Table, n + Len(row) <= Len(text)
  PROVE  Ends(n + Len(row), row) <=> Row(n + 1, row)
<1>1. Len(text) \in Nat /\ Len(row) \in 1 .. 4
  BY RowShape
<1>2. /\ Len(row) <= n + Len(row) /\ n + Len(row) - Len(row) = n /\ n + 1 - 1 = n
      /\ n + 1 + Len(row) - 1 <= Len(text)
  BY <1>1
<1>3. Ends(n + Len(row), row) <=> \A k \in DOMAIN row : text[n + k] \in row[k]
  BY <1>2, SMT DEF Ends
<1>4. Row(n + 1, row) <=> \A k \in DOMAIN row : text[n + k] \in row[k]
  BY <1>2, SMT DEF Row
<1> QED BY <1>3, <1>4

\* So the two agree, from the front and from the back.
LEMMA Utf8Do == ASSUME text \in Seq(Bytes) PROVE X!Utf8 = X!WellFormed[Len(text)]
<1> DEFINE L == Len(text) U == X!Utf8From W == X!WellFormed
<1>1. L \in Nat
  OBVIOUS
<1>2. \A n \in Nat : U[n] = IF n > L THEN TRUE ELSE Char(n) /\ U[n + 1 + Behind(n)]
  BY Utf8Is
<1>3. \A n \in 0 .. L : W[n] = (n = 0 \/ \E row \in X!Table : Ends(n, row) /\ W[n - Len(row)])
  BY TableIs
<1> DEFINE Met == {m \in 0 .. L : W[m] /\ U[m + 1]}
<1> HIDE DEF L, U, W
\* A character further on, from where both have come.
<1>4. ASSUME NEW m \in Met, m # L PROVE \E i \in Met : i > m
  <2>1. m \in 0 .. L /\ W[m] /\ U[m + 1] /\ m + 1 \in 1 .. L
    BY <1>1, <1>4
  <2>2. Char(m + 1) /\ U[m + 1 + 1 + Behind(m + 1)]
    <3>1. m + 1 \in Nat /\ ~(m + 1 > L)
      BY <1>1, <2>1
    <3> QED BY <1>2, <2>1, <3>1, Zenon
  <2>3. PICK j : j = Behind(m + 1) + 1
    OBVIOUS
  <2>4. j \in 1 .. 4 /\ Shape(m + 1, j)
    <3>1. Behind(m + 1) \in -1 .. 3 /\ Behind(m + 1) >= 0 /\ Shape(m + 1, Behind(m + 1) + 1)
      BY <2>1, <2>2, CharShape DEF L
    <3> QED BY <2>3, <3>1
  <2>5. m + 1 \in Nat \ {0}
    BY <2>1
  <2>6. PICK row \in X!Table : Len(row) = j /\ Row(m + 1, row)
    BY <1>1, <2>4, <2>5, RowShape DEF L
  <2>7. m + j \in 0 .. L
    BY <1>1, <2>1, <2>4 DEF Shape, L
  <2>8. Ends(m + j, row)
    <3>1. m + Len(row) <= Len(text)
      BY <2>6, <2>7 DEF L
    <3>2. m \in 0 .. Len(text)
      BY <2>1 DEF L
    <3> QED BY <2>6, <3>1, <3>2, EndsIs
  <2>9. m + j - Len(row) = m
    BY <2>1, <2>4, <2>6
  <2>10. W[m + j]
    <3>1. PICK e \in 0 .. L : e = m + j
      BY <2>7
    <3>2. Ends(e, row) /\ W[e - Len(row)]
      <4>1. e - Len(row) = m
        BY <2>1, <2>4, <2>6, <3>1, SMT
      <4> QED BY <2>1, <2>8, <3>1, <4>1, Zenon
    <3>3. W[e]
      BY <1>3, <3>2
    <3> QED BY <3>1, <3>3
  <2>11. m + 1 + 1 + Behind(m + 1) = m + j + 1
    <3>1. Behind(m + 1) \in Int
      BY CountsAre DEF Behind
    <3> QED BY <2>1, <2>3, <3>1
  <2> QED BY <2>1, <2>2, <2>4, <2>7, <2>10, <2>11
\* A character further back.
<1>5. ASSUME NEW m \in Met, m # 0 PROVE \E i \in Met : i < m
  <2>1. m \in 0 .. L /\ W[m] /\ U[m + 1]
    OBVIOUS
  <2>2. PICK row \in X!Table : Ends(m, row) /\ W[m - Len(row)]
    BY <1>3, <1>5, <2>1
  <2>3. PICK j : j = Len(row)
    OBVIOUS
  <2>4. j \in 1 .. 4 /\ j <= m
    <3>1. Len(row) \in 1 .. 4
      BY <1>1, RowShape DEF L
    <3> QED BY <2>2, <2>3, <3>1 DEF Ends
  <2>5. PICK i : i = m - j
    OBVIOUS
  <2>6. i \in 0 .. L /\ i + j = m /\ i < m /\ i + 1 \in 1 .. L /\ i + 1 \in Nat \ {0} /\ i + Len(row) = m
    BY <1>1, <2>1, <2>3, <2>4, <2>5
  <2>7. Row(i + 1, row)
    BY <2>1, <2>2, <2>6, EndsIs DEF L
  <2>8. Shape(i + 1, j)
    BY <1>1, <2>3, <2>4, <2>6, <2>7, RowShape DEF L
  <2>9. j = Behind(i + 1) + 1 /\ Behind(i + 1) \in -1 .. 3
    BY <2>4, <2>6, <2>8, CharShape DEF L
  <2>10. Behind(i + 1) >= 0
    BY <2>4, <2>9
  <2>11. Char(i + 1)
    BY <2>6, <2>8, <2>9, <2>10, CharShape DEF L
  <2>12. i + 1 + 1 + Behind(i + 1) = m + 1
    BY <2>6, <2>9
  <2>13. U[i + 1]
    BY <1>1, <1>2, <2>1, <2>6, <2>11, <2>12
  <2> QED BY <2>2, <2>3, <2>5, <2>6, <2>13
<1>6. ASSUME U[1] PROVE W[L]
  <2> DEFINE Left == {L - m : m \in Met}
  <2>1. 0 \in Met
    <3>1. 0 \in 0 .. L
      BY <1>1
    <3>2. W[0]
      BY <1>3, <3>1, Zenon
    <3>3. 0 + 1 = 1
      OBVIOUS
    <3> QED BY <1>6, <3>1, <3>2, <3>3, Zenon
  <2>2. Left \in SUBSET Nat /\ Left # {}
    BY <1>1, <2>1
  <2>3. PICK x \in Left : \A y \in Left : x <= y
    BY <2>2, LeastOf
  <2>4. PICK m \in Met : x = L - m
    OBVIOUS
  <2>5. ~\E i \in Met : i > m
    <3>1. SUFFICES ASSUME NEW i \in Met, i > m PROVE FALSE
      OBVIOUS
    <3>2. L - m <= L - i
      BY <2>3, <2>4
    <3> QED BY <1>1, <3>1, <3>2
  <2>6. m = L
    BY <1>4, <2>5
  <2> QED BY <2>6
<1>7. ASSUME W[L] PROVE U[1]
  <2>1. L \in Met
    <3>1. L + 1 \in Nat /\ L + 1 > L /\ L \in 0 .. L
      BY <1>1
    <3>2. U[L + 1]
      BY <1>2, <3>1, Zenon
    <3> QED BY <1>7, <3>1, <3>2
  <2>2. Met \in SUBSET Nat /\ Met # {}
    BY <1>1, <2>1
  <2>3. PICK m \in Met : \A y \in Met : m <= y
    BY <2>2, LeastOf
  <2>4. ~\E i \in Met : i < m
    BY <1>1, <2>3
  <2>5. m = 0
    BY <1>5, <2>4
  <2> QED BY <2>5
<1>8. U[1] \in BOOLEAN /\ W[L] \in BOOLEAN
  <2>1. 1 \in Nat /\ L \in 0 .. L
    BY <1>1
  <2>2. U[1] \in BOOLEAN
    BY <1>2, <2>1, Zenon
  <2>3. W[L] \in BOOLEAN
    BY <1>3, <2>1, Zenon
  <2> QED BY <2>2, <2>3
<1>9. U[1] = W[L]
  BY <1>6, <1>7, <1>8
<1> QED BY <1>9 DEF U, W, L, X!Utf8

-----------------------------------------------------------------------------
(* JSON strings.                                                             *)

\* One character of the reader, and its states.
ReadChar(r, c) ==
  CASE r.at = "escape" -> IF c = "u" THEN [r EXCEPT !.at = "code"]
                          ELSE [at |-> "in", read |-> Append(r.read, c)]
    [] r.at = "code" -> [at |-> "in", read |-> Append(r.read, c)]
    [] r.at = "in" /\ c = "backslash" -> [r EXCEPT !.at = "escape"]
    [] r.at = "in" /\ c = "quote" -> [r EXCEPT !.at = "end"]
    [] r.at = "in" /\ c \notin {"backslash", "quote", "tab", "newline"} -> [r EXCEPT !.read = Append(@, c)]
    [] OTHER -> [r EXCEPT !.at = "bad"]
Begun == [at |-> "in", read |-> <<>>]
ReadAll(q) == X!FoldLeft(LAMBDA r, c : ReadChar(r, c), Begun, q)
ReadStates(A) == [at : {"in", "escape", "code", "end", "bad"}, read : Seq(A)]
ReadFun(A) == [z \in ReadStates(A) \X A |-> ReadChar(z[1], z[2])]

\* The reader of JSON strings, one character at a time.
LEMMA ReadCharType ==
  ASSUME NEW A, NEW r \in ReadStates(A), NEW c \in A
  PROVE  ReadChar(r, c) \in ReadStates(A)
BY DEF ReadStates, ReadChar

\* A function that folds is there, whose last value is what is read.
LEMMA ReadJsonIs ==
  ASSUME NEW A, NEW q \in Seq(A)
  PROVE  \E h \in [0 .. Len(q) -> ReadStates(A)] :
           /\ h[0] = Begun /\ h[Len(q)] = ReadAll(q)
           /\ \A k \in 1 .. Len(q) : h[k] = ReadChar(h[k - 1], q[k])
<1> DEFINE B == ReadStates(A) op == ReadFun(A) b == Begun
<1>1. \A x \in B, c \in A : op[<<x, c>>] = ReadChar(x, c) /\ op[<<x, c>>] \in B
  BY ReadCharType DEF ReadFun
<1>2. op \in [B \X A -> B]
  <2>1. \A z \in B \X A : z = <<z[1], z[2]>> /\ z[1] \in B /\ z[2] \in A
    OBVIOUS
  <2>2. \A z \in B \X A : op[z] \in B
    <3> HIDE DEF op, B
    <3> QED BY <1>1, <2>1
  <2> QED BY <2>2 DEF ReadFun
<1>3. Len(q) \in Nat /\ DOMAIN q = 1 .. Len(q) /\ \A i \in 1 .. Len(q) : q[i] \in A
  OBVIOUS
<1>4. b \in B
  BY DEF ReadStates, Begun
<1> HIDE DEF op, B
<1> DEFINE Is(f) == f = [z \in SUBSET DOMAIN q |->
                           IF z = {} THEN b ELSE LET x == X!Max(z) IN ReadChar(f[z \ {x}], q[x])]
<1>5. \E f : Is(f) /\ ReadAll(q) = f[DOMAIN q]
  <2>1. PICK g \in [SUBSET (1 .. Len(q)) -> B] : Folds(g, op, b, q, Len(q))
    BY <1>2, <1>3, <1>4, FoldsExist
  <2>2. \A z \in SUBSET (1 .. Len(q)) : z # {} => X!Max(z) \in 1 .. Len(q) /\ z \ {X!Max(z)} \in SUBSET (1 .. Len(q))
    BY <1>3, GreatestIs
  <2>3. ASSUME NEW z \in SUBSET (1 .. Len(q)), z # {}
        PROVE  op[<<g[z \ {X!Max(z)}], q[X!Max(z)]>>] = ReadChar(g[z \ {X!Max(z)}], q[X!Max(z)])
    BY <2>3, <1>1, <1>3, <2>2
  <2>4. g = [z \in SUBSET (1 .. Len(q)) |-> IF z = {} THEN b ELSE op[<<g[z \ {X!Max(z)}], q[X!Max(z)]>>]]
    BY <2>1 DEF Folds
  <2>5. g = [z \in SUBSET (1 .. Len(q)) |-> IF z = {} THEN b ELSE ReadChar(g[z \ {X!Max(z)}], q[X!Max(z)])]
    BY <2>3, <2>4, Zenon
  <2>6. Is(g)
    BY <2>5, <1>3, Zenon
  <2> QED BY <2>6, Zenon DEF ReadAll, X!FoldLeft, X!MapThenFoldSet
<1>6. PICK f : Is(f) /\ ReadAll(q) = f[DOMAIN q]
  BY <1>5, Zenon
<1>7. \A z \in SUBSET (1 .. Len(q)) : f[z] = IF z = {} THEN b ELSE ReadChar(f[z \ {X!Max(z)}], q[X!Max(z)])
  BY <1>3, <1>6, Zenon
<1> HIDE DEF b
<1>8. Unfolds(f, op, b, q, B)
  <2>1. ASSUME NEW z \in SUBSET (1 .. Len(q)), z # {}, f[z \ {X!Max(z)}] \in B
        PROVE  f[z] = op[<<f[z \ {X!Max(z)}], q[X!Max(z)]>>]
    BY <1>1, <1>3, <1>7, <2>1, GreatestIs
  <2> QED BY <1>7, <2>1, Zenon DEF Unfolds
<1>9. Chained(f, op, b, q, B)
  BY <1>2, <1>3, <1>4, <1>8, FoldsChain
<1>10. PICK h \in [0 .. Len(q) -> B] :
           /\ h[0] = b /\ h[Len(q)] = f[1 .. Len(q)]
           /\ \A k \in 1 .. Len(q) : h[k] = op[<<h[k - 1], q[k]>>]
  BY <1>9 DEF Chained
<1>11. \A k \in 1 .. Len(q) : h[k] = ReadChar(h[k - 1], q[k])
  <2>1. \A k \in 1 .. Len(q) : h[k - 1] \in B /\ q[k] \in A
    BY <1>3
  <2> QED BY <1>1, <1>10, <2>1
<1>12. DOMAIN q = 1 .. Len(q)
  BY <1>3
<1>13. h[Len(q)] = ReadAll(q)
  BY <1>6, <1>10, <1>12
<1> QED BY <1>10, <1>11, <1>13, Zenon DEF B, b

-----------------------------------------------------------------------------
(* What a function makes of a sequence, element by element.                  *)
Runs(op, r, q, t) ==
  \E h : /\ h[0] = r /\ h[Len(q)] = t
         /\ \A k \in 1 .. Len(q) : h[k] = op[<<h[k - 1], q[k]>>]

\* What runs on a sequence goes step by step, and on from one sequence to the next.
LEMMA RunsNone == ASSUME NEW op, NEW r PROVE Runs(op, r, <<>>, r)
<1> DEFINE h == [k \in {0} |-> r]
<1>1. Len(<<>>) = 0 /\ h[0] = r /\ \A k : k \notin 1 .. 0
  OBVIOUS
<1> HIDE DEF h
<1> QED BY <1>1, Zenon DEF Runs

LEMMA RunsOne == ASSUME NEW op, NEW r, NEW c, NEW t, t = op[<<r, c>>] PROVE Runs(op, r, <<c>>, t)
<1> DEFINE h == [k \in {0, 1} |-> IF k = 0 THEN r ELSE t]
<1>1. Len(<<c>>) = 1 /\ h[0] = r /\ h[1] = t /\ <<c>>[1] = c /\ 1 - 1 = 0 /\ \A k \in 1 .. 1 : k = 1
  OBVIOUS
<1> HIDE DEF h
<1> QED BY <1>1, Zenon DEF Runs

LEMMA RunsJoin ==
  ASSUME NEW A, NEW p \in Seq(A), NEW q \in Seq(A), NEW op, NEW r, NEW s, NEW t,
         Runs(op, r, p, s), Runs(op, s, q, t)
  PROVE  Runs(op, r, p \o q, t)
<1>1. PICK g : g[0] = r /\ g[Len(p)] = s /\ \A k \in 1 .. Len(p) : g[k] = op[<<g[k - 1], p[k]>>]
  BY DEF Runs
<1>2. PICK h : h[0] = s /\ h[Len(q)] = t /\ \A k \in 1 .. Len(q) : h[k] = op[<<h[k - 1], q[k]>>]
  BY DEF Runs
<1> DEFINE m == Len(p) n == Len(q)
<1> DEFINE f == [k \in 0 .. m + n |-> IF k <= m THEN g[k] ELSE h[k - m]]
<1>3. m \in Nat /\ n \in Nat /\ Len(p \o q) = m + n
  OBVIOUS
<1>4. f[0] = r /\ f[m + n] = t
  <2>1. 0 \in 0 .. m + n /\ m + n \in 0 .. m + n /\ 0 <= m /\ (m + n) - m = n /\ (m + n <= m <=> n = 0)
    BY <1>3
  <2>2. n = 0 => m + n = m
    BY <1>3
  <2> HIDE DEF m, n
  <2>3. n = 0 => g[m + n] = t
    BY <1>1, <1>2, <2>2 DEF m, n
  <2> QED BY <1>1, <1>2, <2>1, <2>3 DEF m, n
<1>5. ASSUME NEW k \in 1 .. m + n PROVE f[k] = op[<<f[k - 1], (p \o q)[k]>>]
  <2>1. k \in 0 .. m + n /\ k - 1 \in 0 .. m + n
    BY <1>3
  <2>2. CASE k <= m
    <3>1. k \in 1 .. Len(p) /\ k - 1 <= m
      BY <1>3, <2>2
    <3>2. (p \o q)[k] = p[k]
      BY <3>1
    <3> QED BY <1>1, <2>1, <2>2, <3>1, <3>2
  <2>3. CASE k > m
    <3>1. k - m \in 1 .. Len(q) /\ ~(k <= m) /\ (k - m) - 1 = (k - 1) - m
      BY <1>3, <2>3
    <3>2. (p \o q)[k] = q[k - m]
      BY <1>3, <2>3
    <3>3. f[k] = h[k - m]
      BY <2>1, <3>1
    <3>4. f[k - 1] = h[(k - 1) - m]
      <4>1. CASE k - 1 <= m
        <5>1. k - 1 = m /\ (k - 1) - m = 0
          BY <1>3, <2>3, <4>1
        <5>2. f[k - 1] = g[k - 1]
          BY <2>1, <4>1
        <5> QED BY <1>1, <1>2, <5>1, <5>2
      <4>2. CASE ~(k - 1 <= m)
        BY <2>1, <4>2
      <4> QED BY <4>1, <4>2
    <3> HIDE DEF f
    <3> QED BY <1>2, <3>1, <3>2, <3>3, <3>4
  <2>4. k <= m \/ k > m
    BY <1>3
  <2> QED BY <2>2, <2>3, <2>4
<1> HIDE DEF f, m, n
<1> QED BY <1>3, <1>4, <1>5 DEF Runs

\* It makes one thing only.
LEMMA RunsAlone ==
  ASSUME NEW op, NEW r, NEW q, Len(q) \in Nat, NEW s, NEW t, Runs(op, r, q, s), Runs(op, r, q, t)
  PROVE  s = t
<1>1. PICK g : g[0] = r /\ g[Len(q)] = s /\ \A k \in 1 .. Len(q) : g[k] = op[<<g[k - 1], q[k]>>]
  BY DEF Runs
<1>2. PICK h : h[0] = r /\ h[Len(q)] = t /\ \A k \in 1 .. Len(q) : h[k] = op[<<h[k - 1], q[k]>>]
  BY DEF Runs
<1> DEFINE Same == {k \in 0 .. Len(q) : g[k] = h[k]}
<1>3. 0 \in Same
  BY <1>1, <1>2
<1>4. ASSUME NEW k \in 1 .. Len(q), k - 1 \in Same PROVE k \in Same
  <2>1. g[k - 1] = h[k - 1] /\ k \in 0 .. Len(q)
    BY <1>4
  <2> QED BY <1>1, <1>2, <2>1
<1>5. Len(q) \in 0 .. Len(q)
  OBVIOUS
<1>6. \A k \in 0 .. Len(q) : k \in Same
  <2> HIDE DEF Same
  <2> QED BY <1>3, <1>4, AlongChain
<1> QED BY <1>1, <1>2, <1>5, <1>6

-----------------------------------------------------------------------------
(* Sequences put one behind the other.                                       *)
Chain(h, op, base, qs) == h[0] = base /\ \A k \in 1 .. Len(qs) : h[k] = op[<<h[k - 1], qs[k]>>]
\* A fold is the end of a chain; there is one for each sequence.
LEMMA ChainsExist ==
  ASSUME NEW A, NEW B, NEW op \in [A \X B -> A], NEW base \in A, NEW qs \in Seq(B)
  PROVE  \E h \in [0 .. Len(qs) -> A] : Chain(h, op, base, qs)
<1>1. PICK g \in [SUBSET (1 .. Len(qs)) -> A] : Folds(g, op, base, qs, Len(qs))
  BY FoldsExist
<1>2. g = [s \in SUBSET (1 .. Len(qs)) |-> IF s = {} THEN base ELSE op[<<g[s \ {X!Max(s)}], qs[X!Max(s)]>>]]
  BY <1>1 DEF Folds
<1>3. Unfolds(g, op, base, qs, A)
  <2>1. \A s \in SUBSET (1 .. Len(qs)) : g[s] = IF s = {} THEN base ELSE op[<<g[s \ {X!Max(s)}], qs[X!Max(s)]>>]
    BY <1>2, Zenon
  <2> QED BY <2>1, Zenon DEF Unfolds
<1>4. Chained(g, op, base, qs, A)
  BY <1>3, FoldsChain
<1> QED BY <1>4 DEF Chained, Chain

Flat(ss, f) == f[0] = <<>> /\ \A k \in 1 .. Len(ss) : f[k] = f[k - 1] \o ss[k]
\* Flattening goes from one member to the next.
LEMMA FlatIs ==
  ASSUME NEW A, NEW ss \in Seq(Seq(A))
  PROVE  \E f \in [0 .. Len(ss) -> Seq(A)] : Flat(ss, f) /\ f[Len(ss)] = X!FlattenSeq(ss)
<1> DEFINE N == Len(ss)
<1> DEFINE op == [z \in Seq(A) \X Seq(A) |-> z[1] \o z[2]]
<1>1. N \in Nat /\ \A k \in 1 .. N : ss[k] \in Seq(A)
  OBVIOUS
<1>2. op \in [Seq(A) \X Seq(A) -> Seq(A)]
  OBVIOUS
<1>3. \A x, y \in Seq(A) : op[<<x, y>>] = x \o y
  OBVIOUS
<1>4. <<>> \in Seq(A)
  OBVIOUS
<1> HIDE DEF op
<1>5. PICK h \in [0 .. N -> Seq(A)] : h[0] = <<>> /\ \A k \in 1 .. N : h[k] = op[<<h[k - 1], ss[k]>>]
  <2> DEFINE C == Seq(A) e == <<>>
  <2>1. op \in [C \X C -> C] /\ e \in C /\ ss \in Seq(C)
    BY <1>2, <1>4
  <2> HIDE DEF C, e
  <2>2. \E h \in [0 .. Len(ss) -> C] : Chain(h, op, e, ss)
    BY <2>1, ChainsExist
  <2> QED BY <2>2 DEF C, e, Chain
<1>6. Flat(ss, h)
  <2>1. \A k \in 1 .. N : h[k - 1] \in Seq(A)
    <3>1. \A k \in 1 .. N : k - 1 \in 0 .. N
      BY <1>1
    <3> QED BY <3>1
  <2>2. \A k \in 1 .. N : h[k] = h[k - 1] \o ss[k]
    BY <1>1, <1>3, <1>5, <2>1
  <2> QED BY <1>5, <2>2 DEF Flat
<1>7. CASE N = 0
  <2>1. ss = <<>>
    BY <1>7
  <2>2. X!FlattenSeq(ss) = <<>>
    BY <1>7, <2>1 DEF X!FlattenSeq
  <2> QED BY <1>5, <1>6, <1>7, <2>2
<1>8. CASE N # 0
  <2> DEFINE Is(f) == f = [i \in 1 .. N |-> IF i = 1 THEN ss[i] ELSE f[i - 1] \o ss[i]]
  <2>1. N \in 1 .. N
    BY <1>1, <1>8
  <2>2. Is([i \in 1 .. N |-> h[i]])
    <3> DEFINE g == [i \in 1 .. N |-> h[i]]
    <3>1. ASSUME NEW i \in 1 .. N PROVE h[i] = IF i = 1 THEN ss[i] ELSE g[i - 1] \o ss[i]
      <4>1. h[i] = h[i - 1] \o ss[i]
        BY <1>6 DEF Flat
      <4>2. CASE i = 1
        <5>1. ss[i] \in Seq(A) /\ h[i - 1] = <<>>
          BY <1>1, <1>5, <4>2
        <5>2. <<>> \o ss[i] = ss[i]
          BY <5>1
        <5> QED BY <4>1, <4>2, <5>1, <5>2
      <4>3. CASE i # 1
        <5>1. i - 1 \in 1 .. N
          BY <1>1, <4>3
        <5> QED BY <4>1, <4>3, <5>1
      <4> QED BY <4>2, <4>3
    <3>2. g = [i \in 1 .. N |-> IF i = 1 THEN ss[i] ELSE g[i - 1] \o ss[i]]
      BY <3>1
    <3> HIDE DEF g
    <3> QED BY <3>2 DEF g
  <2>3. \E f : Is(f) /\ X!FlattenSeq(ss) = f[N]
    <3>1. \E f : Is(f)
      BY <2>2
    <3>2. N # 0
      BY <1>8
    <3> QED BY <3>1, <3>2, Zenon DEF X!FlattenSeq
  <2>4. PICK f : Is(f) /\ X!FlattenSeq(ss) = f[N]
    BY <2>3, Zenon
  <2>5. \A i \in 1 .. N : f[i] = IF i = 1 THEN ss[i] ELSE f[i - 1] \o ss[i]
    BY <2>4, Zenon
  <2> DEFINE Same == {k \in 0 .. N : k > 0 => f[k] = h[k]}
  <2>6. 0 \in Same
    BY <1>1
  <2>7. ASSUME NEW k \in 1 .. N, k - 1 \in Same PROVE k \in Same
    <3>1. h[k] = h[k - 1] \o ss[k]
      BY <1>6, Zenon DEF Flat
    <3>4. k \in 0 .. N
      BY <1>1
    <3>2. CASE k = 1
      <4>1. ss[k] \in Seq(A) /\ h[k - 1] = <<>>
        BY <1>1, <1>5, <3>2
      <4>2. <<>> \o ss[k] = ss[k]
        BY <4>1
      <4>3. f[k] = ss[k]
        BY <2>5, <3>2
      <4> QED BY <3>1, <4>1, <4>2, <4>3
    <3>3. CASE k # 1
      <4>1. k - 1 > 0
        BY <3>3
      <4>2. f[k - 1] = h[k - 1]
        BY <2>7, <4>1
      <4>3. f[k] = f[k - 1] \o ss[k]
        BY <2>5, <3>3
      <4> QED BY <3>1, <3>4, <4>2, <4>3
    <3> QED BY <3>2, <3>3, <3>4
  <2>8. \A k \in 0 .. N : k \in Same
    <3> HIDE DEF Same
    <3> QED BY <1>1, <2>6, <2>7, AlongChain
  <2>9. f[N] = h[N]
    BY <1>1, <1>8, <2>1, <2>8
  <2> QED BY <1>6, <2>4, <2>9
<1> QED BY <1>7, <1>8

LEMMA FlatType == ASSUME NEW A, NEW ss \in Seq(Seq(A)) PROVE X!FlattenSeq(ss) \in Seq(A)
<1>1. PICK f \in [0 .. Len(ss) -> Seq(A)] : f[Len(ss)] = X!FlattenSeq(ss)
  BY FlatIs
<1>2. Len(ss) \in 0 .. Len(ss)
  OBVIOUS
<1> QED BY <1>1, <1>2

\* What runs on each member, from where the one before it ended, runs on them put together.
LEMMA RunsFlat ==
  ASSUME NEW A, NEW ss \in Seq(Seq(A)), NEW op, NEW st, \A k \in 1 .. Len(ss) : Runs(op, st[k - 1], ss[k], st[k])
  PROVE  Runs(op, st[0], X!FlattenSeq(ss), st[Len(ss)])
<1>1. PICK f \in [0 .. Len(ss) -> Seq(A)] : Flat(ss, f) /\ f[Len(ss)] = X!FlattenSeq(ss)
  BY FlatIs
<1>2. Len(ss) \in Nat /\ \A k \in 1 .. Len(ss) : ss[k] \in Seq(A) /\ k - 1 \in 0 .. Len(ss) /\ k \in 0 .. Len(ss)
  OBVIOUS
<1> DEFINE S == {k \in 0 .. Len(ss) : Runs(op, st[0], f[k], st[k])}
<1>3. 0 \in S
  BY <1>1, <1>2, RunsNone DEF Flat
<1>4. ASSUME NEW k \in 1 .. Len(ss), k - 1 \in S PROVE k \in S
  <2>1. Runs(op, st[0], f[k - 1], st[k - 1]) /\ f[k - 1] \in Seq(A) /\ ss[k] \in Seq(A)
    BY <1>2, <1>4
  <2>2. f[k] = f[k - 1] \o ss[k]
    BY <1>1 DEF Flat
  <2>3. Runs(op, st[0], f[k], st[k])
    BY <2>1, <2>2, RunsJoin
  <2> QED BY <1>2, <2>3
<1>5. \A k \in 0 .. Len(ss) : k \in S
  <2> HIDE DEF S
  <2> QED BY <1>2, <1>3, <1>4, AlongChain
<1> QED BY <1>1, <1>2, <1>5

\* What reading a character is, as a function.
LEMMA ReadFunIs ==
  ASSUME NEW A, NEW r \in ReadStates(A), NEW c \in A
  PROVE  ReadFun(A)[<<r, c>>] = ReadChar(r, c)
BY DEF ReadFun

\* The reader by its states.
LEMMA ReadCharIs ==
  ASSUME NEW s, NEW c
  PROVE  /\ c = "u" => ReadChar([at |-> "escape", read |-> s], c) = [at |-> "code", read |-> s]
         /\ c # "u" => ReadChar([at |-> "escape", read |-> s], c) = [at |-> "in", read |-> Append(s, c)]
         /\ ReadChar([at |-> "code", read |-> s], c) = [at |-> "in", read |-> Append(s, c)]
         /\ c = "backslash" => ReadChar([at |-> "in", read |-> s], c) = [at |-> "escape", read |-> s]
         /\ c = "quote" => ReadChar([at |-> "in", read |-> s], c) = [at |-> "end", read |-> s]
         /\ c \notin {"backslash", "quote", "tab", "newline"} =>
              ReadChar([at |-> "in", read |-> s], c) = [at |-> "in", read |-> Append(s, c)]
<1>1. \A x, y : [[at |-> x, read |-> s] EXCEPT !.at = y] = [at |-> y, read |-> s]
  OBVIOUS
<1>2. \A x, y : [[at |-> x, read |-> s] EXCEPT !.read = y] = [at |-> x, read |-> y]
  OBVIOUS
<1>3. \A x : [at |-> x, read |-> s].at = x /\ [at |-> x, read |-> s].read = s
  OBVIOUS
<1>4. PICK r : r = [at |-> "escape", read |-> s]
  OBVIOUS
<1>5. r.at = "escape" /\ r.read = s
  BY <1>3, <1>4
<1>6. /\ c = "u" => ReadChar(r, c) = [r EXCEPT !.at = "code"]
      /\ c # "u" => ReadChar(r, c) = [at |-> "in", read |-> Append(r.read, c)]
  BY <1>5, Zenon DEF ReadChar
<1>7. PICK v : v = [at |-> "code", read |-> s]
  OBVIOUS
<1>8. v.at = "code" /\ v.read = s
  BY <1>3, <1>7
<1>9. ReadChar(v, c) = [at |-> "in", read |-> Append(v.read, c)]
  BY <1>8, Zenon DEF ReadChar
<1>10. PICK w : w = [at |-> "in", read |-> s]
  OBVIOUS
<1>11. w.at = "in" /\ w.read = s
  BY <1>3, <1>10
<1>12. /\ c = "backslash" => ReadChar(w, c) = [w EXCEPT !.at = "escape"]
       /\ c = "quote" => ReadChar(w, c) = [w EXCEPT !.at = "end"]
       /\ c \notin {"backslash", "quote", "tab", "newline"} => ReadChar(w, c) = [w EXCEPT !.read = Append(w.read, c)]
  <2>1. c = "backslash" => ReadChar(w, c) = [w EXCEPT !.at = "escape"]
    BY <1>11, Zenon DEF ReadChar
  <2>2. c = "quote" => ReadChar(w, c) = [w EXCEPT !.at = "end"]
    BY <1>11, Zenon DEF ReadChar
  <2>3. c \notin {"backslash", "quote", "tab", "newline"} => ReadChar(w, c) = [w EXCEPT !.read = Append(w.read, c)]
    BY <1>11, Zenon DEF ReadChar
  <2> QED BY <2>1, <2>2, <2>3
<1>13. Append(r.read, c) = Append(s, c) /\ Append(v.read, c) = Append(s, c) /\ Append(w.read, c) = Append(s, c)
  BY <1>5, <1>8, <1>11
<1> QED BY <1>1, <1>2, <1>4, <1>6, <1>7, <1>9, <1>10, <1>12, <1>13, Zenon

\* Reading a whole string is such a run.
LEMMA ReadRuns ==
  ASSUME NEW A, NEW q \in Seq(A)
  PROVE  Runs(ReadFun(A), Begun, q, ReadAll(q))
<1>1. PICK h \in [0 .. Len(q) -> ReadStates(A)] :
           /\ h[0] = Begun /\ h[Len(q)] = ReadAll(q)
           /\ \A k \in 1 .. Len(q) : h[k] = ReadChar(h[k - 1], q[k])
  BY ReadJsonIs
<1>2. ASSUME NEW k \in 1 .. Len(q) PROVE h[k] = ReadFun(A)[<<h[k - 1], q[k]>>]
  <2>1. k - 1 \in 0 .. Len(q) /\ q[k] \in A
    OBVIOUS
  <2>2. h[k - 1] \in ReadStates(A)
    BY <2>1
  <2>3. ReadFun(A)[<<h[k - 1], q[k]>>] = ReadChar(h[k - 1], q[k])
    BY <2>1, <2>2, ReadFunIs
  <2> QED BY <1>1, <2>3
<1> QED BY <1>1, <1>2, Zenon DEF Runs

\* One sequence behind another.
LEMMA CatIs ==
  ASSUME NEW A, NEW p \in Seq(A), NEW q \in Seq(A)
  PROVE  /\ p \o q \in Seq(A) /\ Len(p \o q) = Len(p) + Len(q)
         /\ \A k \in 1 .. Len(p) : (p \o q)[k] = p[k]
         /\ \A k \in 1 .. Len(q) : (p \o q)[Len(p) + k] = q[k]
<1>1. p \o q \in Seq(A) /\ Len(p \o q) = Len(p) + Len(q) /\ Len(p) \in Nat /\ Len(q) \in Nat
  OBVIOUS
<1>2. ASSUME NEW k \in 1 .. Len(p) PROVE (p \o q)[k] = p[k]
  OBVIOUS
<1>3. ASSUME NEW k \in 1 .. Len(q) PROVE (p \o q)[Len(p) + k] = q[k]
  <2>1. Len(p) + k \in 1 .. Len(p) + Len(q) /\ ~(Len(p) + k <= Len(p)) /\ Len(p) + k - Len(p) = k
    BY <1>1
  <2> QED BY <1>1, <2>1
<1> QED BY <1>1, <1>2, <1>3

\* Sequences of one, two and three elements.
LEMMA PutTogether ==
  ASSUME NEW a, NEW b, NEW c
  PROVE  <<a>> \o <<b>> = <<a, b>> /\ <<a, b>> \o <<c>> = <<a, b, c>>
<1> DEFINE S == {a, b, c}
<1>1. <<a>> \in Seq(S) /\ <<b>> \in Seq(S) /\ <<c>> \in Seq(S) /\ <<a, b>> \in Seq(S) /\ <<a, b, c>> \in Seq(S)
  OBVIOUS
<1> HIDE DEF S
<1>2. <<a>> \o <<b>> = <<a, b>>
  <2>1. PICK p \in Seq(S), q \in Seq(S) : p = <<a>> /\ q = <<b>>
    BY <1>1
  <2>2. Len(p) = 1 /\ Len(q) = 1 /\ p[1] = a /\ q[1] = b
    BY <2>1
  <2>3. Len(p \o q) = 2 /\ (p \o q)[1] = a /\ (p \o q)[2] = b /\ p \o q \in Seq(S)
    <3>1. 1 \in 1 .. Len(p) /\ 1 \in 1 .. Len(q) /\ Len(p) + 1 = 2 /\ Len(p) + Len(q) = 2
      BY <2>2
    <3> QED BY <2>2, <3>1, CatIs
  <2>4. PICK t \in Seq(S) : t = <<a, b>>
    BY <1>1
  <2>5. Len(t) = 2 /\ t[1] = a /\ t[2] = b
    BY <2>4
  <2>6. PICK u \in Seq(S) : u = p \o q
    BY <2>3
  <2>7. u = t
    BY <2>3, <2>5, <2>6
  <2> QED BY <2>1, <2>4, <2>6, <2>7
<1>3. <<a, b>> \o <<c>> = <<a, b, c>>
  <2>1. PICK p \in Seq(S), q \in Seq(S) : p = <<a, b>> /\ q = <<c>>
    BY <1>1
  <2>2. Len(p) = 2 /\ Len(q) = 1 /\ p[1] = a /\ p[2] = b /\ q[1] = c
    BY <2>1
  <2>3. Len(p \o q) = 3 /\ (p \o q)[1] = a /\ (p \o q)[2] = b /\ (p \o q)[3] = c /\ p \o q \in Seq(S)
    <3>1. 1 \in 1 .. Len(p) /\ 2 \in 1 .. Len(p) /\ 1 \in 1 .. Len(q) /\ Len(p) + 1 = 3 /\ Len(p) + Len(q) = 3
      BY <2>2
    <3>2. (p \o q)[1] = p[1] /\ (p \o q)[2] = p[2]
      BY <3>1, CatIs
    <3>3. (p \o q)[Len(p) + 1] = q[1]
      BY <3>1, CatIs
    <3>4. p \o q \in Seq(S) /\ Len(p \o q) = Len(p) + Len(q)
      BY CatIs
    <3> QED BY <2>2, <3>1, <3>2, <3>3, <3>4
  <2>4. PICK t \in Seq(S) : t = <<a, b, c>>
    BY <1>1
  <2>5. Len(t) = 3 /\ t[1] = a /\ t[2] = b /\ t[3] = c
    BY <2>4
  <2>6. PICK u \in Seq(S) : u = p \o q
    BY <2>3
  <2>7. u = t
    BY <2>3, <2>5, <2>6
  <2> QED BY <2>1, <2>4, <2>6, <2>7
<1> QED BY <1>2, <1>3

\* The beginning of a sequence, by one element more.
LEMMA OneMore ==
  ASSUME NEW A, NEW s \in Seq(A), NEW k \in 1 .. Len(s)
  PROVE  SubSeq(s, 1, k - 1) \in Seq(A) /\ SubSeq(s, 1, k) = Append(SubSeq(s, 1, k - 1), s[k])
<1>1. k - 1 \in 0 .. Len(s) /\ k \in 0 .. Len(s) /\ Len(s) \in Nat /\ s[k] \in A
  OBVIOUS
<1>2. PICK p : p = SubSeq(s, 1, k - 1)
  OBVIOUS
<1>3. p \in Seq(A) /\ Len(p) = k - 1 /\ \A i \in 1 .. k - 1 : p[i] = s[i]
  BY <1>1, <1>2
<1>4. PICK q : q = SubSeq(s, 1, k)
  OBVIOUS
<1>5. q \in Seq(A) /\ Len(q) = k /\ \A i \in 1 .. k : q[i] = s[i]
  BY <1>1, <1>4
<1>6. Append(p, s[k]) \in Seq(A) /\ Len(Append(p, s[k])) = k /\ \A i \in 1 .. k : Append(p, s[k])[i] = s[i]
  BY <1>1, <1>3
<1>7. q = Append(p, s[k])
  BY <1>5, <1>6
<1> QED BY <1>2, <1>3, <1>4, <1>7

\* One character of the text, as it is written, is read as itself.
LEMMA EscapedReads ==
  ASSUME NEW A, {"backslash", "u"} \subseteq A, NEW c \in A, NEW s \in Seq(A)
  PROVE  Runs(ReadFun(A), [at |-> "in", read |-> s], X!Escaped(c), [at |-> "in", read |-> Append(s, c)])
<1> DEFINE op == ReadFun(A) r == [at |-> "in", read |-> s] e == [at |-> "escape", read |-> s]
           u == [at |-> "code", read |-> s] t == [at |-> "in", read |-> Append(s, c)]
<1>1. r \in ReadStates(A) /\ e \in ReadStates(A) /\ u \in ReadStates(A)
  BY DEF ReadStates
<1>2. \A x \in ReadStates(A), d \in A : op[<<x, d>>] = ReadChar(x, d)
  BY ReadFunIs
<1>3. /\ ReadChar(r, "backslash") = e /\ ReadChar(e, "u") = u /\ ReadChar(u, c) = t
      /\ c # "u" => ReadChar(e, c) = t
      /\ c \notin {"backslash", "quote", "tab", "newline"} => ReadChar(r, c) = t
  BY ReadCharIs, Zenon
<1> HIDE DEF op, r, e, u, t
<1>4. "backslash" \in A /\ "u" \in A
  OBVIOUS
<1>5. /\ op[<<r, "backslash">>] = e /\ op[<<e, "u">>] = u /\ op[<<u, c>>] = t
      /\ c # "u" => op[<<e, c>>] = t
  BY <1>1, <1>2, <1>3, <1>4, Zenon
<1>6. c \notin {"backslash", "quote", "tab", "newline"} => op[<<r, c>>] = t
  BY <1>1, <1>2, <1>3, Zenon
<1>7. <<"backslash">> \in Seq(A) /\ <<"u">> \in Seq(A) /\ <<c>> \in Seq(A) /\ <<"backslash", "u">> \in Seq(A)
  OBVIOUS
<1>8. CASE c \in {"quote", "backslash"}
  <2>1. Runs(op, r, <<"backslash">>, e) /\ Runs(op, e, <<c>>, t)
    BY <1>5, <1>8, RunsOne
  <2>2. Runs(op, r, <<"backslash">> \o <<c>>, t)
    BY <1>7, <2>1, RunsJoin
  <2>3. <<"backslash">> \o <<c>> = X!Escaped(c)
    BY <1>8 DEF X!Escaped
  <2> QED BY <2>2, <2>3 DEF op, r, t
<1>9. CASE c \in {"tab", "newline"}
  <2>1. Runs(op, r, <<"backslash">>, e) /\ Runs(op, e, <<"u">>, u) /\ Runs(op, u, <<c>>, t)
    BY <1>5, RunsOne
  <2>2. Runs(op, r, <<"backslash">> \o <<"u">>, u)
    BY <1>7, <2>1, RunsJoin
  <2>3. <<"backslash">> \o <<"u">> = <<"backslash", "u">>
    BY PutTogether
  <2>4. Runs(op, r, <<"backslash", "u">> \o <<c>>, t)
    BY <1>7, <2>1, <2>2, <2>3, RunsJoin
  <2>5. <<"backslash", "u">> \o <<c>> = X!Escaped(c)
    <3>1. X!Escaped(c) = <<"backslash", "u", c>>
      BY <1>9 DEF X!Escaped
    <3> QED BY <3>1, PutTogether
  <2> QED BY <2>4, <2>5 DEF op, r, t
<1>10. CASE c \notin {"quote", "backslash", "tab", "newline"}
  <2>1. X!Escaped(c) = <<c>>
    BY <1>10 DEF X!Escaped
  <2> QED BY <1>6, <1>10, <2>1, RunsOne DEF op, r, t
<1> QED BY <1>8, <1>9, <1>10

\* A string that is written reads back.
LEMMA JsonDo ==
  ASSUME NEW T, text \in Seq(T)
  PROVE  X!ReadJson(X!JsonString(text)) = [at |-> "end", read |-> text]
<1> DEFINE A == T \cup {"backslash", "u", "quote"} L == Len(text) op == ReadFun(A)
           ss == [n \in DOMAIN text |-> X!Escaped(text[n])] q == X!FlattenSeq(ss) \o <<"quote">>
           st == [k \in 0 .. L |-> [at |-> "in", read |-> SubSeq(text, 1, k)]]
           z == [at |-> "end", read |-> text]
<1>1. L \in Nat /\ DOMAIN text = 1 .. L /\ {"backslash", "u", "quote"} \subseteq A /\ \A k \in 1 .. L : text[k] \in A
  OBVIOUS
<1>2. ss \in Seq(Seq(A)) /\ Len(ss) = L /\ \A k \in 1 .. L : ss[k] = X!Escaped(text[k])
  <2>1. \A c \in A : X!Escaped(c) \in Seq(A)
    <3>1. ASSUME NEW c \in A PROVE X!Escaped(c) \in Seq(A)
      <4>1. <<"backslash", c>> \in Seq(A) /\ <<"backslash", "u", c>> \in Seq(A) /\ <<c>> \in Seq(A)
        BY <1>1
      <4> HIDE DEF A
      <4> QED BY <4>1, Zenon DEF X!Escaped
    <3> QED BY <3>1
  <2> HIDE DEF A
  <2>2. ss = [n \in 1 .. L |-> X!Escaped(text[n])] /\ \A n \in 1 .. L : X!Escaped(text[n]) \in Seq(A)
    BY <1>1, <2>1
  <2> HIDE DEF L
  <2> QED BY <1>1, <2>2
<1>3. X!FlattenSeq(ss) \in Seq(A)
  <2> HIDE DEF ss, A
  <2> QED BY <1>2, FlatType
<1>4. q \in Seq(A)
  <2> HIDE DEF ss
  <2> QED BY <1>3
<1>5. Tail(X!JsonString(text)) = q
  <2>1. X!JsonString(text) = <<"quote">> \o X!FlattenSeq(ss) \o <<"quote">>
    BY Zenon DEF X!JsonString
  <2> HIDE DEF ss, A
  <2>2. PICK f \in Seq(A) : f = X!FlattenSeq(ss)
    BY <1>3
  <2>3. Tail(<<"quote">> \o f \o <<"quote">>) = f \o <<"quote">>
    <3>1. <<"quote">> \o f \o <<"quote">> = <<"quote">> \o (f \o <<"quote">>)
      OBVIOUS
    <3>2. <<"quote">> \in Seq(A)
      BY <1>1
    <3>3. PICK g \in Seq(A) : g = f \o <<"quote">>
      BY <3>2, CatIs
    <3>4. Tail(<<"quote">> \o g) = g
      OBVIOUS
    <3> QED BY <3>1, <3>3, <3>4
  <2> QED BY <2>1, <2>2, <2>3
<1>6. X!ReadJson(X!JsonString(text)) = ReadAll(q)
  <2> HIDE DEF q
  <2> QED BY <1>5, Zenon DEF X!ReadJson, ReadAll, ReadChar, Begun
<1> HIDE DEF A, ss, op
<1>7. ASSUME NEW k \in 1 .. L PROVE Runs(op, st[k - 1], ss[k], st[k])
  <2>1. k - 1 \in 0 .. L /\ k \in 0 .. L /\ text[k] \in A
    BY <1>1
  <2>2. SubSeq(text, 1, k - 1) \in Seq(A) /\ SubSeq(text, 1, k) = Append(SubSeq(text, 1, k - 1), text[k])
    <3>1. text \in Seq(A)
      BY <1>1
    <3> QED BY <3>1, OneMore
  <2>3. Runs(op, [at |-> "in", read |-> SubSeq(text, 1, k - 1)], X!Escaped(text[k]),
             [at |-> "in", read |-> Append(SubSeq(text, 1, k - 1), text[k])])
    BY <1>1, <2>1, <2>2, EscapedReads DEF op
  <2> QED BY <1>2, <2>1, <2>2, <2>3
<1>8. Runs(op, Begun, X!FlattenSeq(ss), st[L])
  <2>1. st[0] = Begun
    BY <1>1 DEF Begun
  <2> HIDE DEF st
  <2> QED BY <1>2, <1>7, <2>1, RunsFlat
<1>9. st[L] = [at |-> "in", read |-> text]
  <2>1. L \in 0 .. L /\ SubSeq(text, 1, L) = text
    BY <1>1
  <2> QED BY <2>1
<1>10. Runs(op, st[L], <<"quote">>, z)
  <2>1. st[L] \in ReadStates(A)
    <3>1. text \in Seq(A)
      <4>1. T \subseteq A
        BY DEF A
      <4>2. \A k \in 1 .. Len(text) : text[k] \in A
        BY <4>1
      <4> QED BY <4>2
    <3> QED BY <1>9, <3>1 DEF ReadStates
  <2>2. op[<<st[L], "quote">>] = z
    <3>1. "quote" \in A
      BY <1>1
    <3>2. op[<<st[L], "quote">>] = ReadChar(st[L], "quote")
      BY <2>1, <3>1, ReadFunIs DEF op
    <3>3. ReadChar([at |-> "in", read |-> text], "quote") = z
      BY ReadCharIs, Zenon
    <3> HIDE DEF st, z
    <3> QED BY <1>9, <3>2, <3>3
  <2> QED BY <2>2, RunsOne
<1>11. Runs(op, Begun, q, z)
  <2>1. <<"quote">> \in Seq(A)
    BY <1>1
  <2> HIDE DEF z, st
  <2> QED BY <1>3, <1>8, <1>10, <2>1, RunsJoin
<1>12. Runs(op, Begun, q, ReadAll(q))
  BY <1>4, ReadRuns DEF op
<1>13. Len(q) \in Nat
  BY <1>4
<1> HIDE DEF q, z
<1>14. ReadAll(q) = z
  BY <1>11, <1>12, <1>13, RunsAlone
<1> QED BY <1>6, <1>14 DEF z

-----------------------------------------------------------------------------
(* Fingerprints: what is hashed.                                             *)

\* Sequences of the same elements, and what is cut off them.
LEMMA SameSeq ==
  ASSUME NEW A, NEW p \in Seq(A), NEW q \in Seq(A), Len(p) = Len(q), \A k \in 1 .. Len(p) : p[k] = q[k]
  PROVE  p = q
OBVIOUS

\* Sequences that are cut and put together.
LEMMA CutIs ==
  ASSUME NEW A, NEW s \in Seq(A), NEW m \in Nat, NEW n \in Nat, m <= n, n <= Len(s)
  PROVE  /\ SubSeq(s, m + 1, n) \in Seq(A) /\ Len(SubSeq(s, m + 1, n)) = n - m
         /\ \A k \in 1 .. n - m : SubSeq(s, m + 1, n)[k] = s[m + k]
<1>1. \A k \in m + 1 .. n : k \in 1 .. Len(s) /\ s[k] \in A
  OBVIOUS
<1>2. PICK c : c = SubSeq(s, m + 1, n)
  OBVIOUS
<1>3. c = [k \in 1 .. (1 + n) - (m + 1) |-> s[(k + (m + 1)) - 1]]
  BY <1>2 DEF SubSeq
<1>4. (1 + n) - (m + 1) = n - m /\ n - m \in Nat
  OBVIOUS
<1>5. \A k \in 1 .. n - m : c[k] = s[m + k] /\ s[m + k] \in A
  <2>1. ASSUME NEW k \in 1 .. n - m PROVE c[k] = s[m + k] /\ s[m + k] \in A
    <3>1. (k + (m + 1)) - 1 = m + k /\ m + k \in m + 1 .. n
      BY <1>4
    <3> QED BY <1>1, <1>3, <1>4, <3>1
  <2> QED BY <2>1
<1>6. DOMAIN c = 1 .. n - m /\ c = [k \in 1 .. n - m |-> c[k]]
  BY <1>3, <1>4
<1>7. c \in Seq(A) /\ Len(c) = n - m
  <2>1. PICK N \in Nat : N = n - m
    BY <1>4
  <2>2. [k \in 1 .. N |-> c[k]] \in Seq(A) /\ Len([k \in 1 .. N |-> c[k]]) = N
    BY <1>5, <2>1
  <2> QED BY <1>6, <2>1, <2>2
<1> QED BY <1>2, <1>5, <1>7

LEMMA CutsJoin ==
  ASSUME NEW A, NEW s \in Seq(A), NEW m \in Nat, NEW n \in Nat, m <= n, n <= Len(s)
  PROVE  SubSeq(s, 1, m) \o SubSeq(s, m + 1, n) = SubSeq(s, 1, n)
<1>1. PICK p : p = SubSeq(s, 1, m)
  OBVIOUS
<1>2. PICK q : q = SubSeq(s, m + 1, n)
  OBVIOUS
<1>3. PICK r : r = SubSeq(s, 1, n)
  OBVIOUS
<1>4. /\ p \in Seq(A) /\ Len(p) = m /\ \A k \in 1 .. m : p[k] = s[k]
      /\ r \in Seq(A) /\ Len(r) = n /\ \A k \in 1 .. n : r[k] = s[k]
  BY <1>1, <1>3
<1>5. q \in Seq(A) /\ Len(q) = n - m /\ \A k \in 1 .. n - m : q[k] = s[m + k]
  BY <1>2, CutIs
<1>6. p \o q \in Seq(A) /\ Len(p \o q) = n
  <2>1. p \o q \in Seq(A) /\ Len(p \o q) = Len(p) + Len(q)
    BY <1>4, <1>5, CatIs
  <2> QED BY <1>4, <1>5, <2>1
<1>7. ASSUME NEW k \in 1 .. n PROVE (p \o q)[k] = s[k]
  <2>1. CASE k <= m
    BY <1>4, <1>5, <2>1
  <2>2. CASE ~(k <= m)
    <3>1. k - m \in 1 .. n - m /\ m + (k - m) = k
      BY <2>2
    <3>2. (p \o q)[Len(p) + (k - m)] = q[k - m]
      BY <1>4, <1>5, <3>1, CatIs
    <3> QED BY <1>4, <1>5, <3>1, <3>2
  <2> QED BY <2>1, <2>2
<1>8. p \o q = r
  <2>1. \A k \in 1 .. Len(p \o q) : (p \o q)[k] = r[k]
    BY <1>4, <1>6, <1>7
  <2>2. Len(p \o q) = Len(r)
    BY <1>4, <1>6
  <2> QED BY <1>4, <1>6, <2>1, <2>2, SameSeq
<1> QED BY <1>1, <1>2, <1>3, <1>8

LEMMA TakeCat ==
  ASSUME NEW A, NEW p \in Seq(A), NEW q \in Seq(A), NEW n \in Nat, n <= Len(q)
  PROVE  SubSeq(p \o q, 1, Len(p) + n) = p \o SubSeq(q, 1, n)
<1>1. p \o q \in Seq(A) /\ Len(p \o q) = Len(p) + Len(q) /\ Len(p) \in Nat /\ Len(q) \in Nat
  OBVIOUS
<1>2. PICK r : r = SubSeq(q, 1, n)
  OBVIOUS
<1>3. r \in Seq(A) /\ Len(r) = n /\ \A k \in 1 .. n : r[k] = q[k]
  BY <1>2
<1>4. PICK t : t = SubSeq(p \o q, 1, Len(p) + n)
  OBVIOUS
<1>5. t \in Seq(A) /\ Len(t) = Len(p) + n /\ \A k \in 1 .. Len(p) + n : t[k] = (p \o q)[k]
  BY <1>1, <1>4
<1>6. p \o r \in Seq(A) /\ Len(p \o r) = Len(p) + n
  BY <1>3, CatIs
<1>7. ASSUME NEW k \in 1 .. Len(t) PROVE t[k] = (p \o r)[k]
  <2>1. CASE k <= Len(p)
    <3>1. k \in 1 .. Len(p)
      BY <1>1, <2>1
    <3>2. (p \o q)[k] = p[k] /\ (p \o r)[k] = p[k]
      BY <1>3, <3>1, CatIs
    <3> QED BY <1>5, <1>7, <3>2
  <2>2. CASE ~(k <= Len(p))
    <3>1. k - Len(p) \in 1 .. n /\ k - Len(p) \in 1 .. Len(q) /\ Len(p) + (k - Len(p)) = k
      BY <1>1, <1>5, <2>2
    <3>2. (p \o q)[Len(p) + (k - Len(p))] = q[k - Len(p)]
      BY <3>1, CatIs
    <3>3. (p \o r)[Len(p) + (k - Len(p))] = r[k - Len(p)]
      BY <1>3, <3>1, CatIs
    <3> QED BY <1>3, <1>5, <1>7, <3>1, <3>2, <3>3
  <2> QED BY <2>1, <2>2
<1>8. t = p \o r
  BY <1>5, <1>6, <1>7, SameSeq
<1> QED BY <1>2, <1>4, <1>8

LEMMA CatAssoc ==
  ASSUME NEW A, NEW p \in Seq(A), NEW q \in Seq(A), NEW r \in Seq(A)
  PROVE  (p \o q) \o r = p \o (q \o r)
OBVIOUS

\* Zeros.
LEMMA ZerosAre ==
  ASSUME NEW n \in Nat
  PROVE  X!Zeros(n) \in Seq(Int) /\ Len(X!Zeros(n)) = n /\ \A k \in 1 .. n : X!Zeros(n)[k] = 0
BY DEF X!Zeros

LEMMA ZerosJoin ==
  ASSUME NEW m \in Nat, NEW n \in Nat
  PROVE  X!Zeros(m) \o X!Zeros(n) = X!Zeros(m + n) /\ SubSeq(X!Zeros(m + n), 1, m) = X!Zeros(m)
<1>1. PICK p, q, r : p = X!Zeros(m) /\ q = X!Zeros(n) /\ r = X!Zeros(m + n)
  OBVIOUS
<1>2. /\ p \in Seq(Int) /\ Len(p) = m /\ \A k \in 1 .. m : p[k] = 0
      /\ q \in Seq(Int) /\ Len(q) = n /\ \A k \in 1 .. n : q[k] = 0
      /\ r \in Seq(Int) /\ Len(r) = m + n /\ \A k \in 1 .. m + n : r[k] = 0
  <2>1. m + n \in Nat
    OBVIOUS
  <2> QED BY <1>1, <2>1, ZerosAre
<1>3. p \o q = r
  <2>1. p \o q \in Seq(Int) /\ Len(p \o q) = m + n
    BY <1>2
  <2>2. ASSUME NEW k \in 1 .. m + n PROVE (p \o q)[k] = 0
    <3>1. CASE k <= m
      BY <1>2, <3>1
    <3>2. CASE ~(k <= m)
      <4>1. k - m \in 1 .. n /\ m + (k - m) = k
        BY <3>2
      <4>2. (p \o q)[Len(p) + (k - m)] = q[k - m]
        BY <1>2, <4>1, CatIs
      <4> QED BY <1>2, <4>1, <4>2
    <3> QED BY <3>1, <3>2
  <2> QED BY <1>2, <2>1, <2>2, SameSeq
<1>4. SubSeq(r, 1, m) = p
  BY <1>2
<1> QED BY <1>1, <1>3, <1>4

\* How many whole blocks there are, and what is left.
LEMMA WholeIs ==
  ASSUME NEW n \in Nat, NEW b \in Nat, b > 0
  PROVE  n \div b \in Nat /\ n % b \in 0 .. b - 1 /\ n = ((n \div b) * b) + (n % b)
BY SMT

LEMMA TimesIs ==
  ASSUME NEW b \in Nat, NEW k \in Nat
  PROVE  k * b \in Nat /\ (k + 1) * b = k * b + b
BY SMT

LEMMA TimesUp ==
  ASSUME NEW b \in Nat, NEW w \in Nat, NEW k \in 0 .. w
  PROVE  k * b <= w * b
<1>1. w - k \in Nat /\ (w - k) * b \in Nat /\ k * b \in Nat /\ w * b \in Nat
  BY SMT
<1>2. w * b = (w - k) * b + k * b
  BY SMT
<1> QED BY <1>1, <1>2, SMT

\* The blocks of the data, one behind the other.
LEMMA WholeBlocks ==
  ASSUME NEW A, NEW s \in Seq(A), NEW b \in Nat, NEW w \in Nat, w * b <= Len(s),
         NEW ss, Len(ss) \in Nat, w <= Len(ss), NEW f, Flat(ss, f),
         \A k \in 1 .. w : ss[k] = SubSeq(s, (k - 1) * b + 1, k * b)
  PROVE  f[w] = SubSeq(s, 1, w * b)
<1> DEFINE S == {k \in 0 .. w : f[k] = SubSeq(s, 1, k * b)}
<1>1. 0 \in S
  <2>1. 0 * b = 0 /\ 0 \in 0 .. w
    BY SMT
  <2>2. SubSeq(s, 1, 0) = <<>>
    OBVIOUS
  <2> QED BY <2>1, <2>2 DEF Flat
<1>2. ASSUME NEW k \in 1 .. w, k - 1 \in S PROVE k \in S
  <2>1. PICK i \in Nat : i = k - 1 /\ k = i + 1 /\ i \in 0 .. w /\ k \in 0 .. w
    OBVIOUS
  <2>2. i * b \in Nat /\ k * b \in Nat /\ k * b = i * b + b /\ k * b <= w * b /\ w * b \in Nat
    BY <2>1, TimesIs, TimesUp
  <2>3. f[k] = f[i] \o ss[k] /\ f[i] = SubSeq(s, 1, i * b) /\ ss[k] = SubSeq(s, i * b + 1, k * b)
    <3>1. k \in 1 .. Len(ss)
      OBVIOUS
    <3> QED BY <1>2, <2>1, <3>1 DEF Flat
  <2>4. PICK x \in Nat, y \in Nat : x = i * b /\ y = k * b /\ x <= y /\ y <= Len(s)
    <3>1. PICK x, y, u : x = i * b /\ y = k * b /\ u = w * b
      OBVIOUS
    <3>2. x \in Nat /\ y \in Nat /\ u \in Nat /\ y = x + b /\ y <= u /\ u <= Len(s) /\ Len(s) \in Nat
      BY <2>2, <3>1
    <3>3. x <= y /\ y <= Len(s)
      BY <3>2
    <3> QED BY <3>1, <3>2, <3>3
  <2>5. SubSeq(s, 1, x) \o SubSeq(s, x + 1, y) = SubSeq(s, 1, y)
    BY <2>4, CutsJoin
  <2> QED BY <2>1, <2>3, <2>4, <2>5
<1>3. \A k \in 0 .. w : k \in S
  <2> HIDE DEF S
  <2> QED BY <1>1, <1>2, AlongChain
<1>4. w \in 0 .. w
  OBVIOUS
<1> QED BY <1>3, <1>4

\* The same sequence, put together otherwise.
Regroups(p, q, r, y, s) == (p \o (q \o r)) \o (y \o s) = (p \o q) \o ((r \o y) \o s)
\* The end of a message, whose parts are put together in another order.
LEMMA Regroup ==
  ASSUME NEW A, NEW p \in Seq(A), NEW q \in Seq(A), NEW r \in Seq(A), NEW y \in Seq(A), NEW s \in Seq(A)
  PROVE  Regroups(p, q, r, y, s)
<1>1. p \o (q \o r) = (p \o q) \o r
  OBVIOUS
<1>2. (r \o y) \o s = r \o (y \o s)
  OBVIOUS
<1>3. PICK u, x : u = p \o q /\ x = y \o s
  OBVIOUS
<1>4. u \in Seq(A) /\ x \in Seq(A)
  BY <1>3, CatIs
<1>5. (u \o r) \o x = u \o (r \o x)
  <2>1. u \in Seq(A) /\ r \in Seq(A) /\ x \in Seq(A)
    BY <1>4
  <2> QED BY <2>1
<1> QED BY <1>1, <1>2, <1>3, <1>5 DEF Regroups

\* The message: all blocks are of one size, and hold the text, a mark, zeros and the length.
LEMMA FingerprintDo ==
  ASSUME text \in Seq(Nat), BlockBytes \in Nat, LengthBytes \in 1 .. BlockBytes - 1
  PROVE  \E z \in 0 .. BlockBytes - 1 :
           /\ X!FlattenSeq(X!Blocks(text)) = text \o <<128>> \o X!Zeros(z) \o X!Size(Len(text))
           /\ (Len(text) + 1 + z + LengthBytes) % BlockBytes = 0
           /\ Len(X!FlattenSeq(X!Blocks(text))) = Len(text) + 1 + z + LengthBytes
<1> DEFINE b == BlockBytes l == LengthBytes n == Len(text) w == n \div b m == n % b
           size == X!Size(n) A == Int \cup {size[k] : k \in 1 .. l}
           e == w * b
           rest == X!Drop(text, e) last == X!Filled(rest)
           whole == [k \in 1 .. w |-> SubSeq(text, (k - 1) * b + 1, k * b)]
           behind == IF X!Overflows(m) THEN <<last, X!Sized(X!Zeros(b), n)>> ELSE <<X!Sized(last, n)>>
           ss == whole \o behind
<1>1. n \in Nat /\ b \in Nat /\ l \in Nat /\ b > 0 /\ l < b /\ l > 0
  OBVIOUS
<1>2. w \in Nat /\ m \in 0 .. b - 1 /\ n = e + m /\ e \in Nat
  <2>1. w \in Nat /\ m \in 0 .. b - 1 /\ n = e + m
    BY <1>1, WholeIs
  <2> HIDE DEF w, m
  <2>2. e \in Nat
    BY <1>1, <2>1, TimesIs
  <2> QED BY <2>1, <2>2
<1>3. size \in Seq(A) /\ Len(size) = l
  <2>1. DOMAIN size = 1 .. l /\ size = [k \in 1 .. l |-> size[k]]
    BY Zenon DEF X!Size
  <2>2. \A k \in 1 .. l : size[k] \in A
    OBVIOUS
  <2> HIDE DEF size, A
  <2>3. [k \in 1 .. l |-> size[k]] \in Seq(A) /\ Len([k \in 1 .. l |-> size[k]]) = l
    BY <1>1, <2>2
  <2> QED BY <2>1, <2>3
<1>4. X!Blocks(text) = ss
  BY Zenon DEF X!Blocks
<1>5. text \in Seq(A) /\ \A k \in Nat : X!Zeros(k) \in Seq(A) /\ Len(X!Zeros(k)) = k
  <2>1. Int \subseteq A
    OBVIOUS
  <2> HIDE DEF A
  <2>2. text \in Seq(A)
    BY <2>1
  <2>3. ASSUME NEW k \in Nat PROVE X!Zeros(k) \in Seq(A) /\ Len(X!Zeros(k)) = k
    <3>1. PICK z : z = X!Zeros(k)
      OBVIOUS
    <3>2. z \in Seq(Int) /\ Len(z) = k
      BY <3>1, ZerosAre
    <3>3. z \in Seq(A)
      BY <2>1, <3>2
    <3> QED BY <3>1, <3>2, <3>3
  <2> QED BY <2>2, <2>3
<1>6. <<128>> \in Seq(A) /\ Len(<<128>>) = 1
  OBVIOUS
<1> HIDE DEF A, size, w, m
<1>7. PICK mark : mark = <<128>> /\ mark \in Seq(A) /\ Len(mark) = 1
  BY <1>6
<1>8. rest \in Seq(A) /\ Len(rest) = m /\ rest = SubSeq(text, e + 1, n)
  <2>1. rest = SubSeq(text, e + 1, n)
    BY DEF X!Drop
  <2> HIDE DEF rest, e
  <2>2. e <= n /\ n <= Len(text) /\ n - e = m
    BY <1>1, <1>2
  <2>3. SubSeq(text, e + 1, n) \in Seq(A) /\ Len(SubSeq(text, e + 1, n)) = n - e
    BY <1>1, <1>2, <1>5, <2>2, CutIs
  <2> QED BY <2>1, <2>2, <2>3
<1>9. PICK t : t = rest \o mark /\ t \in Seq(A) /\ Len(t) = m + 1
  <2> HIDE DEF rest, m
  <2>1. rest \o mark \in Seq(A) /\ Len(rest \o mark) = Len(rest) + Len(mark)
    BY <1>7, <1>8, CatIs
  <2> QED BY <1>7, <1>8, <2>1
<1> DEFINE p == b - m - 1
<1>10. p \in Nat
  BY <1>1, <1>2
<1>11. last = t \o X!Zeros(p) /\ last \in Seq(A) /\ Len(last) = b
  <2>1. last = t \o X!Zeros(p)
    <3> HIDE DEF rest
    <3>1. b - Len(rest) - 1 = p
      BY <1>8
    <3>2. last = rest \o mark \o X!Zeros(b - Len(rest) - 1)
      BY <1>7, Zenon DEF X!Filled
    <3> QED BY <1>9, <3>1, <3>2
  <2> HIDE DEF last, p
  <2>2. last \in Seq(A) /\ Len(last) = Len(t) + Len(X!Zeros(p))
    BY <1>5, <1>9, <1>10, <2>1, CatIs
  <2>3. Len(last) = b
    <3>1. Len(last) = (m + 1) + p
      BY <1>5, <1>9, <1>10, <2>2
    <3> QED BY <1>1, <1>2, <3>1 DEF p
  <2> QED BY <2>1, <2>2, <2>3
<1>12. PICK front : front = SubSeq(text, 1, e) /\ front \in Seq(A) /\ Len(front) = e
  <2>1. e <= Len(text) /\ 0 <= e /\ 0 + 1 = 1 /\ e - 0 = e
    BY <1>1, <1>2
  <2> HIDE DEF e
  <2>2. SubSeq(text, 0 + 1, e) \in Seq(A) /\ Len(SubSeq(text, 0 + 1, e)) = e - 0
    BY <1>2, <1>5, <2>1, CutIs
  <2> QED BY <2>1, <2>2
<1>13. front \o t = text \o mark
  <2>1. front \o rest = text
    <3>1. e <= n /\ n <= Len(text) /\ SubSeq(text, 1, n) = text
      BY <1>1, <1>2
    <3> HIDE DEF e, rest
    <3> QED BY <1>1, <1>2, <1>5, <1>8, <1>12, <3>1, CutsJoin
  <2> HIDE DEF rest
  <2>2. (front \o rest) \o mark = front \o (rest \o mark)
    <3>1. PICK r : r = rest
      OBVIOUS
    <3>2. PICK D : D = A
      OBVIOUS
    <3>3. front \in Seq(D) /\ r \in Seq(D) /\ mark \in Seq(D)
      BY <1>7, <1>8, <1>12, <3>1, <3>2
    <3>4. (front \o r) \o mark = front \o (r \o mark)
      BY <3>3, CatAssoc
    <3> QED BY <3>1, <3>4
  <2> QED BY <1>9, <2>1, <2>2
<1>14. whole \in Seq(Seq(A)) /\ Len(whole) = w /\ \A k \in 1 .. w : whole[k] = SubSeq(text, (k - 1) * b + 1, k * b)
  <2>1. ASSUME NEW k \in 1 .. w PROVE SubSeq(text, (k - 1) * b + 1, k * b) \in Seq(A)
    <3>1. PICK i \in Nat : i = k - 1 /\ k = i + 1 /\ k \in 0 .. w /\ k \in Nat
      BY <1>2
    <3> HIDE DEF n, e, b
    <3>2. i * b \in Nat /\ k * b \in Nat /\ k * b = i * b + b /\ k * b <= w * b
      BY <1>1, <1>2, <3>1, TimesIs, TimesUp
    <3>3. PICK x, y : x = i * b /\ y = k * b
      OBVIOUS
    <3>4. x \in Nat /\ y \in Nat /\ x <= y /\ y <= Len(text)
      BY <1>1, <1>2, <3>2, <3>3 DEF n, e
    <3>5. SubSeq(text, x + 1, y) \in Seq(A)
      BY <1>5, <3>4, CutIs
    <3> QED BY <3>1, <3>3, <3>5
  <2>2. whole = [k \in 1 .. w |-> SubSeq(text, (k - 1) * b + 1, k * b)]
    OBVIOUS
  <2> HIDE DEF whole
  <2>3. \A k \in 1 .. w : whole[k] = SubSeq(text, (k - 1) * b + 1, k * b) /\ whole[k] \in Seq(A)
    BY <2>1, <2>2
  <2>4. DOMAIN whole = 1 .. w /\ whole = [k \in 1 .. w |-> whole[k]]
    BY <2>2
  <2>5. PICK C : C = Seq(A)
    OBVIOUS
  <2>6. [k \in 1 .. w |-> whole[k]] \in Seq(C) /\ Len([k \in 1 .. w |-> whole[k]]) = w
    BY <1>2, <2>3, <2>5
  <2> QED BY <2>3, <2>4, <2>5, <2>6
<1> HIDE DEF rest, last, whole, e
<1>15. e <= n
  BY <1>1, <1>2
<1>16. ASSUME NEW x \in Seq(Seq(A)), NEW f, Flat(whole \o x, f)
       PROVE  /\ f[w] = front /\ Len(whole \o x) = w + Len(x) /\ whole \o x \in Seq(Seq(A))
              /\ \A k \in 1 .. Len(x) : f[w + k] = f[w + (k - 1)] \o x[k]
  <2>1. PICK C : C = Seq(A)
    OBVIOUS
  <2>2. PICK y : y = whole \o x
    OBVIOUS
  <2>3. /\ y \in Seq(C) /\ Len(y) = w + Len(x)
        /\ \A k \in 1 .. Len(whole) : y[k] = whole[k]
        /\ \A k \in 1 .. Len(x) : y[w + k] = x[k]
    <3>1. whole \in Seq(C) /\ x \in Seq(C)
      BY <1>14, <1>16, <2>1
    <3>2. PICK v : v = whole
      OBVIOUS
    <3>3. /\ v \o x \in Seq(C) /\ Len(v \o x) = Len(v) + Len(x)
          /\ \A k \in 1 .. Len(v) : (v \o x)[k] = v[k]
          /\ \A k \in 1 .. Len(x) : (v \o x)[Len(v) + k] = x[k]
      <4>1. v \in Seq(C) /\ x \in Seq(C)
        BY <3>1, <3>2
      <4> QED BY <4>1, CatIs
    <3> QED BY <1>14, <2>2, <3>2, <3>3
  <2>4. f[w] = front
    <3>1. \A k \in 1 .. w : y[k] = SubSeq(text, (k - 1) * b + 1, k * b)
      BY <1>14, <2>3
    <3>2. Len(y) \in Nat /\ w <= Len(y)
      BY <1>2, <2>3
    <3>3. Flat(y, f)
      BY <1>16, <2>2
    <3>4. w * b <= Len(text)
      BY <1>15 DEF e
    <3>5. f[w] = SubSeq(text, 1, w * b)
      <4>1. PICK D, u, c : D = A /\ u = w /\ c = b
        OBVIOUS
      <4>2. text \in Seq(D) /\ c \in Nat /\ u \in Nat /\ u * c <= Len(text)
        BY <1>1, <1>2, <1>5, <3>4, <4>1
      <4>3. Len(y) \in Nat /\ u <= Len(y) /\ \A k \in 1 .. u : y[k] = SubSeq(text, (k - 1) * c + 1, k * c)
        BY <3>1, <3>2, <4>1
      <4>4. f[u] = SubSeq(text, 1, u * c)
        BY <3>3, <4>2, <4>3, WholeBlocks
      <4> QED BY <4>1, <4>4
    <3> QED BY <1>12, <3>5 DEF e
  <2>5. ASSUME NEW k \in 1 .. Len(x) PROVE f[w + k] = f[w + (k - 1)] \o x[k]
    <3>1. w + k \in 1 .. Len(y) /\ (w + k) - 1 = w + (k - 1)
      BY <1>2, <2>3
    <3> QED BY <1>16, <2>2, <2>3, <3>1 DEF Flat
  <2> QED BY <2>1, <2>2, <2>3, <2>4, <2>5
<1>17. SubSeq(size, 1, l) = size
  BY <1>1, <1>3
<1>18. X!Overflows(m) <=> m >= b - l
  BY DEF X!Overflows
<1> DEFINE message == X!FlattenSeq(ss) end == X!Sized(X!Zeros(b), n)
<1>19. n % b = m
  BY DEF m
<1>20. ASSUME NEW z \in Nat, (z = p + (b - l) /\ m >= b - l) \/ (z = p - l /\ m < b - l)
       PROVE  z \in 0 .. b - 1 /\ (n + 1 + z + l) % b = 0
  <2>1. CASE z = p + (b - l) /\ m >= b - l
    <3>1. n + 1 + z + l = (w + 2) * b
      <4>1. (w + 2) * b = e + 2 * b
        <5>1. (w + 1) * b = (w * b) + b /\ ((w + 1) + 1) * b = ((w + 1) * b) + b /\ (w + 1) + 1 = w + 2
          BY <1>1, <1>2, TimesIs
        <5> QED BY <1>1, <1>2, <5>1 DEF e
      <4> QED BY <1>1, <1>2, <2>1, <4>1
    <3>2. ((w + 2) * b) % b = 0
      BY <1>1, <1>2, SMT
    <3>3. z \in 0 .. b - 1
      BY <1>1, <1>2, <2>1
    <3> QED BY <3>1, <3>2, <3>3
  <2>2. CASE z = p - l /\ m < b - l
    <3>1. n + 1 + z + l = (w + 1) * b
      <4>1. (w + 1) * b = e + b
        BY <1>1, <1>2, TimesIs DEF e
      <4> QED BY <1>1, <1>2, <2>2, <4>1
    <3>2. ((w + 1) * b) % b = 0
      BY <1>1, <1>2, SMT
    <3>3. z \in 0 .. b - 1
      BY <1>1, <1>2, <2>2
    <3> QED BY <3>1, <3>2, <3>3
  <2> QED BY <1>20, <2>1, <2>2
<1>21. PICK D, u, s, zp, k, la, wh :
             D = A /\ u = text \o mark /\ s = size /\ zp = X!Zeros(p) /\ k = w /\ la = last /\ wh = whole
  OBVIOUS
<1>22. /\ k \in Nat /\ s \in Seq(D) /\ Len(s) = l /\ zp \in Seq(D) /\ Len(zp) = p /\ t \in Seq(D) /\ front \in Seq(D)
       /\ mark \in Seq(D) /\ la \in Seq(D) /\ la = t \o zp /\ text \in Seq(D) /\ u = front \o t
  BY <1>2, <1>3, <1>5, <1>7, <1>9, <1>10, <1>11, <1>12, <1>13, <1>21
<1>23. u \in Seq(D) /\ Len(u) = n + 1
  <2>1. text \o mark \in Seq(D) /\ Len(text \o mark) = Len(text) + Len(mark)
    BY <1>22, CatIs
  <2> QED BY <1>7, <1>21, <2>1
<1>24. ASSUME NEW z \in 0 .. b - 1, message = u \o (X!Zeros(z) \o s)
       PROVE  message = text \o <<128>> \o X!Zeros(z) \o X!Size(n) /\ Len(message) = n + 1 + z + l
  <2>1. PICK y : y = X!Zeros(z) /\ y \in Seq(D) /\ Len(y) = z
    BY <1>5, <1>21
  <2>2. y \o s \in Seq(D) /\ Len(y \o s) = z + l
    BY <1>22, <2>1, CatIs
  <2>3. PICK v : v = y \o s
    OBVIOUS
  <2>4. Len(u \o v) = Len(u) + Len(v)
    BY <1>23, <2>2, <2>3, CatIs
  <2>5. Len(message) = n + 1 + z + l
    <3>1. message = u \o v
      BY <1>24, <2>1, <2>3
    <3>2. Len(u \o v) = (n + 1) + (z + l)
      BY <1>23, <2>2, <2>3, <2>4
    <3> HIDE DEF message
    <3> QED BY <1>1, <3>1, <3>2
  <2>6. u \o (y \o s) = (u \o y) \o s
    <3>1. u \in Seq(D) /\ y \in Seq(D) /\ s \in Seq(D)
      BY <1>22, <1>23, <2>1
    <3> QED BY <3>1
  <2> QED BY <1>7, <1>21, <1>24, <2>1, <2>5, <2>6 DEF size
<1>25. ASSUME NEW x \in Seq(Seq(A)), ss = whole \o x
       PROVE  \E f : Flat(whole \o x, f) /\ f[k + Len(x)] = message
  <2>1. PICK C, y : C = Seq(D) /\ y = wh \o x
    OBVIOUS
  <2>2. y \in Seq(C) /\ Len(y) = k + Len(x)
    <3>1. wh \in Seq(C) /\ x \in Seq(C) /\ Len(wh) = k
      BY <1>14, <1>21, <2>1
    <3> QED BY <2>1, <3>1, CatIs
  <2>3. y \in Seq(Seq(D))
    BY <2>1, <2>2
  <2>4. PICK f : Flat(y, f) /\ f[Len(y)] = X!FlattenSeq(y)
    BY <2>3, FlatIs
  <2>5. y = ss
    BY <1>21, <1>25, <2>1
  <2> HIDE DEF ss
  <2> QED BY <1>21, <1>25, <2>1, <2>2, <2>4, <2>5
<1>26. CASE m >= b - l
  <2>1. PICK en : en = X!Zeros(b - l) \o s
    OBVIOUS
  <2>2. end = en /\ en \in Seq(D)
    <3>1. PICK j \in Nat : j = b - l
      BY <1>1
    <3>2. j + l = b
      BY <1>1, <3>1
    <3>3. SubSeq(X!Zeros(b), 1, j) = X!Zeros(j)
      <4>1. SubSeq(X!Zeros(j + l), 1, j) = X!Zeros(j)
        BY <1>1, ZerosJoin
      <4> QED BY <3>2, <4>1
    <3>4. end = X!Zeros(j) \o s
      BY <1>21, <3>1, <3>3 DEF X!Sized, size
    <3>5. PICK y : y = X!Zeros(j) /\ y \in Seq(D)
      BY <1>5, <1>21, <3>1
    <3>6. y \o s \in Seq(D)
      BY <1>22, <3>5, CatIs
    <3> QED BY <2>1, <3>1, <3>4, <3>5, <3>6
  <2>3. PICK x : x = <<la, en>> /\ x \in Seq(Seq(D)) /\ Len(x) = 2 /\ x[1] = la /\ x[2] = en
    <3>1. <<la, en>> \in Seq(Seq(D))
      <4>1. PICK C : C = Seq(D)
        OBVIOUS
      <4> QED BY <1>22, <2>2, <4>1
    <3>2. Len(<<la, en>>) = 2 /\ <<la, en>>[1] = la /\ <<la, en>>[2] = en
      OBVIOUS
    <3> QED BY <3>1, <3>2, Zenon
  <2>4. ss = whole \o x
    BY <1>18, <1>21, <1>26, <2>2, <2>3
  <2>5. PICK f : Flat(whole \o x, f) /\ f[k + Len(x)] = message
    BY <1>21, <1>25, <2>3, <2>4
  <2>6. f[k] = front /\ f[k + 1] = f[k + (1 - 1)] \o x[1] /\ f[k + 2] = f[k + (2 - 1)] \o x[2]
    <3>1. /\ f[w] = front
          /\ \A i \in 1 .. Len(x) : f[w + i] = f[w + (i - 1)] \o x[i]
      BY <1>16, <1>21, <2>3, <2>5
    <3>2. 1 \in 1 .. Len(x) /\ 2 \in 1 .. Len(x)
      BY <2>3
    <3> QED BY <1>21, <3>1, <3>2
  <2>7. message = (front \o (t \o zp)) \o (X!Zeros(b - l) \o s)
    <3>1. k + (1 - 1) = k /\ 2 - 1 = 1
      BY <1>22
    <3> HIDE DEF message
    <3> QED BY <1>22, <2>1, <2>3, <2>5, <2>6, <3>1
  <2>8. PICK z : z = p + (b - l) /\ z \in 0 .. b - 1 /\ (n + 1 + z + l) % b = 0
    <3>1. p + (b - l) \in Nat
      BY <1>1, <1>10
    <3> QED BY <1>20, <1>26, <3>1
  <2>9. PICK y : y = X!Zeros(b - l) /\ y \in Seq(D) /\ zp \o y = X!Zeros(z)
    <3>1. b - l \in Nat
      BY <1>1
    <3>2. X!Zeros(p) \o X!Zeros(b - l) = X!Zeros(p + (b - l))
      BY <1>10, <3>1, ZerosJoin
    <3> QED BY <1>5, <1>21, <2>8, <3>1, <3>2
  <2>10. (front \o (t \o zp)) \o (y \o s) = (front \o t) \o ((zp \o y) \o s)
    <3>1. front \in Seq(D) /\ t \in Seq(D) /\ zp \in Seq(D) /\ s \in Seq(D) /\ y \in Seq(D)
      BY <1>22, <2>9
    <3>2. Regroups(front, t, zp, y, s)
      BY <3>1, Regroup
    <3> QED BY <3>2 DEF Regroups
  <2>11. message = u \o (X!Zeros(z) \o s)
    <3> HIDE DEF message
    <3> QED BY <1>22, <2>7, <2>9, <2>10
  <2>12. message = text \o <<128>> \o X!Zeros(z) \o X!Size(n) /\ Len(message) = n + 1 + z + l
    BY <1>24, <2>8, <2>11
  <2> HIDE DEF ss
  <2> QED BY <1>4, <2>8, <2>12
<1>27. CASE m < b - l
  <2>1. PICK z : z = p - l /\ z \in 0 .. b - 1 /\ (n + 1 + z + l) % b = 0
    <3>1. p - l \in Nat
      BY <1>1, <1>2, <1>10, <1>27 DEF p
    <3> QED BY <1>20, <1>27, <3>1
  <2>2. PICK y : y = X!Zeros(z) /\ y \in Seq(D) /\ y = SubSeq(zp, 1, z)
    <3>0. z \in Nat /\ l \in Nat /\ z + l = p
      BY <1>1, <1>10, <2>1
    <3>1. SubSeq(X!Zeros(z + l), 1, z) = X!Zeros(z)
      BY <3>0, ZerosJoin
    <3> QED BY <1>5, <1>21, <3>0, <3>1
  <2>3. SubSeq(la, 1, b - l) = t \o y
    <3>1. b - l = Len(t) + z
      BY <1>1, <1>2, <1>9, <2>1 DEF p
    <3>2. z \in Nat /\ z <= Len(zp)
      BY <1>1, <1>10, <1>22, <2>1
    <3>3. SubSeq(t \o zp, 1, Len(t) + z) = t \o SubSeq(zp, 1, z)
      BY <1>22, <3>2, TakeCat
    <3> QED BY <1>22, <2>2, <3>1, <3>3
  <2>4. PICK en : en = (t \o y) \o s /\ en \in Seq(D)
    <3>1. PICK v : v = t \o y /\ v \in Seq(D)
      BY <1>22, <2>2, CatIs
    <3> QED BY <1>22, <3>1, CatIs
  <2>5. X!Sized(last, n) = en
    BY <1>21, <2>3, <2>4 DEF X!Sized, size
  <2>6. PICK x : x = <<en>> /\ x \in Seq(Seq(D)) /\ Len(x) = 1 /\ x[1] = en
    <3>1. PICK C : C = Seq(D)
      OBVIOUS
    <3>2. <<en>> \in Seq(C) /\ Len(<<en>>) = 1 /\ <<en>>[1] = en
      BY <2>4, <3>1
    <3> QED BY <3>1, <3>2, Zenon
  <2>7. ss = whole \o x
    <3>1. ~X!Overflows(m)
      BY <1>1, <1>2, <1>18, <1>27
    <3> QED BY <2>5, <2>6, <3>1
  <2>8. PICK f : Flat(whole \o x, f) /\ f[k + Len(x)] = message
    BY <1>21, <1>25, <2>6, <2>7
  <2>9. f[k] = front /\ f[k + 1] = f[k + (1 - 1)] \o x[1]
    <3>1. /\ f[w] = front
          /\ \A i \in 1 .. Len(x) : f[w + i] = f[w + (i - 1)] \o x[i]
      BY <1>16, <1>21, <2>6, <2>8
    <3>2. 1 \in 1 .. Len(x)
      BY <2>6
    <3> QED BY <1>21, <3>1, <3>2
  <2>10. message = front \o ((t \o y) \o s)
    <3>1. k + (1 - 1) = k
      BY <1>22
    <3> HIDE DEF message
    <3> QED BY <2>4, <2>6, <2>8, <2>9, <3>1
  <2>11. front \o ((t \o y) \o s) = (front \o t) \o (y \o s)
    <3>1. front \in Seq(D) /\ t \in Seq(D) /\ s \in Seq(D) /\ y \in Seq(D)
      BY <1>22, <2>2
    <3> QED BY <3>1
  <2>12. message = u \o (X!Zeros(z) \o s)
    <3> HIDE DEF message
    <3> QED BY <1>22, <2>2, <2>10, <2>11
  <2>13. message = text \o <<128>> \o X!Zeros(z) \o X!Size(n) /\ Len(message) = n + 1 + z + l
    BY <1>24, <2>1, <2>12
  <2> HIDE DEF ss
  <2> QED BY <1>4, <2>1, <2>13
<1>28. m >= b - l \/ m < b - l
  BY <1>1, <1>2
<1> QED BY <1>26, <1>27, <1>28

-----------------------------------------------------------------------------
(* JSON replies.                                                             *)
Tokens == {"{", "}", "[", "]", ":", ",", "string", "number", "null", "true"}
Opened == Seq({"{", "["})
Wants == {"value", "value or end", "key", "key or end", "colon", "next", "end", "nothing"}
From(O, w) == [open |-> O, want |-> w]
Readings == [open : Opened, want : Wants]
TokenFun == [z \in Readings \X Tokens |-> X!ReadToken(z[1], z[2])]
After(O) == IF O = <<>> THEN "end" ELSE "next"

\* The states of the reader of JSON: what is open, and what it wants.
LEMMA FromIs ==
  ASSUME NEW O, NEW w
  PROVE  /\ From(O, w).open = O /\ From(O, w).want = w
         /\ \A v : [From(O, w) EXCEPT !.want = v] = From(O, v)
BY DEF From

LEMMA ClosesIs ==
  ASSUME NEW O, NEW w
  PROVE  X!Closes(From(O, w)) = From(X!Front(O), IF Len(O) = 1 THEN "end" ELSE "next")
<1>1. PICK r : r = From(O, w)
  OBVIOUS
<1>2. r.open = O /\ r.want = w
  BY <1>1, FromIs
<1>3. X!Closes(r) = [r EXCEPT !.open = X!Front(r.open), !.want = IF Len(r.open) = 1 THEN "end" ELSE "next"]
  BY Zenon DEF X!Closes
<1>4. PICK P, v : P = X!Front(O) /\ v = IF Len(O) = 1 THEN "end" ELSE "next"
  OBVIOUS
<1>5. PICK b : b = [r EXCEPT !.open = P, !.want = v]
  OBVIOUS
<1>6. X!Closes(r) = b
  BY <1>2, <1>3, <1>4, <1>5
<1>7. r \in [open : {O, P}, want : {w, v}]
  BY <1>1 DEF From
<1>8. b \in [open : {O, P}, want : {w, v}] /\ b.open = P /\ b.want = v
  BY <1>5, <1>7
<1>9. b = From(P, v)
  BY <1>8 DEF From
<1> QED BY <1>1, <1>4, <1>6, <1>9

\* What is open stays a sequence of brackets.
LEMMA OpenIs ==
  ASSUME NEW B, NEW O \in Seq(B), NEW c \in B
  PROVE  /\ Append(O, c) \in Seq(B) /\ Append(O, c) # <<>> /\ X!Last(Append(O, c)) = c /\ X!Front(Append(O, c)) = O
         /\ Len(Append(O, c)) = 1 <=> O = <<>>
<1>2. Len(O) \in Nat /\ Len(Append(O, c)) = Len(O) + 1 /\ Append(O, c) \in Seq(B) /\ Append(O, c)[Len(O) + 1] = c
  OBVIOUS
<1>3. X!Last(Append(O, c)) = c
  BY <1>2 DEF X!Last
<1>4. X!Front(Append(O, c)) = O
  <2>1. SubSeq(Append(O, c), 1, Len(O)) = O
    OBVIOUS
  <2>2. Len(Append(O, c)) - 1 = Len(O)
    BY <1>2
  <2> QED BY <2>1, <2>2 DEF X!Front
<1>5. Append(O, c) # <<>>
  BY <1>2
<1>6. Len(Append(O, c)) = 1 <=> O = <<>>
  BY <1>2
<1> QED BY <1>2, <1>3, <1>4, <1>5, <1>6

LEMMA FrontIs ==
  ASSUME NEW B, NEW O \in Seq(B)
  PROVE  X!Front(O) \in Seq(B)
<1>1. Len(O) \in Nat
  OBVIOUS
<1>2. CASE Len(O) > 0
  <2>1. PICK n : n = Len(O) - 1
    OBVIOUS
  <2>2. n \in Nat /\ n <= Len(O)
    BY <1>1, <1>2, <2>1
  <2>3. SubSeq(O, 1, n) \in Seq(B)
    BY <2>2
  <2> QED BY <2>1, <2>3 DEF X!Front
<1>3. CASE Len(O) = 0
  <2>1. X!Front(O) = SubSeq(O, 1, 0 - 1)
    BY <1>3 DEF X!Front
  <2>2. SubSeq(O, 1, 0 - 1) = <<>>
    OBVIOUS
  <2>3. <<>> \in Seq(B)
    OBVIOUS
  <2> QED BY <2>1, <2>2, <2>3
<1> QED BY <1>1, <1>2, <1>3

\* What each token does.
LEMMA JsonTokenIs ==
  ASSUME NEW O, NEW w
  PROVE  /\ w = "colon" => X!ReadToken(From(O, w), ":") = From(O, "value")
         /\ w \in {"key", "key or end"} => X!ReadToken(From(O, w), "string") = From(O, "colon")
         /\ w \in {"key or end", "next"} /\ X!Last(O) = "{" =>
              X!ReadToken(From(O, w), "}") = From(X!Front(O), IF Len(O) = 1 THEN "end" ELSE "next")
         /\ w \in {"value or end", "next"} /\ X!Last(O) = "[" =>
              X!ReadToken(From(O, w), "]") = From(X!Front(O), IF Len(O) = 1 THEN "end" ELSE "next")
         /\ w = "next" => X!ReadToken(From(O, w), ",") = From(O, IF X!Last(O) = "{" THEN "key" ELSE "value")
         /\ w \in {"value", "value or end"} =>
              /\ X!ReadToken(From(O, w), "{") = From(Append(O, "{"), "key or end")
              /\ X!ReadToken(From(O, w), "[") = From(Append(O, "["), "value or end")
              /\ \A t \in {"string", "number", "null", "true"} :
                   X!ReadToken(From(O, w), t) = From(O, After(O))
<1>1. \A x : [From(O, w) EXCEPT !.want = x] = From(O, x)
  BY DEF From
<1>3. PICK r : r = From(O, w)
  OBVIOUS
<1>4. r.open = O /\ r.want = w
  BY <1>3 DEF From
<1>5. w = "colon" => X!ReadToken(r, ":") = [r EXCEPT !.want = "value"]
  BY <1>4 DEF X!ReadToken
<1>6. w \in {"key", "key or end"} => X!ReadToken(r, "string") = [r EXCEPT !.want = "colon"]
  BY <1>4 DEF X!ReadToken
<1>7. w \in {"key or end", "next"} /\ X!Last(O) = "{" => X!ReadToken(r, "}") = X!Closes(r)
  BY <1>4 DEF X!ReadToken
<1>8. w \in {"value or end", "next"} /\ X!Last(O) = "[" => X!ReadToken(r, "]") = X!Closes(r)
  BY <1>4 DEF X!ReadToken
<1>9. w = "next" => X!ReadToken(r, ",") = [r EXCEPT !.want = IF X!Last(r.open) = "{" THEN "key" ELSE "value"]
  BY <1>4 DEF X!ReadToken
<1>10. w \in {"value", "value or end"} => X!ReadToken(r, "{") = [open |-> Append(r.open, "{"), want |-> "key or end"]
  BY <1>4 DEF X!ReadToken
<1>11. w \in {"value", "value or end"} => X!ReadToken(r, "[") = [open |-> Append(r.open, "["), want |-> "value or end"]
  BY <1>4 DEF X!ReadToken
<1>12. ASSUME w \in {"value", "value or end"}, NEW t \in {"string", "number", "null", "true"}
       PROVE  X!ReadToken(r, t) = [r EXCEPT !.want = IF r.open = <<>> THEN "end" ELSE "next"]
  BY <1>4, <1>12 DEF X!ReadToken
<1>13. X!Closes(r) = From(X!Front(O), IF Len(O) = 1 THEN "end" ELSE "next")
  BY <1>3, ClosesIs
<1>14. w = "colon" => X!ReadToken(r, ":") = From(O, "value")
  BY <1>1, <1>3, <1>5
<1>15. w \in {"key", "key or end"} => X!ReadToken(r, "string") = From(O, "colon")
  BY <1>1, <1>3, <1>6
<1>16. w = "next" => X!ReadToken(r, ",") = From(O, IF X!Last(O) = "{" THEN "key" ELSE "value")
  BY <1>1, <1>3, <1>4, <1>9
<1>17. w \in {"value", "value or end"} => X!ReadToken(r, "{") = From(Append(O, "{"), "key or end")
  BY <1>4, <1>10 DEF From
<1>18. w \in {"value", "value or end"} => X!ReadToken(r, "[") = From(Append(O, "["), "value or end")
  BY <1>4, <1>11 DEF From
<1>19. w \in {"value", "value or end"} => \A t \in {"string", "number", "null", "true"} : X!ReadToken(r, t) = From(O, After(O))
  BY <1>1, <1>3, <1>4, <1>12 DEF After
<1> QED BY <1>3, <1>7, <1>8, <1>13, <1>14, <1>15, <1>16, <1>17, <1>18, <1>19, Zenon

LEMMA TokenType ==
  ASSUME NEW r \in Readings, NEW t \in Tokens
  PROVE  X!ReadToken(r, t) \in Readings
<1>1. r.open \in Opened /\ r.want \in Wants /\ r = From(r.open, r.want)
  BY DEF Readings, From
<1>2. \A v \in Wants : [r EXCEPT !.want = v] \in Readings
  BY DEF Readings
<1>3. \A P \in Opened, v \in Wants : From(P, v) \in Readings
  BY DEF Readings, From
<1>4. X!Closes(r) \in Readings
  <2>1. X!Front(r.open) \in Opened
    <3>1. PICK B : B = {"{", "["}
      OBVIOUS
    <3> QED BY <1>1, <3>1, FrontIs DEF Opened
  <2>2. (IF Len(r.open) = 1 THEN "end" ELSE "next") \in Wants
    BY DEF Wants
  <2>3. X!Closes(From(r.open, r.want)) = From(X!Front(r.open), IF Len(r.open) = 1 THEN "end" ELSE "next")
    BY ClosesIs
  <2> QED BY <1>1, <1>3, <2>1, <2>2, <2>3
<1>5. Append(r.open, "{") \in Opened /\ Append(r.open, "[") \in Opened /\ <<>> \in Opened
  <2>1. PICK B, O : B = {"{", "["} /\ O = r.open
    OBVIOUS
  <2>2. O \in Seq(B) /\ "{" \in B /\ "[" \in B
    BY <1>1, <2>1 DEF Opened
  <2>3. \A c \in B : Append(O, c) \in Seq(B)
    <3>1. O \in Seq(B)
      BY <2>2
    <3> QED BY <3>1, OpenIs
  <2>4. <<>> \in Seq(B)
    OBVIOUS
  <2> QED BY <2>1, <2>2, <2>3, <2>4 DEF Opened
<1>6. {"value", "value or end", "key", "key or end", "colon", "next", "end", "nothing"} \subseteq Wants
  BY DEF Wants
<1>7. X!ReadToken(r, t) \in {[r EXCEPT !.want = v] : v \in Wants} \cup {X!Closes(r)}
         \cup {From(Append(r.open, "{"), "key or end"), From(Append(r.open, "["), "value or end"), From(<<>>, "nothing")}
  <2>1. PICK p, q, x : p = Append(r.open, "{") /\ q = Append(r.open, "[") /\ x = X!Closes(r)
    OBVIOUS
  <2> QED BY <1>6, <2>1 DEF X!ReadToken, From
<1> QED BY <1>2, <1>3, <1>4, <1>5, <1>6, <1>7

LEMMA TokenFunIs ==
  /\ TokenFun \in [Readings \X Tokens -> Readings]
  /\ \A r \in Readings, t \in Tokens : TokenFun[<<r, t>>] = X!ReadToken(r, t)
<1>1. \A r \in Readings, t \in Tokens : TokenFun[<<r, t>>] = X!ReadToken(r, t)
  BY DEF TokenFun
<1>2. \A z \in Readings \X Tokens : X!ReadToken(z[1], z[2]) \in Readings
  BY TokenType
<1> QED BY <1>1, <1>2 DEF TokenFun

\* What is read to the end is JSON.
Reads(r, q, t) == Runs(TokenFun, r, q, t)
\* What leads the reader from the beginning to the end is JSON.
LEMMA IsJsonIs ==
  ASSUME NEW q \in Seq(Tokens), NEW t, Reads(From(<<>>, "value"), q, t), t.want = "end"
  PROVE  X!IsJson(q)
<1>1. PICK h : /\ h[0] = From(<<>>, "value") /\ h[Len(q)] = t
               /\ \A k \in 1 .. Len(q) : h[k] = TokenFun[<<h[k - 1], q[k]>>]
  BY DEF Reads, Runs
<1>2. Len(q) \in Nat /\ \A k \in 1 .. Len(q) : q[k] \in Tokens
  OBVIOUS
<1> DEFINE S == {k \in 0 .. Len(q) : h[k] \in Readings}
<1>3. 0 \in S
  <2>1. <<>> \in Opened /\ "value" \in Wants
    BY DEF Opened, Wants
  <2> QED BY <1>1, <1>2, <2>1 DEF Readings, From
<1>4. ASSUME NEW k \in 1 .. Len(q), k - 1 \in S PROVE k \in S
  <2>1. h[k - 1] \in Readings /\ q[k] \in Tokens /\ k \in 0 .. Len(q)
    BY <1>2, <1>4
  <2> QED BY <1>1, <2>1, TokenFunIs
<1>5. \A k \in 0 .. Len(q) : k \in S
  <2> HIDE DEF S
  <2> QED BY <1>2, <1>3, <1>4, AlongChain
<1>6. \A k \in 1 .. Len(q) : h[k] = X!ReadToken(h[k - 1], q[k])
  <2>1. \A k \in 1 .. Len(q) : k - 1 \in 0 .. Len(q)
    BY <1>2
  <2> QED BY <1>1, <1>2, <1>5, <2>1, TokenFunIs
<1> DEFINE e == [open |-> <<>>, want |-> "value"]
           Is(f) == f = [n \in 0 .. Len(q) |-> IF n = 0 THEN e ELSE X!ReadToken(f[n - 1], q[n])]
<1>7. Is([n \in 0 .. Len(q) |-> h[n]])
  <2> DEFINE g == [n \in 0 .. Len(q) |-> h[n]]
  <2>1. ASSUME NEW n \in 0 .. Len(q) PROVE h[n] = IF n = 0 THEN e ELSE X!ReadToken(g[n - 1], q[n])
    <3>1. CASE n = 0
      BY <1>1, <3>1 DEF From
    <3>2. CASE n # 0
      <4>1. n \in 1 .. Len(q) /\ n - 1 \in 0 .. Len(q)
        BY <1>2, <3>2
      <4> QED BY <1>6, <3>2, <4>1
    <3> QED BY <3>1, <3>2
  <2>2. g = [n \in 0 .. Len(q) |-> IF n = 0 THEN e ELSE X!ReadToken(g[n - 1], q[n])]
    BY <2>1
  <2> HIDE DEF g
  <2> QED BY <2>2 DEF g
<1>8. \E f : Is(f) /\ (X!IsJson(q) <=> f[Len(q)].want = "end")
  <2>1. \E f : Is(f)
    BY <1>7
  <2> QED BY <2>1, Zenon DEF X!IsJson
<1>9. PICK f : Is(f) /\ (X!IsJson(q) <=> f[Len(q)].want = "end")
  BY <1>8, Zenon
<1>10. \A n \in 0 .. Len(q) : f[n] = IF n = 0 THEN e ELSE X!ReadToken(f[n - 1], q[n])
  BY <1>9, Zenon
<1> DEFINE Same == {k \in 0 .. Len(q) : f[k] = h[k]}
<1>11. 0 \in Same
  BY <1>1, <1>2, <1>10 DEF From
<1>12. ASSUME NEW k \in 1 .. Len(q), k - 1 \in Same PROVE k \in Same
  <2>1. k \in 0 .. Len(q) /\ k # 0 /\ f[k - 1] = h[k - 1]
    BY <1>2, <1>12
  <2>2. f[k] = X!ReadToken(f[k - 1], q[k])
    BY <1>10, <2>1
  <2> QED BY <1>6, <2>1, <2>2
<1>13. \A k \in 0 .. Len(q) : k \in Same
  <2> HIDE DEF Same
  <2> QED BY <1>2, <1>11, <1>12, AlongChain
<1>14. f[Len(q)] = t
  <2>1. Len(q) \in 0 .. Len(q)
    BY <1>2
  <2> QED BY <1>1, <1>13, <2>1
<1> QED BY <1>9, <1>14

\* A sequence of tokens leads from one state of the reader to another.
Go(r, q, s) == q \in Seq(Tokens) /\ Reads(r, q, s)

\* What the reader goes through in two parts, it goes through.
LEMMA GoJoin ==
  ASSUME NEW r, NEW p, NEW s, NEW q, NEW t, Go(r, p, s), Go(s, q, t)
  PROVE  Go(r, p \o q, t)
<1>1. p \in Seq(Tokens) /\ q \in Seq(Tokens) /\ Runs(TokenFun, r, p, s) /\ Runs(TokenFun, s, q, t)
  BY DEF Go, Reads
<1>2. Runs(TokenFun, r, p \o q, t)
  BY <1>1, RunsJoin
<1>3. p \o q \in Seq(Tokens)
  BY <1>1, CatIs
<1> QED BY <1>2, <1>3 DEF Go, Reads

\* One token.
LEMMA FromType ==
  ASSUME NEW O \in Opened, NEW w \in Wants
  PROVE  From(O, w) \in Readings
BY DEF Readings, From

LEMMA GoOne ==
  ASSUME NEW O \in Opened, NEW w \in Wants, NEW c \in Tokens, NEW s, X!ReadToken(From(O, w), c) = s
  PROVE  Go(From(O, w), <<c>>, s)
<1>1. TokenFun[<<From(O, w), c>>] = s
  BY FromType, TokenFunIs
<1>2. Runs(TokenFun, From(O, w), <<c>>, s)
  BY <1>1, RunsOne
<1>3. <<c>> \in Seq(Tokens)
  <2>1. \A B, x : x \in B => <<x>> \in Seq(B)
    OBVIOUS
  <2> QED BY <2>1, Zenon
<1> QED BY <1>2, <1>3 DEF Go, Reads

LEMMA WordsIs ==
  /\ {"{", "}", "[", "]", ":", ",", "string", "number", "null", "true"} \subseteq Tokens
  /\ {"value", "value or end", "key", "key or end", "colon", "next", "end", "nothing"} \subseteq Wants
BY DEF Tokens, Wants

\* What each token does, in what is open.
LEMMA GoIs ==
  ASSUME NEW O \in Opened
  PROVE  /\ \A w \in {"value", "value or end"} :
              /\ \A t \in {"string", "number", "null", "true"} : Go(From(O, w), <<t>>, From(O, After(O)))
              /\ Go(From(O, w), <<"{">>, From(Append(O, "{"), "key or end"))
              /\ Go(From(O, w), <<"[">>, From(Append(O, "["), "value or end"))
         /\ \A w \in {"key", "key or end"} : Go(From(O, w), <<"string">>, From(O, "colon"))
         /\ Go(From(O, "colon"), <<":">>, From(O, "value"))
<1>1. ASSUME NEW w \in {"value", "value or end"}, NEW t \in {"string", "number", "null", "true"}
      PROVE  Go(From(O, w), <<t>>, From(O, After(O)))
  <2>1. w \in Wants /\ t \in Tokens
    BY WordsIs
  <2>2. X!ReadToken(From(O, w), t) = From(O, After(O))
    BY JsonTokenIs
  <2> QED BY <2>1, <2>2, GoOne
<1>2. ASSUME NEW w \in {"value", "value or end"}
      PROVE  /\ Go(From(O, w), <<"{">>, From(Append(O, "{"), "key or end"))
             /\ Go(From(O, w), <<"[">>, From(Append(O, "["), "value or end"))
  <2>1. w \in Wants /\ "{" \in Tokens /\ "[" \in Tokens
    BY WordsIs
  <2>2. /\ X!ReadToken(From(O, w), "{") = From(Append(O, "{"), "key or end")
        /\ X!ReadToken(From(O, w), "[") = From(Append(O, "["), "value or end")
    BY JsonTokenIs
  <2> QED BY <2>1, <2>2, GoOne
<1>3. ASSUME NEW w \in {"key", "key or end"} PROVE Go(From(O, w), <<"string">>, From(O, "colon"))
  <2>1. w \in Wants /\ "string" \in Tokens
    BY WordsIs
  <2>2. X!ReadToken(From(O, w), "string") = From(O, "colon")
    BY JsonTokenIs
  <2> QED BY <2>1, <2>2, GoOne
<1>4. Go(From(O, "colon"), <<":">>, From(O, "value"))
  <2>1. "colon" \in Wants /\ ":" \in Tokens
    BY WordsIs
  <2>2. X!ReadToken(From(O, "colon"), ":") = From(O, "value")
    BY JsonTokenIs
  <2> QED BY <2>1, <2>2, GoOne
<1> QED BY <1>1, <1>2, <1>3, <1>4

\* An opening bracket, and what comes once it is closed.
LEMMA BracketIs ==
  ASSUME NEW O \in Opened, NEW c \in {"{", "["}
  PROVE  /\ Append(O, c) \in Opened /\ X!Last(Append(O, c)) = c /\ X!Front(Append(O, c)) = O
         /\ After(Append(O, c)) = "next" /\ After(O) = IF Len(Append(O, c)) = 1 THEN "end" ELSE "next"
<1>1. PICK B : B = {"{", "["}
  OBVIOUS
<1>2. O \in Seq(B) /\ c \in B
  BY <1>1 DEF Opened
<1>3. /\ Append(O, c) \in Seq(B) /\ Append(O, c) # <<>> /\ X!Last(Append(O, c)) = c /\ X!Front(Append(O, c)) = O
      /\ Len(Append(O, c)) = 1 <=> O = <<>>
  BY <1>2, OpenIs
<1> QED BY <1>1, <1>3 DEF Opened, After

\* Commas and closing brackets, where they may be.
LEMMA GoOn ==
  ASSUME NEW O \in Opened
  PROVE  /\ Go(From(Append(O, "{"), "next"), <<",">>, From(Append(O, "{"), "key"))
         /\ Go(From(Append(O, "["), "next"), <<",">>, From(Append(O, "["), "value"))
         /\ \A w \in {"key or end", "next"} : Go(From(Append(O, "{"), w), <<"}">>, From(O, After(O)))
         /\ \A w \in {"value or end", "next"} : Go(From(Append(O, "["), w), <<"]">>, From(O, After(O)))
<1>1. PICK P, R : P = Append(O, "{") /\ R = Append(O, "[")
  OBVIOUS
<1>2. /\ P \in Opened /\ X!Last(P) = "{" /\ X!Front(P) = O /\ After(O) = IF Len(P) = 1 THEN "end" ELSE "next"
      /\ R \in Opened /\ X!Last(R) = "[" /\ X!Front(R) = O /\ After(O) = IF Len(R) = 1 THEN "end" ELSE "next"
  BY <1>1, BracketIs
<1>3. Go(From(P, "next"), <<",">>, From(P, "key")) /\ Go(From(R, "next"), <<",">>, From(R, "value"))
  <2>1. X!ReadToken(From(P, "next"), ",") = From(P, IF X!Last(P) = "{" THEN "key" ELSE "value")
    BY JsonTokenIs
  <2>2. X!ReadToken(From(R, "next"), ",") = From(R, IF X!Last(R) = "{" THEN "key" ELSE "value")
    BY JsonTokenIs
  <2>3. X!ReadToken(From(P, "next"), ",") = From(P, "key") /\ X!ReadToken(From(R, "next"), ",") = From(R, "value")
    BY <1>2, <2>1, <2>2
  <2> QED BY <1>2, <2>3, WordsIs, GoOne
<1>4. ASSUME NEW w \in {"key or end", "next"} PROVE Go(From(P, w), <<"}">>, From(O, After(O)))
  <2>1. X!ReadToken(From(P, w), "}") = From(X!Front(P), IF Len(P) = 1 THEN "end" ELSE "next")
    BY <1>2, JsonTokenIs
  <2>2. X!ReadToken(From(P, w), "}") = From(O, After(O))
    BY <1>2, <2>1
  <2>3. w \in Wants /\ "}" \in Tokens
    BY WordsIs
  <2> QED BY <1>2, <2>2, <2>3, GoOne
<1>5. ASSUME NEW w \in {"value or end", "next"} PROVE Go(From(R, w), <<"]">>, From(O, After(O)))
  <2>1. X!ReadToken(From(R, w), "]") = From(X!Front(R), IF Len(R) = 1 THEN "end" ELSE "next")
    BY <1>2, JsonTokenIs
  <2>2. X!ReadToken(From(R, w), "]") = From(O, After(O))
    BY <1>2, <2>1
  <2>3. w \in Wants /\ "]" \in Tokens
    BY WordsIs
  <2> QED BY <1>2, <2>2, <2>3, GoOne
<1> QED BY <1>1, <1>3, <1>4, <1>5

-----------------------------------------------------------------------------
\* Parts that are joined by commas.
LEMMA GoJoined ==
  ASSUME NEW parts \in Seq(Seq(Tokens)), NEW sep, NEW st,
         \A k \in 1 .. Len(parts) : k = 1 => Go(st[k - 1], parts[k], st[k]),
         \A k \in 1 .. Len(parts) : k # 1 => \E c : Go(st[k - 1], sep, c) /\ Go(c, parts[k], st[k])
  PROVE  Go(st[0], X!Joined(parts, sep), st[Len(parts)])
<1>1. PICK S : S = Seq(Tokens)
  OBVIOUS
<1>2. PICK L \in Nat : L = Len(parts) /\ DOMAIN parts = 1 .. L /\ \A k \in 1 .. L : parts[k] \in S
  BY <1>1
<1> DEFINE ss == [n \in DOMAIN parts |-> IF n = 1 THEN parts[n] ELSE sep \o parts[n]]
<1>4. ASSUME NEW k \in 1 .. L PROVE ss[k] \in S /\ Go(st[k - 1], ss[k], st[k])
  <2>1. CASE k = 1
    BY <1>2, <2>1
  <2>2. CASE k # 1
    <3>1. PICK c : Go(st[k - 1], sep, c) /\ Go(c, parts[k], st[k])
      BY <1>2, <2>2
    <3>2. Go(st[k - 1], sep \o parts[k], st[k])
      BY <3>1, GoJoin
    <3>3. ss[k] = sep \o parts[k]
      BY <1>2, <2>2
    <3> QED BY <1>1, <3>2, <3>3 DEF Go
  <2> QED BY <2>1, <2>2
<1>5. PICK tt : tt = ss /\ tt \in Seq(S) /\ Len(tt) = L
  <2>1. ss = [n \in 1 .. L |-> ss[n]]
    BY <1>2
  <2> HIDE DEF ss
  <2>2. [n \in 1 .. L |-> ss[n]] \in Seq(S) /\ Len([n \in 1 .. L |-> ss[n]]) = L
    BY <1>4
  <2> QED BY <2>1, <2>2
<1>6. X!Joined(parts, sep) = X!FlattenSeq(tt)
  BY <1>5, Zenon DEF X!Joined
<1>7. \A k \in 1 .. Len(tt) : Runs(TokenFun, st[k - 1], tt[k], st[k])
  BY <1>4, <1>5 DEF Go, Reads
<1>8. tt \in Seq(Seq(Tokens))
  BY <1>1, <1>5
<1>9. Runs(TokenFun, st[0], X!FlattenSeq(tt), st[Len(tt)])
  BY <1>7, <1>8, RunsFlat
<1>10. X!FlattenSeq(tt) \in Seq(Tokens)
  BY <1>8, FlatType
<1> QED BY <1>2, <1>5, <1>6, <1>9, <1>10 DEF Go, Reads

\* Parts of one kind that are joined by commas.
LEMMA GoListed ==
  ASSUME NEW parts \in Seq(Seq(Tokens)), NEW sep, NEW a, NEW b, NEW c, Go(b, sep, c),
         \A k \in 1 .. Len(parts) : Go(a, parts[k], b) /\ Go(c, parts[k], b)
  PROVE  Go(a, X!Joined(parts, sep), IF Len(parts) = 0 THEN a ELSE b)
<1>1. PICK L \in Nat : L = Len(parts)
  OBVIOUS
<1> DEFINE st == [k \in 0 .. L |-> IF k = 0 THEN a ELSE b]
<1>2. st[0] = a /\ st[L] = IF L = 0 THEN a ELSE b
  OBVIOUS
<1>3. \A k \in 1 .. L : st[k] = b /\ (k # 1 => st[k - 1] = b)
  OBVIOUS
<1>4. \A k \in 1 .. L : k = 1 => st[k - 1] = a
  BY <1>2
<1> HIDE DEF st
<1>5. /\ \A k \in 1 .. Len(parts) : k = 1 => Go(st[k - 1], parts[k], st[k])
      /\ \A k \in 1 .. Len(parts) : k # 1 => \E x : Go(st[k - 1], sep, x) /\ Go(x, parts[k], st[k])
  BY <1>1, <1>3, <1>4
<1>6. Go(st[0], X!Joined(parts, sep), st[Len(parts)])
  BY <1>5, GoJoined
<1> QED BY <1>1, <1>2, <1>6

-----------------------------------------------------------------------------
\* Values, wherever they are, and the members of objects.
Values == {q \in Seq(Tokens) : \A O \in Opened, w \in {"value", "value or end"} : Go(From(O, w), q, From(O, After(O)))}
Pairs == {q \in Seq(Tokens) : \A O \in Opened, w \in {"key", "key or end"} :
                                Go(From(Append(O, "{"), w), q, From(Append(O, "{"), "next"))}

\* The values of an array are read, however many there are, and so is the bracket behind them.
LEMMA ItemsGo ==
  ASSUME NEW parts \in Seq(Values), NEW O \in Opened
  PROVE  \E d : /\ Go(From(Append(O, "["), "value or end"), X!Joined(parts, <<",">>), d)
                /\ Go(d, <<"]">>, From(O, After(O)))
<1>1. parts \in Seq(Seq(Tokens)) /\ Len(parts) \in Nat /\ \A k \in 1 .. Len(parts) : parts[k] \in Values
  <2>1. PICK S : S = Seq(Tokens) /\ Values \subseteq S
    BY DEF Values
  <2>2. parts \in Seq(S)
    BY <2>1
  <2> QED BY <2>1, <2>2
<1>2. PICK P : P = Append(O, "[") /\ P \in Opened /\ After(P) = "next"
  BY BracketIs
<1>3. PICK a, b, c : a = From(P, "value or end") /\ b = From(P, "next") /\ c = From(P, "value")
  OBVIOUS
<1>4. \A k \in 1 .. Len(parts) : Go(a, parts[k], b) /\ Go(c, parts[k], b)
  BY <1>1, <1>2, <1>3 DEF Values
<1>5. Go(b, <<",">>, c)
  BY <1>2, <1>3, GoOn
<1>6. PICK d : d = (IF Len(parts) = 0 THEN a ELSE b) /\ Go(a, X!Joined(parts, <<",">>), d)
  BY <1>1, <1>4, <1>5, GoListed
<1>7. \A x \in {"value or end", "next"} : Go(From(P, x), <<"]">>, From(O, After(O)))
  BY <1>2, GoOn
<1>8. Go(d, <<"]">>, From(O, After(O)))
  BY <1>3, <1>6, <1>7
<1> QED BY <1>2, <1>3, <1>6, <1>8

\* An array of values is a value.
LEMMA ArrayIs ==
  ASSUME NEW parts \in Seq(Values)
  PROVE  <<"[">> \o X!Joined(parts, <<",">>) \o <<"]">> \in Values
<1>1. ASSUME NEW O \in Opened, NEW w \in {"value", "value or end"}
      PROVE  Go(From(O, w), <<"[">> \o X!Joined(parts, <<",">>) \o <<"]">>, From(O, After(O)))
  <2>1. PICK a, d : /\ a = From(Append(O, "["), "value or end") /\ Go(a, X!Joined(parts, <<",">>), d)
                    /\ Go(d, <<"]">>, From(O, After(O)))
    BY ItemsGo
  <2>2. Go(From(O, w), <<"[">>, a)
    BY <2>1, GoIs
  <2>3. Go(From(O, w), <<"[">> \o X!Joined(parts, <<",">>), d)
    BY <2>1, <2>2, GoJoin
  <2> QED BY <2>1, <2>3, GoJoin
<1>2. <<"[">> \o X!Joined(parts, <<",">>) \o <<"]">> \in Seq(Tokens)
  <2>1. <<>> \in Opened
    BY DEF Opened
  <2> QED BY <1>1, <2>1 DEF Go
<1> QED BY <1>1, <1>2 DEF Values

\* A key with a value is a member.
LEMMA PairIs ==
  ASSUME NEW v \in Values
  PROVE  X!Member(v) \in Pairs
<1>1. ASSUME NEW O \in Opened, NEW w \in {"key", "key or end"}
      PROVE  Go(From(Append(O, "{"), w), X!Member(v), From(Append(O, "{"), "next"))
  <2>1. PICK P : P = Append(O, "{") /\ P \in Opened /\ After(P) = "next"
    BY BracketIs
  <2>2. Go(From(P, w), <<"string">>, From(P, "colon")) /\ Go(From(P, "colon"), <<":">>, From(P, "value"))
    BY <2>1, GoIs
  <2>3. Go(From(P, "value"), v, From(P, "next"))
    BY <2>1 DEF Values
  <2>4. Go(From(P, w), <<"string">> \o <<":">>, From(P, "value"))
    BY <2>2, GoJoin
  <2>5. Go(From(P, w), <<"string">> \o <<":">> \o v, From(P, "next"))
    BY <2>3, <2>4, GoJoin
  <2> QED BY <2>1, <2>5 DEF X!Member, X!Str
<1>2. X!Member(v) \in Seq(Tokens)
  <2>1. <<>> \in Opened
    BY DEF Opened
  <2> QED BY <1>1, <2>1 DEF Go
<1> QED BY <1>1, <1>2 DEF Pairs

\* An object of members is a value.
LEMMA BracesIs ==
  ASSUME NEW parts \in Seq(Pairs)
  PROVE  <<"{">> \o X!Joined(parts, <<",">>) \o <<"}">> \in Values
<1>1. parts \in Seq(Seq(Tokens)) /\ Len(parts) \in Nat /\ \A k \in 1 .. Len(parts) : parts[k] \in Pairs
  <2>1. PICK S : S = Seq(Tokens) /\ Pairs \subseteq S
    BY DEF Pairs
  <2>2. parts \in Seq(S)
    BY <2>1
  <2> QED BY <2>1, <2>2
<1>2. ASSUME NEW O \in Opened, NEW w \in {"value", "value or end"}
      PROVE  Go(From(O, w), <<"{">> \o X!Joined(parts, <<",">>) \o <<"}">>, From(O, After(O)))
  <2>1. PICK P : P = Append(O, "{") /\ P \in Opened
    BY BracketIs
  <2>2. PICK a, b, c : a = From(P, "key or end") /\ b = From(P, "next") /\ c = From(P, "key")
    OBVIOUS
  <2>3. \A k \in 1 .. Len(parts) : Go(a, parts[k], b) /\ Go(c, parts[k], b)
    BY <1>1, <2>1, <2>2 DEF Pairs
  <2>4. Go(b, <<",">>, c)
    BY <2>1, <2>2, GoOn
  <2>5. PICK d : d = (IF Len(parts) = 0 THEN a ELSE b) /\ Go(a, X!Joined(parts, <<",">>), d)
    BY <1>1, <2>3, <2>4, GoListed
  <2>6. Go(d, <<"}">>, From(O, After(O)))
    <3>1. \A x \in {"key or end", "next"} : Go(From(P, x), <<"}">>, From(O, After(O)))
      BY <2>1, GoOn
    <3> QED BY <2>2, <2>5, <3>1
  <2>7. Go(From(O, w), <<"{">>, a)
    BY <2>1, <2>2, GoIs
  <2>8. Go(From(O, w), <<"{">> \o X!Joined(parts, <<",">>), d)
    BY <2>5, <2>7, GoJoin
  <2> QED BY <2>6, <2>8, GoJoin
<1>3. <<"{">> \o X!Joined(parts, <<",">>) \o <<"}">> \in Seq(Tokens)
  <2>1. <<>> \in Opened
    BY DEF Opened
  <2> QED BY <1>2, <2>1 DEF Go
<1> QED BY <1>2, <1>3 DEF Values

\* A value by itself is JSON.
LEMMA JsonIs == ASSUME NEW q \in Values PROVE X!IsJson(q)
<1>1. <<>> \in Opened /\ After(<<>>) = "end"
  BY DEF Opened, After
<1>2. Go(From(<<>>, "value"), q, From(<<>>, "end"))
  BY <1>1 DEF Values
<1>3. From(<<>>, "end").want = "end"
  BY FromIs
<1> QED BY <1>2, <1>3, IsJsonIs DEF Go

\* The values that replies are made of: scalars, lists, objects.
LEMMA ScalarIs == X!Str \in Values /\ X!Figure \in Values /\ X!Null \in Values /\ <<"true">> \in Values
<1>1. ASSUME NEW t \in {"string", "number", "null", "true"} PROVE <<t>> \in Values
  <2>1. \A O \in Opened, w \in {"value", "value or end"} : Go(From(O, w), <<t>>, From(O, After(O)))
    BY GoIs
  <2>2. <<t>> \in Seq(Tokens)
    <3>1. <<>> \in Opened
      BY DEF Opened
    <3> QED BY <2>1, <3>1 DEF Go
  <2> QED BY <2>1, <2>2 DEF Values
<1> QED BY <1>1 DEF X!Str, X!Figure, X!Null

\* The same part, so many times.
LEMMA ManyAre ==
  ASSUME NEW V, NEW n \in Nat, NEW v \in V
  PROVE  [k \in 1 .. n |-> v] \in Seq(V)
OBVIOUS

LEMMA ListIs ==
  ASSUME NEW parts \in Seq(Values)
  PROVE  <<"[">> \o X!Listed(parts) \o <<"]">> \in Values
BY ArrayIs, Zenon DEF X!Listed

LEMMA ViewsAre == ASSUME NEW n \in Nat PROVE X!Views(n) \in Values
<1>1. [k \in 1 .. n |-> X!Str] \in Seq(Values)
  BY ScalarIs, ManyAre
<1>2. <<"[">> \o X!Listed([k \in 1 .. n |-> X!Str]) \o <<"]">> \in Values
  BY <1>1, ListIs
<1> QED BY <1>2, Zenon DEF X!Views

LEMMA PropertiesAre ==
  ASSUME NEW n \in Nat
  PROVE  <<"{">> \o X!Listed([k \in 1 .. n |-> X!Member(X!Str)]) \o <<"}">> \in Values
<1>1. X!Member(X!Str) \in Pairs
  BY ScalarIs, PairIs
<1>2. [k \in 1 .. n |-> X!Member(X!Str)] \in Seq(Pairs)
  BY <1>1, ManyAre
<1> QED BY <1>2, BracesIs, Zenon DEF X!Listed

LEMMA ObjectIs ==
  ASSUME NEW vs \in Seq(Values)
  PROVE  X!Object(vs) \in Values
<1>1. PICK m : m = [n \in DOMAIN vs |-> X!Member(vs[n])]
  OBVIOUS
<1>2. m \in Seq(Pairs)
  <2>1. PICK N \in Nat : DOMAIN vs = 1 .. N /\ \A n \in 1 .. N : vs[n] \in Values
    OBVIOUS
  <2>2. \A n \in 1 .. N : X!Member(vs[n]) \in Pairs
    BY <2>1, PairIs
  <2>3. m = [n \in 1 .. N |-> m[n]] /\ \A n \in 1 .. N : m[n] \in Pairs
    BY <1>1, <2>1, <2>2
  <2>4. [n \in 1 .. N |-> m[n]] \in Seq(Pairs)
    BY <2>3
  <2> QED BY <2>3, <2>4
<1>3. <<"{">> \o X!Joined(m, <<",">>) \o <<"}">> \in Values
  BY <1>2, BracesIs
<1> QED BY <1>1, <1>3, Zenon DEF X!Object

\* Sequences of values.
LEMMA FewAre ==
  ASSUME NEW V, NEW a \in V, NEW b \in V, NEW c \in V
  PROVE  <<a>> \in Seq(V) /\ <<a, b>> \in Seq(V) /\ <<a, b, c>> \in Seq(V)
OBVIOUS

\* Sequences written out.
LEMMA SevenAre ==
  ASSUME NEW V, NEW a \in V, NEW b \in V, NEW c \in V, NEW d \in V, NEW e \in V, NEW f \in V, NEW g \in V
  PROVE  <<a, b, c, d, e, f, g>> \in Seq(V)
OBVIOUS

LEMMA TwelveAre ==
  ASSUME NEW V, NEW a \in V, NEW b \in V, NEW c \in V, NEW d \in V, NEW e \in V, NEW f \in V,
         NEW g \in V, NEW h \in V, NEW i \in V, NEW j \in V, NEW k \in V, NEW l \in V
  PROVE  <<a, b, c, d, e, f, g, h, i, j, k, l>> \in Seq(V)
OBVIOUS

\* The objects of the replies.
LEMMA TaskReads ==
  ASSUME NEW tags \in Nat, NEW depends \in Nat, NEW props \in Nat, NEW spec \in BOOLEAN
  PROVE  X!JsonTask(tags, depends, props, spec) \in Values
<1>1. PICK V : V = Values
  OBVIOUS
<1>2. PICK s, n, t, d, p, x, y :
           /\ s = X!Str /\ n = X!Figure /\ t = X!Views(tags) /\ d = X!Views(depends)
           /\ p = <<"{">> \o X!Listed([k \in 1 .. props |-> X!Member(X!Str)]) \o <<"}">>
           /\ x = (IF spec THEN X!Str ELSE X!Null) /\ y = (IF spec THEN X!Null ELSE X!Str)
  OBVIOUS
<1>3. s \in V /\ n \in V /\ t \in V /\ d \in V /\ p \in V
  BY <1>1, <1>2, ScalarIs, ViewsAre, PropertiesAre
<1>4. x \in V /\ y \in V
  BY <1>1, <1>2, ScalarIs
<1>5. <<s, s, s, s, s, n, t, x, d, y, p, s>> \in Seq(V)
  BY <1>3, <1>4, TwelveAre
<1>6. X!Object(<<s, s, s, s, s, n, t, x, d, y, p, s>>) \in Values
  BY <1>1, <1>5, ObjectIs
<1> QED BY <1>2, <1>6, Zenon DEF X!JsonTask

\* The data of ls, new, set, find and check.
LEMMA RepliesOf ==
  ASSUME NEW task \in Values, NEW tasks \in Seq(Values)
  PROVE  /\ X!Told \in Values /\ X!JsonOne(task) \in Values /\ X!JsonTasks(tasks) \in Values
         /\ X!JsonCheck(tasks) \in Values
<1>1. PICK V : V = Values
  OBVIOUS
<1>2. PICK s, t, l : s = X!Str /\ t = <<"true">> /\ l = <<"[">> \o X!Listed(tasks) \o <<"]">>
  OBVIOUS
<1>3. s \in V /\ t \in V /\ l \in V /\ task \in V
  BY <1>1, <1>2, ScalarIs, ListIs
<1>4. <<s, s, t>> \in Seq(V) /\ <<task>> \in Seq(V) /\ <<l>> \in Seq(V) /\ <<s, s, l>> \in Seq(V)
  BY <1>3, FewAre
<1>5. X!Object(<<s, s, t>>) \in Values /\ X!Object(<<task>>) \in Values /\ X!Object(<<l>>) \in Values
      /\ X!Object(<<s, s, l>>) \in Values
  BY <1>1, <1>4, ObjectIs
<1> QED BY <1>2, <1>5, Zenon DEF X!Told, X!JsonOne, X!JsonTasks, X!JsonCheck

\* Two and three tokens.
LEMMA GoFew ==
  ASSUME NEW r, NEW a, NEW s, NEW b, NEW t, Go(r, <<a>>, s), Go(s, <<b>>, t)
  PROVE  Go(r, <<a, b>>, t) /\ \A c, u : Go(t, <<c>>, u) => Go(r, <<a, b, c>>, u)
<1>1. Go(r, <<a, b>>, t)
  BY GoJoin, PutTogether
<1>2. ASSUME NEW c, NEW u, Go(t, <<c>>, u) PROVE Go(r, <<a, b, c>>, u)
  <2>1. Go(r, <<a, b>> \o <<c>>, u)
    BY <1>1, <1>2, GoJoin
  <2>2. <<a, b>> \o <<c>> = <<a, b, c>>
    BY PutTogether, Zenon
  <2> QED BY <2>1, <2>2
<1> QED BY <1>1, <1>2

\* Why a task is blocked.
LEMMA ReasonsAre ==
  ASSUME NEW parts \in Seq(Values)
  PROVE  <<"{">> \o X!Member(X!Str) \o <<",">> \o X!Member(X!Str) \o <<",">> \o X!Str \o <<":", "[">>
           \o X!Listed(parts) \o <<"]", "}">> \in Values
<1>1. ASSUME NEW O \in Opened, NEW w \in {"value", "value or end"}
      PROVE  Go(From(O, w), <<"{">> \o X!Member(X!Str) \o <<",">> \o X!Member(X!Str) \o <<",">> \o X!Str \o <<":", "[">>
                              \o X!Listed(parts) \o <<"]", "}">>, From(O, After(O)))
  <2>1. PICK P : P = Append(O, "{") /\ P \in Opened /\ After(P) = "next"
    BY BracketIs
  <2>2. PICK k, n, j, c, e, m, l : /\ k = From(P, "key or end") /\ n = From(P, "next") /\ j = From(P, "key")
                                   /\ c = From(P, "colon") /\ e = From(Append(P, "["), "value or end")
                                   /\ m = X!Member(X!Str) /\ l = X!Listed(parts)
    OBVIOUS
  <2>3. Go(k, m, n) /\ Go(j, m, n)
    <3>1. m \in Pairs
      BY <2>2, ScalarIs, PairIs
    <3> QED BY <2>1, <2>2, <3>1 DEF Pairs
  <2>4. Go(From(O, w), <<"{">>, k)
    BY <2>1, <2>2, GoIs
  <2>5. Go(n, <<",">>, j)
    BY <2>1, <2>2, GoOn
  <2>6. Go(j, X!Str, c)
    BY <2>1, <2>2, GoIs DEF X!Str
  <2>7. Go(c, <<":", "[">>, e)
    <3>1. Go(c, <<":">>, From(P, "value")) /\ Go(From(P, "value"), <<"[">>, e)
      BY <2>1, <2>2, GoIs
    <3> QED BY <3>1, GoFew
  <2>8. PICK d : Go(e, l, d) /\ Go(d, <<"]">>, n)
    BY <2>1, <2>2, ItemsGo, Zenon DEF X!Listed
  <2>9. Go(d, <<"]", "}">>, From(O, After(O)))
    <3>1. \A x \in {"key or end", "next"} : Go(From(P, x), <<"}">>, From(O, After(O)))
      BY <2>1, GoOn
    <3>2. Go(n, <<"}">>, From(O, After(O)))
      BY <2>2, <3>1
    <3> QED BY <2>8, <3>2, GoFew
  <2>10. Go(From(O, w), <<"{">> \o m, n)
    BY <2>3, <2>4, GoJoin
  <2>11. Go(From(O, w), <<"{">> \o m \o <<",">>, j)
    BY <2>5, <2>10, GoJoin
  <2>12. Go(From(O, w), <<"{">> \o m \o <<",">> \o m, n)
    BY <2>3, <2>11, GoJoin
  <2>13. Go(From(O, w), <<"{">> \o m \o <<",">> \o m \o <<",">>, j)
    BY <2>5, <2>12, GoJoin
  <2>14. Go(From(O, w), <<"{">> \o m \o <<",">> \o m \o <<",">> \o X!Str, c)
    BY <2>6, <2>13, GoJoin
  <2>15. Go(From(O, w), <<"{">> \o m \o <<",">> \o m \o <<",">> \o X!Str \o <<":", "[">>, e)
    BY <2>7, <2>14, GoJoin
  <2>16. Go(From(O, w), <<"{">> \o m \o <<",">> \o m \o <<",">> \o X!Str \o <<":", "[">> \o l, d)
    BY <2>8, <2>15, GoJoin
  <2>17. Go(From(O, w), <<"{">> \o m \o <<",">> \o m \o <<",">> \o X!Str \o <<":", "[">> \o l \o <<"]", "}">>, From(O, After(O)))
    BY <2>9, <2>16, GoJoin
  <2> QED BY <2>2, <2>17, Zenon
<1>2. <<"{">> \o X!Member(X!Str) \o <<",">> \o X!Member(X!Str) \o <<",">> \o X!Str \o <<":", "[">>
        \o X!Listed(parts) \o <<"]", "}">> \in Seq(Tokens)
  <2>1. <<>> \in Opened
    BY DEF Opened
  <2> QED BY <1>1, <2>1 DEF Go
<1> QED BY <1>1, <1>2 DEF Values

\* The data of ready.
LEMMA ReadyReads ==
  ASSUME NEW told \in Values, NEW tasks \in Seq(Values), NEW reasons \in Seq(Nat), NEW unresolved \in Nat
  PROVE  X!JsonReady(tasks, told, reasons, unresolved) \in Values
<1>1. PICK V : V = Values
  OBVIOUS
<1> DEFINE Because(k) == <<"{">> \o X!Member(X!Str) \o <<",">> \o X!Member(X!Str) \o <<",">> \o X!Str \o <<":", "[">>
                        \o X!Listed([n \in 1 .. reasons[k] |-> told]) \o <<"]", "}">>
<1>2. PICK N \in Nat : N = Len(reasons) /\ DOMAIN reasons = 1 .. N /\ \A k \in 1 .. N : reasons[k] \in Nat
  OBVIOUS
<1>3. ASSUME NEW k \in 1 .. N PROVE Because(k) \in V
  <2>1. PICK p : p = [n \in 1 .. reasons[k] |-> told]
    OBVIOUS
  <2>2. reasons[k] \in Nat
    BY <1>2
  <2>3. p \in Seq(Values)
    BY <2>1, <2>2, ManyAre
  <2> QED BY <1>1, <2>1, <2>3, ReasonsAre
<1> HIDE DEF Because
<1>4. PICK q : q = [k \in DOMAIN reasons |-> Because(k)] /\ q \in Seq(V)
  <2>1. [k \in 1 .. N |-> Because(k)] \in Seq(V)
    BY <1>2, <1>3
  <2> QED BY <1>2, <2>1
<1>5. X!Blocked(told, reasons) = X!Listed(q)
  BY <1>4, Zenon DEF X!Blocked, Because
<1>6. PICK s, l, b, u : /\ s = X!Str /\ l = <<"[">> \o X!Listed(tasks) \o <<"]">>
                        /\ b = <<"[">> \o X!Blocked(told, reasons) \o <<"]">>
                        /\ u = <<"[">> \o X!Listed([k \in 1 .. unresolved |-> X!Object(<<X!Str, X!Str>>)]) \o <<"]">>
  OBVIOUS
<1>7. s \in V /\ l \in V
  BY <1>1, <1>6, ScalarIs, ListIs
<1>8. b \in V
  BY <1>1, <1>4, <1>5, <1>6, ListIs
<1>9. u \in V
  <2>1. <<s, s>> \in Seq(V)
    BY <1>7, FewAre
  <2>2. X!Object(<<X!Str, X!Str>>) \in Values
    BY <1>1, <1>6, <2>1, ObjectIs
  <2>3. [k \in 1 .. unresolved |-> X!Object(<<X!Str, X!Str>>)] \in Seq(Values)
    BY <2>2, ManyAre
  <2> QED BY <1>1, <1>6, <2>3, ListIs
<1>10. <<s, s, l, s, l, b, u>> \in Seq(V)
  BY <1>7, <1>8, <1>9, SevenAre
<1>11. X!Object(<<s, s, l, s, l, b, u>>) \in Values
  BY <1>1, <1>10, ObjectIs
<1> QED BY <1>6, <1>11, Zenon DEF X!JsonReady

\* The envelope has five members.
LEMMA FiveAre ==
  ASSUME NEW V, NEW a \in V, NEW b \in V, NEW c \in V, NEW d \in V, NEW e \in V
  PROVE  /\ <<a, b, c, d, e>> \in Seq(V) /\ Len(<<a, b, c, d, e>>) = 5
         /\ <<a, b, c, d, e>>[1] = a /\ <<a, b, c, d, e>>[2] = b /\ <<a, b, c, d, e>>[3] = c
         /\ <<a, b, c, d, e>>[4] = d /\ <<a, b, c, d, e>>[5] = e
OBVIOUS

\* Nothing, and a member behind another.
LEMMA GoNone == ASSUME NEW r PROVE Go(r, <<>>, r)
<1>1. \A B : <<>> \in Seq(B)
  OBVIOUS
<1> QED BY <1>1, RunsNone DEF Go, Reads

\* A further member of an open object.
LEMMA GoMember ==
  ASSUME NEW O \in Opened, NEW v \in Values
  PROVE  Go(From(Append(O, "{"), "next"), <<",">> \o X!Member(v), From(Append(O, "{"), "next"))
<1>1. PICK P : P = Append(O, "{")
  OBVIOUS
<1>2. Go(From(P, "next"), <<",">>, From(P, "key"))
  BY <1>1, GoOn
<1>3. X!Member(v) \in Pairs
  BY PairIs
<1>4. Go(From(P, "key"), X!Member(v), From(P, "next"))
  BY <1>1, <1>3 DEF Pairs
<1> QED BY <1>1, <1>2, <1>4, GoJoin

\* What opens a reply, and what closes it.
Braced == <<"{">>
\* The outermost object of a reply.
LEMMA TopIs == <<>> \in Opened /\ Append(<<>>, "{") = Braced /\ Braced \in Opened /\ After(<<>>) = "end" /\ After(Braced) = "next"
<1>1. <<>> \in Opened
  BY DEF Opened
<1>2. \A x : Append(<<>>, x) = <<x>>
  OBVIOUS
<1>3. Append(<<>>, "{") = Braced
  BY <1>2 DEF Braced
<1>4. After(<<>>) = "end"
  BY DEF After
<1> QED BY <1>1, <1>3, <1>4, BracketIs

\* The envelope opens it, and the end closes it.
LEMMA EnvelopeGo == Go(From(<<>>, "value"), X!Envelope, From(Braced, "value"))
<1>1. PICK S : S = Seq(Tokens)
  OBVIOUS
<1>2. PICK a, b, d, e : /\ a = X!Member(X!Figure) /\ b = X!Member(X!Str)
                        /\ d = X!Member(<<"true">>) /\ e = X!Str \o <<":">>
  OBVIOUS
<1>3. PICK k, n, j, v : k = From(Braced, "key or end") /\ n = From(Braced, "next") /\ j = From(Braced, "key") /\ v = From(Braced, "value")
  OBVIOUS
<1>4. a \in Pairs /\ b \in Pairs /\ d \in Pairs
  BY <1>2, ScalarIs, PairIs
<1>5. Go(k, a, n) /\ Go(j, b, n) /\ Go(j, d, n)
  <2>1. \A q \in Pairs : Go(From(Append(<<>>, "{"), "key or end"), q, From(Append(<<>>, "{"), "next"))
                         /\ Go(From(Append(<<>>, "{"), "key"), q, From(Append(<<>>, "{"), "next"))
    BY TopIs DEF Pairs
  <2>2. \A q \in Pairs : Go(k, q, n) /\ Go(j, q, n)
    BY <1>3, <2>1, TopIs
  <2> QED BY <1>4, <2>2
<1>6. Go(j, e, v)
  <2>1. Go(j, X!Str, From(Braced, "colon")) /\ Go(From(Braced, "colon"), <<":">>, v)
    BY <1>3, TopIs, GoIs DEF X!Str
  <2> QED BY <1>2, <2>1, GoJoin
<1>7. Go(n, <<",">>, j)
  BY <1>3, TopIs, GoOn
<1>8. a \in S /\ b \in S /\ d \in S /\ e \in S
  BY <1>1, <1>5, <1>6 DEF Go
<1>9. PICK parts : /\ parts = <<a, b, b, d, e>> /\ parts \in Seq(S) /\ Len(parts) = 5
                   /\ parts[1] = a /\ parts[2] = b /\ parts[3] = b /\ parts[4] = d /\ parts[5] = e
  <2>1. PICK q : q = <<a, b, b, d, e>>
    OBVIOUS
  <2>2. q \in Seq(S) /\ Len(q) = 5 /\ q[1] = a /\ q[2] = b /\ q[3] = b /\ q[4] = d /\ q[5] = e
    BY <1>8, <2>1, FiveAre
  <2> QED BY <2>1, <2>2
<1> DEFINE st == [i \in 0 .. 5 |-> IF i = 0 THEN k ELSE IF i = 5 THEN v ELSE n]
<1>10. st[0] = k /\ st[1] = n /\ st[2] = n /\ st[3] = n /\ st[4] = n /\ st[5] = v
  OBVIOUS
<1>11. \A i \in 1 .. 5 : i = 1 \/ i = 2 \/ i = 3 \/ i = 4 \/ i = 5
  OBVIOUS
<1>12. 1 - 1 = 0 /\ 2 - 1 = 1 /\ 3 - 1 = 2 /\ 4 - 1 = 3 /\ 5 - 1 = 4
  OBVIOUS
<1> HIDE DEF st
<1>13. \A i \in 1 .. Len(parts) : i = 1 => Go(st[i - 1], parts[i], st[i])
  <2>1. Go(st[1 - 1], parts[1], st[1])
    BY <1>5, <1>9, <1>10, <1>12
  <2> QED BY <2>1
<1>14. \A i \in 1 .. Len(parts) : i # 1 => Go(st[i - 1], <<",">>, j) /\ Go(j, parts[i], st[i])
  <2>1. Go(st[2 - 1], <<",">>, j) /\ Go(j, parts[2], st[2])
    BY <1>5, <1>7, <1>9, <1>10, <1>12
  <2>2. Go(st[3 - 1], <<",">>, j) /\ Go(j, parts[3], st[3])
    BY <1>5, <1>7, <1>9, <1>10, <1>12
  <2>3. Go(st[4 - 1], <<",">>, j) /\ Go(j, parts[4], st[4])
    BY <1>5, <1>7, <1>9, <1>10, <1>12
  <2>4. Go(st[5 - 1], <<",">>, j) /\ Go(j, parts[5], st[5])
    BY <1>6, <1>7, <1>9, <1>10, <1>12
  <2> QED BY <1>9, <1>11, <2>1, <2>2, <2>3, <2>4
<1>15. Go(st[0], X!Joined(parts, <<",">>), st[Len(parts)])
  <2>1. parts \in Seq(Seq(Tokens))
    BY <1>1, <1>9
  <2>2. PICK sep : sep = <<",">>
    OBVIOUS
  <2>3. \A i \in 1 .. Len(parts) : i # 1 => \E c : Go(st[i - 1], sep, c) /\ Go(c, parts[i], st[i])
    BY <1>14, <2>2
  <2>4. PICK ft : ft = st
    OBVIOUS
  <2> QED BY <1>13, <2>1, <2>2, <2>3, <2>4, GoJoined
<1>16. Go(From(<<>>, "value"), <<"{">>, k)
  BY <1>3, TopIs, GoIs
<1>17. Go(From(<<>>, "value"), <<"{">> \o X!Joined(parts, <<",">>), v)
  BY <1>9, <1>10, <1>15, <1>16, GoJoin
<1> QED BY <1>2, <1>3, <1>9, <1>17, Zenon DEF X!Envelope

LEMMA FinishGo == Go(From(Braced, "next"), X!Finish, From(<<>>, "end"))
<1>1. <<"[", "]">> \in Values
  <2>1. ASSUME NEW O \in Opened, NEW w \in {"value", "value or end"}
        PROVE  Go(From(O, w), <<"[", "]">>, From(O, After(O)))
    <3>1. PICK d : d = From(Append(O, "["), "value or end") /\ Go(From(O, w), <<"[">>, d)
      BY GoIs
    <3>2. Go(d, <<"]">>, From(O, After(O)))
      BY <3>1, GoOn
    <3> QED BY <3>1, <3>2, GoFew
  <2>2. <<"[", "]">> \in Seq(Tokens)
    BY <2>1, TopIs DEF Go
  <2> QED BY <2>1, <2>2 DEF Values
<1>2. Go(From(Braced, "next"), <<",">> \o X!Member(<<"[", "]">>), From(Braced, "next"))
  BY <1>1, TopIs, GoMember
<1>3. Go(From(Braced, "next"), <<"}">>, From(<<>>, "end"))
  <2>1. \A w \in {"key or end", "next"} : Go(From(Append(<<>>, "{"), w), <<"}">>, From(<<>>, After(<<>>)))
    BY TopIs, GoOn
  <2> QED BY <2>1, TopIs
<1> QED BY <1>2, <1>3, GoJoin DEF X!Finish

\* A reply with any data is JSON.
LEMMA ReplyReads ==
  ASSUME NEW data \in Values
  PROVE  X!IsJson(X!Reply(data))
<1>1. Go(From(Braced, "value"), data, From(Braced, "next"))
  BY TopIs DEF Values
<1>2. Go(From(<<>>, "value"), X!Envelope \o data, From(Braced, "next"))
  BY <1>1, EnvelopeGo, GoJoin
<1>3. Go(From(<<>>, "value"), X!Envelope \o data \o X!Finish, From(<<>>, "end"))
  BY <1>2, FinishGo, GoJoin
<1>4. From(<<>>, "end").want = "end"
  BY FromIs
<1> QED BY <1>3, <1>4, IsJsonIs, Zenon DEF Go, X!Reply

\* A reply that reports an error is JSON, whatever there is to report.
LEMMA ErrorReads ==
  ASSUME NEW id \in BOOLEAN, NEW cycles \in Nat, NEW state \in BOOLEAN
  PROVE  X!IsJson(X!JsonError(id, cycles, state))
<1>1. PICK R : R = Append(Braced, "[") /\ R \in Opened
  BY TopIs, BracketIs
<1>2. PICK T : T = Append(R, "{") /\ T \in Opened
  BY <1>1, BracketIs
<1>3. PICK s, v, n, j, c, a, k, m, z :
           /\ s = From(<<>>, "value") /\ v = From(Braced, "value") /\ n = From(Braced, "next") /\ j = From(Braced, "key")
           /\ c = From(Braced, "colon") /\ a = From(T, "key or end") /\ k = From(T, "next") /\ m = X!Member(X!Str)
           /\ z = From(<<>>, "end")
  OBVIOUS
<1>4. Go(s, X!Envelope, v) /\ Go(v, X!Null, n) /\ Go(n, <<",">>, j) /\ Go(j, X!Str, c)
  <2>1. Go(v, X!Null, n)
    BY <1>3, TopIs, ScalarIs DEF Values
  <2>2. Go(n, <<",">>, j)
    BY <1>3, TopIs, GoOn
  <2>3. Go(j, X!Str, c)
    BY <1>3, TopIs, GoIs DEF X!Str
  <2> QED BY <1>3, <2>1, <2>2, <2>3, EnvelopeGo
<1>5. Go(c, <<":", "[", "{">>, a)
  <2>1. Go(c, <<":">>, v) /\ Go(v, <<"[">>, From(R, "value or end")) /\ Go(From(R, "value or end"), <<"{">>, a)
    BY <1>1, <1>2, <1>3, TopIs, GoIs
  <2> QED BY <2>1, GoFew
<1>6. Go(a, m, k) /\ Go(k, <<",">>, From(T, "key")) /\ Go(From(T, "key"), m, k)
  <2>1. m \in Pairs
    BY <1>3, ScalarIs, PairIs
  <2>2. Go(a, m, k) /\ Go(From(T, "key"), m, k)
    BY <1>1, <1>2, <1>3, <2>1 DEF Pairs
  <2> QED BY <1>1, <1>2, <1>3, <2>2, GoOn
<1>7. PICK x, y, w : /\ x = (IF id THEN <<",">> \o X!Member(X!Str) ELSE <<>>)
                     /\ y = (IF cycles > 0 THEN <<",">> \o X!Member(X!Views(cycles)) ELSE <<>>)
                     /\ w = (IF state THEN <<",">> \o X!Member(X!Str) ELSE <<>>)
  OBVIOUS
<1>8. Go(k, x, k) /\ Go(k, y, k) /\ Go(k, w, k)
  <2>1. Go(k, <<",">> \o X!Member(X!Str), k) /\ Go(k, <<",">> \o X!Member(X!Views(cycles)), k)
    BY <1>1, <1>2, <1>3, ScalarIs, ViewsAre, GoMember
  <2>2. Go(k, <<>>, k)
    BY GoNone
  <2> QED BY <1>7, <2>1, <2>2
<1>9. Go(k, <<"}", "]", "}">>, z)
  <2>1. Go(k, <<"}">>, From(R, "next"))
    <3>1. \A u \in {"key or end", "next"} : Go(From(Append(R, "{"), u), <<"}">>, From(R, After(R)))
      BY <1>1, GoOn
    <3>2. After(R) = "next"
      BY <1>1, TopIs, BracketIs
    <3> QED BY <1>2, <1>3, <3>1, <3>2
  <2>2. Go(From(R, "next"), <<"]">>, n)
    <3>1. \A u \in {"value or end", "next"} : Go(From(Append(Braced, "["), u), <<"]">>, From(Braced, After(Braced)))
      BY TopIs, GoOn
    <3> QED BY <1>1, <1>3, <3>1, TopIs
  <2>3. Go(n, <<"}">>, z)
    <3>1. \A u \in {"key or end", "next"} : Go(From(Append(<<>>, "{"), u), <<"}">>, From(<<>>, After(<<>>)))
      BY TopIs, GoOn
    <3> QED BY <1>3, <3>1, TopIs
  <2> QED BY <2>1, <2>2, <2>3, GoFew
<1>10. PICK e : e = X!Envelope \o X!Null \o <<",">> \o X!Str \o <<":", "[", "{">> \o m /\ Go(s, e, k)
  <2>1. Go(s, X!Envelope \o X!Null, n)
    BY <1>4, GoJoin
  <2>2. Go(s, X!Envelope \o X!Null \o <<",">>, j)
    BY <1>4, <2>1, GoJoin
  <2>3. Go(s, X!Envelope \o X!Null \o <<",">> \o X!Str, c)
    BY <1>4, <2>2, GoJoin
  <2>4. Go(s, X!Envelope \o X!Null \o <<",">> \o X!Str \o <<":", "[", "{">>, a)
    BY <1>5, <2>3, GoJoin
  <2> QED BY <1>6, <2>4, GoJoin
<1>11. Go(s, e \o <<",">> \o m, k)
  <2>1. Go(s, e \o <<",">>, From(T, "key"))
    BY <1>6, <1>10, GoJoin
  <2> QED BY <1>6, <2>1, GoJoin
<1>12. Go(s, e \o <<",">> \o m \o x \o y, k)
  <2>1. Go(s, e \o <<",">> \o m \o x, k)
    BY <1>8, <1>11, GoJoin
  <2> QED BY <1>8, <2>1, GoJoin
<1>13. Go(s, e \o <<",">> \o m \o x \o y \o w \o <<"}", "]", "}">>, z)
  <2>1. Go(s, e \o <<",">> \o m \o x \o y \o w, k)
    BY <1>8, <1>12, GoJoin
  <2> QED BY <1>9, <2>1, GoJoin
<1>14. X!JsonError(id, cycles, state) = e \o <<",">> \o m \o x \o y \o w \o <<"}", "]", "}">>
  BY <1>3, <1>7, <1>10, Zenon DEF X!JsonError
<1>15. z.want = "end"
  BY <1>3, FromIs
<1> QED BY <1>3, <1>13, <1>14, <1>15, IsJsonIs DEF Go

\* The numbers of elements of Formats are those of the library.
LEMMA SameCount == \A S : X!Cardinality(S) = Cardinality(S)
BY Zenon DEF X!Cardinality, Cardinality

\* Every reply is JSON, whatever its lists hold.
LEMMA RepliesDo ==
  ASSUME text \in Seq(Alphabet["reply"]), {"tag", "depends", "property", "spec"} \subseteq Alphabet["reply"]
  PROVE  X!RepliesRead
<1> DEFINE A == Alphabet["reply"]
           many == [x \in A |-> X!Cardinality({n \in DOMAIN text : text[n] = x})]
           tasks == [k \in 1 .. many["tag"] |-> X!Str]
           task == X!JsonTask(many["tag"], many["depends"], many["property"], many["spec"] > 0)
<1>1. \A x \in A : many[x] \in Nat
  <2>1. IsFiniteSet(DOMAIN text)
    BY FS_Interval
  <2>2. ASSUME NEW x \in A PROVE X!Cardinality({n \in DOMAIN text : text[n] = x}) \in Nat
    <3>1. IsFiniteSet({n \in DOMAIN text : text[n] = x})
      BY <2>1, FS_Subset
    <3> QED BY <3>1, FS_CardinalityType, SameCount
  <2> QED BY <2>2
<1>2. PICK t, d, p, s : /\ t = many["tag"] /\ d = many["depends"] /\ p = many["property"] /\ s = many["spec"]
                        /\ t \in Nat /\ d \in Nat /\ p \in Nat /\ s \in Nat
  BY <1>1
<1> HIDE DEF many
<1>3. PICK ts : ts = tasks /\ ts \in Seq(Values)
  BY <1>2, ScalarIs, ManyAre
<1>4. X!IsJson(X!Reply(X!Str))
  BY ScalarIs, ReplyReads
<1>5. X!IsJson(task)
  <2>1. (s > 0) \in BOOLEAN
    OBVIOUS
  <2>2. X!JsonTask(t, d, p, s > 0) \in Values
    BY <1>2, <2>1, TaskReads
  <2> QED BY <1>2, <2>2, JsonIs
<1>6. X!IsJson(X!Told) /\ X!IsJson(X!JsonOne(X!Str)) /\ X!IsJson(X!JsonTasks(ts)) /\ X!IsJson(X!JsonCheck(ts))
  BY <1>3, ScalarIs, RepliesOf, JsonIs
<1>7. X!IsJson(X!JsonError(s > 0, d, p > 0))
  <2>1. (s > 0) \in BOOLEAN /\ (p > 0) \in BOOLEAN
    OBVIOUS
  <2> QED BY <1>2, <2>1, ErrorReads
<1>8. X!IsJson(X!JsonReady(ts, X!Str, [k \in 1 .. s |-> k], d))
  <2>1. [k \in 1 .. s |-> k] \in Seq(Nat)
    BY <1>2
  <2>2. X!JsonReady(ts, X!Str, [k \in 1 .. s |-> k], d) \in Values
    BY <1>2, <1>3, <2>1, ScalarIs, ReadyReads
  <2> QED BY <2>2, JsonIs
<1>9. X!IsJson(X!JsonTasks(tasks)) /\ X!IsJson(X!JsonCheck(tasks))
  BY <1>3, <1>6
<1>10. X!IsJson(X!JsonError(many["spec"] > 0, many["depends"], many["property"] > 0))
  BY <1>2, <1>7
<1>11. X!IsJson(X!JsonReady(tasks, X!Str, [k \in 1 .. many["spec"] |-> k], many["depends"]))
  <2> HIDE DEF tasks
  <2> QED BY <1>2, <1>3, <1>8
<1> QED BY <1>4, <1>5, <1>6, <1>9, <1>10, <1>11, Zenon DEF X!RepliesRead, many

-----------------------------------------------------------------------------
(* Lists: texts that are split and put together again.                       *)

\* A sequence that is not empty has a last element.
LEMMA LastIs ==
  ASSUME NEW W, NEW p \in Seq(W), p # <<>>
  PROVE  /\ X!Front(p) \in Seq(W) /\ X!Last(p) \in W /\ p = Append(X!Front(p), X!Last(p))
         /\ Len(X!Front(p)) = Len(p) - 1
<1>1. PICK n \in Nat : n = Len(p) /\ n > 0
  OBVIOUS
<1>2. PICK f : f = SubSeq(p, 1, n - 1)
  OBVIOUS
<1>3. f \in Seq(W) /\ Len(f) = n - 1 /\ \A k \in 1 .. n - 1 : f[k] = p[k]
  BY <1>1, <1>2
<1>4. p[n] \in W
  BY <1>1
<1>5. Append(f, p[n]) = p
  <2>1. PICK q : q = Append(f, p[n])
    OBVIOUS
  <2>2. q \in Seq(W) /\ Len(q) = n /\ \A k \in 1 .. n : q[k] = p[k]
    BY <1>1, <1>3, <1>4, <2>1
  <2> QED BY <1>1, <2>1, <2>2
<1> QED BY <1>1, <1>2, <1>3, <1>4, <1>5 DEF X!Front, X!Last

\* A sequence with one more element.
LEMMA MoreIs ==
  ASSUME NEW W, NEW p \in Seq(W), NEW u \in W
  PROVE  /\ Append(p, u) \in Seq(W) /\ Append(p, u) # <<>> /\ Len(Append(p, u)) = Len(p) + 1
         /\ X!Front(Append(p, u)) = p /\ X!Last(Append(p, u)) = u
         /\ Append(p, u)[Len(p) + 1] = u /\ \A k \in 1 .. Len(p) : Append(p, u)[k] = p[k]
BY OpenIs

\* One character of a text that is split.
SplitOne(p, c, C) == IF c \in C THEN Append(p, <<>>) ELSE [p EXCEPT ![Len(p)] = Append(@, c)]
Parts(A) == Seq(Seq(A)) \ {<<>>}
SplitFun(A, C) == [z \in Parts(A) \X A |-> SplitOne(z[1], z[2], C)]

SplitOnce(p, u, c, C) ==
  SplitOne(Append(p, u), c, C) = IF c \in C THEN Append(Append(p, u), <<>>) ELSE Append(p, Append(u, c))

\* Splitting, one character at a time.
LEMMA SplitOneIs ==
  ASSUME NEW A, NEW W, W = Seq(A), NEW C, NEW p \in Seq(W), NEW u \in W, NEW c \in A
  PROVE  SplitOnce(p, u, c, C)
<1>1. W = Seq(A)
  OBVIOUS
<1>2. PICK v : v = Append(u, c) /\ v \in W
  <2>1. Append(u, c) \in Seq(A)
    BY MoreIs
  <2> QED BY <1>1, <2>1
<1>3. PICK q : q = Append(p, u)
  OBVIOUS
<1>4. /\ q \in Seq(W) /\ Len(q) = Len(p) + 1 /\ q[Len(p) + 1] = u /\ \A k \in 1 .. Len(p) : q[k] = p[k]
      /\ p \in Seq(W) /\ Len(p) \in Nat
  BY <1>1, <1>3, MoreIs
<1>5. PICK r : r = Append(p, v)
  OBVIOUS
<1>6. r \in Seq(W) /\ Len(r) = Len(p) + 1 /\ r[Len(p) + 1] = v /\ \A k \in 1 .. Len(p) : r[k] = p[k]
  BY <1>2, <1>4, <1>5, MoreIs
<1>7. [q EXCEPT ![Len(q)] = v] = r
  <2>1. PICK s : s = [q EXCEPT ![Len(q)] = v]
    OBVIOUS
  <2>2. s \in Seq(W) /\ Len(s) = Len(p) + 1
    BY <1>2, <1>4, <2>1
  <2>3. \A k \in 1 .. Len(p) + 1 : s[k] = r[k]
    <3>1. \A k \in 1 .. Len(p) + 1 : k \in DOMAIN q /\ (k = Len(q) \/ k \in 1 .. Len(p))
      BY <1>4
    <3>2. \A k \in DOMAIN q : s[k] = IF k = Len(q) THEN v ELSE q[k]
      BY <2>1
    <3>3. s[Len(p) + 1] = v
      BY <1>4, <3>1, <3>2
    <3>4. \A k \in 1 .. Len(p) : k # Len(q) /\ k \in 1 .. Len(p) + 1
      BY <1>4
    <3>5. \A k \in 1 .. Len(p) : s[k] = r[k]
      BY <1>4, <1>6, <3>1, <3>2, <3>4
    <3> QED BY <1>4, <1>6, <3>1, <3>3, <3>5
  <2> QED BY <1>6, <2>1, <2>2, <2>3, SameSeq
<1>8. c \notin C => SplitOne(q, c, C) = [q EXCEPT ![Len(q)] = Append(q[Len(q)], c)]
  BY DEF SplitOne
<1>9. q[Len(q)] = u
  BY <1>4
<1>10. c \in C => SplitOne(q, c, C) = Append(q, <<>>)
  BY DEF SplitOne
<1>11. SplitOne(q, c, C) = IF c \in C THEN Append(q, <<>>) ELSE r
  BY <1>2, <1>7, <1>8, <1>9, <1>10, Zenon
<1> QED BY <1>2, <1>3, <1>5, <1>11, Zenon DEF SplitOnce

LEMMA SplitType ==
  ASSUME NEW A, NEW p \in Parts(A), NEW c \in A, NEW C
  PROVE  SplitOne(p, c, C) \in Parts(A)
<1>1. PICK W : W = Seq(A)
  OBVIOUS
<1>2. p \in Seq(W) /\ p # <<>>
  BY <1>1 DEF Parts
<1>3. PICK f, u : f \in Seq(W) /\ u \in W /\ p = Append(f, u)
  BY <1>2, LastIs
<1>4. Append(u, c) \in W /\ <<>> \in W
  BY <1>1, <1>3
<1>5. Append(Append(f, u), <<>>) \in Seq(W) \ {<<>>} /\ Append(f, Append(u, c)) \in Seq(W) \ {<<>>}
  <2>1. Append(f, u) \in Seq(W)
    BY <1>3, MoreIs
  <2> QED BY <1>3, <1>4, <2>1, MoreIs
<1>6. SplitOne(p, c, C) \in {Append(Append(f, u), <<>>), Append(f, Append(u, c))}
  <2>1. SplitOnce(f, u, c, C)
    BY <1>1, <1>3, SplitOneIs
  <2> QED BY <1>3, <2>1, Zenon DEF SplitOnce
<1> QED BY <1>1, <1>5, <1>6 DEF Parts

LEMMA SplitFunIs ==
  ASSUME NEW A, NEW C
  PROVE  /\ SplitFun(A, C) \in [Parts(A) \X A -> Parts(A)]
         /\ \A p \in Parts(A), c \in A : SplitFun(A, C)[<<p, c>>] = SplitOne(p, c, C)
<1>1. \A p \in Parts(A), c \in A : SplitFun(A, C)[<<p, c>>] = SplitOne(p, c, C)
  BY DEF SplitFun
<1>2. \A z \in Parts(A) \X A : SplitOne(z[1], z[2], C) \in Parts(A)
  BY SplitType
<1> QED BY <1>1, <1>2 DEF SplitFun

\* A function that splits is there, whose last value is the parts.
LEMMA SplitRuns ==
  ASSUME NEW A, NEW q \in Seq(A), NEW C
  PROVE  Runs(SplitFun(A, C), <<<<>>>>, q, X!Split(q, C))
<1> DEFINE B == Parts(A) op == SplitFun(A, C) b == <<<<>>>>
<1>1. \A x \in B, c \in A : op[<<x, c>>] = SplitOne(x, c, C) /\ op[<<x, c>>] \in B
  BY SplitType, SplitFunIs
<1>2. op \in [B \X A -> B]
  BY SplitFunIs
<1>3. Len(q) \in Nat /\ DOMAIN q = 1 .. Len(q) /\ \A i \in 1 .. Len(q) : q[i] \in A
  OBVIOUS
<1>4. b \in B
  <2>1. PICK W : W = Seq(A) /\ <<>> \in W
    <3>1. <<>> \in Seq(A)
      OBVIOUS
    <3> QED BY <3>1
  <2>2. \A x \in W : <<x>> \in Seq(W) /\ <<x>> # <<>>
    <3>1. ASSUME NEW x \in W PROVE <<x>> \in Seq(W) /\ <<x>> # <<>>
      <4>1. <<x>> \in Seq(W) /\ Len(<<x>>) = 1
        BY FewAre
      <4> QED BY <4>1
    <3> QED BY <3>1
  <2> QED BY <2>1, <2>2 DEF Parts
<1> HIDE DEF op, B
<1> DEFINE Is(f) == f = [z \in SUBSET DOMAIN q |->
                           IF z = {} THEN b ELSE LET x == X!Max(z) IN SplitOne(f[z \ {x}], q[x], C)]
<1>5. \E f : Is(f) /\ X!Split(q, C) = f[DOMAIN q]
  <2>1. PICK g \in [SUBSET (1 .. Len(q)) -> B] : Folds(g, op, b, q, Len(q))
    BY <1>2, <1>3, <1>4, FoldsExist
  <2>2. \A z \in SUBSET (1 .. Len(q)) : z # {} => X!Max(z) \in 1 .. Len(q) /\ z \ {X!Max(z)} \in SUBSET (1 .. Len(q))
    BY <1>3, GreatestIs
  <2>3. ASSUME NEW z \in SUBSET (1 .. Len(q)), z # {}
        PROVE  op[<<g[z \ {X!Max(z)}], q[X!Max(z)]>>] = SplitOne(g[z \ {X!Max(z)}], q[X!Max(z)], C)
    BY <2>3, <1>1, <1>3, <2>2
  <2>4. g = [z \in SUBSET (1 .. Len(q)) |-> IF z = {} THEN b ELSE op[<<g[z \ {X!Max(z)}], q[X!Max(z)]>>]]
    BY <2>1 DEF Folds
  <2>5. g = [z \in SUBSET (1 .. Len(q)) |-> IF z = {} THEN b ELSE SplitOne(g[z \ {X!Max(z)}], q[X!Max(z)], C)]
    BY <2>3, <2>4, Zenon
  <2>6. Is(g)
    BY <2>5, <1>3, Zenon
  <2> QED BY <2>6, Zenon DEF X!Split, X!FoldLeft, X!MapThenFoldSet, SplitOne
<1>6. PICK f : Is(f) /\ X!Split(q, C) = f[DOMAIN q]
  BY <1>5, Zenon
<1>7. \A z \in SUBSET (1 .. Len(q)) : f[z] = IF z = {} THEN b ELSE SplitOne(f[z \ {X!Max(z)}], q[X!Max(z)], C)
  BY <1>3, <1>6, Zenon
<1> HIDE DEF b
<1>8. Unfolds(f, op, b, q, B)
  <2>1. ASSUME NEW z \in SUBSET (1 .. Len(q)), z # {}, f[z \ {X!Max(z)}] \in B
        PROVE  f[z] = op[<<f[z \ {X!Max(z)}], q[X!Max(z)]>>]
    BY <1>1, <1>3, <1>7, <2>1, GreatestIs
  <2> QED BY <1>7, <2>1, Zenon DEF Unfolds
<1>9. Chained(f, op, b, q, B)
  BY <1>2, <1>3, <1>4, <1>8, FoldsChain
<1>10. PICK h \in [0 .. Len(q) -> B] :
           /\ h[0] = b /\ h[Len(q)] = f[1 .. Len(q)]
           /\ \A k \in 1 .. Len(q) : h[k] = op[<<h[k - 1], q[k]>>]
  BY <1>9 DEF Chained
<1>11. h[Len(q)] = X!Split(q, C)
  BY <1>3, <1>6, <1>10
<1> QED BY <1>10, <1>11, Zenon DEF Runs, b, op

\* What is put together, by one part more.
LEMMA FlattenMore ==
  ASSUME NEW A, NEW ss \in Seq(Seq(A)), NEW x \in Seq(A)
  PROVE  X!FlattenSeq(Append(ss, x)) = X!FlattenSeq(ss) \o x
<1>1. PICK W : W = Seq(A)
  OBVIOUS
<1>2. PICK t, L : t = Append(ss, x) /\ L = Len(ss)
  OBVIOUS
<1>3. /\ t \in Seq(W) /\ Len(t) = L + 1 /\ L \in Nat /\ t[L + 1] = x /\ \A k \in 1 .. L : t[k] = ss[k]
      /\ ss \in Seq(W)
  BY <1>1, <1>2, MoreIs
<1>4. PICK f \in [0 .. Len(t) -> Seq(A)] : Flat(t, f) /\ f[Len(t)] = X!FlattenSeq(t)
  BY <1>1, <1>3, FlatIs
<1>5. PICK g \in [0 .. Len(ss) -> Seq(A)] : Flat(ss, g) /\ g[Len(ss)] = X!FlattenSeq(ss)
  BY FlatIs
<1>6. f[0] = <<>> /\ \A k \in 1 .. L + 1 : f[k] = f[k - 1] \o t[k]
  BY <1>3, <1>4 DEF Flat
<1>7. g[0] = <<>> /\ \A k \in 1 .. L : g[k] = g[k - 1] \o ss[k]
  BY <1>2, <1>5 DEF Flat
<1> DEFINE Same == {k \in 0 .. L : f[k] = g[k]}
<1>8. 0 \in Same
  BY <1>3, <1>6, <1>7
<1>9. ASSUME NEW k \in 1 .. L, k - 1 \in Same PROVE k \in Same
  <2>1. f[k - 1] = g[k - 1] /\ k \in 0 .. L /\ k \in 1 .. L + 1
    BY <1>3, <1>9
  <2>2. f[k] = f[k - 1] \o t[k] /\ g[k] = g[k - 1] \o ss[k] /\ t[k] = ss[k]
    BY <1>3, <1>6, <1>7, <2>1
  <2> QED BY <2>1, <2>2
<1>10. \A k \in 0 .. L : k \in Same
  <2> HIDE DEF Same
  <2> QED BY <1>3, <1>8, <1>9, AlongChain
<1>11. f[L] = g[L] /\ L + 1 \in 1 .. L + 1 /\ (L + 1) - 1 = L
  <2>1. L \in 0 .. L /\ L + 1 \in 1 .. L + 1 /\ (L + 1) - 1 = L
    BY <1>3
  <2>2. L \in Same
    BY <2>1, <1>10
  <2> QED BY <2>1, <2>2
<1>12. f[L + 1] = f[L] \o t[L + 1]
  BY <1>6, <1>11
<1> QED BY <1>2, <1>3, <1>4, <1>5, <1>11, <1>12

\* Joining, one part at a time.
LEMMA FlattenNone == X!FlattenSeq(<<>>) = <<>>
<1>1. PICK A : A = {}
  OBVIOUS
<1>2. PICK e : e = <<>> /\ e \in Seq(Seq(A)) /\ Len(e) = 0
  <2>1. <<>> \in Seq(Seq(A)) /\ Len(<<>>) = 0
    OBVIOUS
  <2> QED BY <2>1
<1>3. PICK f \in [0 .. Len(e) -> Seq(A)] : Flat(e, f) /\ f[Len(e)] = X!FlattenSeq(e)
  BY <1>2, FlatIs
<1> QED BY <1>2, <1>3 DEF Flat

LEMMA JoinedMore ==
  ASSUME NEW A, NEW sep \in Seq(A), NEW p \in Seq(Seq(A)), NEW u \in Seq(A)
  PROVE  X!Joined(Append(p, u), sep) = IF p = <<>> THEN u ELSE X!Joined(p, sep) \o (sep \o u)
<1>1. PICK W : W = Seq(A)
  OBVIOUS
<1>2. PICK q, L : q = Append(p, u) /\ L = Len(p)
  OBVIOUS
<1>3. /\ q \in Seq(W) /\ Len(q) = L + 1 /\ L \in Nat /\ q[L + 1] = u /\ \A k \in 1 .. L : q[k] = p[k]
      /\ p \in Seq(W) /\ DOMAIN q = 1 .. L + 1 /\ DOMAIN p = 1 .. L
  <2>1. q \in Seq(W) /\ Len(q) = L + 1 /\ q[L + 1] = u /\ (\A k \in 1 .. L : q[k] = p[k]) /\ p \in Seq(W)
    BY <1>1, <1>2, MoreIs
  <2>2. L \in Nat /\ DOMAIN p = 1 .. L
    BY <1>2
  <2> QED BY <2>1, <2>2
<1>4. PICK x : x = IF p = <<>> THEN u ELSE sep \o u
  OBVIOUS
<1>5. \A w \in W : sep \o w \in W
  BY <1>1, CatIs
<1>6. x \in W
  BY <1>1, <1>4, <1>5
<1>7. PICK s : s = [n \in DOMAIN p |-> IF n = 1 THEN p[n] ELSE sep \o p[n]]
  OBVIOUS
<1>8. PICK t : t = [n \in DOMAIN q |-> IF n = 1 THEN q[n] ELSE sep \o q[n]]
  OBVIOUS
<1>9. s \in Seq(W) /\ Len(s) = L /\ \A k \in 1 .. L : s[k] = IF k = 1 THEN p[k] ELSE sep \o p[k]
  <2>1. \A k \in 1 .. L : p[k] \in W
    BY <1>3
  <2>2. \A k \in 1 .. L : s[k] = (IF k = 1 THEN p[k] ELSE sep \o p[k]) /\ s[k] \in W
    BY <1>3, <1>5, <1>7, <2>1
  <2>3. s = [n \in 1 .. L |-> s[n]]
    BY <1>3, <1>7
  <2>4. [n \in 1 .. L |-> s[n]] \in Seq(W) /\ Len([n \in 1 .. L |-> s[n]]) = L
    BY <1>3, <2>2
  <2> QED BY <2>2, <2>3, <2>4
<1>10. t \in Seq(W) /\ Len(t) = L + 1 /\ \A k \in 1 .. L + 1 : t[k] = IF k = 1 THEN q[k] ELSE sep \o q[k]
  <2>1. \A k \in 1 .. L + 1 : q[k] \in W
    BY <1>3
  <2>2. \A k \in 1 .. L + 1 : t[k] = (IF k = 1 THEN q[k] ELSE sep \o q[k]) /\ t[k] \in W
    BY <1>3, <1>5, <1>8, <2>1
  <2>3. t = [n \in 1 .. L + 1 |-> t[n]]
    BY <1>3, <1>8
  <2>4. PICK M \in Nat : M = L + 1
    BY <1>3
  <2>5. \A n \in 1 .. M : t[n] \in W
    BY <2>2, <2>4
  <2>6. [n \in 1 .. M |-> t[n]] \in Seq(W) /\ Len([n \in 1 .. M |-> t[n]]) = M
    BY <2>5
  <2> QED BY <2>2, <2>3, <2>4, <2>6
<1>11. t = Append(s, x)
  <2>1. PICK r : r = Append(s, x)
    OBVIOUS
  <2>2. r \in Seq(W) /\ Len(r) = L + 1 /\ r[L + 1] = x /\ \A k \in 1 .. L : r[k] = s[k]
    BY <1>6, <1>9, <2>1, MoreIs
  <2>3. p = <<>> <=> L = 0
    BY <1>2
  <2>4. t[L + 1] = x
    <3>1. L + 1 \in 1 .. L + 1 /\ (L + 1 = 1 <=> L = 0)
      BY <1>3
    <3> QED BY <1>3, <1>4, <1>10, <2>3, <3>1
  <2>5. \A k \in 1 .. L : t[k] = s[k] /\ k \in 1 .. L + 1
    <3>1. \A k \in 1 .. L : k \in 1 .. L + 1
      BY <1>3
    <3>2. \A k \in 1 .. L : t[k] = IF k = 1 THEN p[k] ELSE sep \o p[k]
      BY <1>3, <1>10, <3>1
    <3> QED BY <1>9, <3>1, <3>2
  <2>6. \A k \in 1 .. L + 1 : k = L + 1 \/ k \in 1 .. L
    BY <1>3
  <2>7. \A k \in 1 .. Len(t) : t[k] = r[k]
    BY <1>10, <2>2, <2>4, <2>5, <2>6
  <2> QED BY <1>10, <2>1, <2>2, <2>7, SameSeq
<1>12. X!FlattenSeq(t) = X!FlattenSeq(s) \o x
  <2>1. s \in Seq(Seq(A)) /\ x \in Seq(A)
    BY <1>1, <1>6, <1>9
  <2> QED BY <1>11, <2>1, FlattenMore
<1>13. X!Joined(q, sep) = X!FlattenSeq(t) /\ X!Joined(p, sep) = X!FlattenSeq(s)
  BY <1>7, <1>8, Zenon DEF X!Joined
<1>14. p = <<>> => X!FlattenSeq(s) = <<>>
  <2>1. p = <<>> => s = <<>>
    BY <1>2, <1>9
  <2> QED BY <2>1, FlattenNone
<1>15. <<>> \o u = u
  OBVIOUS
<1> QED BY <1>2, <1>4, <1>12, <1>13, <1>14, <1>15

LEMMA JoinedType ==
  ASSUME NEW A, NEW sep \in Seq(A), NEW p \in Seq(Seq(A))
  PROVE  X!Joined(p, sep) \in Seq(A)
<1>1. PICK W : W = Seq(A)
  OBVIOUS
<1>2. PICK L \in Nat : L = Len(p) /\ DOMAIN p = 1 .. L /\ \A k \in 1 .. L : p[k] \in W
  BY <1>1
<1>3. PICK s : s = [n \in DOMAIN p |-> IF n = 1 THEN p[n] ELSE sep \o p[n]]
  OBVIOUS
<1>4. s \in Seq(W)
  <2>1. \A k \in 1 .. L : sep \o p[k] \in W
    BY <1>1, <1>2, CatIs
  <2>2. s = [n \in 1 .. L |-> s[n]] /\ \A n \in 1 .. L : s[n] \in W
    BY <1>2, <1>3, <2>1
  <2>3. \A n \in 1 .. L : s[n] \in W
    BY <2>2
  <2>4. [n \in 1 .. L |-> s[n]] \in Seq(W)
    BY <2>3
  <2> QED BY <2>2, <2>4
<1>5. X!FlattenSeq(s) \in Seq(A)
  BY <1>1, <1>4, FlatType
<1> QED BY <1>3, <1>5, Zenon DEF X!Joined

\* Induction over a sequence that grows at its end.
LEMMA SeqGrows ==
  ASSUME NEW A, NEW S, <<>> \in S, \A q \in Seq(A), c \in A : q \in S => Append(q, c) \in S, NEW s \in Seq(A)
  PROVE  s \in S
<1>1. PICK n \in Nat : n = Len(s)
  OBVIOUS
<1> DEFINE Reached == {k \in 0 .. n : SubSeq(s, 1, k) \in S}
<1>2. 0 \in Reached
  <2>1. SubSeq(s, 1, 0) = <<>>
    OBVIOUS
  <2>2. 0 \in 0 .. n
    BY <1>1
  <2> QED BY <2>1, <2>2
<1>3. ASSUME NEW k \in 1 .. n, k - 1 \in Reached PROVE k \in Reached
  <2>1. SubSeq(s, 1, k - 1) \in S /\ k \in 0 .. n
    BY <1>1, <1>3
  <2>2. SubSeq(s, 1, k - 1) \in Seq(A) /\ SubSeq(s, 1, k) = Append(SubSeq(s, 1, k - 1), s[k])
    BY <1>1, OneMore
  <2>3. s[k] \in A
    BY <1>1
  <2>4. PICK q \in Seq(A) : q = SubSeq(s, 1, k - 1)
    BY <2>2
  <2>5. Append(q, s[k]) \in S
    BY <2>1, <2>3, <2>4
  <2> QED BY <2>1, <2>2, <2>4, <2>5
<1>4. \A k \in 0 .. n : k \in Reached
  <2> HIDE DEF Reached
  <2> QED BY <1>1, <1>2, <1>3, AlongChain
<1>5. n \in Reached
  BY <1>1, <1>4
<1>6. SubSeq(s, 1, n) = s
  BY <1>1
<1> QED BY <1>5, <1>6

\* A text that is split, by one character more.
LEMMA SplitNone == ASSUME NEW C PROVE X!Split(<<>>, C) = <<<<>>>>
<1>1. PICK A : A = {}
  OBVIOUS
<1>2. PICK e : e = <<>> /\ e \in Seq(A) /\ Len(e) \in Nat
  <2>1. <<>> \in Seq(A)
    OBVIOUS
  <2>2. Len(<<>>) \in Nat
    OBVIOUS
  <2> QED BY <2>1, <2>2, Zenon
<1>3. PICK b : b = <<<<>>>>
  OBVIOUS
<1>4. PICK t : t = X!Split(e, C)
  OBVIOUS
<1>5. PICK op : op = SplitFun(A, C)
  OBVIOUS
<1>6. Runs(op, b, e, t)
  BY <1>2, <1>3, <1>4, <1>5, SplitRuns
<1>7. Runs(op, b, e, b)
  BY <1>2, RunsNone
<1>8. t = b
  BY <1>2, <1>6, <1>7, RunsAlone
<1> QED BY <1>2, <1>3, <1>4, <1>8

\* How one more character changes what a text is split into.
LEMMA SplitMoreOf ==
  ASSUME NEW A, NEW C, NEW q \in Seq(A), NEW c \in A, X!Split(q, C) \in Parts(A)
  PROVE  X!Split(Append(q, c), C) = SplitOne(X!Split(q, C), c, C)
<1>1. PICK op : op = SplitFun(A, C)
  OBVIOUS
<1>2. PICK b : b = <<<<>>>>
  OBVIOUS
<1>3. PICK s : s = X!Split(q, C)
  OBVIOUS
<1>4. PICK w : w = Append(q, c)
  OBVIOUS
<1>5. w \in Seq(A) /\ Len(w) \in Nat /\ <<c>> \in Seq(A) /\ w = q \o <<c>>
  BY <1>4
<1>6. PICK t : t = X!Split(w, C)
  OBVIOUS
<1>7. PICK v : v = SplitOne(s, c, C)
  OBVIOUS
<1>8. Runs(op, b, q, s)
  BY <1>1, <1>2, <1>3, SplitRuns
<1>9. Runs(op, b, w, t)
  BY <1>1, <1>2, <1>5, <1>6, SplitRuns
<1>10. v = op[<<s, c>>]
  BY <1>1, <1>3, <1>7, SplitFunIs
<1>11. Runs(op, s, <<c>>, v)
  BY <1>10, RunsOne
<1>12. Runs(op, b, w, v)
  BY <1>5, <1>8, <1>11, RunsJoin
<1>13. t = v
  BY <1>5, <1>9, <1>12, RunsAlone
<1> QED BY <1>3, <1>4, <1>6, <1>7, <1>13

LEMMA SplitTyped ==
  ASSUME NEW A, NEW C, NEW q \in Seq(A)
  PROVE  X!Split(q, C) \in Parts(A)
<1> DEFINE S == {s \in Seq(A) : X!Split(s, C) \in Parts(A)}
<1>1. <<>> \in S
  <2>1. PICK W : W = Seq(A) /\ <<>> \in W
    <3>1. <<>> \in Seq(A)
      OBVIOUS
    <3> QED BY <3>1
  <2>2. PICK x : x = <<>> /\ x \in W
    BY <2>1
  <2>3. <<x>> \in Seq(W) /\ Len(<<x>>) = 1
    BY <2>2, FewAre
  <2>4. <<x>> # <<>>
    BY <2>3
  <2>5. X!Split(x, C) = <<x>>
    BY <2>2, SplitNone
  <2>6. X!Split(x, C) \in Parts(A)
    BY <2>1, <2>3, <2>4, <2>5 DEF Parts
  <2> QED BY <2>1, <2>2, <2>6
<1>2. ASSUME NEW s \in Seq(A), NEW c \in A, s \in S PROVE Append(s, c) \in S
  <2>1. X!Split(Append(s, c), C) = SplitOne(X!Split(s, C), c, C)
    BY <1>2, SplitMoreOf
  <2>2. PICK p \in Parts(A) : p = X!Split(s, C)
    BY <1>2
  <2>3. SplitOne(p, c, C) \in Parts(A)
    BY SplitType
  <2>4. Append(s, c) \in Seq(A)
    BY MoreIs
  <2> QED BY <2>1, <2>2, <2>3, <2>4
<1>3. q \in S
  <2> HIDE DEF S
  <2> QED BY <1>1, <1>2, SeqGrows
<1> QED BY <1>3

\* What it makes of the last part.
Splits(q, C, p, u) == X!Split(q, C) = Append(p, u)
LEMMA SplitMore ==
  ASSUME NEW A, NEW W, W = Seq(A), NEW e, e = <<>>, NEW C, NEW q \in Seq(A), NEW c \in A,
         NEW p \in Seq(W), NEW u \in W, Splits(q, C, p, u)
  PROVE  /\ c \in C => Splits(Append(q, c), C, Append(p, u), e)
         /\ c \notin C => Splits(Append(q, c), C, p, Append(u, c))
<1>1. X!Split(Append(q, c), C) = SplitOne(X!Split(q, C), c, C)
  BY SplitTyped, SplitMoreOf
<1>2. X!Split(Append(q, c), C) = SplitOne(Append(p, u), c, C)
  BY <1>1 DEF Splits
<1>3. SplitOne(Append(p, u), c, C) = IF c \in C THEN Append(Append(p, u), <<>>) ELSE Append(p, Append(u, c))
  <2>1. SplitOnce(p, u, c, C)
    BY SplitOneIs
  <2> QED BY <2>1, Zenon DEF SplitOnce
<1> QED BY <1>2, <1>3 DEF Splits

\* A character behind what is put together.
LEMMA CatAppend ==
  ASSUME NEW A, NEW p \in Seq(A), NEW q \in Seq(A), NEW c \in A
  PROVE  p \o Append(q, c) = Append(p \o q, c)
OBVIOUS

\* Sequences of one or no element put together with others.
LEMMA CatOne ==
  ASSUME NEW A, NEW p \in Seq(A), NEW c \in A
  PROVE  p \o (<<c>> \o <<>>) = Append(p, c) /\ p \o <<c>> = Append(p, c) /\ <<c>> \in Seq(A) /\ <<>> \in Seq(A)
OBVIOUS

LEMMA CatNone ==
  ASSUME NEW A, NEW p \in Seq(A)
  PROVE  <<>> \o p = p /\ p \o <<>> = p
OBVIOUS

LEMMA SeqSubset == ASSUME NEW A, NEW B, A \subseteq B PROVE Seq(A) \subseteq Seq(B)
OBVIOUS

\* A text is split to parts without separators,
LEMMA SplitFree ==
  ASSUME NEW A, NEW C, NEW q \in Seq(A)
  PROVE  \E p \in Seq(Seq(A \ C)), u \in Seq(A \ C) : X!Split(q, C) = Append(p, u)
<1>1. PICK F : F = A \ C
  OBVIOUS
<1>2. PICK W : W = Seq(F)
  OBVIOUS
<1>3. PICK V : V = Seq(A)
  OBVIOUS
<1>4. W \subseteq V
  BY <1>1, <1>2, <1>3, SeqSubset
<1>5. Seq(W) \subseteq Seq(V)
  BY <1>4, SeqSubset
<1>6. PICK e : e = <<>> /\ e \in W
  <2>1. <<>> \in W
    BY <1>2
  <2> QED BY <2>1
<1> DEFINE S == {s \in V : \E p \in Seq(W), u \in W : X!Split(s, C) = Append(p, u)}
<1>7. <<>> \in S
  <2>1. PICK p \in Seq(W) : p = <<>>
    <3>1. <<>> \in Seq(W)
      OBVIOUS
    <3> QED BY <3>1
  <2>2. Append(p, e) = <<e>>
    BY <2>1
  <2>3. X!Split(e, C) = Append(p, e)
    BY <2>2, <1>6, SplitNone
  <2> QED BY <2>1, <2>3, <1>4, <1>6
<1>8. ASSUME NEW s \in Seq(A), NEW c \in A, s \in S PROVE Append(s, c) \in S
  <2>1. PICK p \in Seq(W), u \in W : X!Split(s, C) = Append(p, u)
    BY <1>8
  <2>2. p \in Seq(Seq(A)) /\ u \in Seq(A)
    BY <1>3, <1>4, <1>5
  <2>3. X!Split(Append(s, c), C) = IF c \in C THEN Append(Append(p, u), e) ELSE Append(p, Append(u, c))
    <3> HIDE DEF S
    <3>1. p \in Seq(V) /\ u \in V
      BY <1>4, <1>5
    <3>2. Splits(s, C, p, u)
      BY <2>1 DEF Splits
    <3>3. /\ c \in C => Splits(Append(s, c), C, Append(p, u), e)
          /\ c \notin C => Splits(Append(s, c), C, p, Append(u, c))
      BY <1>3, <1>6, <3>1, <3>2, SplitMore
    <3> QED BY <3>3 DEF Splits
  <2>4. Append(s, c) \in V
    <3> HIDE DEF S
    <3> QED BY <1>3, MoreIs
  <2>5. Append(p, u) \in Seq(W)
    <3> HIDE DEF S
    <3> QED BY MoreIs
  <2>6. c \notin C => Append(u, c) \in W
    <3> HIDE DEF S
    <3>1. c \notin C => c \in F
      BY <1>1
    <3> QED BY <1>2, <3>1, MoreIs
  <2>7. \E x \in Seq(W), y \in W : X!Split(Append(s, c), C) = Append(x, y)
    <3> HIDE DEF S
    <3> QED BY <1>6, <2>3, <2>5, <2>6, Zenon
  <2> QED BY <2>4, <2>7
<1>9. q \in S
  <2> HIDE DEF S
  <2> QED BY <1>7, <1>8, SeqGrows
<1> QED BY <1>1, <1>2, <1>9

\* which are put together to it again.
LEMMA SplitKeeps ==
  ASSUME NEW A, NEW c \in A, NEW q \in Seq(A)
  PROVE  X!Joined(X!Split(q, {c}), <<c>>) = q
<1>1. PICK C : C = {c}
  OBVIOUS
<1>2. PICK W : W = Seq(A)
  OBVIOUS
<1>3. PICK sep : sep = <<c>>
  OBVIOUS
<1>4. sep \in Seq(A)
  BY <1>3, CatOne
<1> DEFINE S == {s \in Seq(A) : X!Joined(X!Split(s, C), sep) = s}
<1>5. <<>> \in S
  <2>1. PICK e : e = <<>> /\ e \in W
    <3>1. <<>> \in W
      BY <1>2
    <3> QED BY <3>1
  <2>2. PICK p \in Seq(W) : p = <<>>
    <3>1. <<>> \in Seq(W)
      OBVIOUS
    <3> QED BY <3>1
  <2>3. Append(p, e) = <<e>>
    BY <2>2
  <2>4. X!Split(e, C) = Append(p, e)
    BY <2>1, <2>3, SplitNone
  <2>5. X!Joined(Append(p, e), sep) = e
    BY <1>2, <1>4, <2>1, <2>2, JoinedMore
  <2> QED BY <1>2, <2>1, <2>4, <2>5
<1>6. ASSUME NEW s \in Seq(A), NEW d \in A, s \in S PROVE Append(s, d) \in S
  <2>1. PICK p \in Seq(W), u \in W : X!Split(s, C) = Append(p, u)
    <3>1. X!Split(s, C) \in Parts(A)
      BY SplitTyped
    <3>2. PICK x : x = X!Split(s, C)
      OBVIOUS
    <3>3. x \in Seq(W) /\ x # <<>>
      BY <1>2, <3>1, <3>2 DEF Parts
    <3>4. X!Front(x) \in Seq(W) /\ X!Last(x) \in W /\ x = Append(X!Front(x), X!Last(x))
      BY <3>3, LastIs
    <3> QED BY <3>2, <3>4
  <2>2. PICK t : t = Append(s, d)
    OBVIOUS
  <2>3. t \in Seq(A)
    BY <2>2, MoreIs
  <2>4. X!Joined(Append(p, u), sep) = s
    BY <1>6, <2>1
  <2> HIDE DEF S
  <2>5. CASE d = c
    <3>1. PICK x : x = Append(p, u)
      OBVIOUS
    <3>2. x \in Seq(W) /\ x # <<>>
      BY <3>1, MoreIs
    <3>3. PICK e : e = <<>> /\ e \in W
      <4>1. <<>> \in W
        BY <1>2
      <4> QED BY <4>1
    <3>4. X!Split(t, C) = Append(x, e)
      <4>1. Splits(s, C, p, u) /\ d \in C
        BY <1>1, <2>1, <2>5 DEF Splits
      <4>2. Splits(Append(s, d), C, Append(p, u), e)
        BY <1>2, <3>3, <4>1, SplitMore
      <4> QED BY <2>2, <3>1, <4>2 DEF Splits
    <3>5. X!Joined(Append(x, e), sep) = X!Joined(x, sep) \o (sep \o e)
      BY <1>2, <1>4, <3>2, <3>3, JoinedMore
    <3>6. s \o (sep \o e) = t
      BY <1>3, <2>2, <2>5, <3>3, CatOne
    <3>7. X!Joined(X!Split(t, C), sep) = t
      BY <2>4, <3>1, <3>4, <3>5, <3>6, Zenon
    <3> QED BY <2>2, <2>3, <3>7, Zenon DEF S
  <2>6. CASE d # c
    <3>1. PICK v : v = Append(u, d)
      OBVIOUS
    <3>2. v \in W
      BY <1>2, <3>1, MoreIs
    <3>3. X!Split(t, C) = Append(p, v)
      <4>1. PICK e : e = <<>>
        OBVIOUS
      <4>2. d \notin C
        BY <1>1, <2>6
      <4>3. Splits(s, C, p, u)
        BY <2>1 DEF Splits
      <4>4. Splits(Append(s, d), C, p, Append(u, d))
        BY <1>2, <4>1, <4>2, <4>3, SplitMore
      <4> QED BY <2>2, <3>1, <4>4 DEF Splits
    <3>4. X!Joined(Append(p, v), sep) = IF p = <<>> THEN v ELSE X!Joined(p, sep) \o (sep \o v)
      BY <1>2, <1>4, <3>2, JoinedMore
    <3>5. s = IF p = <<>> THEN u ELSE X!Joined(p, sep) \o (sep \o u)
      BY <1>2, <1>4, <2>4, JoinedMore
    <3>6. PICK j \in Seq(A) : j = X!Joined(p, sep)
      BY <1>2, <1>4, JoinedType
    <3>7. PICK y \in Seq(A) : y = sep \o u
      BY <1>2, <1>4, CatIs
    <3>8. sep \o v = Append(y, d)
      BY <1>2, <1>4, <3>1, <3>7, CatAppend
    <3>9. j \o Append(y, d) = Append(j \o y, d)
      BY CatAppend
    <3>10. X!Joined(Append(p, v), sep) = t
      BY <2>2, <3>1, <3>4, <3>5, <3>6, <3>7, <3>8, <3>9
    <3>11. X!Joined(X!Split(t, C), sep) = t
      BY <3>3, <3>10, Zenon
    <3> QED BY <2>2, <2>3, <3>11, Zenon DEF S
  <2> QED BY <2>2, <2>5, <2>6
<1>7. q \in S
  <2> HIDE DEF S
  <2> QED BY <1>5, <1>6, SeqGrows
<1> QED BY <1>1, <1>3, <1>7

\* A word behind a text becomes a part of its last part.
LEMMA SplitWord ==
  ASSUME NEW A, NEW W, W = Seq(A), NEW C, NEW F, F = A \ C, NEW q \in Seq(A),
         NEW p \in Seq(W), NEW u \in W, Splits(q, C, p, u), NEW w \in Seq(F)
  PROVE  Splits(q \o w, C, p, u \o w)
<1> DEFINE S == {x \in Seq(F) : Splits(q \o x, C, p, u \o x)}
<1>1. F \subseteq A /\ Seq(F) \subseteq Seq(A)
  <2>1. F \subseteq A
    OBVIOUS
  <2> QED BY <2>1, SeqSubset
<1>2. <<>> \in S
  <2>1. <<>> \in Seq(F)
    OBVIOUS
  <2>2. q \o <<>> = q /\ u \o <<>> = u
    BY CatNone
  <2> QED BY <2>1, <2>2
<1>3. ASSUME NEW x \in Seq(F), NEW c \in F, x \in S PROVE Append(x, c) \in S
  <2>1. Splits(q \o x, C, p, u \o x)
    BY <1>3
  <2> HIDE DEF S
  <2>2. x \in Seq(A) /\ c \in A /\ c \notin C
    BY <1>1
  <2>3. PICK y \in Seq(A) : y = q \o x
    BY <2>2, CatIs
  <2>4. PICK v \in W : v = u \o x
    BY <2>2, CatIs
  <2>5. PICK e : e = <<>>
    OBVIOUS
  <2>6. Splits(y, C, p, v)
    BY <2>1, <2>3, <2>4
  <2>7. Splits(Append(y, c), C, p, Append(v, c))
    BY <2>2, <2>5, <2>6, SplitMore
  <2>8. q \o Append(x, c) = Append(y, c) /\ u \o Append(x, c) = Append(v, c)
    BY <2>2, <2>3, <2>4, CatAppend
  <2>9. Append(x, c) \in Seq(F)
    BY MoreIs
  <2>10. Splits(q \o Append(x, c), C, p, u \o Append(x, c))
    BY <2>7, <2>8
  <2> QED BY <2>9, <2>10, Zenon DEF S
<1>4. w \in S
  <2> HIDE DEF S
  <2> QED BY <1>2, <1>3, SeqGrows
<1> QED BY <1>4

\* Words that are put together are found again.
LEMMA SplitJoined ==
  ASSUME NEW A, NEW C, NEW c \in A, c \in C, NEW F, F = A \ C, NEW V, V = Seq(F), NEW ws \in Seq(V), ws # <<>>
  PROVE  X!Split(X!Joined(ws, <<c>>), C) = ws
<1>1. PICK W : W = Seq(A)
  OBVIOUS
<1>2. V \subseteq W /\ Seq(V) \subseteq Seq(W)
  <2>1. F \subseteq A
    OBVIOUS
  <2>2. V \subseteq W
    BY <1>1, <2>1, SeqSubset
  <2> QED BY <2>2, SeqSubset
<1>3. PICK sep : sep = <<c>>
  OBVIOUS
<1>4. sep \in Seq(A)
  BY <1>3, CatOne
<1>5. PICK e : e = <<>>
  OBVIOUS
<1>6. e \in W
  <2>1. <<>> \in W
    BY <1>1
  <2> QED BY <1>5, <2>1
<1> DEFINE S == {x \in Seq(V) : x # e => X!Split(X!Joined(x, sep), C) = x}
<1>7. <<>> \in S
  <2>1. <<>> \in Seq(V)
    OBVIOUS
  <2> QED BY <1>5, <2>1
<1>8. ASSUME NEW x \in Seq(V), NEW u \in V, x \in S PROVE Append(x, u) \in S
  <2>1. x # e => X!Split(X!Joined(x, sep), C) = x
    BY <1>8
  <2> HIDE DEF S
  <2>2. x \in Seq(W) /\ u \in W
    BY <1>2
  <2>3. PICK t : t = Append(x, u)
    OBVIOUS
  <2>4. X!Joined(t, sep) = IF x = e THEN u ELSE X!Joined(x, sep) \o (sep \o u)
    <3>1. X!Joined(Append(x, u), sep) = IF x = <<>> THEN u ELSE X!Joined(x, sep) \o (sep \o u)
      BY <1>1, <1>4, <2>2, JoinedMore
    <3> QED BY <1>5, <2>3, <3>1, Zenon
  <2>5. ASSUME x = e PROVE X!Split(X!Joined(t, sep), C) = t
    <3>1. PICK b : b = <<e>>
      OBVIOUS
    <3>2. Append(x, e) = b
      BY <1>5, <2>5, <3>1
    <3>3. X!Split(e, C) = b
      BY <1>5, <3>1, SplitNone
    <3>4. Splits(e, C, x, e)
      BY <3>2, <3>3, Zenon DEF Splits
    <3>5. Splits(e \o u, C, x, e \o u)
      BY <1>1, <1>6, <2>2, <3>4, SplitWord
    <3>6. e \o u = u
      BY <1>1, <1>5, <2>2, CatNone
    <3>7. X!Split(u, C) = t
      BY <2>3, <3>5, <3>6, Zenon DEF Splits
    <3> QED BY <2>4, <2>5, <3>7, Zenon
  <2>6. ASSUME x # e PROVE X!Split(X!Joined(t, sep), C) = t
    <3>1. PICK j \in Seq(A) : j = X!Joined(x, sep)
      BY <1>1, <1>4, <2>2, JoinedType
    <3>2. PICK f \in Seq(W), l \in W : x = Append(f, l)
      BY <1>5, <2>2, <2>6, LastIs
    <3>3. Splits(j, C, f, l)
      BY <2>1, <2>6, <3>1, <3>2, Zenon DEF Splits
    <3>4. Splits(Append(j, c), C, Append(f, l), e)
      BY <1>1, <1>5, <3>3, SplitMore
    <3>5. PICK k \in Seq(A) : k = Append(j, c)
      BY MoreIs
    <3>6. Splits(k, C, x, e)
      BY <3>2, <3>4, <3>5
    <3>7. Splits(k \o u, C, x, e \o u)
      BY <1>1, <1>6, <2>2, <3>6, SplitWord
    <3>8. e \o u = u
      BY <1>1, <1>5, <2>2, CatNone
    <3>9. k = j \o sep
      BY <1>3, <3>5, CatOne
    <3>10. k \o u = j \o (sep \o u)
      <4>1. u \in Seq(A)
        BY <1>1, <2>2
      <4>2. (j \o sep) \o u = j \o (sep \o u)
        BY <1>4, <4>1
      <4> QED BY <3>9, <4>2
    <3>11. X!Split(k \o u, C) = t
      BY <2>3, <3>7, <3>8, Zenon DEF Splits
    <3> QED BY <2>4, <2>6, <3>1, <3>10, <3>11, Zenon
  <2>7. X!Split(X!Joined(t, sep), C) = t
    BY <2>5, <2>6
  <2>8. t \in Seq(V)
    BY <2>3, MoreIs
  <2> QED BY <2>3, <2>7, <2>8, Zenon DEF S
<1>9. ws \in S
  <2> HIDE DEF S
  <2> QED BY <1>7, <1>8, SeqGrows
<1> QED BY <1>3, <1>5, <1>9

\* The parts that are not empty.
Kept(parts) == X!FlattenSeq([n \in DOMAIN parts |-> IF parts[n] = <<>> THEN <<>> ELSE <<parts[n]>>])

KeptNext(p, u) == Kept(Append(p, u)) = IF u = <<>> THEN Kept(p) ELSE Append(Kept(p), u)

\* Which parts of a split text are tokens: those that are not empty.
LEMMA KeptMore ==
  ASSUME NEW V, NEW p \in Seq(V), NEW u \in V
  PROVE  KeptNext(p, u) /\ Kept(p) \in Seq(V)
<1>1. PICK W : W = Seq(V)
  OBVIOUS
<1>2. PICK q, L : q = Append(p, u) /\ L = Len(p)
  OBVIOUS
<1>3. /\ q \in Seq(V) /\ Len(q) = L + 1 /\ L \in Nat /\ q[L + 1] = u /\ \A k \in 1 .. L : q[k] = p[k]
      /\ p \in Seq(V) /\ DOMAIN q = 1 .. L + 1 /\ DOMAIN p = 1 .. L
  <2>1. q \in Seq(V) /\ Len(q) = L + 1 /\ q[L + 1] = u /\ (\A k \in 1 .. L : q[k] = p[k]) /\ p \in Seq(V)
    BY <1>2, MoreIs
  <2>2. L \in Nat /\ DOMAIN p = 1 .. L
    BY <1>2
  <2> QED BY <2>1, <2>2
<1> DEFINE One(w) == IF w = <<>> THEN <<>> ELSE <<w>>
<1>4. \A w \in V : One(w) \in W
  <2>1. \A w \in V : <<>> \in Seq(V) /\ <<w>> \in Seq(V)
    OBVIOUS
  <2> QED BY <1>1, <2>1
<1>5. PICK x : x = One(u)
  OBVIOUS
<1>6. PICK s : s = [n \in DOMAIN p |-> IF p[n] = <<>> THEN <<>> ELSE <<p[n]>>]
  OBVIOUS
<1>7. PICK t : t = [n \in DOMAIN q |-> IF q[n] = <<>> THEN <<>> ELSE <<q[n]>>]
  OBVIOUS
<1>8. (\A k \in DOMAIN p : s[k] = One(p[k])) /\ (\A k \in DOMAIN q : t[k] = One(q[k])) /\ DOMAIN s = DOMAIN p /\ DOMAIN t = DOMAIN q
  BY <1>6, <1>7, Zenon
<1>9. s = [n \in DOMAIN p |-> s[n]] /\ t = [n \in DOMAIN q |-> t[n]]
  BY <1>6, <1>7
<1> HIDE DEF One
<1>10. x \in W
  BY <1>4, <1>5
<1>11. s \in Seq(W) /\ Len(s) = L /\ \A k \in 1 .. L : s[k] = One(p[k])
  <2>1. \A k \in 1 .. L : p[k] \in V
    BY <1>3
  <2>2. \A k \in 1 .. L : s[k] = One(p[k]) /\ s[k] \in W
    BY <1>3, <1>4, <1>8, <2>1
  <2>3. \A n \in 1 .. L : s[n] \in W
    BY <2>2
  <2>4. [n \in 1 .. L |-> s[n]] \in Seq(W) /\ Len([n \in 1 .. L |-> s[n]]) = L
    BY <1>3, <2>3
  <2> QED BY <1>3, <1>9, <2>2, <2>4
<1>12. t \in Seq(W) /\ Len(t) = L + 1 /\ \A k \in 1 .. L + 1 : t[k] = One(q[k])
  <2>1. \A k \in 1 .. L + 1 : q[k] \in V
    BY <1>3
  <2>2. \A k \in 1 .. L + 1 : t[k] = One(q[k]) /\ t[k] \in W
    BY <1>3, <1>4, <1>8, <2>1
  <2>3. PICK M \in Nat : M = L + 1
    BY <1>3
  <2>4. \A n \in 1 .. M : t[n] \in W
    BY <2>2, <2>3
  <2>5. [n \in 1 .. M |-> t[n]] \in Seq(W) /\ Len([n \in 1 .. M |-> t[n]]) = M
    BY <2>4
  <2> QED BY <1>3, <1>9, <2>2, <2>3, <2>5
<1>13. t = Append(s, x)
  <2>1. PICK r : r = Append(s, x)
    OBVIOUS
  <2>2. r \in Seq(W) /\ Len(r) = L + 1 /\ r[L + 1] = x /\ \A k \in 1 .. L : r[k] = s[k]
    BY <1>10, <1>11, <2>1, MoreIs
  <2>3. \A k \in 1 .. L : k \in 1 .. L + 1
    BY <1>3
  <2>4. \A k \in 1 .. L : t[k] = r[k]
    BY <1>3, <1>11, <1>12, <2>2, <2>3
  <2>5. t[L + 1] = r[L + 1]
    <3>1. L + 1 \in 1 .. L + 1
      BY <1>3
    <3> QED BY <1>3, <1>5, <1>12, <2>2, <3>1
  <2>6. \A k \in 1 .. L + 1 : k = L + 1 \/ k \in 1 .. L
    BY <1>3
  <2>7. \A k \in 1 .. Len(t) : t[k] = r[k]
    BY <1>12, <2>4, <2>5, <2>6
  <2> QED BY <1>12, <2>1, <2>2, <2>7, SameSeq
<1>14. X!FlattenSeq(t) = X!FlattenSeq(s) \o x
  <2>1. s \in Seq(Seq(V)) /\ x \in Seq(V)
    BY <1>1, <1>10, <1>11
  <2> QED BY <1>13, <2>1, FlattenMore
<1>15. X!FlattenSeq(s) \in Seq(V)
  BY <1>1, <1>11, FlatType
<1>16. Kept(q) = X!FlattenSeq(t) /\ Kept(p) = X!FlattenSeq(s)
  BY <1>6, <1>7, Zenon DEF Kept
<1>17. PICK k \in Seq(V) : k = Kept(p)
  BY <1>15, <1>16
<1>18. Kept(q) = k \o x
  BY <1>14, <1>16, <1>17
<1>19. k \o <<>> = k /\ k \o <<u>> = Append(k, u)
  BY CatNone, CatOne
<1>20. Kept(q) = IF u = <<>> THEN k ELSE Append(k, u)
  BY <1>5, <1>18, <1>19, Zenon DEF One
<1> QED BY <1>2, <1>15, <1>16, <1>17, <1>20, Zenon DEF KeptNext

LEMMA KeptNone == Kept(<<>>) = <<>>
<1>1. PICK e : e = <<>> /\ DOMAIN e = {}
  <2>1. DOMAIN <<>> = {}
    OBVIOUS
  <2> QED BY <2>1
<1>2. PICK s : s = [n \in DOMAIN e |-> IF e[n] = <<>> THEN <<>> ELSE <<e[n]>>]
  OBVIOUS
<1>3. s = <<>>
  BY <1>1, <1>2
<1>4. Kept(e) = X!FlattenSeq(s)
  BY <1>2, Zenon DEF Kept
<1> QED BY <1>1, <1>3, <1>4, FlattenNone

\* Parts that are kept are kept again.
LEMMA KeptAll ==
  ASSUME NEW V, <<>> \notin V, NEW p \in Seq(V)
  PROVE  Kept(p) = p
<1> DEFINE S == {x \in Seq(V) : Kept(x) = x}
<1>1. <<>> \in S
  <2>1. <<>> \in Seq(V)
    OBVIOUS
  <2> QED BY <2>1, KeptNone
<1>2. ASSUME NEW x \in Seq(V), NEW u \in V, x \in S PROVE Append(x, u) \in S
  <2>1. Kept(x) = x
    BY <1>2
  <2> HIDE DEF S
  <2>2. KeptNext(x, u)
    BY KeptMore
  <2>3. u # <<>>
    OBVIOUS
  <2>4. Kept(Append(x, u)) = Append(x, u)
    BY <2>1, <2>2, <2>3, Zenon DEF KeptNext
  <2>5. Append(x, u) \in Seq(V)
    BY MoreIs
  <2> QED BY <2>4, <2>5, Zenon DEF S
<1>3. p \in S
  <2> HIDE DEF S
  <2> QED BY <1>1, <1>2, SeqGrows
<1> QED BY <1>3

LEMMA KeptType ==
  ASSUME NEW V, NEW p \in Seq(V)
  PROVE  Kept(p) \in Seq(V \ {<<>>})
<1>1. PICK U : U = V \ {<<>>}
  OBVIOUS
<1> DEFINE S == {x \in Seq(V) : Kept(x) \in Seq(U)}
<1>2. <<>> \in S
  <2>1. <<>> \in Seq(V) /\ <<>> \in Seq(U)
    OBVIOUS
  <2> QED BY <2>1, KeptNone
<1>3. ASSUME NEW x \in Seq(V), NEW u \in V, x \in S PROVE Append(x, u) \in S
  <2>1. Kept(x) \in Seq(U)
    BY <1>3
  <2> HIDE DEF S
  <2>2. KeptNext(x, u)
    BY KeptMore
  <2>3. PICK k \in Seq(U) : k = Kept(x)
    BY <2>1
  <2>4. u # <<>> => Append(k, u) \in Seq(U)
    <3>1. u # <<>> => u \in U
      BY <1>1
    <3> QED BY <3>1, MoreIs
  <2>5. Kept(Append(x, u)) \in Seq(U)
    BY <2>2, <2>3, <2>4, Zenon DEF KeptNext
  <2>6. Append(x, u) \in Seq(V)
    BY MoreIs
  <2> QED BY <2>5, <2>6, Zenon DEF S
<1>4. p \in S
  <2> HIDE DEF S
  <2> QED BY <1>2, <1>3, SeqGrows
<1> QED BY <1>1, <1>4

Worded(V, A, C) == V = Seq(A \ C) \ {<<>>}
Separates(C, c) == C = {" ", ","} /\ c = ","

\* The tokens of a text are words without separators, and none is empty.
LEMMA TokensAre ==
  ASSUME NEW A, NEW C, NEW c, Separates(C, c), NEW q \in Seq(A)
  PROVE  X!Tokens(q) = Kept(X!Split(q, C)) /\ X!Tokens(q) \in Seq(Seq(A \ C) \ {<<>>})
<1>1. X!Tokens(q) = Kept(X!Split(q, C))
  BY Zenon DEF X!Tokens, Kept, Separates
<1>2. PICK F : F = A \ C
  OBVIOUS
<1>3. PICK V : V = Seq(F)
  OBVIOUS
<1>4. PICK p \in Seq(V), u \in V : X!Split(q, C) = Append(p, u)
  <2>1. \E p \in Seq(Seq(A \ C)), u \in Seq(A \ C) : X!Split(q, C) = Append(p, u)
    BY SplitFree, Zenon
  <2> QED BY <1>2, <1>3, <2>1, Zenon
<1>5. PICK x : x = Append(p, u)
  OBVIOUS
<1>6. x \in Seq(V)
  BY <1>5, MoreIs
<1>7. Kept(x) \in Seq(V \ {<<>>})
  BY <1>6, KeptType
<1> QED BY <1>1, <1>2, <1>3, <1>4, <1>5, <1>7

\* They are written so that they read the same.
LEMMA TokensAgain ==
  ASSUME NEW A, NEW C, NEW c, Separates(C, c), C \subseteq A, NEW V, Worded(V, A, C), NEW ws \in Seq(V)
  PROVE  X!Tokens(X!Joined(ws, <<c>>)) = ws
<1>1. PICK F : F = A \ C
  OBVIOUS
<1>2. PICK U : U = Seq(F)
  OBVIOUS
<1>3. c \in C
  BY DEF Separates
<1>4. c \in A /\ c \in C
  BY <1>3
<1>5. PICK sep : sep = <<c>>
  OBVIOUS
<1>6. sep \in Seq(A)
  BY <1>4, <1>5, CatOne
<1>7. V \subseteq U /\ <<>> \notin V
  BY <1>1, <1>2 DEF Worded
<1>8. PICK W : W = Seq(A)
  OBVIOUS
<1>9. U \subseteq W
  <2>1. F \subseteq A
    BY <1>1
  <2> QED BY <1>2, <1>8, <2>1, SeqSubset
<1>10. Seq(V) \subseteq Seq(U) /\ Seq(V) \subseteq Seq(W)
  BY <1>7, <1>9, SeqSubset
<1>11. PICK j : j = X!Joined(ws, sep)
  OBVIOUS
<1>12. j \in Seq(A)
  BY <1>6, <1>8, <1>10, <1>11, JoinedType
<1>13. X!Tokens(j) = Kept(X!Split(j, C))
  BY <1>12, TokensAre
<1>14. ASSUME ws # <<>> PROVE Kept(X!Split(j, C)) = ws
  <2>1. ws \in Seq(U)
    BY <1>10
  <2>2. X!Split(X!Joined(ws, <<c>>), C) = ws
    BY <1>1, <1>2, <1>4, <1>14, <2>1, SplitJoined
  <2>3. X!Split(j, C) = ws
    BY <1>5, <1>11, <2>2, Zenon
  <2>4. Kept(ws) = ws
    BY <1>7, KeptAll
  <2> QED BY <2>3, <2>4, Zenon
<1>15. ASSUME ws = <<>> PROVE Kept(X!Split(j, C)) = ws
  <2>1. PICK e : e = <<>> /\ e \in W /\ e = ws
    <3>1. <<>> \in W
      BY <1>8
    <3> QED BY <1>15, <3>1
  <2>2. j = e
    <3>1. DOMAIN e = {}
      BY <2>1
    <3>2. PICK t : t = [n \in DOMAIN e |-> IF n = 1 THEN e[n] ELSE sep \o e[n]]
      OBVIOUS
    <3>3. t = <<>>
      BY <3>1, <3>2
    <3>4. X!Joined(e, sep) = X!FlattenSeq(t)
      BY <3>2, Zenon DEF X!Joined
    <3> QED BY <1>11, <2>1, <3>3, <3>4, FlattenNone
  <2>3. PICK p : p = <<>> /\ p \in Seq(W)
    <3>1. <<>> \in Seq(W)
      OBVIOUS
    <3> QED BY <3>1
  <2>4. Append(p, e) = <<e>>
    BY <2>3
  <2>5. X!Split(j, C) = Append(p, e)
    BY <2>1, <2>2, <2>4, SplitNone
  <2>6. KeptNext(p, e)
    BY <2>1, <2>3, KeptMore
  <2>7. Kept(p) = p
    BY <2>3, KeptNone
  <2>8. Kept(Append(p, e)) = e
    BY <2>1, <2>3, <2>6, <2>7, Zenon DEF KeptNext
  <2> QED BY <2>1, <2>5, <2>8, Zenon
<1>16. X!Tokens(j) = ws
  BY <1>13, <1>14, <1>15, Zenon
<1> QED BY <1>5, <1>11, <1>16, Zenon

\* What an action is written as.
Rendered(a) == CASE a.op = "tag" -> <<"+">> \o a.tag
                 [] a.op = "untag" -> <<"-">> \o a.tag
                 [] OTHER -> <<a.op>>

\* A sequence is its first element and the rest.
LEMMA HeadTail == ASSUME NEW A, NEW t \in Seq(A), t # <<>> PROVE <<t[1]>> \o Tail(t) = t
OBVIOUS

\* An action that was understood is written as it was read.
LEMMA ActionIs ==
  ASSUME NEW A, NEW t \in Seq(A), t # <<>>, X!Action(t).op # "unknown"
  PROVE  Rendered(X!Action(t)) = t
<1>1. PICK a : a = t[1]
  OBVIOUS
<1>2. PICK z : z = Tail(t)
  OBVIOUS
<1>3. <<a>> \o z = t
  BY <1>1, <1>2, HeadTail, Zenon
<1>4. CASE t \in {<<"open">>, <<"close">>}
  <2>1. X!Action(t) = [op |-> a, tag |-> <<>>]
    <3>1. a # "+" /\ a # "-"
      BY <1>1, <1>4
    <3> QED BY <1>1, <1>4, <3>1, Zenon DEF X!Action
  <2>2. a \notin {"tag", "untag"} /\ <<a>> = t
    BY <1>1, <1>4
  <2>3. X!Action(t).op = a
    BY <2>1
  <2> QED BY <2>2, <2>3, Zenon DEF Rendered
<1>5. CASE t \notin {<<"open">>, <<"close">>} /\ a = "+"
  <2>1. X!Action(t) = [op |-> "tag", tag |-> z]
    BY <1>1, <1>2, <1>5, Zenon DEF X!Action
  <2>2. X!Action(t).op = "tag" /\ X!Action(t).tag = z
    BY <2>1
  <2>3. Rendered(X!Action(t)) = <<"+">> \o z
    BY <2>2, Zenon DEF Rendered
  <2> QED BY <1>3, <1>5, <2>3, Zenon
<1>6. CASE t \notin {<<"open">>, <<"close">>} /\ a = "-"
  <2>1. X!Action(t) = [op |-> "untag", tag |-> z]
    BY <1>1, <1>2, <1>6, Zenon DEF X!Action
  <2>2. X!Action(t).op = "untag" /\ X!Action(t).tag = z /\ "untag" # "tag"
    BY <2>1
  <2>3. Rendered(X!Action(t)) = <<"-">> \o z
    BY <2>2, Zenon DEF Rendered
  <2> QED BY <1>3, <1>6, <2>3, Zenon
<1>7. CASE t \notin {<<"open">>, <<"close">>} /\ a # "+" /\ a # "-"
  <2>1. X!Action(t) = [op |-> "unknown", tag |-> <<>>]
    BY <1>1, <1>7, Zenon DEF X!Action
  <2> QED BY <2>1
<1> QED BY <1>4, <1>5, <1>6, <1>7

\* An update that is written as the program writes it reads the same.
LEMMA UpdatesRead ==
  ASSUME NEW A, text \in Seq(A)
  PROVE  /\ X!Tokens(X!Unparsed(X!Tokens(text))) = X!Tokens(text)
         /\ X!Compiled(text).ok => X!Compiled(X!RenderUpdate(X!Compiled(text).update)) = X!Compiled(text)
<1>1. PICK C, c : Separates(C, c)
  BY DEF Separates
<1>2. PICK B : B = A \cup C
  OBVIOUS
<1>3. text \in Seq(B) /\ C \subseteq B
  <2>1. A \subseteq B /\ C \subseteq B
    BY <1>2
  <2> QED BY <2>1, SeqSubset
<1>4. PICK V : V = Seq(B \ C) \ {<<>>}
  OBVIOUS
<1>5. PICK ws : ws = X!Tokens(text)
  OBVIOUS
<1>6. ws \in Seq(V)
  BY <1>1, <1>3, <1>4, <1>5, TokensAre
<1>7. X!Tokens(X!Unparsed(ws)) = ws
  <2>1. X!Tokens(X!Joined(ws, <<c>>)) = ws
    <3>1. Worded(V, B, C)
      BY <1>4 DEF Worded
    <3>2. C \subseteq B
      BY <1>3
    <3> QED BY <1>1, <1>6, <3>1, <3>2, TokensAgain
  <2> QED BY <1>1, <2>1, Zenon DEF X!Unparsed, Separates
<1>8. PICK update : update = [n \in DOMAIN ws |-> X!Action(ws[n])]
  OBVIOUS
<1>9. X!Compiled(text) = [ok |-> \A n \in DOMAIN update : update[n].op # "unknown", update |-> update]
  BY <1>5, <1>8, Zenon DEF X!Compiled
<1>10. ASSUME X!Compiled(text).ok PROVE X!Compiled(X!RenderUpdate(X!Compiled(text).update)) = X!Compiled(text)
  <2>1. X!Compiled(text).update = update /\ \A n \in DOMAIN update : update[n].op # "unknown"
    BY <1>9, <1>10
  <2>2. DOMAIN update = DOMAIN ws /\ \A n \in DOMAIN ws : update[n] = X!Action(ws[n])
    BY <1>8, Zenon
  <2>3. \A n \in DOMAIN ws : ws[n] \in Seq(B \ C) /\ ws[n] # <<>>
    <3>1. \A n \in DOMAIN ws : ws[n] \in V
      BY <1>6
    <3> QED BY <1>4, <3>1
  <2>4. \A n \in DOMAIN update : Rendered(update[n]) = ws[n]
    <3>1. ASSUME NEW n \in DOMAIN update PROVE Rendered(update[n]) = ws[n]
      <4>1. PICK t \in Seq(B \ C) : t = ws[n] /\ t # <<>>
        BY <2>2, <2>3
      <4>2. X!Action(t).op # "unknown" /\ update[n] = X!Action(t)
        BY <2>1, <2>2, <4>1
      <4>3. Rendered(X!Action(t)) = t
        BY <4>1, <4>2, ActionIs
      <4> QED BY <4>1, <4>2, <4>3
    <3> QED BY <3>1
  <2>5. PICK r : r = [n \in DOMAIN update |-> Rendered(update[n])]
    OBVIOUS
  <2>6. r = ws
    <3>1. r = [n \in DOMAIN ws |-> ws[n]]
      BY <2>2, <2>4, <2>5, Zenon
    <3>2. ws = [n \in DOMAIN ws |-> ws[n]]
      BY <1>6
    <3> QED BY <3>1, <3>2, Zenon
  <2>7. X!RenderUpdate(update) = X!Joined(r, <<",">>)
    BY <2>5, Zenon DEF X!RenderUpdate, Rendered
  <2>8. PICK again : again = X!RenderUpdate(update)
    OBVIOUS
  <2>9. X!Tokens(again) = ws
    BY <1>7, <2>6, <2>7, <2>8, Zenon DEF X!Unparsed
  <2>10. X!Compiled(again) = [ok |-> \A n \in DOMAIN update : update[n].op # "unknown", update |-> update]
    BY <1>8, <2>9, Zenon DEF X!Compiled
  <2> QED BY <1>9, <2>1, <2>8, <2>10, Zenon
<1> QED BY <1>5, <1>7, <1>10, Zenon

-----------------------------------------------------------------------------
(* Paths.                                                                    *)
Slash(c) == c = "/"
\* A path is parsed by splitting it; one slash at the end is dropped.
LEMMA ParseIs ==
  ASSUME NEW c, Slash(c), NEW s, NEW C, C = {c}, NEW W, NEW f \in Seq(W), NEW l \in W, Splits(s, C, f, l)
  PROVE  X!PathParse(s) = IF l = <<>> THEN f ELSE Append(f, l)
<1>1. PICK parts : parts = X!Split(s, C)
  OBVIOUS
<1>2. X!PathParse(s) = IF X!Last(parts) = <<>> THEN X!Front(parts) ELSE parts
  BY <1>1, Zenon DEF X!PathParse, Slash
<1>3. parts = Append(f, l)
  BY <1>1 DEF Splits
<1>4. X!Last(parts) = l /\ X!Front(parts) = f
  BY <1>3, MoreIs
<1> QED BY <1>2, <1>3, <1>4, Zenon

\* A path is written with its slashes between the parts, the root with one.
LEMMA RenderIs ==
  ASSUME NEW c, Slash(c), NEW e, e = <<>>, NEW r, r = <<e>>, NEW path
  PROVE  X!PathRender(path) = X!Joined(path, <<c>>) \o IF path = r THEN <<c>> ELSE e
BY Zenon DEF X!PathRender, X!RootSlash, Slash

LEMMA SplitEnds ==
  ASSUME NEW A, NEW W, W = Seq(A), NEW C, NEW q \in Seq(A)
  PROVE  \E f \in Seq(W), l \in W : Splits(q, C, f, l)
<1>1. X!Split(q, C) \in Parts(A)
  BY SplitTyped
<1>2. PICK x : x = X!Split(q, C)
  OBVIOUS
<1>3. x \in Seq(W) /\ x # <<>>
  BY <1>1, <1>2 DEF Parts
<1>4. PICK f \in Seq(W), l \in W : x = Append(f, l)
  BY <1>3, LastIs
<1>5. Splits(q, C, f, l)
  BY <1>2, <1>4, Zenon DEF Splits
<1> QED BY <1>5

ParsedAgain(s) ==
  LET path == X!PathParse(s) IN
  /\ path # <<>> => X!PathRender(path) = s \/ s = X!PathRender(path) \o <<"/">>
  /\ path # <<>> /\ (X!Last(path) # <<>> \/ path = <<<<>>>>) => X!PathParse(X!PathRender(path)) = path

\* A path is written as it was read, but for that slash, and parsed again as it was.
LEMMA PathsRead ==
  ASSUME NEW A, NEW c \in A, Slash(c), NEW s \in Seq(A)
  PROVE  X!PathParse(s) \in Seq(Seq(A)) /\ ParsedAgain(s)
<1>1. PICK W : W = Seq(A)
  OBVIOUS
<1>2. PICK C : C = {c}
  OBVIOUS
<1>3. PICK f \in Seq(W), l \in W : Splits(s, C, f, l)
  BY <1>1, SplitEnds
<1>4. PICK e : e = <<>>
  OBVIOUS
<1>5. e \in W
  <2>1. <<>> \in W
    BY <1>1
  <2> QED BY <1>4, <2>1
<1>6. PICK sep : sep = <<c>>
  OBVIOUS
<1>7. sep \in Seq(A)
  BY <1>6, CatOne
<1>8. PICK path : path = X!PathParse(s)
  OBVIOUS
<1>9. path = IF l = e THEN f ELSE Append(f, l)
  BY <1>2, <1>3, <1>4, <1>8, ParseIs
<1>10. Append(f, l) \in Seq(W)
  BY MoreIs
<1>11. path \in Seq(W)
  BY <1>9, <1>10
<1>12. PICK j \in Seq(A) : j = X!Joined(path, sep)
  BY <1>1, <1>7, <1>11, JoinedType
<1>13. PICK r : r = <<e>>
  OBVIOUS
<1>14. PICK render : render = X!PathRender(path)
  OBVIOUS
<1>15. render = j \o IF path = r THEN sep ELSE e
  BY <1>4, <1>6, <1>12, <1>13, <1>14, RenderIs
<1>16. j \o e = j
  BY <1>4, CatNone
<1>17. X!Joined(X!Split(s, C), sep) = s
  BY <1>2, <1>6, SplitKeeps
<1>18. X!Joined(Append(f, l), sep) = s
  BY <1>3, <1>17, Zenon DEF Splits
<1>19. ASSUME path # e, l # e PROVE render = s
  <2>1. path = Append(f, l)
    BY <1>9, <1>19
  <2>2. path # r
    <3>1. X!Last(path) = l
      BY <2>1, MoreIs
    <3>2. r = Append(<<>>, e) /\ <<>> \in Seq(W)
      BY <1>13
    <3>3. X!Last(r) = e
      BY <1>5, <3>2, MoreIs
    <3> QED BY <1>19, <3>1, <3>3
  <2> QED BY <1>12, <1>15, <1>16, <1>18, <2>1, <2>2, Zenon
<1>20. ASSUME path # e, l = e
       PROVE  /\ s = j \o sep /\ (path = r => render = s) /\ (path # r => render = j)
              /\ X!Split(j, C) = path
  <2>1. path = f
    BY <1>9, <1>20
  <2>2. X!Joined(Append(f, l), sep) = IF f = <<>> THEN l ELSE X!Joined(f, sep) \o (sep \o l)
    BY <1>1, <1>7, JoinedMore
  <2>3. s = j \o (sep \o e)
    BY <1>4, <1>12, <1>18, <1>20, <2>1, <2>2, Zenon
  <2>4. sep \o e = sep
    BY <1>4, <1>7, CatNone
  <2>5. s = Append(j, c)
    BY <1>6, <2>3, <2>4, CatOne
  <2>6. PICK g \in Seq(W), m \in W : Splits(j, C, g, m)
    BY <1>1, SplitEnds
  <2>7. Splits(Append(j, c), C, Append(g, m), e)
    <3>1. c \in C
      BY <1>2
    <3> QED BY <1>1, <1>4, <2>6, <3>1, SplitMore
  <2>8. PICK x : x = Append(g, m)
    OBVIOUS
  <2>9. x \in Seq(W)
    BY <2>8, MoreIs
  <2>10. Append(x, e) = Append(f, e)
    BY <1>3, <1>20, <2>5, <2>7, <2>8, Zenon DEF Splits
  <2>11. x = f
    <3>1. X!Front(Append(x, e)) = x /\ X!Front(Append(f, e)) = f
      BY <1>5, <2>9, MoreIs
    <3> QED BY <2>10, <3>1, Zenon
  <2>12. X!Split(j, C) = path
    BY <2>1, <2>6, <2>8, <2>11, Zenon DEF Splits
  <2> QED BY <1>15, <1>16, <2>3, <2>4, <2>12, Zenon
<1>21. path # e => render = s \/ s = render \o sep
  BY <1>19, <1>20, Zenon
<1>22. ASSUME path # e, X!Last(path) # e \/ path = r PROVE X!PathParse(render) = path
  <2>1. CASE render = s
    BY <1>8, <2>1
  <2>2. CASE render # s
    <3>1. l = e
      BY <1>19, <1>22, <2>2
    <3>2. path # r /\ render = j /\ X!Split(j, C) = path
      BY <1>20, <1>22, <2>2, <3>1, Zenon
    <3>3. X!Last(path) # e
      BY <1>22, <3>2
    <3>4. PICK g \in Seq(W), m \in W : Splits(j, C, g, m)
      BY <1>1, SplitEnds
    <3>5. path = Append(g, m)
      BY <3>2, <3>4, Zenon DEF Splits
    <3>6. X!Last(path) = m
      BY <3>5, MoreIs
    <3>7. X!PathParse(j) = IF m = e THEN g ELSE Append(g, m)
      BY <1>2, <1>4, <3>4, ParseIs
    <3> QED BY <3>2, <3>3, <3>5, <3>6, <3>7, Zenon
  <2> QED BY <2>1, <2>2
<1>23. ParsedAgain(s)
  BY <1>4, <1>6, <1>8, <1>13, <1>14, <1>21, <1>22, Zenon DEF ParsedAgain, Slash
<1> QED BY <1>1, <1>8, <1>11, <1>23

\* One part of a path that is normalized.
NormStep(dst, x, n) == CASE x = <<>> /\ n > 1 -> dst
                         [] x = <<".">> -> dst
                         [] x = <<".", ".">> -> IF dst = <<>> THEN dst ELSE X!Front(dst)
                         [] OTHER -> Append(dst, x)

\* What each part of a path does to the depth and to what has been kept.
LEMMA DotsAre ==
  /\ <<>> # <<".">> /\ <<>> # <<".", ".">> /\ <<".">> # <<".", ".">> /\ 1 # 0 /\ -1 # 0 /\ -1 # 1
<1>1. <<>> # <<".">>
  OBVIOUS
<1>2. <<>> # <<".", ".">>
  OBVIOUS
<1>3. <<".">> # <<".", ".">>
  OBVIOUS
<1> QED BY <1>1, <1>2, <1>3

LEMMA StepIs ==
  /\ X!Step(<<>>) = 0
  /\ \A x : X!Step(x) \in Int /\ X!Step(x) \in {-1, 0, 1}
<1>1. X!Step(<<>>) = 0
  BY Zenon DEF X!Step
<1>2. ASSUME NEW x PROVE X!Step(x) \in {-1, 0, 1}
  BY Zenon DEF X!Step
<1>3. \A i \in {-1, 0, 1} : i \in Int
  OBVIOUS
<1> QED BY <1>1, <1>2, <1>3, Zenon

LEMMA NormStepIs ==
  ASSUME NEW dst, NEW x, NEW n \in Nat
  PROVE  /\ X!Step(x) = 1 => NormStep(dst, x, n) = Append(dst, x)
         /\ X!Step(x) = -1 => NormStep(dst, x, n) = IF dst = <<>> THEN dst ELSE X!Front(dst)
         /\ X!Step(x) = 0 /\ (x # <<>> \/ n > 1) => NormStep(dst, x, n) = dst
         /\ n = 1 => NormStep(dst, <<>>, n) = Append(dst, <<>>)
<1>1. X!Step(x) = 1 => x # <<>> /\ x # <<".">> /\ x # <<".", ".">>
  <2>1. x = <<>> \/ x = <<".">> => X!Step(x) = 0
    BY Zenon DEF X!Step
  <2>2. x = <<".", ".">> => X!Step(x) = -1
    BY DotsAre, Zenon DEF X!Step
  <2> QED BY <2>1, <2>2, DotsAre, Zenon
<1>2. X!Step(x) = -1 => x = <<".", ".">>
  <2>1. x # <<".", ".">> => X!Step(x) = 0 \/ X!Step(x) = 1
    BY Zenon DEF X!Step
  <2> QED BY <2>1, DotsAre, Zenon
<1>3. X!Step(x) = 0 => x = <<>> \/ x = <<".">>
  <2>1. x # <<>> /\ x # <<".">> => X!Step(x) = -1 \/ X!Step(x) = 1
    BY Zenon DEF X!Step
  <2> QED BY <2>1, DotsAre, Zenon
<1>4. x # <<>> /\ x # <<".">> /\ x # <<".", ".">> => NormStep(dst, x, n) = Append(dst, x)
  BY Zenon DEF NormStep
<1>5. x = <<".", ".">> => NormStep(dst, x, n) = IF dst = <<>> THEN dst ELSE X!Front(dst)
  BY DotsAre, Zenon DEF NormStep
<1>6. x = <<".">> \/ (x = <<>> /\ n > 1) => NormStep(dst, x, n) = dst
  BY DotsAre, Zenon DEF NormStep
<1>7. n = 1 => NormStep(dst, <<>>, n) = Append(dst, <<>>)
  <2>1. n = 1 => ~(n > 1)
    OBVIOUS
  <2> QED BY <2>1, DotsAre, Zenon DEF NormStep
<1> QED BY <1>1, <1>2, <1>3, <1>4, <1>5, <1>6, <1>7, Zenon

LEMMA NormStepType ==
  ASSUME NEW W, NEW dst \in Seq(W), NEW x \in W, NEW n \in Nat
  PROVE  NormStep(dst, x, n) \in Seq(W)
<1>1. Append(dst, x) \in Seq(W) /\ X!Front(dst) \in Seq(W)
  BY MoreIs, FrontIs
<1>2. NormStep(dst, x, n) \in {dst, X!Front(dst), Append(dst, x)}
  BY Zenon DEF NormStep
<1> QED BY <1>1, <1>2

\* What normalizing makes of a path, part by part.
NormFun(path, W) == [z \in Seq(W) \X (1 .. Len(path)) |-> NormStep(z[1], path[z[2]], z[2])]
LEMMA NormFunIs ==
  ASSUME NEW W, NEW path \in Seq(W)
  PROVE  /\ NormFun(path, W) \in [Seq(W) \X (1 .. Len(path)) -> Seq(W)]
         /\ \A p \in Seq(W), n \in 1 .. Len(path) : NormFun(path, W)[<<p, n>>] = NormStep(p, path[n], n)
<1>1. \A p \in Seq(W), n \in 1 .. Len(path) : NormFun(path, W)[<<p, n>>] = NormStep(p, path[n], n)
  BY DEF NormFun
<1>2. \A n \in 1 .. Len(path) : n \in Nat /\ path[n] \in W
  OBVIOUS
<1>3. \A z \in Seq(W) \X (1 .. Len(path)) : NormStep(z[1], path[z[2]], z[2]) \in Seq(W)
  BY <1>2, NormStepType
<1> QED BY <1>1, <1>3 DEF NormFun

NormFold(path, q) == X!FoldLeft(LAMBDA dst, n : NormStep(dst, path[n], n), <<>>, q)

NormChain(h, path) ==
  /\ h[0] = <<>> /\ h[Len(path)] = X!PathNormalize(path)
  /\ \A k \in 1 .. Len(path) : h[k] = NormStep(h[k - 1], path[k], k)

\* Normalising goes part by part.
LEMMA NormRuns ==
  ASSUME NEW W, NEW path \in Seq(W)
  PROVE  \E h \in [0 .. Len(path) -> Seq(W)] : NormChain(h, path)
<1> DEFINE B == Seq(W) I == 1 .. Len(path) op == NormFun(path, W) b == <<>>
<1>1. \A x \in B, n \in I : op[<<x, n>>] = NormStep(x, path[n], n) /\ op[<<x, n>>] \in B
  <2>1. \A n \in I : n \in Nat /\ path[n] \in W
    OBVIOUS
  <2> QED BY <2>1, NormFunIs, NormStepType
<1>2. op \in [B \X I -> B]
  BY NormFunIs
<1>3. PICK q : q = [n \in DOMAIN path |-> n]
  OBVIOUS
<1>4. q \in Seq(I) /\ Len(q) = Len(path) /\ Len(q) \in Nat /\ DOMAIN q = 1 .. Len(q) /\ \A i \in 1 .. Len(q) : q[i] = i /\ q[i] \in I
  BY <1>3
<1>5. b \in B
  OBVIOUS
<1> HIDE DEF op, B, I
<1> DEFINE Is(f) == f = [z \in SUBSET DOMAIN q |->
                           IF z = {} THEN b ELSE LET x == X!Max(z) IN NormStep(f[z \ {x}], path[q[x]], q[x])]
<1>6. \E f : Is(f) /\ X!PathNormalize(path) = f[DOMAIN q]
  <2>1. PICK g \in [SUBSET (1 .. Len(q)) -> B] : Folds(g, op, b, q, Len(q))
    BY <1>2, <1>4, <1>5, FoldsExist
  <2>2. \A z \in SUBSET (1 .. Len(q)) : z # {} => X!Max(z) \in 1 .. Len(q) /\ z \ {X!Max(z)} \in SUBSET (1 .. Len(q))
    BY <1>4, GreatestIs
  <2>3. ASSUME NEW z \in SUBSET (1 .. Len(q)), z # {}
        PROVE  op[<<g[z \ {X!Max(z)}], q[X!Max(z)]>>] = NormStep(g[z \ {X!Max(z)}], path[q[X!Max(z)]], q[X!Max(z)])
    BY <2>3, <1>1, <1>4, <2>2
  <2>4. g = [z \in SUBSET (1 .. Len(q)) |-> IF z = {} THEN b ELSE op[<<g[z \ {X!Max(z)}], q[X!Max(z)]>>]]
    BY <2>1 DEF Folds
  <2>5. g = [z \in SUBSET (1 .. Len(q)) |->
               IF z = {} THEN b ELSE NormStep(g[z \ {X!Max(z)}], path[q[X!Max(z)]], q[X!Max(z)])]
    BY <2>3, <2>4, Zenon
  <2>6. Is(g)
    BY <2>5, <1>4, Zenon
  <2>7. \E f : Is(f) /\ NormFold(path, q) = f[DOMAIN q]
    BY <2>6, Zenon DEF NormFold, X!FoldLeft, X!MapThenFoldSet
  <2>8. X!PathNormalize(path) = NormFold(path, [n \in DOMAIN path |-> n])
    BY Zenon DEF X!PathNormalize, NormFold, NormStep
  <2> QED BY <1>3, <2>7, <2>8, Zenon
<1>7. PICK f : Is(f) /\ X!PathNormalize(path) = f[DOMAIN q]
  BY <1>6, Zenon
<1>8. \A z \in SUBSET (1 .. Len(q)) :
        f[z] = IF z = {} THEN b ELSE NormStep(f[z \ {X!Max(z)}], path[q[X!Max(z)]], q[X!Max(z)])
  BY <1>4, <1>7, Zenon
<1> HIDE DEF b
<1>9. Unfolds(f, op, b, q, B)
  <2>1. ASSUME NEW z \in SUBSET (1 .. Len(q)), z # {}, f[z \ {X!Max(z)}] \in B
        PROVE  f[z] = op[<<f[z \ {X!Max(z)}], q[X!Max(z)]>>]
    BY <1>1, <1>4, <1>8, <2>1, GreatestIs
  <2> QED BY <1>8, <2>1, Zenon DEF Unfolds
<1>10. Chained(f, op, b, q, B)
  BY <1>2, <1>4, <1>5, <1>9, FoldsChain
<1>11. PICK h \in [0 .. Len(q) -> B] :
           /\ h[0] = b /\ h[Len(q)] = f[1 .. Len(q)]
           /\ \A k \in 1 .. Len(q) : h[k] = op[<<h[k - 1], q[k]>>]
  BY <1>10 DEF Chained
<1>12. h[Len(q)] = X!PathNormalize(path)
  BY <1>4, <1>7, <1>11
<1>13. \A k \in 1 .. Len(q) : h[k] = NormStep(h[k - 1], path[k], k)
  <2>1. \A k \in 1 .. Len(q) : k - 1 \in 0 .. Len(q)
    BY <1>4
  <2>2. \A k \in 1 .. Len(q) : h[k - 1] \in B /\ q[k] = k /\ k \in I
    BY <1>4, <2>1
  <2> QED BY <1>1, <1>11, <2>2
<1> QED BY <1>4, <1>11, <1>12, <1>13, Zenon DEF NormChain, b, B

\* How deep a path leads, part by part.
DepthOf(q) == X!FoldLeft(LAMBDA d, x : d + X!Step(x), 0, q)
DepthFun(W) == [z \in Int \X W |-> z[1] + X!Step(z[2])]

\* The depth goes part by part.
LEMMA DepthFunIs ==
  ASSUME NEW W
  PROVE  /\ DepthFun(W) \in [Int \X W -> Int]
         /\ \A d \in Int, x \in W : DepthFun(W)[<<d, x>>] = d + X!Step(x) /\ d + X!Step(x) \in Int
<1>1. \A d \in Int, x \in W : DepthFun(W)[<<d, x>>] = d + X!Step(x)
  BY DEF DepthFun
<1>2. \A d \in Int, x \in W : d + X!Step(x) \in Int
  BY StepIs
<1>3. \A z \in Int \X W : z[1] + X!Step(z[2]) \in Int
  BY <1>2
<1> QED BY <1>1, <1>2, <1>3 DEF DepthFun

LEMMA DepthRuns ==
  ASSUME NEW W, NEW q \in Seq(W)
  PROVE  Runs(DepthFun(W), 0, q, DepthOf(q)) /\ DepthOf(q) \in Int
<1> DEFINE B == Int op == DepthFun(W) b == 0
<1>1. \A d \in B, x \in W : op[<<d, x>>] = d + X!Step(x) /\ op[<<d, x>>] \in B
  BY DepthFunIs
<1>2. op \in [B \X W -> B]
  BY DepthFunIs
<1>3. Len(q) \in Nat /\ DOMAIN q = 1 .. Len(q) /\ \A i \in 1 .. Len(q) : q[i] \in W
  OBVIOUS
<1>4. b \in B
  OBVIOUS
<1> HIDE DEF op, B
<1> DEFINE Is(f) == f = [z \in SUBSET DOMAIN q |->
                           IF z = {} THEN b ELSE LET x == X!Max(z) IN f[z \ {x}] + X!Step(q[x])]
<1>5. \E f : Is(f) /\ DepthOf(q) = f[DOMAIN q]
  <2>1. PICK g \in [SUBSET (1 .. Len(q)) -> B] : Folds(g, op, b, q, Len(q))
    BY <1>2, <1>3, <1>4, FoldsExist
  <2>2. \A z \in SUBSET (1 .. Len(q)) : z # {} => X!Max(z) \in 1 .. Len(q) /\ z \ {X!Max(z)} \in SUBSET (1 .. Len(q))
    BY <1>3, GreatestIs
  <2>3. ASSUME NEW z \in SUBSET (1 .. Len(q)), z # {}
        PROVE  op[<<g[z \ {X!Max(z)}], q[X!Max(z)]>>] = g[z \ {X!Max(z)}] + X!Step(q[X!Max(z)])
    BY <2>3, <1>1, <1>3, <2>2
  <2>4. g = [z \in SUBSET (1 .. Len(q)) |-> IF z = {} THEN b ELSE op[<<g[z \ {X!Max(z)}], q[X!Max(z)]>>]]
    BY <2>1 DEF Folds
  <2>5. g = [z \in SUBSET (1 .. Len(q)) |-> IF z = {} THEN b ELSE g[z \ {X!Max(z)}] + X!Step(q[X!Max(z)])]
    BY <2>3, <2>4, Zenon
  <2>6. Is(g)
    BY <2>5, <1>3, Zenon
  <2> QED BY <2>6, Zenon DEF DepthOf, X!FoldLeft, X!MapThenFoldSet
<1>6. PICK f : Is(f) /\ DepthOf(q) = f[DOMAIN q]
  BY <1>5, Zenon
<1>7. \A z \in SUBSET (1 .. Len(q)) : f[z] = IF z = {} THEN b ELSE f[z \ {X!Max(z)}] + X!Step(q[X!Max(z)])
  BY <1>3, <1>6, Zenon
<1> HIDE DEF b
<1>8. Unfolds(f, op, b, q, B)
  <2>1. ASSUME NEW z \in SUBSET (1 .. Len(q)), z # {}, f[z \ {X!Max(z)}] \in B
        PROVE  f[z] = op[<<f[z \ {X!Max(z)}], q[X!Max(z)]>>]
    BY <1>1, <1>3, <1>7, <2>1, GreatestIs
  <2> QED BY <1>7, <2>1, Zenon DEF Unfolds
<1>9. Chained(f, op, b, q, B)
  BY <1>2, <1>3, <1>4, <1>8, FoldsChain
<1>10. PICK h \in [0 .. Len(q) -> B] :
           /\ h[0] = b /\ h[Len(q)] = f[1 .. Len(q)]
           /\ \A k \in 1 .. Len(q) : h[k] = op[<<h[k - 1], q[k]>>]
  BY <1>9 DEF Chained
<1>11. h[Len(q)] = DepthOf(q)
  BY <1>3, <1>6, <1>10
<1>12. h[Len(q)] \in B
  BY <1>3
<1>13. Runs(DepthFun(W), 0, q, DepthOf(q))
  BY <1>10, <1>11, Zenon DEF Runs, b, op
<1> QED BY <1>11, <1>12, <1>13 DEF B

LEMMA DepthIs ==
  ASSUME NEW W, NEW path \in Seq(W)
  PROVE  /\ X!Depth(path, 0) = 0
         /\ \A k \in 1 .. Len(path) : X!Depth(path, k) = X!Depth(path, k - 1) + X!Step(path[k])
         /\ \A k \in 0 .. Len(path) : X!Depth(path, k) \in Int
<1>1. \A k : X!Depth(path, k) = DepthOf(SubSeq(path, 1, k))
  BY Zenon DEF X!Depth, DepthOf
<1>2. PICK op : op = DepthFun(W)
  OBVIOUS
<1>3. \A k \in 0 .. Len(path) : SubSeq(path, 1, k) \in Seq(W)
  OBVIOUS
<1>4. \A k \in 0 .. Len(path) : X!Depth(path, k) \in Int
  BY <1>1, <1>3, DepthRuns
<1>5. X!Depth(path, 0) = 0
  <2>1. PICK e : e = <<>> /\ e \in Seq(W) /\ Len(e) \in Nat
    <3>1. <<>> \in Seq(W)
      OBVIOUS
    <3>2. Len(<<>>) \in Nat
      OBVIOUS
    <3> QED BY <3>1, <3>2, Zenon
  <2>2. SubSeq(path, 1, 0) = e
    BY <2>1
  <2>3. PICK d : d = DepthOf(e)
    OBVIOUS
  <2>4. Runs(op, 0, e, d)
    BY <1>2, <2>1, <2>3, DepthRuns
  <2>5. Runs(op, 0, e, 0)
    BY <2>1, RunsNone
  <2>6. d = 0
    BY <2>1, <2>4, <2>5, RunsAlone
  <2> QED BY <1>1, <2>2, <2>3, <2>6, Zenon
<1>6. ASSUME NEW k \in 1 .. Len(path) PROVE X!Depth(path, k) = X!Depth(path, k - 1) + X!Step(path[k])
  <2>1. PICK x \in W : x = path[k]
    OBVIOUS
  <2>2. PICK p : p = SubSeq(path, 1, k - 1)
    OBVIOUS
  <2>3. p \in Seq(W) /\ SubSeq(path, 1, k) = Append(p, x)
    BY <2>1, <2>2, OneMore
  <2>4. PICK q : q = Append(p, x)
    OBVIOUS
  <2>5. q \in Seq(W) /\ q = p \o <<x>> /\ <<x>> \in Seq(W) /\ Len(q) \in Nat
    <3>1. q \in Seq(W)
      BY <2>3, <2>4, MoreIs
    <3>2. q = p \o <<x>> /\ <<x>> \in Seq(W)
      BY <2>3, <2>4, CatOne
    <3>3. Len(q) \in Nat
      BY <3>1
    <3> QED BY <3>1, <3>2, <3>3
  <2>6. PICK d \in Int : d = DepthOf(p)
    BY <2>3, DepthRuns
  <2>7. PICK t : t = DepthOf(q)
    OBVIOUS
  <2>8. PICK v : v = d + X!Step(x)
    OBVIOUS
  <2>9. Runs(op, 0, p, d)
    BY <1>2, <2>3, <2>6, DepthRuns
  <2>10. Runs(op, 0, q, t)
    BY <1>2, <2>5, <2>7, DepthRuns
  <2>11. v = op[<<d, x>>]
    BY <1>2, <2>8, DepthFunIs
  <2>12. Runs(op, d, <<x>>, v)
    BY <2>11, RunsOne
  <2>13. Runs(op, 0, q, v)
    BY <2>3, <2>5, <2>9, <2>12, RunsJoin
  <2>14. t = v
    BY <2>5, <2>10, <2>13, RunsAlone
  <2> QED BY <1>1, <2>1, <2>2, <2>3, <2>4, <2>6, <2>7, <2>8, <2>14, Zenon
<1> QED BY <1>4, <1>5, <1>6

\* A path that is normalized: as long as it leads deep, the root first, and then names.
Tidy(m, d, r) ==
  /\ Len(m) = d + r /\ (r = 1 => m[1] = <<>>)
  /\ \A i \in 1 .. Len(m) : i > r => X!Step(m[i]) = 1
Holds(m, i, y) == i \in 1 .. Len(m) /\ m[i] = y

\* One part keeps it tidy, and what is not taken back.
LEMMA TidyStep ==
  ASSUME NEW W, NEW m \in Seq(W), NEW x \in W, NEW n \in Nat, n > 1 \/ (n = 1 /\ x # <<>>),
         NEW r \in {0, 1}, NEW d \in Nat, Tidy(m, d, r), d + X!Step(x) >= 0
  PROVE  /\ Tidy(NormStep(m, x, n), d + X!Step(x), r)
         /\ \A i \in Nat : \A y : Holds(m, i, y) /\ i <= d + X!Step(x) + r => Holds(NormStep(m, x, n), i, y)
<1>1. PICK v : v = NormStep(m, x, n)
  OBVIOUS
<1>2. PICK s \in {-1, 0, 1} : s = X!Step(x)
  BY StepIs
<1>3. Len(m) \in Nat /\ Len(m) = d + r /\ (r = 1 => m[1] = <<>>) /\ \A i \in 1 .. Len(m) : i > r => X!Step(m[i]) = 1
  BY DEF Tidy
<1>4. CASE s = 1
  <2>1. v = Append(m, x)
    BY <1>1, <1>2, <1>4, NormStepIs
  <2>2. v \in Seq(W) /\ Len(v) = Len(m) + 1 /\ v[Len(m) + 1] = x /\ \A k \in 1 .. Len(m) : v[k] = m[k]
    BY <2>1, MoreIs
  <2>3. \A i \in 1 .. Len(v) : i = Len(m) + 1 \/ i \in 1 .. Len(m)
    BY <1>3, <2>2
  <2>4. \A i \in 1 .. Len(m) : i \in 1 .. Len(v)
    BY <1>3, <2>2
  <2>5. \A i \in 1 .. Len(v) : i > r => X!Step(v[i]) = 1
    BY <1>2, <1>3, <1>4, <2>2, <2>3
  <2>6. r = 1 => v[1] = <<>>
    <3>1. r = 1 => 1 \in 1 .. Len(m)
      BY <1>3
    <3> QED BY <1>3, <2>2, <3>1
  <2>7. Len(v) = d + s + r
    BY <1>3, <1>4, <2>2
  <2>8. Tidy(v, d + s, r)
    BY <2>5, <2>6, <2>7, Zenon DEF Tidy
  <2>9. \A i \in Nat : \A y : Holds(m, i, y) => Holds(v, i, y)
    BY <2>2, <2>4 DEF Holds
  <2> QED BY <1>1, <1>2, <2>8, <2>9, Zenon
<1>5. CASE s = 0
  <2>1. v = m
    BY <1>1, <1>2, <1>5, NormStepIs
  <2>2. d + s = d
    BY <1>5
  <2> QED BY <1>1, <1>2, <2>1, <2>2, Zenon
<1>6. CASE s = -1
  <2>1. v = IF m = <<>> THEN m ELSE X!Front(m)
    <3>1. X!Step(x) = -1
      BY <1>2, <1>6
    <3> QED BY <1>1, <3>1, NormStepIs, Zenon
  <2>2. d >= 1 /\ m # <<>>
    <3>1. d >= 1
      BY <1>2, <1>6
    <3>2. Len(m) # 0
      BY <1>3, <3>1
    <3> QED BY <3>1, <3>2
  <2>3. PICK f \in Seq(W), l \in W : m = Append(f, l) /\ f = v
    BY <2>1, <2>2, LastIs
  <2>4. Len(m) = Len(v) + 1 /\ Len(v) \in Nat /\ \A k \in 1 .. Len(v) : v[k] = m[k]
    BY <2>3, MoreIs
  <2>5. \A k \in 1 .. Len(v) : k \in 1 .. Len(m)
    BY <2>4
  <2>6. \A i \in 1 .. Len(v) : i > r => X!Step(v[i]) = 1
    BY <1>3, <2>4, <2>5
  <2>7. r = 1 => v[1] = <<>>
    <3>1. r = 1 => 1 \in 1 .. Len(v)
      BY <1>3, <2>2, <2>4
    <3> QED BY <1>3, <2>4, <3>1
  <2>8. Len(v) = d + s + r
    BY <1>3, <1>6, <2>4
  <2>9. Tidy(v, d + s, r)
    BY <2>6, <2>7, <2>8, Zenon DEF Tidy
  <2>10. ASSUME NEW i \in Nat, NEW y, Holds(m, i, y), i <= d + s + r PROVE Holds(v, i, y)
    <3>1. i \in 1 .. Len(m) /\ m[i] = y
      BY <2>10 DEF Holds
    <3>2. i \in 1 .. Len(v)
      BY <2>4, <2>8, <2>10, <3>1
    <3> QED BY <2>4, <3>1, <3>2 DEF Holds
  <2> QED BY <1>1, <1>2, <2>9, <2>10, Zenon
<1> QED BY <1>4, <1>5, <1>6

\* What is tidy is normalized to itself.
LEMMA TidyAgain ==
  ASSUME NEW W, NEW m \in Seq(W), NEW r \in {0, 1}, NEW d \in Nat, Tidy(m, d, r)
  PROVE  X!PathNormalize(m) = m
<1>1. PICK h \in [0 .. Len(m) -> Seq(W)] : NormChain(h, m)
  BY NormRuns
<1>2. h[0] = <<>> /\ h[Len(m)] = X!PathNormalize(m) /\ \A k \in 1 .. Len(m) : h[k] = NormStep(h[k - 1], m[k], k)
  BY <1>1 DEF NormChain
<1>3. PICK L \in Nat : L = Len(m)
  OBVIOUS
<1> DEFINE S == {k \in 0 .. L : h[k] = SubSeq(m, 1, k)}
<1>4. 0 \in S
  <2>1. SubSeq(m, 1, 0) = <<>>
    OBVIOUS
  <2>2. 0 \in 0 .. L
    OBVIOUS
  <2> QED BY <1>2, <2>1, <2>2
<1>5. ASSUME NEW k \in 1 .. L, k - 1 \in S PROVE k \in S
  <2>1. h[k - 1] = SubSeq(m, 1, k - 1) /\ k \in 0 .. L /\ k \in 1 .. Len(m) /\ k \in Nat
    BY <1>3, <1>5
  <2>2. h[k] = NormStep(h[k - 1], m[k], k)
    BY <1>2, <2>1
  <2>3. SubSeq(m, 1, k) = Append(SubSeq(m, 1, k - 1), m[k])
    BY <2>1, OneMore
  <2>4. NormStep(h[k - 1], m[k], k) = Append(h[k - 1], m[k])
    <3>1. CASE k > r
      <4>1. X!Step(m[k]) = 1
        BY <2>1, <3>1 DEF Tidy
      <4> QED BY <2>1, <4>1, NormStepIs
    <3>2. CASE ~(k > r)
      <4>1. k = 1 /\ r = 1
        BY <3>2
      <4>2. m[k] = <<>>
        BY <4>1 DEF Tidy
      <4>3. PICK dst : dst = h[k - 1]
        OBVIOUS
      <4>4. k = 1 => NormStep(dst, <<>>, k) = Append(dst, <<>>)
        BY <2>1, NormStepIs, Zenon
      <4> QED BY <4>1, <4>2, <4>3, <4>4, Zenon
    <3> QED BY <3>1, <3>2
  <2>5. h[k] = SubSeq(m, 1, k)
    BY <2>1, <2>2, <2>3, <2>4, Zenon
  <2> QED BY <2>1, <2>5
<1>6. \A k \in 0 .. L : k \in S
  <2> HIDE DEF S
  <2> QED BY <1>4, <1>5, AlongChain
<1>7. h[L] = SubSeq(m, 1, L)
  <2>1. L \in 0 .. L
    OBVIOUS
  <2> QED BY <1>6, <2>1
<1>8. SubSeq(m, 1, L) = m
  BY <1>3
<1> QED BY <1>2, <1>3, <1>7, <1>8

\* A path that never climbs above its beginning is normalized as it should be.
LEMMA NormalDo ==
  ASSUME NEW W, NEW path \in Seq(W), \A n \in DOMAIN path : X!Depth(path, n) >= 0
  PROVE  X!NormalIs(path, X!PathNormalize(path))
<1>1. PICK L \in Nat : L = Len(path) /\ DOMAIN path = 1 .. L
  OBVIOUS
<1>2. PICK h \in [0 .. L -> Seq(W)] : NormChain(h, path)
  BY <1>1, NormRuns
<1>3. h[0] = <<>> /\ h[L] = X!PathNormalize(path) /\ \A k \in 1 .. L : h[k] = NormStep(h[k - 1], path[k], k)
  BY <1>1, <1>2 DEF NormChain
<1>4. PICK d : d = [k \in 0 .. L |-> X!Depth(path, k)]
  OBVIOUS
<1>5. \A k \in 0 .. L : d[k] = X!Depth(path, k)
  BY <1>4
<1>6. /\ d[0] = 0 /\ \A k \in 0 .. L : d[k] \in Int
      /\ \A k \in 1 .. L : d[k] = d[k - 1] + X!Step(path[k])
  <2>1. 0 \in 0 .. L /\ \A k \in 1 .. L : k \in 0 .. L /\ k - 1 \in 0 .. L
    OBVIOUS
  <2>2. /\ X!Depth(path, 0) = 0
        /\ \A k \in 1 .. L : X!Depth(path, k) = X!Depth(path, k - 1) + X!Step(path[k])
        /\ \A k \in 0 .. L : X!Depth(path, k) \in Int
    BY <1>1, DepthIs
  <2> QED BY <1>5, <2>1, <2>2
<1>7. \A k \in 0 .. L : d[k] \in Nat
  <2>1. \A k \in 0 .. L : k = 0 \/ k \in 1 .. L
    OBVIOUS
  <2>2. \A k \in 1 .. L : d[k] >= 0
    <3>1. \A k \in 1 .. L : k \in 0 .. L
      OBVIOUS
    <3> QED BY <1>1, <1>5, <3>1
  <2> QED BY <1>6, <2>1, <2>2
<1>8. PICK r : r = IF path # <<>> /\ path[1] = <<>> THEN 1 ELSE 0
  OBVIOUS
<1>9. r \in {0, 1}
  BY <1>8
<1>10. path # <<>> <=> L # 0
  BY <1>1
<1> DEFINE S == {k \in 0 .. L : Tidy(h[k], d[k], r) \/ (k = 0 /\ r = 1)}
<1>11. 0 \in S
  <2>1. 0 \in 0 .. L
    OBVIOUS
  <2>2. CASE r = 0
    <3>1. Len(h[0]) = 0
      BY <1>3
    <3>2. Tidy(h[0], d[0], r)
      BY <1>6, <2>2, <3>1 DEF Tidy
    <3> QED BY <2>1, <3>2
  <2>3. CASE r = 1
    BY <2>1, <2>3
  <2> QED BY <1>9, <2>2, <2>3
<1>12. ASSUME NEW k \in 1 .. L PROVE k \in 0 .. L /\ k - 1 \in 0 .. L /\ k \in Nat /\ path[k] \in W /\ h[k - 1] \in Seq(W) /\ h[k] \in Seq(W)
  <2>1. k \in 0 .. L /\ k - 1 \in 0 .. L /\ k \in Nat
    OBVIOUS
  <2>2. path[k] \in W
    BY <1>1
  <2>3. \A j \in 0 .. L : h[j] \in Seq(W)
    BY <1>2
  <2> QED BY <2>1, <2>2, <2>3, Zenon
<1>13. ASSUME NEW k \in 1 .. L, k - 1 \in S PROVE k \in S
  <2>1. Tidy(h[k - 1], d[k - 1], r) \/ (k - 1 = 0 /\ r = 1)
    BY <1>13
  <2> HIDE DEF S
  <2>2. h[k] = NormStep(h[k - 1], path[k], k) /\ d[k] = d[k - 1] + X!Step(path[k])
    BY <1>3, <1>6
  <2>3. CASE k = 1 /\ r = 1
    <3>1. path[k] = <<>>
      BY <1>8, <2>3
    <3>2. PICK e : e = <<>>
      OBVIOUS
    <3>3. h[k] = Append(e, e)
      <4>1. h[k] = NormStep(e, e, k)
        <5>1. h[k - 1] = e
          BY <1>3, <2>3, <3>2
        <5> QED BY <2>2, <3>1, <3>2, <5>1, Zenon
      <4>2. NormStep(e, e, k) = Append(e, e)
        <5>1. k = 1 => NormStep(e, <<>>, k) = Append(e, <<>>)
          BY <1>12, NormStepIs, Zenon
        <5> QED BY <2>3, <3>2, <5>1, Zenon
      <4> QED BY <4>1, <4>2
    <3>4. Len(h[k]) = 1 /\ h[k][1] = <<>>
      <4>1. Append(e, e) = <<e>>
        BY <3>2
      <4>2. Len(<<e>>) = 1 /\ <<e>>[1] = e
        OBVIOUS
      <4> QED BY <3>2, <3>3, <4>1, <4>2, Zenon
    <3>5. d[k] = 0
      <4>1. X!Step(path[k]) = 0
        BY <3>1, StepIs, Zenon
      <4>2. d[k - 1] = 0
        BY <1>6, <2>3
      <4> QED BY <2>2, <4>1, <4>2
    <3>6. Tidy(h[k], d[k], r)
      BY <2>3, <3>4, <3>5 DEF Tidy
    <3> QED BY <1>12, <3>6, Zenon DEF S
  <2>4. CASE ~(k = 1 /\ r = 1)
    <3>1. Tidy(h[k - 1], d[k - 1], r)
      BY <2>1, <2>4
    <3>2. k > 1 \/ (k = 1 /\ path[k] # <<>>)
      <4>1. k = 1 => r = 0 /\ L # 0
        BY <1>9, <2>4
      <4>2. k = 1 => path[1] # <<>>
        BY <1>8, <1>10, <4>1
      <4>3. k = 1 \/ k > 1
        OBVIOUS
      <4> QED BY <4>2, <4>3
    <3>3. PICK m, x, n, c : m = h[k - 1] /\ x = path[k] /\ n = k /\ c = d[k - 1]
      OBVIOUS
    <3>4. m \in Seq(W) /\ x \in W /\ n \in Nat /\ c \in Nat /\ Tidy(m, c, r)
      BY <1>7, <1>12, <3>1, <3>3
    <3>5. n > 1 \/ (n = 1 /\ x # <<>>)
      BY <3>2, <3>3
    <3>6. c + X!Step(x) >= 0
      <4>1. d[k] \in Nat /\ d[k] = c + X!Step(x)
        BY <1>7, <1>12, <2>2, <3>3
      <4> QED BY <4>1
    <3>7. Tidy(NormStep(m, x, n), c + X!Step(x), r)
      BY <1>9, <3>4, <3>5, <3>6, TidyStep
    <3>8. Tidy(h[k], d[k], r)
      BY <2>2, <3>3, <3>7, Zenon
    <3> QED BY <1>12, <3>8, Zenon DEF S
  <2> QED BY <2>3, <2>4
<1>14. \A k \in 0 .. L : k \in S
  <2> HIDE DEF S
  <2> QED BY <1>11, <1>13, AlongChain
<1>15. \A k \in 1 .. L : Tidy(h[k], d[k], r)
  <2>1. \A k \in 1 .. L : k \in 0 .. L /\ k # 0
    OBVIOUS
  <2> QED BY <1>14, <2>1
<1> HIDE DEF S
<1>16. PICK normal : normal = h[L]
  OBVIOUS
<1>17. L \in 0 .. L /\ normal \in Seq(W)
  BY <1>16
<1>18. Tidy(normal, d[L], r)
  <2>1. CASE L = 0
    <3>1. r = 0
      BY <1>8, <1>10, <2>1
    <3>2. Len(normal) = 0
      BY <1>3, <1>16, <2>1
    <3>3. d[L] = 0
      BY <1>6, <2>1
    <3> QED BY <3>1, <3>2, <3>3 DEF Tidy
  <2>2. CASE L # 0
    <3>1. L \in 1 .. L
      BY <2>2
    <3> QED BY <1>15, <1>16, <3>1
  <2> QED BY <2>1, <2>2
<1>19. X!PathNormalize(normal) = normal
  BY <1>7, <1>9, <1>17, <1>18, TidyAgain
<1>20. ASSUME NEW n \in 1 .. L, X!Step(path[n]) = 1, \A k \in n .. L : d[k] >= d[n]
       PROVE  normal[d[n] + r] = path[n]
  <2>1. PICK i : i = d[n] + r
    OBVIOUS
  <2>2. PICK y : y = path[n]
    OBVIOUS
  <2>3. i \in Nat
    BY <1>7, <1>9, <1>12, <2>1
  <2> DEFINE T == {k \in 0 .. L : k >= n => Holds(h[k], i, y)}
  <2>4. 0 \in T
    <3>1. 0 \in 0 .. L /\ ~(0 >= n)
      OBVIOUS
    <3> QED BY <3>1
  <2>5. ASSUME NEW k \in 1 .. L, k - 1 \in T PROVE k \in T
    <3>1. k - 1 >= n => Holds(h[k - 1], i, y)
      BY <2>5
    <3> HIDE DEF T
    <3>2. h[k] = NormStep(h[k - 1], path[k], k) /\ d[k] = d[k - 1] + X!Step(path[k])
      BY <1>3, <1>6
    <3>3. ASSUME k = n PROVE Holds(h[k], i, y)
      <4>1. h[k] = Append(h[k - 1], path[k])
        <5>1. X!Step(path[k]) = 1 /\ k \in Nat
          BY <1>12, <1>20, <3>3, Zenon
        <5>2. NormStep(h[k - 1], path[k], k) = Append(h[k - 1], path[k])
          BY <5>1, NormStepIs, Zenon
        <5> QED BY <3>2, <5>2, Zenon
      <4>2. PICK p : p = h[k - 1]
        OBVIOUS
      <4>3. p \in Seq(W) /\ y \in W /\ h[k] = Append(p, y)
        BY <1>12, <2>2, <3>3, <4>1, <4>2
      <4>4. Len(h[k]) = Len(p) + 1 /\ h[k][Len(p) + 1] = y /\ Len(p) \in Nat
        BY <4>3, MoreIs
      <4>5. Len(h[k]) = d[k] + r
        BY <1>15 DEF Tidy
      <4>6. i = Len(p) + 1
        BY <2>1, <3>3, <4>4, <4>5
      <4> QED BY <4>4, <4>6 DEF Holds
    <3>4. ASSUME k > n PROVE Holds(h[k], i, y)
      <4>1. k - 1 >= n /\ k - 1 \in 1 .. L /\ k > 1
        BY <3>4
      <4>2. PICK m, x, c : m = h[k - 1] /\ x = path[k] /\ c = d[k - 1]
        OBVIOUS
      <4>3. m \in Seq(W) /\ x \in W /\ k \in Nat /\ c \in Nat /\ Tidy(m, c, r)
        BY <1>7, <1>12, <1>15, <4>1, <4>2
      <4>4. d[k] \in Nat /\ d[k] = c + X!Step(x)
        BY <1>7, <1>12, <3>2, <4>2
      <4>5. d[k] >= d[n]
        <5>1. k \in n .. L
          BY <3>4
        <5> QED BY <1>20, <5>1
      <4>6. c + X!Step(x) >= 0 /\ i <= c + X!Step(x) + r
        <5>1. d[n] \in Nat
          BY <1>7, <1>12
        <5>2. i <= d[k] + r
          BY <1>9, <2>1, <4>4, <4>5, <5>1
        <5> QED BY <4>4, <5>2
      <4>7. Holds(m, i, y)
        BY <3>1, <4>1, <4>2
      <4>8. Holds(NormStep(m, x, k), i, y)
        BY <1>9, <2>3, <4>1, <4>3, <4>6, <4>7, TidyStep
      <4> QED BY <3>2, <4>2, <4>8, Zenon
    <3>5. k >= n => Holds(h[k], i, y)
      <4>1. k >= n => k = n \/ k > n
        OBVIOUS
      <4> QED BY <3>3, <3>4, <4>1
    <3> QED BY <1>12, <3>5, Zenon DEF T
  <2>6. \A k \in 0 .. L : k \in T
    <3> HIDE DEF T
    <3> QED BY <2>4, <2>5, AlongChain
  <2>7. Holds(h[L], i, y)
    <3>1. L >= n /\ L \in 0 .. L
      OBVIOUS
    <3> QED BY <2>6, <3>1
  <2> QED BY <1>16, <2>1, <2>2, <2>7 DEF Holds
<1>21. Len(normal) = X!Depth(path, Len(path)) + r /\ (r = 1 => normal[1] = <<>>)
  BY <1>1, <1>5, <1>17, <1>18 DEF Tidy
<1>22. \A n \in DOMAIN path :
         X!Step(path[n]) = 1 /\ (\A k \in n .. Len(path) : X!Depth(path, k) >= X!Depth(path, n))
           => normal[X!Depth(path, n) + r] = path[n]
  <2>1. ASSUME NEW n \in 1 .. L, X!Step(path[n]) = 1, \A k \in n .. L : X!Depth(path, k) >= X!Depth(path, n)
        PROVE  normal[X!Depth(path, n) + r] = path[n]
    <3>1. \A k \in n .. L : k \in 0 .. L /\ n \in 0 .. L
      OBVIOUS
    <3>2. \A k \in n .. L : d[k] >= d[n]
      BY <1>5, <2>1, <3>1
    <3>3. normal[d[n] + r] = path[n]
      BY <1>20, <2>1, <3>2
    <3> QED BY <1>5, <1>12, <3>3
  <2> QED BY <1>1, <2>1
<1> QED BY <1>3, <1>8, <1>16, <1>19, <1>21, <1>22, Zenon DEF X!NormalIs

-----------------------------------------------------------------------------
\* Lists and paths.
LEMMA ListsDo == ASSUME NEW A, text \in Seq(A) PROVE X!ListsRead
<1>1. /\ X!Tokens(X!Unparsed(X!Tokens(text))) = X!Tokens(text)
      /\ X!Compiled(text).ok => X!Compiled(X!RenderUpdate(X!Compiled(text).update)) = X!Compiled(text)
  BY UpdatesRead
<1>2. PICK c : Slash(c)
  BY DEF Slash
<1>3. PICK B : B = A \cup {c}
  OBVIOUS
<1>4. text \in Seq(B) /\ c \in B
  <2>1. A \subseteq B /\ c \in B
    BY <1>3
  <2> QED BY <2>1, SeqSubset
<1>5. X!PathParse(text) \in Seq(Seq(B)) /\ ParsedAgain(text)
  BY <1>2, <1>4, PathsRead
<1>6. PICK path : path = X!PathParse(text)
  OBVIOUS
<1>7. (\A n \in DOMAIN path : X!Depth(path, n) >= 0) => X!NormalIs(path, X!PathNormalize(path))
  <2>1. PICK W : W = Seq(B)
    OBVIOUS
  <2>2. path \in Seq(W)
    BY <1>5, <1>6, <2>1
  <2> QED BY <2>2, NormalDo
<1> QED BY <1>1, <1>5, <1>6, <1>7, Zenon DEF X!ListsRead, ParsedAgain

\* Fingerprints.
LEMMA FingerprintsDo ==
  ASSUME text \in Seq(Nat), BlockBytes \in Nat, LengthBytes \in 1 .. BlockBytes - 1
  PROVE  X!FingerprintsTell
<1>1. PICK message : message = X!FlattenSeq(X!Blocks(text))
  OBVIOUS
<1>2. PICK z \in 0 .. BlockBytes - 1 :
         /\ message = text \o <<128>> \o X!Zeros(z) \o X!Size(Len(text))
         /\ (Len(text) + 1 + z + LengthBytes) % BlockBytes = 0
         /\ Len(message) = Len(text) + 1 + z + LengthBytes
  BY <1>1, FingerprintDo
<1>3. PICK zeros : zeros = Len(message) - Len(text) - 1 - LengthBytes
  OBVIOUS
<1>4. zeros = z
  <2>1. Len(text) \in Nat /\ LengthBytes \in Nat /\ z \in Nat
    OBVIOUS
  <2> QED BY <1>2, <1>3, <2>1
<1>5. Len(message) % BlockBytes = 0
  BY <1>2
<1> QED BY <1>1, <1>2, <1>3, <1>4, <1>5, Zenon DEF X!FingerprintsTell

\* What the program writes is read again as it was meant, whatever the text: JSON strings and
\* replies by a reader of JSON, lists of tags and updates and paths by the program; UTF-8 is what
\* the standard says it is; and no two texts have the same message behind their fingerprint.
THEOREM OutputsDo == PartsSpec => []OutputReads
<1>1. PartsInit => text \in Seq(Alphabet[kind])
  <2>1. <<>> \in Seq(Alphabet[kind])
    OBVIOUS
  <2> QED BY <2>1 DEF PartsInit, X!Init
<1>2. text \in Seq(Alphabet[kind]) /\ [PartsNext]_<<vars, src, kind, text, part>> => (text \in Seq(Alphabet[kind]))'
  BY TextsTyped
<1>3. text \in Seq(Alphabet[kind]) => OutputReads
  <2>1. ASSUME text \in Seq(Alphabet[kind]) PROVE OutputReads
    <3>1. X!ListsRead
      BY <2>1, ListsDo
    <3>2. kind = "reply" => X!RepliesRead
      <4>1. {"tag", "depends", "property", "spec"} \subseteq Alphabet["reply"]
        BY TextAssumption DEF X!FormatsAssumption
      <4>2. kind = "reply" => text \in Seq(Alphabet["reply"])
        BY <2>1
      <4> QED BY <4>1, <4>2, RepliesDo
    <3>3. kind # "reply" => X!RepliesRead
      BY DEF X!RepliesRead
    <3>4. kind = "bytes" => text \in Seq(Bytes) /\ text \in Seq(Nat)
      <4>1. Alphabet["bytes"] \subseteq Bytes
        BY TextAssumption DEF X!FormatsAssumption, X!TextAssumption, Bytes
      <4>2. Bytes \subseteq Nat
        BY DEF Bytes
      <4>3. PICK A : A = Alphabet["bytes"]
        OBVIOUS
      <4>4. kind = "bytes" => text \in Seq(A)
        BY <2>1, <4>3
      <4>5. Seq(A) \subseteq Seq(Bytes) /\ Seq(Bytes) \subseteq Seq(Nat)
        BY <4>1, <4>2, <4>3, SeqSubset
      <4> QED BY <4>4, <4>5
    <3>5. kind = "bytes" => X!FingerprintsTell
      <4>1. BlockBytes \in Nat /\ LengthBytes \in 1 .. BlockBytes - 1
        BY TextAssumption DEF X!FormatsAssumption
      <4> QED BY <3>4, <4>1, FingerprintsDo
    <3>6. kind # "bytes" => X!FingerprintsTell
      BY DEF X!FingerprintsTell
    <3>7. kind = "bytes" => X!Utf8 = X!WellFormed[Len(text)]
      BY <3>4, Utf8Do
    <3>8. X!ReadJson(X!JsonString(text)) = [at |-> "end", read |-> text]
      BY <2>1, JsonDo
    <3>9. X!OutputReads
      BY <3>7, <3>8, Zenon DEF X!OutputReads
    <3> QED BY <3>1, <3>2, <3>3, <3>5, <3>6, <3>9, Zenon DEF OutputReads, X!FormatsRead
  <2> QED BY <2>1
<1> QED BY <1>1, <1>2, <1>3, PTL DEF PartsSpec
=============================================================================
