--------------------------- MODULE DecisionsProofs ---------------------------
(***************************************************************************)
(* The search of scheduler_graph is right on every graph: proofs about     *)
(* Visit, for any ids and records.  The invariant is the usual one of a    *)
(* depth-first search.  What is finished is sound, closed and acyclic; the *)
(* records on the stack are a path; and of each of them, what has been     *)
(* followed is finished or is the record above it.  Then Query: what its   *)
(* compiler accepts, and what the machine makes of it.  Last Text: readers *)
(* of ids and numbers agree on every text.                                 *)
(***************************************************************************)
EXTENDS TextProofs, TLAPS, SequenceTheorems, WellFoundedInduction, FiniteSetTheorems

\* Records as discovery leaves them.
AreRecords(g) == DOMAIN g \subseteq Id /\ \A i \in DOMAIN g : g[i] \in Task

-----------------------------------------------------------------------------
(* Reachability and cycles.                                                  *)

\* The edges of a task lead to ids.
LEMMA EdgesType == \A t \in Task : Edges(t) \subseteq Id
BY DEF Edges, Task

\* A record reaches itself.
LEMMA ReachSelf == ASSUME NEW g, NEW i \in Id PROVE i \in Reach(g, i)
BY DEF Reach

\* What is reachable is closed: the edges of its records stay inside.
LEMMA ReachClosed ==
  ASSUME NEW g, AreRecords(g), NEW i \in Id
  PROVE  Reach(g, i) \subseteq Id /\ Closed(g, Reach(g, i))
<1> SUFFICES ASSUME NEW k \in Reach(g, i) \cap DOMAIN g, NEW e \in Edges(g[k])
             PROVE  e \in Reach(g, i)
    BY DEF Closed, Reach
<1>1. e \in Id
  BY EdgesType DEF AreRecords
<1>2. ASSUME NEW S \in SUBSET Id, i \in S, Closed(g, S) PROVE e \in S
  <2>1. k \in S
    BY <1>2 DEF Reach
  <2> QED BY <1>2, <2>1 DEF Closed
<1> QED BY <1>1, <1>2 DEF Reach

\* It is the least such set.
LEMMA ReachLeast ==
  ASSUME NEW g, NEW S \in SUBSET Id, NEW i \in S, Closed(g, S)
  PROVE  Reach(g, i) \subseteq S
BY DEF Reach

\* Where there is no cycle, every part has a record whose edges all leave it.
LEMMA AcyclicFirst ==
  ASSUME NEW g, NEW S, Acyclic(g, S), NEW T \in SUBSET S, T # {}
  PROVE  \E i \in T : Edges(g[i]) \cap T = {}
BY DEF Acyclic
-----------------------------------------------------------------------------
(* The invariant.                                                            *)

Black == {i \in Id : color[i] = 2}

\* Where the search starts, and all it may come to.
Start == {root} \cup (IF scope THEN Members(rs, root) ELSE {})
Around == UNION {Reach(rs, i) : i \in Start}

Frame == [id: DOMAIN rs, spec: BOOLEAN, depends: SUBSET Id]
Depth == 1 .. Len(stack)

TypeOK == /\ AreRecords(rs) /\ root \in DOMAIN rs /\ scope \in BOOLEAN
          /\ color \in [Id -> 0 .. 2] /\ inspected = {i \in Id : color[i] # 0}
          /\ stack \in Seq(Frame)
          /\ target \in DOMAIN rs \cup {None}

\* What is being visited below the record at n.
Child(n) == IF n < Len(stack) THEN stack[n + 1].id ELSE target

\* The stack is a path of the records that are begun and not finished.
Path == /\ \A n \in Depth : color[stack[n].id] = 1
        /\ \A i \in Id : color[i] = 1 => \E n \in Depth : stack[n].id = i
        /\ \A m, n \in Depth : stack[m].id = stack[n].id => m = n
        /\ \A n \in Depth : Child(n) # None => Child(n) \in Edges(rs[stack[n].id])

\* The search has come from where it starts.
Entered ==
  /\ inspected \cup ({target} \ {None}) \subseteq Around
  /\ root \in inspected \/ (target = root /\ stack = <<>>)
  /\ \E i \in Start : /\ \A n \in Depth : stack[n].id \in Reach(rs, i)
                      /\ target # None => target \in Reach(rs, i)

\* What was checked when a record was entered.
Checked == \A i \in inspected : /\ i \in DOMAIN rs /\ Strict(i, rs[i])
                                /\ i \in InScope => Edges(rs[i]) = {}

\* What has been followed of the record at n is finished, or is being visited.
Followed(n) ==
  LET t == rs[stack[n].id]
      done(e) == e \in Black \/ e = Child(n)
  IN /\ stack[n].spec => t.spec # None
     /\ stack[n].depends \subseteq t.depends
     /\ ~stack[n].spec /\ t.spec # None =>
          t.spec \in DOMAIN rs \ {stack[n].id} /\ rs[t.spec].spec = None /\ done(t.spec)
     /\ \A d \in t.depends \ stack[n].depends : d \in DOMAIN rs \ InScope /\ done(d)

\* What is finished is sound, closed and acyclic.
Finished == /\ \A i \in Black : Sound(rs, InScope, i) /\ Edges(rs[i]) \subseteq Black
            /\ Acyclic(rs, Black)

Searching == /\ TypeOK /\ Path /\ Entered /\ Checked /\ Finished
             /\ \A n \in Depth : Followed(n)

IInv == Searching /\ DecidesValidity

-----------------------------------------------------------------------------
(* What the search moves on.                                                 *)

\* Ids are naturals: a set of them that is not empty has a least one.
LEMMA LeastIn ==
  ASSUME NEW S \in SUBSET Nat, S # {}
  PROVE  Least(S) \in S
<1> DEFINE Less == {ss \in Nat \X Nat : ss[1] < ss[2]}
<1>1. IsWellFoundedOn(Less, Nat)
  BY NatLessThanWellFounded DEF OpToRel
<1>2. PICK x \in S : \A y \in S : ~(<<y, x>> \in Less)
  <2> HIDE DEF Less
  <2> QED BY <1>1, WFMin
<1>3. ASSUME NEW y \in S PROVE x <= y
  <2>1. x \in Nat /\ y \in Nat /\ ~(y < x)
    BY <1>2
  <2> QED BY <2>1
<1> QED BY <1>3 DEF Least

\* Everything the search may come to is an id, and the edges stay there.
LEMMA Grounds ==
  ASSUME TypeOK
  PROVE  /\ DOMAIN rs \subseteq Id /\ None \notin DOMAIN rs
         /\ \A i \in DOMAIN rs : rs[i] \in Task /\ Edges(rs[i]) \subseteq Id
         /\ InScope \subseteq DOMAIN rs /\ Start \subseteq DOMAIN rs
         /\ Around \subseteq Id /\ Start \subseteq Around
         /\ \A i \in Start : i \in Reach(rs, i)
         /\ \A k \in Around \cap DOMAIN rs : Edges(rs[k]) \subseteq Around
         /\ \A i \in Start : \A k \in Reach(rs, i) \cap DOMAIN rs : Edges(rs[k]) \subseteq Reach(rs, i)
<1>1. /\ DOMAIN rs \subseteq Id /\ None \notin DOMAIN rs
      /\ \A i \in DOMAIN rs : rs[i] \in Task /\ Edges(rs[i]) \subseteq Id
  BY RelationsAssumption, EdgesType DEF TypeOK, AreRecords
<1>2. InScope \subseteq DOMAIN rs /\ Start \subseteq DOMAIN rs
  BY DEF TypeOK, InScope, Containers, Start, Members
<1>3. \A i \in Start : /\ i \in Reach(rs, i) /\ Reach(rs, i) \subseteq Id
                      /\ \A k \in Reach(rs, i) \cap DOMAIN rs : Edges(rs[k]) \subseteq Reach(rs, i)
  BY <1>1, <1>2, ReachSelf, ReachClosed DEF TypeOK, Closed
<1> QED BY <1>1, <1>2, <1>3 DEF Around

Good == IF scope THEN ScopeOK(rs, root) ELSE GraphOK(rs, root)

\* In a valid graph or scope everything that can be met is sound and on no cycle.
LEMMA GoodAround ==
  ASSUME TypeOK, Good
  PROVE  /\ \A j \in Around : j \in DOMAIN rs /\ Sound(rs, InScope, j)
         /\ \A i \in Start : Acyclic(rs, Reach(rs, i))
<1>1. CASE scope
  <2>1. ScopeOK(rs, root) /\ InScope = Containers(rs) \cup {root} /\ Start = {root} \cup Members(rs, root)
    BY <1>1 DEF Good, InScope, Start
  <2>2. \A i \in Start : VisitOK(rs, InScope, i)
    BY <2>1 DEF ScopeOK
  <2> QED BY <2>2 DEF VisitOK, Around
<1>2. CASE ~scope
  <2>1. GraphOK(rs, root) /\ InScope = Containers(rs) /\ Start = {root}
    BY <1>2 DEF Good, InScope, Start
  <2>2. \A i \in Start : VisitOK(rs, InScope, i)
    BY <2>1 DEF GraphOK, Valid
  <2> QED BY <2>2 DEF VisitOK, Around
<1> QED BY <1>1, <1>2 DEF TypeOK

\* When the search is over all it has finished is what can be met.
LEMMA AllFinished ==
  ASSUME Searching, target = None, stack = <<>>
  PROVE  /\ inspected = Black /\ Black \subseteq Around /\ root \in Black
         /\ \A i \in Black : i \in Id /\ Reach(rs, i) \subseteq Black /\ VisitOK(rs, InScope, i)
<1>1. \A i \in Id : color[i] # 1
  BY DEF Searching, Path, Depth
<1>2. inspected = Black /\ root \in Black /\ Black \subseteq Around /\ Black \subseteq Id
  BY <1>1, Grounds DEF Searching, TypeOK, Black, Entered
<1>3. \A i \in Black : Reach(rs, i) \subseteq Black
  <2>1. Closed(rs, Black)
    BY DEF Searching, Finished, Closed
  <2> QED BY <1>2, <2>1, ReachLeast
<1>4. \A i \in Black : VisitOK(rs, InScope, i)
  <2>1. Black \subseteq DOMAIN rs
    BY <1>2 DEF Searching, Checked
  <2>2. \A i \in Black : Acyclic(rs, Reach(rs, i))
    BY <1>3 DEF Searching, Finished, Acyclic
  <2> QED BY <1>3, <2>1, <2>2 DEF Searching, Finished, VisitOK
<1> QED BY <1>2, <1>3, <1>4

-----------------------------------------------------------------------------
(* The steps of the search.                                                  *)

\* What stays when the records, the root and the kind of search do.
LEMMA GraphStays ==
  ASSUME UNCHANGED graph
  PROVE  /\ Start' = Start /\ Around' = Around /\ InScope' = InScope /\ Frame' = Frame
         /\ Good' = Good
BY DEF graph, Start, Around, InScope, Frame, Good

\* A step that fails moves nothing.
LEMMA FailStep ==
  ASSUME Searching, UNCHANGED <<graph, search>>
  PROVE  Searching'
<1>1. /\ Start' = Start /\ Around' = Around /\ InScope' = InScope /\ Frame' = Frame
      /\ rs' = rs /\ root' = root /\ scope' = scope
  BY GraphStays DEF graph
<1>2. /\ color' = color /\ inspected' = inspected /\ stack' = stack /\ target' = target
      /\ Black' = Black /\ Depth' = Depth
  BY DEF search, Black, Depth
<1>3. \A n : Child(n)' = Child(n)
  BY <1>2 DEF Child
<1>4. TypeOK' /\ Path'
  BY <1>1, <1>2, <1>3 DEF Searching, TypeOK, Path
<1>5. Entered' /\ Checked' /\ Finished'
  BY <1>1, <1>2 DEF Searching, Entered, Checked, Finished
<1>6. \A n \in Depth : Followed(n)'
  BY <1>1, <1>2, <1>3 DEF Searching, Followed
<1> QED BY <1>2, <1>4, <1>5, <1>6 DEF Searching

\* A target that is finished already is not entered again.
LEMMA KnownStep ==
  ASSUME Searching, target # None, Known
  PROVE  Searching'
<1>1. /\ UNCHANGED <<graph, color, inspected, stack>> /\ target' = None
      /\ target \in Black /\ Black' = Black /\ Depth' = Depth
  BY Grounds DEF Known, Searching, TypeOK, Black, Depth
<1>2. /\ Start' = Start /\ Around' = Around /\ InScope' = InScope /\ Frame' = Frame
      /\ rs' = rs /\ root' = root /\ scope' = scope
  BY <1>1, GraphStays DEF graph
<1>3. TypeOK'
  BY <1>1, <1>2 DEF Searching, TypeOK
<1>4. \A n \in Depth : Child(n)' = IF n = Len(stack) THEN None ELSE Child(n)
  BY <1>1 DEF Child, Depth, Searching, TypeOK
<1>5. Path'
  BY <1>1, <1>2, <1>4 DEF Searching, Path
<1>6. Entered' /\ Checked' /\ Finished'
  <2>1. root \in inspected
    BY <1>1 DEF Searching, Entered, TypeOK, Black
  <2>2. Entered'
    BY <1>1, <1>2, <2>1 DEF Searching, Entered
  <2>3. Checked' /\ Finished'
    BY <1>1, <1>2 DEF Searching, Checked, Finished
  <2> QED BY <2>2, <2>3
<1>7. ASSUME NEW n \in Depth PROVE Followed(n)'
  <2>1. \A e : (e \in Black \/ e = Child(n)) /\ e \in DOMAIN rs => e \in Black \/ e = Child(n)'
    BY <1>1, <1>4 DEF Child, Searching, TypeOK, Depth
  <2> QED BY <1>1, <1>2, <2>1 DEF Searching, Followed
<1> QED BY <1>1, <1>3, <1>5, <1>6, <1>7 DEF Searching

\* Entering a target extends the path from the root by it.
LEMMA EnterStep ==
  ASSUME Searching, target # None, Enter
  PROVE  Searching'
<1>0. PICK L \in Nat : L = Len(stack)
  BY DEF Searching, TypeOK
<1> DEFINE f == [id |-> target, spec |-> rs[target].spec # None, depends |-> rs[target].depends]
<1>1. /\ target \in DOMAIN rs /\ target \in Id /\ rs[target] \in Task
      /\ color[target] = 0 /\ target' = None /\ UNCHANGED graph
      /\ stack \in Seq(Frame) /\ f \in Frame /\ stack' = Append(stack, f)
      /\ color' = [color EXCEPT ![target] = 1]
      /\ inspected' = inspected \cup {target}
      /\ Strict(target, rs[target]) /\ (target \in InScope => Edges(rs[target]) = {})
  <2>1. target \in DOMAIN rs /\ target \in Id /\ rs[target] \in Task
    BY Grounds DEF Searching, TypeOK
  <2>2. f \in Frame
    BY <2>1 DEF Frame, Task
  <2> QED BY <2>1, <2>2 DEF Enter, Searching, TypeOK
<1>2. /\ Start' = Start /\ Around' = Around /\ InScope' = InScope /\ Frame' = Frame
      /\ rs' = rs /\ root' = root /\ scope' = scope
  BY <1>1, GraphStays DEF graph
<1>3. /\ stack' \in Seq(Frame) /\ Len(stack') = L + 1 /\ Depth' = Depth \cup {L + 1}
      /\ stack'[L + 1] = f /\ \A n \in Depth : stack'[n] = stack[n]
  <2> HIDE DEF f
  <2> QED BY <1>0, <1>1 DEF Depth
<1>4. /\ \A i \in Id : color'[i] = IF i = target THEN 1 ELSE color[i]
      /\ color' \in [Id -> 0 .. 2] /\ color \in [Id -> 0 .. 2]
  BY <1>1 DEF Searching, TypeOK
<1>5. Black' = Black
  BY <1>1, <1>4 DEF Black
<1>6. /\ \A n \in Depth : Child(n)' = Child(n)
      /\ Child(L + 1)' = None
  <2>1. Child(L + 1)' = None
    BY <1>0, <1>1, <1>3 DEF Child
  <2>2. ASSUME NEW n \in Depth PROVE Child(n)' = Child(n)
    <3>1. n \in Nat /\ n <= L /\ n < L + 1 /\ n + 1 \in 2 .. L + 1
      BY <1>0 DEF Depth
    <3>2. Child(n)' = stack'[n + 1].id
      BY <1>3, <3>1 DEF Child
    <3>3. CASE n = L
      BY <1>0, <1>3, <3>2, <3>3 DEF Child
    <3>4. CASE n < L
      BY <1>0, <1>3, <3>1, <3>2, <3>4 DEF Child, Depth
    <3> QED BY <3>1, <3>3, <3>4
  <2> QED BY <2>1, <2>2
<1>7. TypeOK'
  <2>1. inspected' = {i \in Id : color'[i] # 0}
    BY <1>1, <1>4 DEF Searching, TypeOK
  <2> QED BY <1>1, <1>2, <1>3, <1>4, <2>1 DEF Searching, TypeOK
<1>8. Path'
  <2>0. \A n \in Depth : stack[n] \in Frame
    BY <1>1 DEF Depth
  <2>1. \A n \in Depth : color[stack[n].id] = 1 /\ stack[n].id \in Id /\ stack[n].id # target
    BY <1>1, <2>0, Grounds DEF Searching, Path, Frame
  <2>2. \A n \in Depth' : color'[stack'[n].id] = 1
    <3> SUFFICES ASSUME NEW n \in Depth' PROVE color'[stack'[n].id] = 1
        OBVIOUS
    <3>1. n = L + 1 => stack'[n].id = target
      BY <1>3
    <3>2. n \in Depth => stack'[n].id = stack[n].id
      BY <1>3
    <3> HIDE DEF f
    <3> QED BY <1>1, <1>3, <1>4, <2>1, <3>1, <3>2
  <2>3. \A i \in Id : color'[i] = 1 => \E n \in Depth' : stack'[n].id = i
    <3> SUFFICES ASSUME NEW i \in Id, color'[i] = 1 PROVE \E n \in Depth' : stack'[n].id = i
        OBVIOUS
    <3>1. CASE i = target
      BY <1>3, <3>1
    <3>2. CASE i # target
      BY <1>3, <1>4, <3>2 DEF Searching, Path
    <3> QED BY <3>1, <3>2
  <2>4. \A m, n \in Depth' : stack'[m].id = stack'[n].id => m = n
    BY <1>3, <2>1 DEF Searching, Path
  <2>5. \A n \in Depth' : Child(n)' # None => Child(n)' \in Edges(rs[stack'[n].id])
    BY <1>3, <1>6 DEF Searching, Path
  <2> QED BY <1>2, <2>2, <2>3, <2>4, <2>5 DEF Path
<1>9. Entered'
  <2>1. inspected' \cup ({target'} \ {None}) \subseteq Around
    BY <1>1 DEF Searching, Entered
  <2>2. root \in inspected'
    BY <1>1 DEF Searching, Entered
  <2>3. PICK i \in Start : /\ \A n \in Depth : stack[n].id \in Reach(rs, i)
                         /\ target \in Reach(rs, i)
    BY <1>1, Grounds DEF Searching, Entered, TypeOK
  <2>4. \A n \in Depth' : stack'[n].id \in Reach(rs, i)
    BY <1>3, <2>3
  <2> QED BY <1>1, <1>2, <2>1, <2>2, <2>4 DEF Entered
<1>10. Checked'
  BY <1>1, <1>2 DEF Searching, Checked
<1>11. Finished'
  BY <1>2, <1>5 DEF Searching, Finished
<1>12. \A n \in Depth' : Followed(n)'
  <2>1. ASSUME NEW n \in Depth PROVE Followed(n)'
    BY <1>2, <1>3, <1>5, <1>6 DEF Searching, Followed
  <2>2. Followed(L + 1)'
    <3>1. /\ stack'[L + 1].id = target /\ stack'[L + 1].depends = rs[target].depends
          /\ stack'[L + 1].spec = (rs[target].spec # None)
      BY <1>3
    <3> HIDE DEF f
    <3> QED BY <1>2, <3>1 DEF Followed
  <2> QED BY <1>3, <2>1, <2>2
<1> QED BY <1>7, <1>8, <1>9, <1>10, <1>11, <1>12 DEF Searching

\* An edge is followed from the record on top of the stack, of which everything that was
\* followed before is finished.
LEMMA FollowStep ==
  ASSUME Searching, target = None, stack # <<>>,
         NEW next \in DOMAIN rs, NEW f \in Frame, f.id = Top.id, next \in Edges(rs[f.id]),
         Follow(next, f),
         f.spec => rs[f.id].spec # None,
         f.depends \subseteq rs[f.id].depends,
         ~f.spec /\ rs[f.id].spec # None =>
           LET s == rs[f.id].spec IN
           s \in DOMAIN rs \ {f.id} /\ rs[s].spec = None /\ s \in Black \cup {next},
         \A d \in rs[f.id].depends \ f.depends : d \in DOMAIN rs \ InScope /\ d \in Black \cup {next}
  PROVE  Searching'
<1>0. PICK L \in Nat : L = Len(stack) /\ L > 0
  BY EmptySeq DEF Searching, TypeOK
<1>1. /\ UNCHANGED <<graph, color, inspected>> /\ target' = next /\ next # None
      /\ stack \in Seq(Frame) /\ stack' = [stack EXCEPT ![L] = f] /\ Black' = Black
  BY <1>0, Grounds DEF Follow, Searching, TypeOK, Black
<1>2. /\ Start' = Start /\ Around' = Around /\ InScope' = InScope /\ Frame' = Frame
      /\ rs' = rs /\ root' = root /\ scope' = scope
  BY <1>1, GraphStays DEF graph
<1>3. /\ stack' \in Seq(Frame) /\ Len(stack') = L /\ Depth' = Depth /\ L \in Depth
      /\ stack'[L] = f /\ \A n \in Depth \ {L} : stack'[n] = stack[n]
  BY <1>0, <1>1, ExceptSeq DEF Depth
<1>4. \A n \in Depth : stack'[n].id = stack[n].id
  BY <1>0, <1>3 DEF Top, Last
<1>5. /\ \A n \in Depth \ {L} : Child(n)' = Child(n)
      /\ Child(L)' = next
  <2>1. Child(L)' = next
    BY <1>0, <1>1, <1>3 DEF Child
  <2>2. ASSUME NEW n \in Depth \ {L} PROVE Child(n)' = Child(n)
    <3>1. n + 1 \in Depth /\ n < L
      BY <1>0 DEF Depth
    <3> QED BY <1>0, <1>3, <1>4, <3>1 DEF Child
  <2> QED BY <2>1, <2>2
<1>6. TypeOK'
  BY <1>1, <1>2, <1>3 DEF Searching, TypeOK
<1>7. Path'
  <2>1. \A n \in Depth : Child(n)' # None => Child(n)' \in Edges(rs[stack[n].id])
    BY <1>0, <1>3, <1>5 DEF Searching, Path, Top, Last
  <2> QED BY <1>1, <1>2, <1>3, <1>4, <2>1 DEF Searching, Path
<1>8. Entered'
  <2>1. root \in inspected
    BY DEF Searching, Entered
  <2>2. PICK i \in Start : \A n \in Depth : stack[n].id \in Reach(rs, i)
    BY DEF Searching, Entered
  <2>3. f.id \in Reach(rs, i) /\ f.id \in DOMAIN rs
    BY <1>3, <1>4, <2>2 DEF Frame
  <2>4. next \in Reach(rs, i)
    BY <2>3, Grounds DEF Searching
  <2>5. inspected \cup {next} \subseteq Around
    BY <2>4 DEF Searching, Entered, Around
  <2> QED BY <1>1, <1>2, <1>3, <1>4, <2>1, <2>2, <2>4, <2>5 DEF Entered
<1>9. Checked' /\ Finished'
  BY <1>1, <1>2 DEF Searching, Checked, Finished
<1>10. ASSUME NEW n \in Depth PROVE Followed(n)'
  <2>1. CASE n = L
    BY <1>1, <1>2, <1>3, <1>5, <2>1 DEF Followed
  <2>2. CASE n # L
    BY <1>1, <1>2, <1>3, <1>5, <2>2 DEF Searching, Followed
  <2> QED BY <2>1, <2>2
<1> QED BY <1>3, <1>6, <1>7, <1>8, <1>9, <1>10 DEF Searching

\* What is known of the record on top while none is being visited below it.
LEMMA OnTop ==
  ASSUME Searching, target = None, stack # <<>>
  PROVE  LET t == rs[Top.id] IN
         /\ Top \in Frame /\ t \in Task /\ Top.id \in inspected /\ Top.id \in Around /\ color[Top.id] = 1
         /\ Top.spec => t.spec # None
         /\ Top.depends \subseteq t.depends
         /\ ~Top.spec /\ t.spec # None =>
              t.spec \in DOMAIN rs \ {Top.id} /\ rs[t.spec].spec = None /\ t.spec \in Black
         /\ \A d \in t.depends \ Top.depends : d \in DOMAIN rs \ InScope /\ d \in Black
<1>0. PICK L \in Nat : L = Len(stack) /\ L > 0
  BY EmptySeq DEF Searching, TypeOK
<1>1. L \in Depth /\ Top = stack[L] /\ Child(L) = None
  BY <1>0 DEF Depth, Top, Last, Child
<1>2. /\ Top \in Frame /\ Top.id \in DOMAIN rs /\ Top.id \in Id /\ rs[Top.id] \in Task
      /\ color[Top.id] = 1
  <2>1. Top \in Frame
    BY <1>1 DEF Searching, TypeOK, Depth
  <2> QED BY <1>1, <2>1, Grounds DEF Searching, Path, Frame
<1>3. Top.id \in inspected /\ Top.id \in Around
  BY <1>2 DEF Searching, TypeOK, Entered
<1>4. Followed(L)
  BY <1>1 DEF Searching
<1> QED BY <1>1, <1>2, <1>3, <1>4, Grounds DEF Followed, Searching

\* Following the edge to the specification, once it was checked.
LEMMA SpecEdgeStep ==
  ASSUME Searching, SpecEdge, ~BadSpec(Top.id, rs[Top.id].spec),
         Follow(rs[Top.id].spec, [Top EXCEPT !.spec = FALSE])
  PROVE  Searching'
<1> DEFINE s == rs[Top.id].spec
           f == [Top EXCEPT !.spec = FALSE]
<1>1. target = None /\ stack # <<>> /\ Top.spec
  BY DEF SpecEdge
<1>2. s \in DOMAIN rs \ {Top.id} /\ rs[s].spec = None /\ s # None /\ s \in Edges(rs[Top.id])
  BY <1>1, OnTop DEF BadSpec, Edges
<1>3. f \in Frame /\ f.id = Top.id /\ f.spec = FALSE /\ f.depends = Top.depends
  BY <1>1, OnTop DEF Frame
<1> HIDE DEF f
<1>4. Follow(s, f)
  BY DEF f
<1> QED BY <1>1, <1>2, <1>3, <1>4, OnTop, FollowStep

\* Following the edge to the least prerequisite left, once it was checked.
LEMMA DependsEdgeStep ==
  ASSUME Searching, DependsEdge,
         Least(Top.depends) \in DOMAIN rs \ InScope,
         Follow(Least(Top.depends), [Top EXCEPT !.depends = @ \ {Least(Top.depends)}])
  PROVE  Searching'
<1> DEFINE d == Least(Top.depends)
           f == [Top EXCEPT !.depends = @ \ {d}]
<1>1. target = None /\ stack # <<>> /\ ~Top.spec /\ Top.depends # {}
  BY DEF DependsEdge
<1>2. Top \in Frame /\ Top.depends \subseteq rs[Top.id].depends /\ Top.depends \in SUBSET Nat
  BY <1>1, OnTop, VisitAssumption DEF Frame
<1>3. d \in Top.depends
  BY <1>1, <1>2, LeastIn
<1> HIDE DEF d
<1>4. /\ f \in Frame /\ f.id = Top.id /\ f.spec = Top.spec
      /\ f.depends = Top.depends \ {d}
  BY <1>2 DEF Frame
<1>5. d \in DOMAIN rs \ InScope /\ Follow(d, f)
  BY DEF d
<1> HIDE DEF f
<1>6. d \in Edges(rs[Top.id])
  BY <1>2, <1>3 DEF Edges
<1> QED BY <1>1, <1>2, <1>3, <1>4, <1>5, <1>6, OnTop, FollowStep

\* A record all of whose edges have been followed is finished.
LEMMA ReturnStep ==
  ASSUME Searching, Return
  PROVE  Searching'
<1>0. PICK L \in Nat : L = Len(stack) /\ L > 0
  BY EmptySeq DEF Searching, TypeOK, Return
<1> DEFINE Depths == 1 .. L - 1
<1>1. PICK i \in Id : i = Top.id /\ i = stack[L].id /\ i \in DOMAIN rs
  BY <1>0, OnTop, Grounds DEF Return, Frame, Searching, Top, Last
<1>2. /\ UNCHANGED <<graph, inspected, target>> /\ target = None
      /\ stack \in Seq(Frame) /\ stack' = SubSeq(stack, 1, L - 1)
      /\ color' = [color EXCEPT ![i] = 2] /\ color \in [Id -> 0 .. 2]
  BY <1>0, <1>1 DEF Return, Front, Searching, TypeOK
<1>3. /\ Start' = Start /\ Around' = Around /\ InScope' = InScope /\ Frame' = Frame
      /\ rs' = rs /\ root' = root /\ scope' = scope
  BY <1>2, GraphStays DEF graph
<1>4. /\ stack' \in Seq(Frame) /\ Len(stack') = L - 1 /\ Depth' = Depths
      /\ Depth = Depths \cup {L} /\ L \notin Depths
      /\ \A n \in Depths : stack'[n] = stack[n]
  BY <1>0, <1>2 DEF Depth
<1>5. /\ \A k \in Id : color'[k] = IF k = i THEN 2 ELSE color[k]
      /\ color' \in [Id -> 0 .. 2] /\ Black' = Black \cup {i}
      /\ color[i] = 1 /\ i \in inspected
  <2>1. color[i] = 1 /\ i \in inspected
    BY <1>1, OnTop DEF Return
  <2> QED BY <1>2, <2>1 DEF Black
<1>6. \A n \in Depths : Child(n)' = Child(n) \/ (Child(n)' = None /\ Child(n) = i)
  <2> SUFFICES ASSUME NEW n \in Depths
               PROVE  Child(n)' = Child(n) \/ (Child(n)' = None /\ Child(n) = i)
      OBVIOUS
  <2>1. CASE n = L - 1
    BY <1>0, <1>1, <1>2, <1>4, <2>1 DEF Child
  <2>2. CASE n < L - 1
    <3>1. n + 1 \in Depths
      BY <1>0, <2>2
    <3> QED BY <1>0, <1>4, <2>2, <3>1 DEF Child
  <2> QED BY <1>0, <2>1, <2>2
<1>7. TypeOK'
  <2>1. inspected' = {k \in Id : color'[k] # 0}
    BY <1>2, <1>5 DEF Searching, TypeOK
  <2> QED BY <1>2, <1>3, <1>4, <1>5, <2>1 DEF Searching, TypeOK
<1>8. Path'
  <2>1. \A n \in Depths : stack[n].id # i /\ stack[n].id \in Id
    <3>1. \A n \in Depths : stack[n] \in Frame
      BY <1>2, <1>4 DEF Depth
    <3> QED BY <1>1, <1>4, <3>1, Grounds DEF Searching, Path, Frame
  <2>2. \A n \in Depths : color'[stack'[n].id] = 1
    BY <1>4, <1>5, <2>1 DEF Searching, Path
  <2>3. \A k \in Id : color'[k] = 1 => \E n \in Depths : stack'[n].id = k
    BY <1>1, <1>4, <1>5 DEF Searching, Path
  <2>4. \A m, n \in Depths : stack'[m].id = stack'[n].id => m = n
    BY <1>4 DEF Searching, Path
  <2>5. \A n \in Depths : Child(n)' # None => Child(n)' \in Edges(rs[stack'[n].id])
    BY <1>4, <1>6 DEF Searching, Path
  <2> QED BY <1>3, <1>4, <2>2, <2>3, <2>4, <2>5 DEF Path
<1>9. Entered'
  <2>1. root \in inspected
    BY DEF Searching, Entered, Return
  <2>2. PICK k \in Start : \A n \in Depth : stack[n].id \in Reach(rs, k)
    BY DEF Searching, Entered
  <2>3. \A n \in Depths : stack'[n].id \in Reach(rs, k)
    BY <1>4, <2>2
  <2>4. inspected \subseteq Around
    BY DEF Searching, Entered
  <2> QED BY <1>2, <1>3, <1>4, <2>1, <2>3, <2>4 DEF Entered
<1>10. Checked'
  BY <1>2, <1>3 DEF Searching, Checked
<1>11. Finished'
  <2> DEFINE t == rs[i]
  <2>1. /\ t \in Task /\ Strict(i, t) /\ (i \in InScope => Edges(t) = {})
        /\ t.spec # None => t.spec \in DOMAIN rs \ {i} /\ rs[t.spec].spec = None /\ t.spec \in Black
        /\ \A d \in t.depends : d \in DOMAIN rs \ InScope /\ d \in Black
    BY <1>1, OnTop DEF Searching, Checked, Return
  <2>2. Edges(t) \subseteq Black
    BY <2>1 DEF Edges
  <2>3. Sound(rs, InScope, i)
    BY <2>1 DEF Sound
  <2>4. i \notin Black
    BY <1>5 DEF Black
  <2>5. \A k \in Black \cup {i} : Sound(rs, InScope, k) /\ Edges(rs[k]) \subseteq Black \cup {i}
    BY <2>2, <2>3 DEF Searching, Finished
  <2>6. Acyclic(rs, Black \cup {i})
    <3> SUFFICES ASSUME NEW T \in SUBSET (Black \cup {i}), T # {}
                 PROVE  \E k \in T : Edges(rs[k]) \cap T = {}
        BY DEF Acyclic
    <3>1. CASE T \cap Black = {}
      <4>1. T = {i}
        BY <3>1
      <4> QED BY <2>2, <2>4, <4>1
    <3>2. CASE T \cap Black # {}
      <4>1. Acyclic(rs, Black) /\ \A k \in Black : Edges(rs[k]) \subseteq Black
        BY DEF Searching, Finished
      <4>2. PICK k \in T \cap Black : Edges(rs[k]) \cap (T \cap Black) = {}
        BY <3>2, <4>1, AcyclicFirst
      <4> QED BY <4>1, <4>2
    <3> QED BY <3>1, <3>2
  <2> QED BY <1>3, <1>5, <2>5, <2>6 DEF Finished
<1>12. \A n \in Depths : Followed(n)'
  <2> SUFFICES ASSUME NEW n \in Depths PROVE Followed(n)'
      OBVIOUS
  <2>1. \A e : (e \in Black \/ e = Child(n)) /\ e \in DOMAIN rs => e \in Black' \/ e = Child(n)'
    BY <1>5, <1>6
  <2> QED BY <1>3, <1>4, <2>1 DEF Searching, Followed
<1> QED BY <1>4, <1>7, <1>8, <1>9, <1>10, <1>11, <1>12 DEF Searching

\* In a scope the search goes on with a member that has not been met.
LEMMA MemberStep ==
  ASSUME Searching, target = None, stack = <<>>, scope, NEW next \in Members(rs, root),
         target' = next, UNCHANGED <<graph, color, inspected, stack>>
  PROVE  Searching'
<1>1. next \in DOMAIN rs /\ next \in Start /\ next \in Reach(rs, next) /\ next \in Around
  BY Grounds DEF Searching, Start, Members
<1>2. /\ Start' = Start /\ Around' = Around /\ InScope' = InScope /\ Frame' = Frame
      /\ rs' = rs /\ root' = root /\ scope' = scope
  BY GraphStays DEF graph
<1>3. Depth = {} /\ Depth' = {} /\ Black' = Black
  BY DEF Depth, Black
<1>4. TypeOK'
  BY <1>1, <1>2 DEF Searching, TypeOK
<1>5. Path'
  BY <1>2, <1>3 DEF Searching, Path
<1>6. Entered'
  <2>1. root \in inspected /\ inspected \subseteq Around
    BY Grounds DEF Searching, Entered, TypeOK
  <2> QED BY <1>1, <1>2, <1>3, <2>1 DEF Entered
<1>7. Checked' /\ Finished'
  BY <1>2, <1>3 DEF Searching, Checked, Finished
<1> QED BY <1>3, <1>4, <1>5, <1>6, <1>7 DEF Searching

-----------------------------------------------------------------------------
(* The verdict.                                                              *)

\* A missing or unsound record that can be met makes the graph or scope invalid.
LEMMA Rejects ==
  ASSUME Searching, NEW j \in Around, ~(j \in DOMAIN rs /\ Sound(rs, InScope, j))
  PROVE  ~Good
BY GoodAround DEF Searching

\* A search that has finished everything and found nothing is right to accept, and has met
\* exactly what there is to meet.
LEMMA AcceptsGraph ==
  ASSUME Searching, target = None, stack = <<>>, ~scope
  PROVE  /\ inspected = Reach(rs, root)
         /\ Good <=> \A j \in DOMAIN rs : rs[j].depends \cap InScope \cap inspected = {}
<1>1. InScope = Containers(rs) /\ Around = Reach(rs, root) /\ root \in DOMAIN rs
  BY DEF InScope, Around, Start, Searching, TypeOK
<1>2. inspected = Reach(rs, root) /\ VisitOK(rs, InScope, root)
  BY <1>1, AllFinished
<1>3. Good <=> (UNION {rs[j].depends : j \in DOMAIN rs}) \cap InScope \cap inspected = {}
  BY <1>1, <1>2 DEF Good, GraphOK, Valid
<1> QED BY <1>2, <1>3

\* With a scope, the search that ends has been everywhere the container and its members lead.
LEMMA AcceptsScope ==
  ASSUME Searching, target = None, stack = <<>>, scope, \A i \in Members(rs, root) : color[i] = 2
  PROVE  inspected = Inspected(rs, root) /\ Good
<1>1. InScope = Containers(rs) \cup {root} /\ Start = {root} \cup Members(rs, root) /\ root \in DOMAIN rs
  BY DEF InScope, Start, Searching, TypeOK
<1>2. Start \subseteq Black
  BY <1>1, AllFinished, Grounds DEF Black, Searching, Members
<1>3. \A i \in Start : VisitOK(rs, InScope, i) /\ Reach(rs, i) \subseteq Black
  BY <1>2, AllFinished
<1>4. ASSUME NEW i \in Members(rs, root) PROVE i \notin InScope
  <2>1. i \in inspected /\ rs[i].spec = root /\ root # None
    BY <1>1, <1>2, AllFinished, Grounds DEF Members, Searching
  <2> QED BY <2>1 DEF Searching, Checked, Edges
<1>5. Good
  BY <1>1, <1>3, <1>4 DEF Good, ScopeOK
<1>6. Around = Inspected(rs, root)
  BY <1>1 DEF Around, Inspected
<1>7. inspected = Around
  BY <1>3, AllFinished DEF Around
<1> QED BY <1>5, <1>6, <1>7

\* A record met again while it is on the stack is on a cycle: the stack from there on.
LEMMA CycleFound ==
  ASSUME Searching, target # None, color[target] = 1
  PROVE  ~Good
<1>0. PICK L \in Nat : L = Len(stack)
  BY DEF Searching, TypeOK
<1>1. PICK m \in 1 .. L : stack[m].id = target
  BY <1>0, Grounds DEF Searching, Path, TypeOK, Depth
<1> DEFINE T == {stack[n].id : n \in m .. L}
<1>2. \A k \in T : Edges(rs[k]) \cap T # {}
  <2> SUFFICES ASSUME NEW n \in m .. L PROVE \E e \in T : e \in Edges(rs[stack[n].id])
      OBVIOUS
  <2>1. n \in Depth
    BY <1>0 DEF Depth
  <2>2. Child(n) \in T
    <3>1. CASE n = L
      BY <1>0, <1>1, <3>1 DEF Child
    <3>2. CASE n < L
      <4>1. n + 1 \in m .. L
        BY <3>2
      <4> QED BY <1>0, <3>2, <4>1 DEF Child
    <3> QED BY <3>1, <3>2
  <2>3. Child(n) # None
    <3>1. n < L => n + 1 \in Depth /\ stack[n + 1] \in Frame
      BY <1>0 DEF Depth, Searching, TypeOK
    <3> QED BY <1>0, <3>1, Grounds DEF Child, Frame, Searching
  <2> QED BY <2>1, <2>2, <2>3 DEF Searching, Path
<1>3. PICK i \in Start : T \subseteq Reach(rs, i)
  <2>1. m .. L \subseteq Depth
    BY <1>0 DEF Depth
  <2> QED BY <2>1 DEF Searching, Entered
<1>4. ~Acyclic(rs, Reach(rs, i))
  <2>1. stack[m].id \in T
    OBVIOUS
  <2> HIDE DEF T
  <2> QED BY <1>2, <1>3, <2>1, AcyclicFirst
<1> QED BY <1>4, GoodAround DEF Searching

\* And what is listed is that cycle.
LEMMA CycleListed ==
  ASSUME Searching, target # None, Cycle
  PROVE  /\ Len(cycle') > 1 /\ Head(cycle') = Last(cycle')
         /\ \A n \in 1 .. Len(cycle') - 1 : cycle'[n + 1] \in Edges(rs[cycle'[n]])
         /\ IsInjective(Tail(cycle'))
<1>0. PICK L \in Nat : L = Len(stack)
  BY DEF Searching, TypeOK
<1> DEFINE ids == [n \in 1 .. Len(stack) |-> stack[n].id]
           m == CHOOSE n \in 1 .. Len(ids) : ids[n] = target
<1>1. /\ Depth = 1 .. L /\ \A n \in 1 .. L : stack[n].id \in Id
      /\ \E n \in 1 .. L : stack[n].id = target
  <2>1. Depth = 1 .. L /\ \A n \in 1 .. L : stack[n] \in Frame
    BY <1>0 DEF Searching, TypeOK, Depth
  <2> QED BY <2>1, Grounds DEF Searching, Path, TypeOK, Frame, Cycle
<1>2. ids \in Seq(Id) /\ Len(ids) = L /\ \A n \in 1 .. L : ids[n] = stack[n].id
  BY <1>0, <1>1
<1>3. m \in 1 .. L /\ stack[m].id = target
  BY <1>1, <1>2
<1>4. cycle' = SubSeq(ids, m, L) \o <<target>>
  BY <1>2 DEF Cycle, CycleFrom
<1> HIDE DEF ids, m
<1>5. PICK K \in Nat : K = L - m + 1 /\ K > 0
  BY <1>3
<1>6. /\ SubSeq(ids, m, L) \in Seq(Id) /\ Len(SubSeq(ids, m, L)) = K
      /\ \A n \in 1 .. K : SubSeq(ids, m, L)[n] = ids[m + n - 1]
  BY <1>2, <1>3, <1>5
<1>7. /\ cycle' \in Seq(Id) /\ Len(cycle') = K + 1 /\ cycle'[K + 1] = target
      /\ \A n \in 1 .. K : cycle'[n] = ids[m + n - 1]
  <2>1. <<target>> \in Seq(Id) /\ target \in Id
    BY Grounds DEF Searching, TypeOK
  <2> HIDE DEF ids
  <2> QED BY <1>4, <1>5, <1>6, <2>1, ConcatProperties
<1>8. \A n \in 1 .. K : m + n - 1 \in 1 .. L /\ cycle'[n] = stack[m + n - 1].id
  BY <1>2, <1>3, <1>5, <1>7
<1>9. Len(cycle') > 1 /\ Head(cycle') = Last(cycle')
  <2>1. cycle'[1] = target
    BY <1>3, <1>5, <1>8
  <2> QED BY <1>5, <1>7, <2>1 DEF Last
<1>10. ASSUME NEW n \in 1 .. Len(cycle') - 1 PROVE cycle'[n + 1] \in Edges(rs[cycle'[n]])
  <2>1. n \in 1 .. K /\ m + n - 1 \in Depth /\ cycle'[n] = stack[m + n - 1].id
    BY <1>1, <1>5, <1>7, <1>8
  <2>2. cycle'[n + 1] = Child(m + n - 1)
    <3>1. CASE n = K
      BY <1>0, <1>3, <1>5, <1>7, <3>1 DEF Child
    <3>2. CASE n < K
      <4>1. n + 1 \in 1 .. K /\ m + n - 1 < L /\ m + (n + 1) - 1 = (m + n - 1) + 1
        BY <1>3, <1>5, <3>2
      <4> QED BY <1>0, <1>8, <4>1 DEF Child
    <3> QED BY <1>5, <2>1, <3>1, <3>2
  <2>3. cycle'[n + 1] # None
    <3>1. n + 1 \in 1 .. K + 1
      BY <2>1
    <3> QED BY <1>7, <3>1, RelationsAssumption
  <2> QED BY <2>1, <2>2, <2>3 DEF Searching, Path
<1>11. IsInjective(Tail(cycle'))
  <2>1. /\ Tail(cycle') \in Seq(Id) /\ Len(Tail(cycle')) = K
        /\ \A n \in 1 .. K : Tail(cycle')[n] = cycle'[n + 1]
    BY <1>5, <1>7
  <2>2. \A a \in 1 .. K : \E n \in 1 .. L : /\ Tail(cycle')[a] = stack[n].id
                                         /\ n = IF a = K THEN m ELSE m + a
    <3> SUFFICES ASSUME NEW a \in 1 .. K
                 PROVE  \E n \in 1 .. L : /\ Tail(cycle')[a] = stack[n].id
                                         /\ n = IF a = K THEN m ELSE m + a
        OBVIOUS
    <3>1. CASE a = K
      BY <1>3, <1>7, <2>1, <3>1
    <3>2. CASE a # K
      <4>1. a + 1 \in 1 .. K /\ m + (a + 1) - 1 = m + a
        BY <1>3, <1>5, <3>2
      <4> QED BY <1>8, <2>1, <3>2, <4>1
    <3> QED BY <3>1, <3>2
  <2>3. \A j, n \in 1 .. L : stack[j].id = stack[n].id => j = n
    BY <1>1 DEF Searching, Path
  <2>4. ASSUME NEW a \in 1 .. K, NEW b \in 1 .. K, Tail(cycle')[a] = Tail(cycle')[b]
        PROVE  a = b
    <3>1. (IF a = K THEN m ELSE m + a) = (IF b = K THEN m ELSE m + b)
      BY <2>2, <2>3, <2>4
    <3> QED BY <1>3, <3>1
  <2> QED BY <2>1, <2>4 DEF IsInjective
<1> QED BY <1>9, <1>10, <1>11

-----------------------------------------------------------------------------

\* The search starts with nothing known.
LEMMA InitSearching ==
  ASSUME Init
  PROVE  IInv
<1>1. PICK d \in [Id -> Found \cup {Missing}] :
         rs = [i \in {j \in Id : d[j] # Missing} |-> d[i]]
  BY DEF Init
<1>2. AreRecords(rs)
  BY <1>1, VisitAssumption DEF AreRecords
<1>3. /\ root \in DOMAIN rs /\ scope \in BOOLEAN /\ color = [i \in Id |-> 0] /\ inspected = {}
      /\ stack = <<>> /\ target = root /\ outcome = "running"
  BY DEF Init
<1>4. TypeOK
  BY <1>2, <1>3, EmptySeq DEF TypeOK
<1>5. Depth = {} /\ Black = {}
  BY <1>3 DEF Depth, Black
<1>6. Path /\ Checked /\ Finished
  BY <1>3, <1>5 DEF Path, Checked, Finished, Acyclic
<1>7. Entered
  <2>1. root \in Start
    BY DEF Start
  <2> QED BY <1>3, <1>4, <1>5, <2>1, Grounds DEF Entered
<1>8. DecidesValidity
  BY <1>3 DEF DecidesValidity
<1> QED BY <1>4, <1>5, <1>6, <1>7, <1>8 DEF Searching, IInv

\* A refusal is right when the graph or scope is invalid.
LEMMA RefusedRightly ==
  ASSUME Searching, ~Good, UNCHANGED <<graph, search>>,
         outcome' \in {"invalid_task", "invalid_relationship", "missing_dependency"}
  PROVE  Searching' /\ DecidesValidity'
<1>1. Searching' /\ ~Good'
  BY FailStep, GraphStays
<1>2. outcome' \notin {"running", "ok", "dependency_cycle"}
  OBVIOUS
<1> QED BY <1>1, <1>2 DEF DecidesValidity, Good

\* A step to a target finds it known, missing, on the path, or enters it.
LEMMA VisitStep ==
  ASSUME Searching, outcome = "running", Visit
  PROVE  Searching' /\ DecidesValidity'
<1>0. target \in DOMAIN rs /\ target \in Around /\ target # None
  BY DEF Visit, Searching, TypeOK, Entered
<1>1. CASE Known
  <2>1. outcome' = "running"
    BY <1>1 DEF Known
  <2> QED BY <1>0, <1>1, <2>1, KnownStep DEF DecidesValidity
<1>2. CASE Cycle
  <2>1. ~Good /\ UNCHANGED <<graph, search>> /\ outcome' = "dependency_cycle"
    BY <1>0, <1>2, CycleFound DEF Cycle, Fail
  <2>2. Searching' /\ ~Good' /\ rs' = rs
    BY <2>1, FailStep, GraphStays DEF graph
  <2>3. /\ Len(cycle') > 1 /\ Head(cycle') = Last(cycle')
        /\ \A n \in 1 .. Len(cycle') - 1 : cycle'[n + 1] \in Edges(rs[cycle'[n]])
        /\ IsInjective(Tail(cycle'))
    BY <1>0, <1>2, CycleListed
  <2> QED BY <2>1, <2>2, <2>3 DEF DecidesValidity, Good
<1>3. CASE Refuse
  <2>1. ~Sound(rs, InScope, target)
    BY <1>3 DEF Refuse, Sound
  <2>2. ~Good
    BY <1>0, <2>1, Rejects
  <2>3. UNCHANGED <<graph, search>> /\ outcome' \in {"invalid_task", "invalid_relationship"}
    BY <1>3 DEF Refuse, Fail
  <2> QED BY <2>2, <2>3, RefusedRightly
<1>4. CASE Enter
  <2>1. outcome' = "running"
    BY <1>4 DEF Enter
  <2> QED BY <1>0, <1>4, <2>1, EnterStep DEF DecidesValidity
<1> QED BY <1>1, <1>2, <1>3, <1>4 DEF Visit

\* A step along an edge refuses the edge or follows it.
LEMMA EdgeStep ==
  ASSUME Searching, outcome = "running", SpecEdge \/ DependsEdge
  PROVE  Searching' /\ DecidesValidity'
<1>0. target = None /\ stack # <<>> /\ Top \in Frame /\ rs[Top.id] \in Task /\ Top.id \in Around
      /\ (Top.spec => rs[Top.id].spec # None) /\ Top.depends \subseteq rs[Top.id].depends
  BY OnTop DEF SpecEdge, DependsEdge
<1>1. CASE SpecEdge
  <2> DEFINE s == rs[Top.id].spec
  <2>1. Top.spec /\ s # None
    BY <1>0, <1>1 DEF SpecEdge
  <2>2. CASE BadSpec(Top.id, s) /\ Fail("invalid_relationship")
    <3>1. ~Sound(rs, InScope, Top.id)
      BY <2>1, <2>2 DEF BadSpec, Sound
    <3> QED BY <1>0, <2>2, <3>1, Rejects, RefusedRightly DEF Fail
  <2>3. CASE ~BadSpec(Top.id, s) /\ Follow(s, [Top EXCEPT !.spec = FALSE])
    <3>1. Searching'
      BY <1>1, <2>3, SpecEdgeStep
    <3>2. outcome' = "running"
      BY <2>3 DEF Follow
    <3> QED BY <3>1, <3>2 DEF DecidesValidity
  <2> QED BY <1>1, <2>2, <2>3 DEF SpecEdge
<1>2. CASE DependsEdge
  <2> DEFINE next == Least(Top.depends)
  <2>1. next \in rs[Top.id].depends
    <3>1. Top.depends \in SUBSET Nat /\ Top.depends # {}
      BY <1>0, <1>2, VisitAssumption DEF DependsEdge, Frame
    <3> QED BY <1>0, <3>1, LeastIn
  <2>2. CASE next \notin DOMAIN rs /\ Fail("missing_dependency")
    <3>1. ~Sound(rs, InScope, Top.id)
      BY <2>1, <2>2 DEF Sound
    <3> QED BY <1>0, <2>2, <3>1, Rejects, RefusedRightly DEF Fail
  <2>3. CASE next \in InScope /\ Fail("invalid_relationship")
    <3>1. ~Sound(rs, InScope, Top.id)
      BY <2>1, <2>3 DEF Sound
    <3> QED BY <1>0, <2>3, <3>1, Rejects, RefusedRightly DEF Fail
  <2>4. CASE /\ next \in DOMAIN rs \ InScope
             /\ Follow(next, [Top EXCEPT !.depends = @ \ {next}])
    <3>1. Searching'
      BY <1>2, <2>4, DependsEdgeStep
    <3>2. outcome' = "running"
      BY <2>4 DEF Follow
    <3> QED BY <3>1, <3>2 DEF DecidesValidity
  <2> QED BY <1>2, <2>2, <2>3, <2>4 DEF DependsEdge
<1> QED BY <1>1, <1>2

\* A search that ends accepts, or goes on with the next member of the scope.
LEMMA FinishStep ==
  ASSUME Searching, outcome = "running", Finish
  PROVE  Searching' /\ DecidesValidity'
<1>0. target = None /\ stack = <<>> /\ scope \in BOOLEAN
  BY DEF Finish, Searching, TypeOK
<1>1. CASE ~scope
  <2> DEFINE Hit == \E j \in DOMAIN rs : rs[j].depends \cap InScope \cap inspected # {}
  <2>1. inspected = Reach(rs, root) /\ (Good <=> ~Hit)
    BY <1>0, <1>1, AcceptsGraph
  <2>2. CASE Hit /\ Fail("invalid_relationship")
    BY <2>1, <2>2, RefusedRightly DEF Fail
  <2>3. CASE ~Hit /\ Fail("ok")
    <3>1. UNCHANGED <<graph, search>> /\ outcome' = "ok"
      BY <2>3 DEF Fail
    <3>2. Searching' /\ Good'
      BY <2>1, <2>3, <3>1, FailStep, GraphStays
    <3>3. inspected' = Reach(rs', root') /\ ~scope'
      BY <1>1, <2>1, <3>1 DEF graph, search
    <3> QED BY <3>1, <3>2, <3>3 DEF DecidesValidity, Good
  <2> QED BY <1>1, <2>2, <2>3 DEF Finish
<1>2. CASE scope
  <2> DEFINE left == {i \in Members(rs, root) : color[i] # 2}
             next == Least(left)
  <2>1. left # {} => next \in left
    <3>1. left \in SUBSET Nat
      BY Grounds, VisitAssumption DEF Searching, Members
    <3> HIDE DEF left
    <3> QED BY <3>1, LeastIn
  <2>2. CASE left = {} /\ Fail("ok")
    <3>1. inspected = Inspected(rs, root) /\ Good
      BY <1>0, <1>2, <2>2, AcceptsScope
    <3>2. UNCHANGED <<graph, search>> /\ outcome' = "ok"
      BY <2>2 DEF Fail
    <3>3. Searching' /\ Good'
      BY <3>1, <3>2, FailStep, GraphStays
    <3>4. inspected' = Inspected(rs', root') /\ scope'
      BY <1>2, <3>1, <3>2 DEF graph, search
    <3> QED BY <3>2, <3>3, <3>4 DEF DecidesValidity, Good
  <2>3. CASE left # {} /\ next \in InScope /\ Fail("invalid_relationship")
    <3>1. InScope = Containers(rs) \cup {root} /\ next \in Members(rs, root)
      BY <1>2, <2>1, <2>3 DEF InScope
    <3>2. ~Good
      BY <1>2, <2>3, <3>1 DEF Good, ScopeOK
    <3> QED BY <2>3, <3>2, RefusedRightly DEF Fail
  <2>4. CASE /\ left # {} /\ next \notin InScope
             /\ target' = next /\ UNCHANGED <<graph, color, inspected, stack, outcome>>
    <3>1. next \in Members(rs, root)
      BY <2>1, <2>4
    <3> HIDE DEF next
    <3>2. Searching' /\ outcome' = "running"
      BY <1>0, <1>2, <2>4, <3>1, MemberStep
    <3> QED BY <3>2 DEF DecidesValidity
  <2> QED BY <1>2, <2>2, <2>3, <2>4 DEF Finish
<1> QED BY <1>0, <1>1, <1>2

\* The search accepts exactly the valid graphs and scopes, has then inspected all there is to
\* inspect, and what it calls a cycle is one.
THEOREM SearchDecides == Spec => []DecidesValidity
<1>1. ASSUME IInv, [Next]_vars PROVE IInv'
  <2>1. CASE UNCHANGED vars
    <3>1. Searching'
      BY <1>1, <2>1, FailStep DEF IInv, vars
    <3>2. DecidesValidity'
      BY <1>1, <2>1 DEF IInv, DecidesValidity, vars, graph, search
    <3> QED BY <3>1, <3>2 DEF IInv
  <2>2. CASE Next
    <3>1. Searching /\ outcome = "running"
      BY <1>1, <2>2 DEF IInv, Next
    <3>2. CASE Visit
      BY <3>1, <3>2, VisitStep DEF IInv
    <3>3. CASE SpecEdge \/ DependsEdge
      BY <3>1, <3>3, EdgeStep DEF IInv
    <3>4. CASE Return
      <4>1. outcome' = "running"
        BY <3>1, <3>4 DEF Return
      <4> QED BY <3>1, <3>4, <4>1, ReturnStep DEF IInv, DecidesValidity
    <3>5. CASE Finish
      BY <3>1, <3>5, FinishStep DEF IInv
    <3> QED BY <2>2, <3>2, <3>3, <3>4, <3>5 DEF Next
  <2> QED BY <1>1, <2>1, <2>2
<1>2. IInv => DecidesValidity
  BY DEF IInv
<1> QED BY <1>1, <1>2, InitSearching, PTL DEF Spec

-----------------------------------------------------------------------------
\* Induction, on a set.
LEMMA AllNumbers ==
  ASSUME NEW S, 0 \in S, \A n \in Nat : n \in S => n + 1 \in S
  PROVE  \A n \in Nat : n \in S
<1> DEFINE T == Nat \ S
           Less == {ss \in Nat \X Nat : ss[1] < ss[2]}
<1> SUFFICES ASSUME T # {} PROVE FALSE
  OBVIOUS
<1>1. IsWellFoundedOn(Less, Nat)
  BY NatLessThanWellFounded DEF OpToRel
<1>2. PICK x \in T : \A y \in T : ~(<<y, x>> \in Less)
  <2> HIDE DEF Less
  <2> QED BY <1>1, WFMin
<1>3. x \in Nat /\ x # 0 /\ x - 1 \in Nat /\ x - 1 < x
  OBVIOUS
<1>4. x - 1 \in S
  BY <1>2, <1>3
<1> QED BY <1>2, <1>3, <1>4

-----------------------------------------------------------------------------
\* Less is left to do after each call of the compiler.
Remaining(x) == 4 * (Len(src) + 1 - x[3]) + x[2]

AllWords == Words \cup Q!Keyword
Result == [ok : BOOLEAN, at : Nat, ops : Seq(AllWords)]

\* What a call gives: where it stands is on, after an expression, or where it was.
Stands(e, x) == /\ e \in Result
                /\ e.ok => e.at \in Q!Places /\ (IF x[1] = "whole" THEN x[3] < e.at ELSE x[3] <= e.at)

\* Where the compiler may be, and how much it still has before it.
LEMMA PointIs ==
  ASSUME src \in Seq(Words), NEW x \in Q!Points
  PROVE  /\ x[1] \in {"whole", "rest"} /\ x[2] \in 0 .. 3 /\ x[3] \in 1 .. Len(src) + 1 /\ Len(src) \in Nat
         /\ x[1] = "rest" => x[2] \in 1 .. 3
         /\ x = <<x[1], x[2], x[3]>> /\ Remaining(x) \in Nat
<1>1. Len(src) \in Nat
  OBVIOUS
<1>2. x[1] \in {"whole", "rest"} /\ x[2] \in 0 .. 3 /\ x[3] \in 1 .. Len(src) + 1 /\ x = <<x[1], x[2], x[3]>>
  BY DEF Q!Points, Q!Places
<1>3. x[1] = "rest" => x[2] \in 1 .. 3
  BY DEF Q!Points
<1>4. Remaining(x) \in Nat
  BY <1>1, <1>2 DEF Remaining
<1> QED BY <1>1, <1>2, <1>3, <1>4

LEMMA PointFor ==
  ASSUME src \in Seq(Words), NEW level \in 0 .. 3, NEW n \in Q!Places
  PROVE  /\ <<"whole", level, n>> \in Q!Points /\ (level # 0 => <<"rest", level, n>> \in Q!Points)
         /\ Remaining(<<"whole", level, n>>) = 4 * (Len(src) + 1 - n) + level
         /\ Remaining(<<"rest", level, n>>) = 4 * (Len(src) + 1 - n) + level
BY DEF Q!Points, Remaining

\* The words that say what comes next are words, and there is one only where there is one.
LEMMA TokenIs ==
  ASSUME src \in Seq(Words), NEW n \in Q!Places
  PROVE  /\ Q!Token(n) \in AllWords \cup {Q!End}
         /\ Q!Token(n) # Q!End => n \in 1 .. Len(src) /\ Q!Token(n) = src[n] /\ n + 1 \in Q!Places /\ Q!Token(n) \in AllWords
         /\ n = Len(src) + 1 => Q!Token(n) = Q!End
<1>1. Len(src) \in Nat /\ \A i \in 1 .. Len(src) : src[i] \in Words
  OBVIOUS
<1>2. CASE n <= Len(src)
  BY <1>1, <1>2 DEF Q!Token, Q!Places, AllWords
<1>3. CASE ~(n <= Len(src))
  BY <1>1, <1>3 DEF Q!Token, Q!Places
<1> QED BY <1>1, <1>2, <1>3 DEF Q!Places

\* The words that are operators or brackets are no operands, and the end is no word.
LEMMA Kinds ==
  /\ Q!Atom \subseteq AllWords /\ "not" \in AllWords /\ "[" \in AllWords /\ "]" \in AllWords
  /\ Q!Comparison \subseteq AllWords /\ "and" \in AllWords /\ "or" \in AllWords
  /\ Q!End \notin AllWords
  /\ "not" \notin Q!Atom /\ "[" \notin Q!Atom /\ "]" \notin Q!Atom /\ "and" \notin Q!Atom /\ "or" \notin Q!Atom
  /\ \A c \in Q!Comparison : c \notin Q!Atom
<1>1. /\ Tag \subseteq Words \ Q!Keyword /\ Numbers \subseteq Words \ Q!Keyword /\ Huids \subseteq Words \ Q!Keyword
      /\ Q!End \notin Words \cup Q!Keyword
  BY QueryAssumption DEF Q!QueryAssumption
<1>2. {"any", "tagged", "priority", "not", "and", "or", "[", "]"} \subseteq Q!Keyword /\ Q!Comparison \subseteq Q!Keyword
  BY DEF Q!Keyword
<1>3. Q!End \notin AllWords /\ Q!Atom \subseteq AllWords
  BY <1>1, <1>2 DEF AllWords, Q!Atom
<1>4. "not" \notin Q!Atom /\ "[" \notin Q!Atom /\ "]" \notin Q!Atom /\ "and" \notin Q!Atom /\ "or" \notin Q!Atom
  BY <1>1, <1>2 DEF Q!Atom
<1>5. \A c \in Q!Comparison : c \notin Q!Atom
  <2>1. \A c \in Q!Comparison : c \notin {"any", "tagged", "priority"}
    BY DEF Q!Comparison
  <2> QED BY <1>1, <1>2, <2>1 DEF Q!Atom
<1> QED BY <1>2, <1>3, <1>4, <1>5 DEF AllWords

\* Each level has operators of its own.
LEMMA InfixIs ==
  /\ Q!Infix[1] = Q!Comparison /\ Q!Infix[2] = {"and"} /\ Q!Infix[3] = {"or"}
  /\ \A level \in 1 .. 3 : /\ Q!Infix[level] \subseteq AllWords /\ Q!End \notin Q!Infix[level] /\ "]" \notin Q!Infix[level]
                           /\ \A w \in Q!Infix[level] : w \notin Q!Atom /\ w # "not" /\ w # "["
  /\ \A l, m \in 1 .. 3 : l # m => Q!Infix[l] \cap Q!Infix[m] = {}
<1>1. Q!Infix[1] = Q!Comparison /\ Q!Infix[2] = {"and"} /\ Q!Infix[3] = {"or"}
  BY DEF Q!Infix
<1>2. \A level \in 1 .. 3 : level = 1 \/ level = 2 \/ level = 3
  OBVIOUS
<1>3. "and" \notin Q!Comparison /\ "or" \notin Q!Comparison /\ "]" \notin Q!Comparison /\ "[" \notin Q!Comparison /\ "not" \notin Q!Comparison
  BY DEF Q!Comparison
<1>4. ASSUME NEW level \in 1 .. 3
      PROVE  /\ Q!Infix[level] \subseteq AllWords /\ Q!End \notin Q!Infix[level] /\ "]" \notin Q!Infix[level]
             /\ \A w \in Q!Infix[level] : w \notin Q!Atom /\ w # "not" /\ w # "["
  <2>1. CASE level = 1
    BY <1>1, <1>3, <2>1, Kinds
  <2>2. CASE level = 2
    BY <1>1, <1>3, <2>2, Kinds
  <2>3. CASE level = 3
    BY <1>1, <1>3, <2>3, Kinds
  <2> QED BY <2>1, <2>2, <2>3
<1>5. \A l, m \in 1 .. 3 : l # m => Q!Infix[l] \cap Q!Infix[m] = {}
  BY <1>1, <1>2, <1>3
<1> QED BY <1>1, <1>4, <1>5

-----------------------------------------------------------------------------
\* The parts of results.
LEMMA Results ==
  /\ Stands(Q!Failed, <<>>) /\ \A x : Stands(Q!Failed, x)
  /\ \A at \in Nat, ops \in Seq(AllWords) : Q!Code(at, ops) \in Result
  /\ \A e \in Result, op \in AllWords :
       /\ Q!Emit(e, op) \in Result /\ Q!Emit(e, op).ok = e.ok /\ Q!Emit(e, op).at = e.at
       /\ Q!Emit(e, op).ops = Append(e.ops, op)
  /\ \A a, b \in Result : /\ Q!Joined(a, b) \in Result /\ Q!Joined(a, b).ok = b.ok
                          /\ b.ok => Q!Joined(a, b).at = b.at /\ Q!Joined(a, b).ops = a.ops \o b.ops
<1>1. Q!Failed \in Result /\ Q!Failed.ok = FALSE
  <2>1. <<>> \in Seq(AllWords)
    OBVIOUS
  <2> QED BY <2>1 DEF Q!Failed, Result
<1>2. \A at \in Nat, ops \in Seq(AllWords) : /\ Q!Code(at, ops) \in Result /\ Q!Code(at, ops).ok = TRUE
                                             /\ Q!Code(at, ops).at = at /\ Q!Code(at, ops).ops = ops
  BY DEF Q!Code, Result
<1>3. ASSUME NEW e \in Result, NEW op \in AllWords
      PROVE /\ Q!Emit(e, op) \in Result /\ Q!Emit(e, op).ok = e.ok /\ Q!Emit(e, op).at = e.at
            /\ Q!Emit(e, op).ops = Append(e.ops, op)
  <2>1. e.ok \in BOOLEAN /\ e.at \in Nat /\ e.ops \in Seq(AllWords)
        /\ e = [ok |-> e.ok, at |-> e.at, ops |-> e.ops]
    BY DEF Result
  <2>2. Append(e.ops, op) \in Seq(AllWords)
    BY <2>1
  <2>3. Q!Emit(e, op) = [ok |-> e.ok, at |-> e.at, ops |-> Append(e.ops, op)]
    BY <2>1 DEF Q!Emit
  <2> QED BY <2>1, <2>2, <2>3 DEF Result
<1>4. ASSUME NEW a \in Result, NEW b \in Result
      PROVE  /\ Q!Joined(a, b) \in Result /\ Q!Joined(a, b).ok = b.ok
             /\ b.ok => Q!Joined(a, b).at = b.at /\ Q!Joined(a, b).ops = a.ops \o b.ops
  <2>1. a.ops \in Seq(AllWords) /\ b.ops \in Seq(AllWords) /\ b.at \in Nat /\ b.ok \in BOOLEAN
    BY DEF Result
  <2>2. a.ops \o b.ops \in Seq(AllWords)
    BY <2>1
  <2>3. CASE b.ok
    BY <1>2, <2>1, <2>2, <2>3 DEF Q!Joined
  <2>4. CASE ~b.ok
    BY <1>1, <2>1, <2>4 DEF Q!Joined
  <2> QED BY <2>3, <2>4
<1>5. \A x : Stands(Q!Failed, x)
  BY <1>1 DEF Stands
<1> QED BY <1>2, <1>3, <1>4, <1>5

\* Each call depends on what less is left to do, and is sound if those are.
LEMMA CompileStep ==
  ASSUME src \in Seq(Words), NEW f, NEW g, NEW x \in Q!Points,
         \A y \in Q!Points : Remaining(y) < Remaining(x) => f[y] = g[y] /\ Stands(f[y], y)
  PROVE  Q!CompiledAt(f, x) = Q!CompiledAt(g, x) /\ Stands(Q!CompiledAt(f, x), x)
<1> DEFINE level == x[2] n == x[3] tok == Q!Token(n)
<1>1. /\ x[1] \in {"whole", "rest"} /\ level \in 0 .. 3 /\ n \in Q!Places /\ Len(src) \in Nat
      /\ x[1] = "rest" => level \in 1 .. 3
      /\ x = <<x[1], level, n>>
  BY PointIs DEF Q!Places
<1>2. Remaining(x) = 4 * (Len(src) + 1 - n) + level
  BY DEF Remaining
<1>3. ASSUME NEW l \in 0 .. 3, NEW p \in Q!Places, 4 * (Len(src) + 1 - p) + l < 4 * (Len(src) + 1 - n) + level
      PROVE  /\ f[<<"whole", l, p>>] = g[<<"whole", l, p>>] /\ f[<<"whole", l, p>>] \in Result
             /\ f[<<"whole", l, p>>].ok => f[<<"whole", l, p>>].at \in Q!Places /\ p < f[<<"whole", l, p>>].at
             /\ l # 0 => /\ f[<<"rest", l, p>>] = g[<<"rest", l, p>>] /\ f[<<"rest", l, p>>] \in Result
                         /\ f[<<"rest", l, p>>].ok => f[<<"rest", l, p>>].at \in Q!Places /\ p <= f[<<"rest", l, p>>].at
  <2> DEFINE y == <<"whole", l, p>> z == <<"rest", l, p>>
  <2>1. /\ y \in Q!Points /\ (l # 0 => z \in Q!Points)
        /\ Remaining(y) = 4 * (Len(src) + 1 - p) + l /\ Remaining(z) = 4 * (Len(src) + 1 - p) + l
    BY PointFor
  <2>2. y[1] = "whole" /\ y[3] = p /\ z[1] = "rest" /\ z[3] = p
    OBVIOUS
  <2> HIDE DEF y, z
  <2>3. f[y] = g[y] /\ Stands(f[y], y) /\ (l # 0 => f[z] = g[z] /\ Stands(f[z], z))
    BY <1>2, <1>3, <2>1
  <2>4. /\ f[y] = g[y] /\ f[y] \in Result /\ (f[y].ok => f[y].at \in Q!Places /\ p < f[y].at)
        /\ l # 0 => f[z] = g[z] /\ f[z] \in Result /\ (f[z].ok => f[z].at \in Q!Places /\ p <= f[z].at)
    BY <2>2, <2>3 DEF Stands
  <2> QED BY <2>4 DEF y, z
<1> DEFINE SpanReads(q) == 4 * (Len(src) + 1 - q)
<1>4. \A p \in Q!Places, l \in 0 .. 3 : n < p => SpanReads(p) + l < SpanReads(n) + level
  BY <1>1 DEF Q!Places
<1>5. level # 0 => level - 1 \in 0 .. 3 /\ SpanReads(n) + (level - 1) < SpanReads(n) + level
  BY <1>1 DEF Q!Places
<1>6. /\ tok \in AllWords \cup {Q!End}
      /\ tok # Q!End => n \in 1 .. Len(src) /\ n + 1 \in Q!Places /\ tok \in AllWords /\ n < n + 1
  BY <1>1, TokenIs DEF Q!Places
<1>7. CASE x[1] = "rest"
  <2>1. level \in 1 .. 3 /\ level - 1 \in 0 .. 3 /\ level # 0
    BY <1>1, <1>7
  <2>2. Q!CompiledAt(f, x) = Q!Loop(f, level, n) /\ Q!CompiledAt(g, x) = Q!Loop(g, level, n)
    BY <1>7 DEF Q!CompiledAt
  <2>3. CASE tok \notin Q!Infix[level]
    <3>1. Q!Loop(f, level, n) = Q!Code(n, <<>>) /\ Q!Loop(g, level, n) = Q!Code(n, <<>>)
      BY <2>3 DEF Q!Loop
    <3>2. <<>> \in Seq(AllWords) /\ n \in Nat
      BY <1>1 DEF Q!Places
    <3>3. Q!Code(n, <<>>) \in Result /\ Q!Code(n, <<>>).at = n
      BY <3>2, Results DEF Q!Code
    <3> QED BY <1>1, <1>7, <2>2, <3>1, <3>3 DEF Stands, Q!Places
  <2>4. CASE tok \in Q!Infix[level]
    <3>1. tok # Q!End /\ tok \in AllWords
      BY <1>6, <2>1, <2>4, InfixIs
    <3> DEFINE right == f[<<"whole", level - 1, n + 1>>] more == f[<<"rest", level, right.at>>]
    <3>2. /\ right = g[<<"whole", level - 1, n + 1>>] /\ right \in Result
          /\ right.ok => right.at \in Q!Places /\ n + 1 < right.at
      BY <1>3, <1>4, <1>6, <2>1, <3>1
    <3>3. ASSUME right.ok
          PROVE  /\ more = g[<<"rest", level, right.at>>] /\ more \in Result
                 /\ more.ok => more.at \in Q!Places /\ n <= more.at
      <4>1. right.at \in Q!Places /\ n < right.at
        BY <1>1, <3>2, <3>3 DEF Q!Places
      <4> HIDE DEF right
      <4>2. /\ f[<<"rest", level, right.at>>] = g[<<"rest", level, right.at>>] /\ f[<<"rest", level, right.at>>] \in Result
            /\ f[<<"rest", level, right.at>>].ok => /\ f[<<"rest", level, right.at>>].at \in Q!Places
                                                    /\ right.at <= f[<<"rest", level, right.at>>].at
        BY <1>1, <1>3, <1>4, <2>1, <4>1
      <4> QED BY <1>1, <4>1, <4>2 DEF Q!Places
    <3>4. Q!Loop(f, level, n) = IF right.ok THEN Q!Joined(Q!Emit(right, tok), more) ELSE Q!Failed
      BY <2>4 DEF Q!Loop
    <3>5. Q!Loop(g, level, n) = Q!Loop(f, level, n)
      <4>1. Q!Loop(g, level, n) =
              IF right.ok THEN Q!Joined(Q!Emit(right, tok), g[<<"rest", level, right.at>>]) ELSE Q!Failed
        BY <2>4, <3>2 DEF Q!Loop
      <4> HIDE DEF right
      <4> QED BY <3>3, <3>4, <4>1
    <3> HIDE DEF right, more
    <3>6. CASE right.ok
      <4>1. Q!Emit(right, tok) \in Result
        BY <3>1, <3>2, Results
      <4>2. /\ Q!Joined(Q!Emit(right, tok), more) \in Result /\ Q!Joined(Q!Emit(right, tok), more).ok = more.ok
            /\ more.ok => Q!Joined(Q!Emit(right, tok), more).at = more.at
        BY <3>3, <3>6, <4>1, Results
      <4> QED BY <1>7, <2>2, <3>3, <3>4, <3>5, <3>6, <4>2 DEF Stands
    <3>7. CASE ~right.ok
      BY <2>2, <3>4, <3>5, <3>7, Results
    <3> QED BY <3>6, <3>7
  <2> QED BY <2>3, <2>4
<1>8. CASE x[1] = "whole" /\ level = 0
  <2>1. Q!CompiledAt(f, x) = Q!Primary(f, n) /\ Q!CompiledAt(g, x) = Q!Primary(g, n)
    BY <1>8 DEF Q!CompiledAt
  <2>2. tok # Q!End => n + 1 \in Nat /\ n + 1 \in Q!Places
    BY <1>1, <1>6 DEF Q!Places
  <2>3. CASE tok \in Q!Atom
    <3>0. tok # "[" /\ tok # "not"
      BY <2>3, Kinds
    <3>1. Q!Primary(f, n) = Q!Code(n + 1, <<tok>>) /\ Q!Primary(g, n) = Q!Code(n + 1, <<tok>>)
      BY <2>3, <3>0 DEF Q!Primary
    <3>2. tok # Q!End /\ tok \in AllWords
      BY <2>3, Kinds
    <3>3. <<tok>> \in Seq(AllWords)
      BY <3>2
    <3>4. Q!Code(n + 1, <<tok>>) \in Result /\ Q!Code(n + 1, <<tok>>).at = n + 1
      BY <2>2, <3>2, <3>3, Results DEF Q!Code
    <3> QED BY <1>1, <1>6, <1>8, <2>1, <2>2, <3>1, <3>2, <3>4 DEF Stands, Q!Places
  <2>4. CASE tok = "["
    <3> DEFINE e == f[<<"whole", 3, n + 1>>]
    <3>1. tok \notin Q!Atom /\ tok # Q!End
      BY <2>4, Kinds
    <3>2. e = g[<<"whole", 3, n + 1>>] /\ e \in Result /\ (e.ok => e.at \in Q!Places /\ n + 1 < e.at)
      <4>1. n + 1 \in Q!Places /\ 3 \in 0 .. 3 /\ 4 * (Len(src) + 1 - (n + 1)) + 3 < 4 * (Len(src) + 1 - n) + level
        BY <1>4, <1>6, <3>1
      <4> QED BY <1>3, <4>1
    <3>3. Q!Primary(f, n) = IF e.ok /\ Q!Token(e.at) = "]" THEN [e EXCEPT !.at = @ + 1] ELSE Q!Failed
      BY <2>4, <3>1 DEF Q!Primary
    <3>4. Q!Primary(g, n) = IF e.ok /\ Q!Token(e.at) = "]" THEN [e EXCEPT !.at = @ + 1] ELSE Q!Failed
      BY <2>4, <3>1, <3>2 DEF Q!Primary
    <3> HIDE DEF e
    <3>5. CASE e.ok /\ Q!Token(e.at) = "]"
      <4>1. "]" # Q!End
        BY Kinds
      <4>2. e.at + 1 \in Q!Places /\ e.at \in Nat
        BY <3>2, <3>5, <4>1, TokenIs DEF Q!Places
      <4>3. [e EXCEPT !.at = @ + 1] \in Result /\ [e EXCEPT !.at = @ + 1].at = e.at + 1
        <5>1. e.ok \in BOOLEAN /\ e.ops \in Seq(AllWords) /\ e = [ok |-> e.ok, at |-> e.at, ops |-> e.ops]
          BY <3>2 DEF Result
        <5>2. [e EXCEPT !.at = @ + 1] = [ok |-> e.ok, at |-> e.at + 1, ops |-> e.ops] /\ e.at + 1 \in Nat
          BY <4>2, <5>1
        <5> QED BY <5>1, <5>2 DEF Result
      <4>4. n < e.at + 1
        BY <1>1, <3>2, <3>5, <4>2 DEF Q!Places
      <4> QED BY <1>8, <2>1, <3>3, <3>4, <3>5, <4>2, <4>3, <4>4 DEF Stands
    <3>6. CASE ~(e.ok /\ Q!Token(e.at) = "]")
      BY <2>1, <3>3, <3>4, <3>6, Results
    <3> QED BY <3>5, <3>6
  <2>5. CASE tok = "not"
    <3> DEFINE e == f[<<"whole", 0, n + 1>>]
    <3>1. tok \notin Q!Atom /\ tok # Q!End /\ tok # "["
      BY <2>5, Kinds
    <3>2. e = g[<<"whole", 0, n + 1>>] /\ e \in Result /\ (e.ok => e.at \in Q!Places /\ n + 1 < e.at)
      BY <1>3, <1>4, <1>6, <3>1
    <3>3. Q!Primary(f, n) = IF e.ok THEN Q!Emit(e, "not") ELSE Q!Failed
      BY <2>5, <3>1 DEF Q!Primary
    <3>4. Q!Primary(g, n) = IF e.ok THEN Q!Emit(e, "not") ELSE Q!Failed
      BY <2>5, <3>1, <3>2 DEF Q!Primary
    <3> HIDE DEF e
    <3>5. Q!Emit(e, "not") \in Result /\ Q!Emit(e, "not").ok = e.ok /\ Q!Emit(e, "not").at = e.at
      BY <3>2, Kinds, Results
    <3>6. e.ok => n < e.at
      BY <1>1, <3>2 DEF Q!Places
    <3>7. CASE e.ok
      BY <1>8, <2>1, <3>2, <3>3, <3>4, <3>5, <3>6, <3>7 DEF Stands
    <3>8. CASE ~e.ok
      BY <2>1, <3>3, <3>4, <3>8, Results
    <3> QED BY <3>7, <3>8
  <2>6. CASE tok \notin Q!Atom /\ tok # "[" /\ tok # "not"
    <3>1. Q!Primary(f, n) = Q!Failed /\ Q!Primary(g, n) = Q!Failed
      BY <2>6 DEF Q!Primary
    <3> QED BY <2>1, <3>1, Results
  <2> QED BY <2>3, <2>4, <2>5, <2>6
<1>9. CASE x[1] = "whole" /\ level # 0
  <2> DEFINE left == f[<<"whole", level - 1, n>>] more == f[<<"rest", level, left.at>>]
  <2>1. left = g[<<"whole", level - 1, n>>] /\ left \in Result /\ (left.ok => left.at \in Q!Places /\ n < left.at)
    BY <1>1, <1>3, <1>5, <1>9
  <2>2. ASSUME left.ok
        PROVE  /\ more = g[<<"rest", level, left.at>>] /\ more \in Result
               /\ more.ok => more.at \in Q!Places /\ n < more.at
    <3>1. left.at \in Q!Places /\ n < left.at
      BY <2>1, <2>2
    <3> HIDE DEF left
    <3>2. /\ f[<<"rest", level, left.at>>] = g[<<"rest", level, left.at>>] /\ f[<<"rest", level, left.at>>] \in Result
          /\ f[<<"rest", level, left.at>>].ok => /\ f[<<"rest", level, left.at>>].at \in Q!Places
                                                 /\ left.at <= f[<<"rest", level, left.at>>].at
      BY <1>1, <1>3, <1>4, <1>9, <3>1
    <3> QED BY <1>1, <3>1, <3>2 DEF Q!Places
  <2>3. Q!CompiledAt(f, x) = IF left.ok THEN Q!Joined(left, more) ELSE Q!Failed
    BY <1>9 DEF Q!CompiledAt
  <2>4. Q!CompiledAt(g, x) = Q!CompiledAt(f, x)
    <3>1. Q!CompiledAt(g, x) = IF left.ok THEN Q!Joined(left, g[<<"rest", level, left.at>>]) ELSE Q!Failed
      BY <1>9, <2>1 DEF Q!CompiledAt
    <3> HIDE DEF left
    <3> QED BY <2>2, <2>3, <3>1
  <2> HIDE DEF left, more
  <2>5. CASE left.ok
    <3>1. Q!Joined(left, more) \in Result /\ Q!Joined(left, more).ok = more.ok /\ (more.ok => Q!Joined(left, more).at = more.at)
      BY <2>1, <2>2, <2>5, Results
    <3> QED BY <1>9, <2>2, <2>3, <2>4, <2>5, <3>1 DEF Stands
  <2>6. CASE ~left.ok
    BY <2>3, <2>4, <2>6, Results
  <2> QED BY <2>5, <2>6
<1> QED BY <1>1, <1>7, <1>8, <1>9

\* The function the compiler is described by exists: it is made for ever more that is left
\* to do.
Soon(n) == {x \in Q!Points : Remaining(x) < n}
Made(f, n) == f = [x \in Soon(n) |-> Q!CompiledAt(f, x)] /\ \A x \in Soon(n) : Stands(f[x], x)

\* There is a function that satisfies the compiler's equation, so Compiled does.
LEMMA CompiledExists ==
  ASSUME src \in Seq(Words)
  PROVE  \E f : f = [x \in Q!Points |-> Q!CompiledAt(f, x)]
<1>1. \A x \in Q!Points : Remaining(x) \in Nat
  BY PointIs
<1> DEFINE S == {n \in Nat : \E f : Made(f, n)}
<1>2. 0 \in S
  <2>1. Soon(0) = {}
    BY <1>1 DEF Soon
  <2> DEFINE f == [x \in {} |-> Q!CompiledAt(<<>>, x)]
  <2>2. f = [x \in Soon(0) |-> Q!CompiledAt(f, x)]
    BY <2>1
  <2> QED BY <2>1, <2>2 DEF Made
<1>3. ASSUME NEW n \in Nat, n \in S PROVE n + 1 \in S
  <2>1. PICK f : Made(f, n)
    BY <1>3
  <2> DEFINE g == [x \in Soon(n + 1) |-> IF x \in Soon(n) THEN f[x] ELSE Q!CompiledAt(f, x)]
  <2>2. Soon(n) \subseteq Soon(n + 1) /\ Soon(n + 1) \subseteq Q!Points
    BY <1>1 DEF Soon
  <2>3. \A x \in Soon(n) : f[x] = Q!CompiledAt(f, x) /\ Stands(f[x], x)
    BY <2>1, Zenon DEF Made
  <2>4. \A x \in Soon(n + 1), y \in Q!Points : Remaining(y) < Remaining(x) => y \in Soon(n)
    BY <1>1 DEF Soon
  <2>5. \A y \in Soon(n) : g[y] = f[y]
    BY <2>2
  <2>6. \A x \in Soon(n + 1) : g[x] = IF x \in Soon(n) THEN f[x] ELSE Q!CompiledAt(f, x)
    OBVIOUS
  <2>7. g = [x \in Soon(n + 1) |-> g[x]]
    OBVIOUS
  <2> HIDE DEF g
  <2>8. ASSUME NEW x \in Soon(n + 1) PROVE g[x] = Q!CompiledAt(g, x) /\ Stands(g[x], x)
    <3>1. x \in Q!Points
      BY <2>2
    <3>2. Q!CompiledAt(f, x) = Q!CompiledAt(g, x) /\ Stands(Q!CompiledAt(f, x), x)
      BY <2>3, <2>4, <2>5, <3>1, CompileStep
    <3>3. g[x] = Q!CompiledAt(f, x)
      BY <2>3, <2>6
    <3> QED BY <3>2, <3>3
  <2>9. g = [x \in Soon(n + 1) |-> Q!CompiledAt(g, x)]
    BY <2>7, <2>8, Zenon
  <2>10. Made(g, n + 1)
    BY <2>8, <2>9 DEF Made
  <2> QED BY <2>10
<1> HIDE DEF S
<1>4. \A n \in Nat : n \in S
  BY <1>2, <1>3, AllNumbers
<1> DEFINE N == 4 * (Len(src) + 1) + 4
<1>5. N \in Nat /\ Soon(N) = Q!Points
  <2>1. N \in Nat
    OBVIOUS
  <2>2. ASSUME NEW x \in Q!Points PROVE Remaining(x) < N
    BY PointIs DEF Remaining
  <2> QED BY <2>1, <2>2 DEF Soon
<1> HIDE DEF N
<1>6. PICK f : Made(f, N)
  BY <1>4, <1>5 DEF S
<1> QED BY <1>5, <1>6 DEF Made

LEMMA CompiledIs ==
  ASSUME src \in Seq(Words)
  PROVE  \A x \in Q!Points : Q!Compiled[x] = Q!CompiledAt(Q!Compiled, x) /\ Stands(Q!Compiled[x], x)
<1> DEFINE F == Q!Compiled
<1>1. F = [x \in Q!Points |-> Q!CompiledAt(F, x)]
  BY CompiledExists DEF Q!Compiled
<1> HIDE DEF F
<1>2. \A x \in Q!Points : F[x] = Q!CompiledAt(F, x)
  BY <1>1, Zenon
<1>3. \A x \in Q!Points : Remaining(x) \in Nat
  BY PointIs
<1> DEFINE S == {n \in Nat : \A x \in Soon(n) : Stands(F[x], x)}
<1>4. 0 \in S
  BY <1>3 DEF Soon
<1>5. ASSUME NEW n \in Nat, n \in S PROVE n + 1 \in S
  <2>1. ASSUME NEW x \in Soon(n + 1) PROVE Stands(F[x], x)
    <3>1. x \in Q!Points /\ \A y \in Q!Points : Remaining(y) < Remaining(x) => y \in Soon(n)
      BY <1>3 DEF Soon
    <3>2. \A y \in Q!Points : Remaining(y) < Remaining(x) => Stands(F[y], y)
      BY <1>5, <3>1
    <3>3. Stands(Q!CompiledAt(F, x), x)
      BY <3>1, <3>2, CompileStep
    <3> QED BY <1>2, <3>1, <3>3
  <2> QED BY <2>1
<1> HIDE DEF S
<1>6. \A n \in Nat : n \in S
  BY <1>4, <1>5, AllNumbers
<1>7. ASSUME NEW x \in Q!Points PROVE Stands(F[x], x)
  <2>1. Remaining(x) + 1 \in S /\ x \in Soon(Remaining(x) + 1)
    BY <1>3, <1>6 DEF Soon
  <2> QED BY <2>1 DEF S
<1> QED BY <1>2, <1>7 DEF F

Whole(level, n) == Q!Compiled[<<"whole", level, n>>]
Rest(level, n) == Q!Compiled[<<"rest", level, n>>]

\* What the compiler does at each place.
LEMMA CompilesAs ==
  ASSUME src \in Seq(Words), NEW n \in Q!Places
  PROVE  /\ Whole(0, n) = Q!Primary(Q!Compiled, n)
         /\ \A level \in 1 .. 3 :
              /\ Whole(level, n) = IF Whole(level - 1, n).ok
                                   THEN Q!Joined(Whole(level - 1, n), Rest(level, Whole(level - 1, n).at)) ELSE Q!Failed
              /\ Rest(level, n) = Q!Loop(Q!Compiled, level, n)
              /\ Rest(level, n) \in Result /\ (Rest(level, n).ok => Rest(level, n).at \in Q!Places /\ n <= Rest(level, n).at)
         /\ \A level \in 0 .. 3 :
              /\ Whole(level, n) \in Result
              /\ Whole(level, n).ok => Whole(level, n).at \in Q!Places /\ n < Whole(level, n).at
<1> DEFINE F == Q!Compiled
<1>1. \A x \in Q!Points : F[x] = Q!CompiledAt(F, x) /\ Stands(F[x], x)
  BY CompiledIs
<1> HIDE DEF F
<1>2. ASSUME NEW level \in 0 .. 3, NEW x, x = <<"whole", level, n>>
      PROVE  /\ F[x] = Q!CompiledAt(F, x) /\ F[x] \in Result /\ (F[x].ok => F[x].at \in Q!Places /\ n < F[x].at)
  <2>1. x \in Q!Points /\ x[1] = "whole" /\ x[3] = n
    BY <1>2, PointFor
  <2> QED BY <1>1, <2>1 DEF Stands
<1>3. ASSUME NEW level \in 1 .. 3, NEW x, x = <<"rest", level, n>>
      PROVE  /\ F[x] = Q!CompiledAt(F, x) /\ F[x] \in Result /\ (F[x].ok => F[x].at \in Q!Places /\ n <= F[x].at)
  <2>1. x \in Q!Points /\ x[1] = "rest" /\ x[3] = n
    <3>1. level \in 0 .. 3 /\ level # 0
      OBVIOUS
    <3> QED BY <1>3, <3>1, PointFor
  <2> QED BY <1>1, <2>1 DEF Stands
<1>4. Q!CompiledAt(F, <<"whole", 0, n>>) = Q!Primary(F, n)
  BY DEF Q!CompiledAt
<1>5. ASSUME NEW level \in 1 .. 3
      PROVE  /\ Q!CompiledAt(F, <<"whole", level, n>>) =
                  IF F[<<"whole", level - 1, n>>].ok
                  THEN Q!Joined(F[<<"whole", level - 1, n>>], F[<<"rest", level, F[<<"whole", level - 1, n>>].at>>]) ELSE Q!Failed
             /\ Q!CompiledAt(F, <<"rest", level, n>>) = Q!Loop(F, level, n)
  BY DEF Q!CompiledAt
<1> QED BY <1>2, <1>3, <1>4, <1>5 DEF Whole, Rest, F

\* What the compiler does at an operand, a bracket or not.
LEMMA PrimaryIs ==
  ASSUME src \in Seq(Words), NEW n \in Q!Places
  PROVE  /\ Q!Token(n) \in Q!Atom => Whole(0, n) = Q!Code(n + 1, <<Q!Token(n)>>)
         /\ Q!Token(n) = "[" => Whole(0, n) = IF Whole(3, n + 1).ok /\ Q!Token(Whole(3, n + 1).at) = "]"
                                            THEN Q!Code(Whole(3, n + 1).at + 1, Whole(3, n + 1).ops) ELSE Q!Failed
         /\ Q!Token(n) = "not" => Whole(0, n) = IF Whole(0, n + 1).ok THEN Q!Emit(Whole(0, n + 1), "not") ELSE Q!Failed
         /\ Q!Token(n) \notin Q!Atom \cup {"[", "not"} => Whole(0, n) = Q!Failed
<1>1. Whole(0, n) = Q!Primary(Q!Compiled, n)
  BY CompilesAs
<1>2. Q!Token(n) \in Q!Atom => Q!Primary(Q!Compiled, n) = Q!Code(n + 1, <<Q!Token(n)>>)
  BY Kinds DEF Q!Primary
<1>3. ASSUME Q!Token(n) = "["
      PROVE  Q!Primary(Q!Compiled, n) = IF Whole(3, n + 1).ok /\ Q!Token(Whole(3, n + 1).at) = "]"
                                            THEN Q!Code(Whole(3, n + 1).at + 1, Whole(3, n + 1).ops) ELSE Q!Failed
  <2> DEFINE e == Whole(3, n + 1)
  <2>1. Q!Token(n) \notin Q!Atom
    BY <1>3, Kinds
  <2>2. Q!Primary(Q!Compiled, n) = IF e.ok /\ Q!Token(e.at) = "]" THEN [e EXCEPT !.at = @ + 1] ELSE Q!Failed
    BY <1>3, <2>1 DEF Q!Primary, Whole
  <2>3. n + 1 \in Q!Places
    BY <1>3, TokenIs, Kinds
  <2>4. e \in Result
    BY <2>3, CompilesAs
  <2> HIDE DEF e
  <2>5. e = [ok |-> e.ok, at |-> e.at, ops |-> e.ops]
    BY <2>4 DEF Result
  <2>6. ASSUME e.ok PROVE [e EXCEPT !.at = @ + 1] = Q!Code(e.at + 1, e.ops)
    <3>1. e.ok = TRUE /\ e.ok \in BOOLEAN /\ e.at \in Nat /\ e.ops \in Seq(AllWords)
      BY <2>4, <2>6 DEF Result
    <3>2. [e EXCEPT !.at = @ + 1] = [ok |-> e.ok, at |-> e.at + 1, ops |-> e.ops]
      BY <2>5, <3>1
    <3> QED BY <3>1, <3>2 DEF Q!Code
  <2>7. Q!Primary(Q!Compiled, n) = IF e.ok /\ Q!Token(e.at) = "]" THEN Q!Code(e.at + 1, e.ops) ELSE Q!Failed
    BY <2>2, <2>6
  <2> QED BY <2>7 DEF e
<1>4. Q!Token(n) = "not" => Q!Primary(Q!Compiled, n) = IF Whole(0, n + 1).ok THEN Q!Emit(Whole(0, n + 1), "not") ELSE Q!Failed
  BY Kinds DEF Q!Primary, Whole
<1>5. Q!Token(n) \notin Q!Atom \cup {"[", "not"} => Q!Primary(Q!Compiled, n) = Q!Failed
  BY DEF Q!Primary
<1> QED BY <1>1, <1>2, <1>3, <1>4, <1>5

\* What its loop does at an operator of its level, and at anything else.
LEMMA RestIs ==
  ASSUME src \in Seq(Words), NEW n \in Q!Places, NEW level \in 1 .. 3
  PROVE  /\ Q!Token(n) \notin Q!Infix[level] => Rest(level, n) = Q!Code(n, <<>>)
         /\ Q!Token(n) \in Q!Infix[level] =>
              /\ n + 1 \in Q!Places /\ n <= Len(src) /\ Q!Token(n) = src[n] /\ Q!Token(n) \in AllWords
              /\ Rest(level, n) = IF Whole(level - 1, n + 1).ok
                                  THEN Q!Joined(Q!Emit(Whole(level - 1, n + 1), Q!Token(n)), Rest(level, Whole(level - 1, n + 1).at))
                                  ELSE Q!Failed
<1>1. Rest(level, n) = Q!Loop(Q!Compiled, level, n)
  BY CompilesAs
<1>2. Q!Token(n) \in Q!Infix[level] => n + 1 \in Q!Places /\ n <= Len(src) /\ Q!Token(n) = src[n] /\ Q!Token(n) \in AllWords
  BY TokenIs, InfixIs
<1> QED BY <1>1, <1>2 DEF Q!Loop, Whole, Rest

-----------------------------------------------------------------------------
\* The readings: what they depend on is shorter, or of a lower level.
Size(x) == 4 * (Len(src) + 1 - x[2] + x[3]) + x[1]

\* The spans of a query, and how large they are.
LEMMA SpanIs ==
  ASSUME src \in Seq(Words), NEW x \in Q!Spans
  PROVE  /\ x[1] \in 0 .. 3 /\ x[2] \in Q!Places /\ x[3] \in 0 .. Len(src) /\ Len(src) \in Nat
         /\ x = <<x[1], x[2], x[3]>> /\ Size(x) \in Nat
<1>1. Len(src) \in Nat
  OBVIOUS
<1>2. x[1] \in 0 .. 3 /\ x[2] \in Q!Places /\ x[3] \in 0 .. Len(src) /\ x = <<x[1], x[2], x[3]>>
  BY DEF Q!Spans, Q!Places
<1>3. Size(x) \in Nat
  BY <1>1, <1>2 DEF Size, Q!Places
<1> QED BY <1>1, <1>2, <1>3

LEMMA SpanFor ==
  ASSUME src \in Seq(Words), NEW level \in 0 .. 3, NEW i \in Q!Places, NEW j \in 0 .. Len(src)
  PROVE  <<level, i, j>> \in Q!Spans /\ Size(<<level, i, j>>) = 4 * (Len(src) + 1 - i + j) + level
BY DEF Q!Spans, Q!Places, Size

\* The readings of a span depend on those of smaller ones, so Readings satisfies its equation.
LEMMA ReadingStep ==
  ASSUME src \in Seq(Words), NEW f, NEW g, NEW x \in Q!Spans,
         \A y \in Q!Spans : Size(y) < Size(x) => f[y] = g[y]
  PROVE  Q!ReadingsAt(f, x[1], x[2], x[3]) = Q!ReadingsAt(g, x[1], x[2], x[3])
<1> DEFINE level == x[1] i == x[2] j == x[3]
<1>1. level \in 0 .. 3 /\ i \in Q!Places /\ j \in 0 .. Len(src) /\ Len(src) \in Nat
  BY SpanIs
<1>2. Size(x) = 4 * (Len(src) + 1 - i + j) + level
  BY DEF Size
<1>3. ASSUME NEW l \in 0 .. 3, NEW a \in Q!Places, NEW b \in 0 .. Len(src), 4 * (b - a) + l < 4 * (j - i) + level
      PROVE  f[<<l, a, b>>] = g[<<l, a, b>>]
  <2> DEFINE y == <<l, a, b>>
  <2>1. y \in Q!Spans /\ Size(y) = 4 * (Len(src) + 1 - a + b) + l
    BY SpanFor
  <2> HIDE DEF y
  <2> HIDE DEF level, i, j
  <2>2. Size(y) < Size(x)
    <3>1. a \in Int /\ b \in Int /\ l \in Int /\ i \in Int /\ j \in Int /\ level \in Int /\ Len(src) \in Int
      BY <1>1 DEF Q!Places
    <3> QED BY <1>2, <1>3, <2>1, <3>1
  <2>3. f[y] = g[y]
    BY <2>1, <2>2
  <2> QED BY <2>3 DEF y
<1> HIDE DEF level, i, j
<1> SUFFICES Q!ReadingsAt(f, level, i, j) = Q!ReadingsAt(g, level, i, j)
  BY DEF level, i, j
<1>4. CASE i > j
  BY <1>4 DEF Q!ReadingsAt
<1>5. CASE ~(i > j) /\ level = 0
  <2>1. /\ i + 1 \in Q!Places /\ 4 * (j - (i + 1)) + 0 < 4 * (j - i) + level /\ 0 \in 0 .. 3
        /\ j - 1 \in 0 .. Len(src) /\ 4 * ((j - 1) - (i + 1)) + 3 < 4 * (j - i) + level /\ 3 \in 0 .. 3
    BY <1>1, <1>5 DEF Q!Places
  <2>2. f[<<0, i + 1, j>>] = g[<<0, i + 1, j>>]
    BY <1>1, <1>3, <2>1
  <2>3. f[<<3, i + 1, j - 1>>] = g[<<3, i + 1, j - 1>>]
    BY <1>1, <1>3, <2>1
  <2> QED BY <1>5, <2>2, <2>3 DEF Q!ReadingsAt
<1>6. CASE ~(i > j) /\ level # 0
  <2>1. level - 1 \in 0 .. 3 /\ 4 * (j - i) + (level - 1) < 4 * (j - i) + level
    BY <1>1, <1>6 DEF Q!Places
  <2>2. f[<<level - 1, i, j>>] = g[<<level - 1, i, j>>]
    BY <1>1, <1>3, <2>1
  <2> DEFINE K == {n \in i + 1 .. j - 1 : src[n] \in Q!GrammarOps[level]}
             A(h, k) == {Q!Between(src[k], l, r) : l \in h[<<level, i, k - 1>>], r \in h[<<level - 1, k + 1, j>>]}
  <2>3. ASSUME NEW k \in K PROVE A(f, k) = A(g, k)
    <3>1. /\ k - 1 \in 0 .. Len(src) /\ 4 * ((k - 1) - i) + level < 4 * (j - i) + level
          /\ k + 1 \in Q!Places /\ 4 * (j - (k + 1)) + (level - 1) < 4 * (j - i) + level
      BY <1>1, <1>6 DEF Q!Places
    <3>2. f[<<level, i, k - 1>>] = g[<<level, i, k - 1>>]
      BY <1>1, <1>3, <3>1
    <3>3. f[<<level - 1, k + 1, j>>] = g[<<level - 1, k + 1, j>>]
      BY <1>1, <1>3, <2>1, <3>1
    <3> QED BY <3>2, <3>3
  <2>4. /\ Q!ReadingsAt(f, level, i, j) = f[<<level - 1, i, j>>] \cup UNION {A(f, k) : k \in K}
        /\ Q!ReadingsAt(g, level, i, j) = g[<<level - 1, i, j>>] \cup UNION {A(g, k) : k \in K}
    BY <1>6 DEF Q!ReadingsAt
  <2> HIDE DEF A, K
  <2>5. {A(f, k) : k \in K} = {A(g, k) : k \in K}
    BY <2>3
  <2> QED BY <2>2, <2>4, <2>5
<1> QED BY <1>4, <1>5, <1>6

\* The function they are given by exists.
Short(n) == {x \in Q!Spans : Size(x) < n}
Read(f, n) == f = [x \in Short(n) |-> Q!ReadingsAt(f, x[1], x[2], x[3])]

LEMMA ReadingsAre ==
  ASSUME src \in Seq(Words)
  PROVE  \A x \in Q!Spans : Q!Readings[x] = Q!ReadingsAt(Q!Readings, x[1], x[2], x[3])
<1>1. \A x \in Q!Spans : Size(x) \in Nat
  BY SpanIs
<1> DEFINE S == {n \in Nat : \E f : Read(f, n)}
<1>2. 0 \in S
  <2>1. Short(0) = {}
    BY <1>1 DEF Short
  <2> DEFINE f == [x \in {} |-> Q!ReadingsAt(<<>>, x[1], x[2], x[3])]
  <2>2. f = [x \in Short(0) |-> Q!ReadingsAt(f, x[1], x[2], x[3])]
    BY <2>1
  <2> QED BY <2>2 DEF Read
<1>3. ASSUME NEW n \in Nat, n \in S PROVE n + 1 \in S
  <2>1. PICK f : Read(f, n)
    BY <1>3
  <2> DEFINE g == [x \in Short(n + 1) |-> IF x \in Short(n) THEN f[x] ELSE Q!ReadingsAt(f, x[1], x[2], x[3])]
  <2>2. Short(n) \subseteq Short(n + 1) /\ Short(n + 1) \subseteq Q!Spans
    BY <1>1 DEF Short
  <2>3. \A x \in Short(n) : f[x] = Q!ReadingsAt(f, x[1], x[2], x[3])
    BY <2>1, Zenon DEF Read
  <2>4. \A x \in Short(n + 1), y \in Q!Spans : Size(y) < Size(x) => y \in Short(n)
    BY <1>1 DEF Short
  <2>5. \A y \in Short(n) : f[y] = g[y]
    BY <2>2
  <2>6. \A x \in Short(n + 1) : g[x] = IF x \in Short(n) THEN f[x] ELSE Q!ReadingsAt(f, x[1], x[2], x[3])
    OBVIOUS
  <2>7. g = [x \in Short(n + 1) |-> g[x]]
    OBVIOUS
  <2> HIDE DEF g
  <2>8. ASSUME NEW x \in Short(n + 1) PROVE g[x] = Q!ReadingsAt(g, x[1], x[2], x[3])
    <3>1. x \in Q!Spans
      BY <2>2
    <3>2. \A y \in Q!Spans : Size(y) < Size(x) => f[y] = g[y]
      BY <2>4, <2>5
    <3>3. Q!ReadingsAt(f, x[1], x[2], x[3]) = Q!ReadingsAt(g, x[1], x[2], x[3])
      BY <3>1, <3>2, ReadingStep
    <3>4. g[x] = Q!ReadingsAt(f, x[1], x[2], x[3])
      BY <2>3, <2>6
    <3> QED BY <3>3, <3>4
  <2>9. g = [x \in Short(n + 1) |-> Q!ReadingsAt(g, x[1], x[2], x[3])]
    BY <2>7, <2>8, Zenon
  <2>10. Read(g, n + 1)
    BY <2>9 DEF Read
  <2> QED BY <2>10
<1> HIDE DEF S
<1>4. \A n \in Nat : n \in S
  BY <1>2, <1>3, AllNumbers
<1> DEFINE N == 8 * (Len(src) + 1) + 4
<1>5. N \in Nat /\ Short(N) = Q!Spans
  <2>1. N \in Nat
    OBVIOUS
  <2>2. ASSUME NEW x \in Q!Spans PROVE Size(x) < N
    <3>1. x[1] \in 0 .. 3 /\ x[2] \in 1 .. Len(src) + 1 /\ x[3] \in 0 .. Len(src) /\ Len(src) \in Nat
      BY SpanIs DEF Q!Places
    <3> QED BY <3>1 DEF Size
  <2> QED BY <2>1, <2>2 DEF Short
<1> HIDE DEF N
<1>6. PICK f : Read(f, N)
  BY <1>4, <1>5 DEF S
<1>7. \E h : h = [x \in Q!Spans |-> Q!ReadingsAt(h, x[1], x[2], x[3])]
  BY <1>5, <1>6 DEF Read
<1> DEFINE F == Q!Readings
<1>8. F = [x \in Q!Spans |-> Q!ReadingsAt(F, x[1], x[2], x[3])]
  BY <1>7 DEF Q!Readings
<1> HIDE DEF F
<1>9. \A x \in Q!Spans : F[x] = Q!ReadingsAt(F, x[1], x[2], x[3])
  BY <1>8, Zenon
<1> QED BY <1>9 DEF F

SpanReads(level, i, j) == Q!Readings[<<level, i, j>>]

\* What has a reading at a level, and how it has it.
LEMMA ReadAs ==
  ASSUME src \in Seq(Words), NEW i \in Q!Places, NEW j \in 0 .. Len(src), NEW T
  PROVE  /\ T \in SpanReads(0, i, j) <=>
              /\ i <= j
              /\ \/ i = j /\ src[i] \in Q!Atom /\ T = Q!Word(src[i])
                 \/ src[i] = "not" /\ \E r \in SpanReads(0, i + 1, j) : T = Q!Not(r)
                 \/ src[i] = "[" /\ src[j] = "]" /\ T \in SpanReads(3, i + 1, j - 1)
         /\ \A level \in 1 .. 3 :
              T \in SpanReads(level, i, j) <=>
                /\ i <= j
                /\ \/ T \in SpanReads(level - 1, i, j)
                   \/ \E k \in i + 1 .. j - 1 :
                        /\ src[k] \in Q!Infix[level]
                        /\ \E l \in SpanReads(level, i, k - 1), r \in SpanReads(level - 1, k + 1, j) : T = Q!Between(src[k], l, r)
<1> DEFINE F == Q!Readings
<1>1. \A x \in Q!Spans : F[x] = Q!ReadingsAt(F, x[1], x[2], x[3])
  BY ReadingsAre
<1> HIDE DEF F
<1>2. \A level \in 0 .. 3 : F[<<level, i, j>>] = Q!ReadingsAt(F, level, i, j)
  <2> TAKE level \in 0 .. 3
  <2> DEFINE x == <<level, i, j>>
  <2>1. x \in Q!Spans /\ x[1] = level /\ x[2] = i /\ x[3] = j
    BY SpanFor
  <2> HIDE DEF x
  <2>2. F[x] = Q!ReadingsAt(F, level, i, j)
    BY <1>1, <2>1
  <2> QED BY <2>2 DEF x
<1>3. i \in Int /\ j \in Int
  BY DEF Q!Places
<1>4. T \in Q!ReadingsAt(F, 0, i, j) <=>
        /\ i <= j
        /\ \/ i = j /\ src[i] \in Q!Atom /\ T = Q!Word(src[i])
           \/ src[i] = "not" /\ \E r \in F[<<0, i + 1, j>>] : T = Q!Not(r)
           \/ src[i] = "[" /\ src[j] = "]" /\ T \in F[<<3, i + 1, j - 1>>]
  <2>1. CASE i > j
    BY <1>3, <2>1 DEF Q!ReadingsAt
  <2>2. CASE ~(i > j)
    <3>1. i <= j
      BY <1>3, <2>2
    <3>2. T \in Q!ReadingsAt(F, 0, i, j) <=>
             \/ T \in (IF i = j /\ src[i] \in Q!Atom THEN {Q!Word(src[i])} ELSE {})
             \/ T \in (IF src[i] = "not" THEN {Q!Not(r) : r \in F[<<0, i + 1, j>>]} ELSE {})
             \/ T \in (IF src[i] = "[" /\ src[j] = "]" THEN F[<<3, i + 1, j - 1>>] ELSE {})
      BY <2>2 DEF Q!ReadingsAt
    <3>3. T \in (IF src[i] = "not" THEN {Q!Not(r) : r \in F[<<0, i + 1, j>>]} ELSE {})
            <=> src[i] = "not" /\ \E r \in F[<<0, i + 1, j>>] : T = Q!Not(r)
      OBVIOUS
    <3>4. T \in (IF i = j /\ src[i] \in Q!Atom THEN {Q!Word(src[i])} ELSE {}) <=> i = j /\ src[i] \in Q!Atom /\ T = Q!Word(src[i])
      OBVIOUS
    <3>5. T \in (IF src[i] = "[" /\ src[j] = "]" THEN F[<<3, i + 1, j - 1>>] ELSE {})
            <=> src[i] = "[" /\ src[j] = "]" /\ T \in F[<<3, i + 1, j - 1>>]
      OBVIOUS
    <3> QED BY <3>1, <3>2, <3>3, <3>4, <3>5, Zenon
  <2> QED BY <2>1, <2>2
<1>5. ASSUME NEW level \in 1 .. 3
      PROVE  T \in Q!ReadingsAt(F, level, i, j) <=>
                /\ i <= j
                /\ \/ T \in F[<<level - 1, i, j>>]
                   \/ \E k \in i + 1 .. j - 1 :
                        /\ src[k] \in Q!Infix[level]
                        /\ \E l \in F[<<level, i, k - 1>>], r \in F[<<level - 1, k + 1, j>>] : T = Q!Between(src[k], l, r)
  <2>1. CASE i > j
    BY <1>3, <2>1 DEF Q!ReadingsAt
  <2>2. CASE ~(i > j)
    <3> DEFINE K == {n \in i + 1 .. j - 1 : src[n] \in Q!GrammarOps[level]}
               A(k) == {Q!Between(src[k], l, r) : l \in F[<<level, i, k - 1>>], r \in F[<<level - 1, k + 1, j>>]}
    <3>1. i <= j /\ level # 0
      BY <1>3, <2>2
    <3>2. Q!ReadingsAt(F, level, i, j) = F[<<level - 1, i, j>>] \cup UNION {A(k) : k \in K}
      BY <2>2, <3>1 DEF Q!ReadingsAt
    <3>3. Q!GrammarOps[level] = Q!Infix[level]
      <4>1. level = 1 \/ level = 2 \/ level = 3
        OBVIOUS
      <4> QED BY <4>1 DEF Q!GrammarOps, Q!Infix, Q!Comparison
    <3>4. \A k : k \in K <=> k \in i + 1 .. j - 1 /\ src[k] \in Q!Infix[level]
      BY <3>3
    <3>5. \A k : T \in A(k) <=> \E l \in F[<<level, i, k - 1>>], r \in F[<<level - 1, k + 1, j>>] : T = Q!Between(src[k], l, r)
      OBVIOUS
    <3> HIDE DEF A, K
    <3>6. T \in UNION {A(k) : k \in K} <=> \E k \in K : T \in A(k)
      OBVIOUS
    <3>7. T \in Q!ReadingsAt(F, level, i, j) <=> T \in F[<<level - 1, i, j>>] \/ \E k \in K : T \in A(k)
      BY <3>2, <3>6
    <3> QED BY <3>1, <3>4, <3>5, <3>7, Zenon
  <2> QED BY <2>1, <2>2
<1>6. \A level \in 1 .. 3 : level \in 0 .. 3
  OBVIOUS
<1>7. F[<<0, i, j>>] = Q!ReadingsAt(F, 0, i, j)
  BY <1>2
<1>8. \A level \in 1 .. 3 : F[<<level, i, j>>] = Q!ReadingsAt(F, level, i, j)
  BY <1>2, <1>6
<1> QED BY <1>4, <1>5, <1>7, <1>8, Zenon DEF SpanReads, F

LEMMA ReadHow ==
  ASSUME src \in Seq(Words), NEW i \in Q!Places, NEW j \in 0 .. Len(src), i <= j
  PROVE  /\ \A r \in SpanReads(0, i + 1, j) : src[i] = "not" => Q!Not(r) \in SpanReads(0, i, j)
         /\ \A T \in SpanReads(3, i + 1, j - 1) : src[i] = "[" /\ src[j] = "]" => T \in SpanReads(0, i, j)
         /\ \A level \in 1 .. 3 : \A T \in SpanReads(level - 1, i, j) : T \in SpanReads(level, i, j)
         /\ \A level \in 1 .. 3 : \A k \in i + 1 .. j - 1 : src[k] \in Q!Infix[level] =>
              \A l \in SpanReads(level, i, k - 1), r \in SpanReads(level - 1, k + 1, j) : Q!Between(src[k], l, r) \in SpanReads(level, i, j)
<1>1. ASSUME NEW r \in SpanReads(0, i + 1, j), src[i] = "not" PROVE Q!Not(r) \in SpanReads(0, i, j)
  BY <1>1, ReadAs, Zenon
<1>2. ASSUME NEW T \in SpanReads(3, i + 1, j - 1), src[i] = "[" /\ src[j] = "]" PROVE T \in SpanReads(0, i, j)
  BY <1>2, ReadAs, Zenon
<1>3. ASSUME NEW level \in 1 .. 3, NEW T \in SpanReads(level - 1, i, j) PROVE T \in SpanReads(level, i, j)
  BY <1>3, ReadAs, Zenon
<1>4. ASSUME NEW level \in 1 .. 3, NEW k \in i + 1 .. j - 1, src[k] \in Q!Infix[level],
             NEW l \in SpanReads(level, i, k - 1), NEW r \in SpanReads(level - 1, k + 1, j)
      PROVE  Q!Between(src[k], l, r) \in SpanReads(level, i, j)
  BY <1>4, ReadAs, Zenon
<1> QED BY <1>1, <1>2, <1>3, <1>4

-----------------------------------------------------------------------------
\* What the compiler has taken can be read.
Readable(x) ==
  LET e == Q!Compiled[x] IN
  e.ok => IF x[1] = "whole" THEN SpanReads(x[2], x[3], e.at - 1) # {}
          ELSE \A i \in 1 .. x[3] - 1 : SpanReads(x[2], i, x[3] - 1) # {} => SpanReads(x[2], i, e.at - 1) # {}

\* What the compiler takes has a reading.
LEMMA ReadableStep ==
  ASSUME src \in Seq(Words), NEW x \in Q!Points, \A y \in Q!Points : Remaining(y) < Remaining(x) => Readable(y)
  PROVE  Readable(x)
<1> DEFINE level == x[2] n == x[3] tok == Q!Token(n)
<1>1. /\ x[1] \in {"whole", "rest"} /\ level \in 0 .. 3 /\ n \in Q!Places /\ Len(src) \in Nat
      /\ x[1] = "rest" => level \in 1 .. 3
      /\ x = <<x[1], level, n>>
  BY PointIs DEF Q!Places
<1>2. Remaining(x) = 4 * (Len(src) + 1 - n) + level
  BY DEF Remaining
<1> HIDE DEF level, n, tok
<1>3. ASSUME NEW l \in 0 .. 3, NEW p \in Q!Places, 4 * (Len(src) + 1 - p) + l < 4 * (Len(src) + 1 - n) + level
      PROVE  /\ Whole(l, p).ok => SpanReads(l, p, Whole(l, p).at - 1) # {}
             /\ l # 0 /\ Rest(l, p).ok => \A i \in 1 .. p - 1 : SpanReads(l, i, p - 1) # {} => SpanReads(l, i, Rest(l, p).at - 1) # {}
  <2> DEFINE y == <<"whole", l, p>> z == <<"rest", l, p>>
  <2>1. /\ y \in Q!Points /\ (l # 0 => z \in Q!Points)
        /\ Remaining(y) = 4 * (Len(src) + 1 - p) + l /\ Remaining(z) = 4 * (Len(src) + 1 - p) + l
    BY PointFor
  <2>2. y[1] = "whole" /\ y[2] = l /\ y[3] = p /\ z[1] = "rest" /\ z[2] = l /\ z[3] = p
    OBVIOUS
  <2>3. Whole(l, p) = Q!Compiled[y] /\ Rest(l, p) = Q!Compiled[z]
    BY DEF Whole, Rest
  <2> HIDE DEF y, z
  <2>4. Readable(y) /\ (l # 0 => Readable(z))
    BY <1>2, <1>3, <2>1
  <2> QED BY <2>2, <2>3, <2>4 DEF Readable
<1>4. \A p \in Q!Places, l \in 0 .. 3 : n < p => 4 * (Len(src) + 1 - p) + l < 4 * (Len(src) + 1 - n) + level
  BY <1>1 DEF Q!Places
<1>5. tok # Q!End => n \in 1 .. Len(src) /\ n + 1 \in Q!Places /\ tok = src[n]
  BY <1>1, TokenIs DEF tok
<1>6. \A p \in Q!Places : p - 1 \in 0 .. Len(src)
  BY DEF Q!Places
<1>7. CASE x[1] = "rest"
  <2>1. level \in 1 .. 3 /\ level - 1 \in 0 .. 3 /\ level # 0 /\ level \in 0 .. 3
    BY <1>1, <1>7
  <2> SUFFICES ASSUME Rest(level, n).ok, NEW i \in 1 .. n - 1, SpanReads(level, i, n - 1) # {}
               PROVE  SpanReads(level, i, Rest(level, n).at - 1) # {}
    <3>1. Q!Compiled[x] = Rest(level, n)
      BY <1>1, <1>7 DEF Rest
    <3> QED BY <1>7, <3>1 DEF Readable, level, n
  <2>2. CASE tok \notin Q!Infix[level]
    <3>1. Rest(level, n) = Q!Code(n, <<>>)
      BY <1>1, <2>1, <2>2, RestIs DEF tok
    <3>2. Rest(level, n).at = n
      BY <3>1 DEF Q!Code
    <3> QED BY <3>2
  <2>3. CASE tok \in Q!Infix[level]
    <3> DEFINE right == Whole(level - 1, n + 1) more == Rest(level, right.at)
    <3>1. /\ n + 1 \in Q!Places /\ n <= Len(src) /\ tok = src[n] /\ tok \in AllWords
          /\ Rest(level, n) = IF right.ok THEN Q!Joined(Q!Emit(right, tok), more) ELSE Q!Failed
      BY <1>1, <2>1, <2>3, RestIs DEF tok
    <3>2. right \in Result /\ (right.ok => right.at \in Q!Places /\ n + 1 < right.at)
      BY <2>1, <3>1, CompilesAs
    <3>3. right.ok => SpanReads(level - 1, n + 1, right.at - 1) # {}
      <4>1. n < n + 1
        BY <1>1 DEF Q!Places
      <4> QED BY <1>3, <1>4, <2>1, <3>1, <4>1
    <3> HIDE DEF right
    <3>4. right.ok
      BY <3>1 DEF Q!Failed
    <3>5. right.at \in Q!Places /\ n + 1 < right.at /\ n < right.at
      BY <1>1, <3>2, <3>4 DEF Q!Places
    <3>6. more \in Result
      BY <2>1, <3>5, CompilesAs
    <3>7. more.ok => \A h \in 1 .. right.at - 1 : SpanReads(level, h, right.at - 1) # {} => SpanReads(level, h, more.at - 1) # {}
      BY <1>3, <1>4, <2>1, <3>5
    <3> HIDE DEF more
    <3>8. Q!Emit(right, tok) \in Result
      BY <3>1, <3>2, Results
    <3>9. more.ok /\ Rest(level, n).at = more.at
      <4> DEFINE E == Q!Emit(right, tok)
      <4>1. Rest(level, n) = Q!Joined(E, more)
        BY <3>1, <3>4
      <4> HIDE DEF E
      <4>2. E \in Result
        BY <3>8 DEF E
      <4>3. Q!Joined(E, more).ok = more.ok /\ (more.ok => Q!Joined(E, more).at = more.at)
        BY <3>6, <4>2, Results
      <4> QED BY <4>1, <4>3
    <3>10. SpanReads(level, i, right.at - 1) # {}
      <4>1. PICK l \in SpanReads(level, i, n - 1), r \in SpanReads(level - 1, n + 1, right.at - 1) : TRUE
        BY <3>3, <3>4
      <4>2. i \in Q!Places /\ right.at - 1 \in 0 .. Len(src) /\ i <= right.at - 1 /\ n \in i + 1 .. (right.at - 1) - 1
        BY <1>1, <1>6, <3>5 DEF Q!Places
      <4>3. Q!Between(src[n], l, r) \in SpanReads(level, i, right.at - 1)
        BY <2>1, <2>3, <3>1, <4>1, <4>2, ReadHow
      <4> QED BY <4>3
    <3>11. i \in 1 .. right.at - 1
      BY <1>1, <3>5 DEF Q!Places
    <3> QED BY <3>7, <3>9, <3>10, <3>11
  <2> QED BY <2>2, <2>3
<1>8. CASE x[1] = "whole" /\ level = 0
  <2> SUFFICES ASSUME Whole(0, n).ok PROVE SpanReads(0, n, Whole(0, n).at - 1) # {}
    <3>1. Q!Compiled[x] = Whole(0, n)
      BY <1>1, <1>8 DEF Whole
    <3> QED BY <1>8, <3>1 DEF Readable, level, n
  <2>1. tok \in Q!Atom \cup {"[", "not"}
    <3>1. ASSUME tok \notin Q!Atom \cup {"[", "not"} PROVE FALSE
      <4>1. Whole(0, n) = Q!Failed
        BY <1>1, <3>1, PrimaryIs DEF tok
      <4> QED BY <4>1 DEF Q!Failed
    <3> QED BY <3>1
  <2>2. tok # Q!End
    BY <2>1, Kinds
  <2>3. n \in 1 .. Len(src) /\ n + 1 \in Q!Places /\ tok = src[n] /\ n < n + 1 /\ n <= n /\ n \in 0 .. Len(src)
    BY <1>5, <2>2
  <2>4. CASE tok \in Q!Atom
    <3>1. Whole(0, n) = Q!Code(n + 1, <<tok>>)
      BY <1>1, <2>4, PrimaryIs DEF tok
    <3>2. Whole(0, n).at - 1 = n
      BY <2>3, <3>1 DEF Q!Code
    <3>3. Q!Word(src[n]) \in SpanReads(0, n, n)
      BY <1>1, <2>3, <2>4, ReadAs
    <3> QED BY <3>2, <3>3
  <2>5. CASE tok = "["
    <3> DEFINE e == Whole(3, n + 1)
    <3>1. Whole(0, n) = IF e.ok /\ Q!Token(e.at) = "]" THEN Q!Code(e.at + 1, e.ops) ELSE Q!Failed
      BY <1>1, <2>5, PrimaryIs DEF tok
    <3>2. e.ok => e.at \in Q!Places /\ n + 1 < e.at
      BY <2>3, CompilesAs
    <3>3. e.ok => SpanReads(3, n + 1, e.at - 1) # {}
      <4>1. 3 \in 0 .. 3 /\ n + 1 \in Q!Places /\ n < n + 1
        BY <2>3
      <4>2. 4 * (Len(src) + 1 - (n + 1)) + 3 < 4 * (Len(src) + 1 - n) + level
        BY <1>4, <4>1
      <4> QED BY <1>3, <4>1, <4>2
    <3> HIDE DEF e
    <3>4. e.ok /\ Q!Token(e.at) = "]"
      BY <3>1 DEF Q!Failed
    <3>5. e.at \in 0 .. Len(src) /\ src[e.at] = "]"
      <4>1. "]" # Q!End
        BY Kinds
      <4> QED BY <3>2, <3>4, <4>1, TokenIs
    <3>6. Whole(0, n).at - 1 = e.at /\ n <= e.at
      BY <2>3, <3>1, <3>2, <3>4, <3>5 DEF Q!Code
    <3>7. PICK T : T \in SpanReads(3, n + 1, e.at - 1)
      BY <3>3, <3>4
    <3>8. T \in SpanReads(0, n, e.at)
      BY <1>1, <2>3, <2>5, <3>5, <3>6, <3>7, ReadAs
    <3> QED BY <3>6, <3>8
  <2>6. CASE tok = "not"
    <3> DEFINE e == Whole(0, n + 1)
    <3>1. Whole(0, n) = IF e.ok THEN Q!Emit(e, "not") ELSE Q!Failed
      BY <1>1, <2>6, PrimaryIs DEF tok
    <3>2. e \in Result /\ (e.ok => e.at \in Q!Places /\ n + 1 < e.at)
      BY <2>3, CompilesAs
    <3>3. e.ok => SpanReads(0, n + 1, e.at - 1) # {}
      <4>1. 0 \in 0 .. 3 /\ n + 1 \in Q!Places /\ n < n + 1
        BY <2>3
      <4>2. 4 * (Len(src) + 1 - (n + 1)) + 0 < 4 * (Len(src) + 1 - n) + level
        BY <1>4, <4>1
      <4> QED BY <1>3, <4>1, <4>2
    <3> HIDE DEF e
    <3>4. e.ok
      BY <3>1 DEF Q!Failed
    <3>5. Whole(0, n).at = e.at
      <4>1. "not" \in AllWords
        BY Kinds
      <4>2. Q!Emit(e, "not").at = e.at
        BY <3>2, <4>1, Results
      <4> QED BY <3>1, <3>4, <4>2
    <3>6. e.at - 1 \in 0 .. Len(src) /\ n <= e.at - 1
      BY <1>6, <2>3, <3>2, <3>4 DEF Q!Places
    <3>7. PICK r : r \in SpanReads(0, n + 1, e.at - 1)
      BY <3>3, <3>4
    <3>8. Q!Not(r) \in SpanReads(0, n, e.at - 1)
      BY <1>1, <2>3, <2>6, <3>6, <3>7, ReadHow
    <3> QED BY <3>5, <3>8
  <2> QED BY <2>1, <2>4, <2>5, <2>6
<1>9. CASE x[1] = "whole" /\ level # 0
  <2>1. level \in 1 .. 3 /\ level - 1 \in 0 .. 3 /\ level \in 0 .. 3
    BY <1>1, <1>9
  <2> SUFFICES ASSUME Whole(level, n).ok PROVE SpanReads(level, n, Whole(level, n).at - 1) # {}
    <3>1. Q!Compiled[x] = Whole(level, n)
      BY <1>1, <1>9 DEF Whole
    <3> QED BY <1>9, <3>1 DEF Readable, level, n
  <2> DEFINE left == Whole(level - 1, n) more == Rest(level, left.at)
  <2>2. Whole(level, n) = IF left.ok THEN Q!Joined(left, more) ELSE Q!Failed
    BY <1>1, <2>1, CompilesAs
  <2>3. left \in Result /\ (left.ok => left.at \in Q!Places /\ n < left.at)
    BY <1>1, <2>1, CompilesAs
  <2>4. left.ok => SpanReads(level - 1, n, left.at - 1) # {}
    <3>1. 4 * (Len(src) + 1 - n) + (level - 1) < 4 * (Len(src) + 1 - n) + level
      BY <1>1 DEF Q!Places
    <3> QED BY <1>1, <1>3, <2>1, <3>1
  <2> HIDE DEF left
  <2>5. left.ok
    BY <2>2 DEF Q!Failed
  <2>6. more \in Result
    BY <2>1, <2>3, <2>5, CompilesAs
  <2>7. more.ok => \A h \in 1 .. left.at - 1 : SpanReads(level, h, left.at - 1) # {} => SpanReads(level, h, more.at - 1) # {}
    BY <1>3, <1>4, <1>9, <2>1, <2>3, <2>5
  <2> HIDE DEF more
  <2>8. more.ok /\ Whole(level, n).at = more.at
    <3>1. Whole(level, n) = Q!Joined(left, more)
      BY <2>2, <2>5
    <3>2. Q!Joined(left, more).ok = more.ok /\ (more.ok => Q!Joined(left, more).at = more.at)
      BY <2>3, <2>6, Results
    <3> QED BY <3>1, <3>2
  <2>9. n \in 1 .. left.at - 1 /\ left.at - 1 \in 0 .. Len(src) /\ n <= left.at - 1
    BY <1>1, <2>3, <2>5 DEF Q!Places
  <2>10. SpanReads(level, n, left.at - 1) # {}
    <3>1. PICK T : T \in SpanReads(level - 1, n, left.at - 1)
      BY <2>4, <2>5
    <3>2. T \in SpanReads(level, n, left.at - 1)
      BY <1>1, <2>1, <2>9, <3>1, ReadAs
    <3> QED BY <3>2
  <2> QED BY <2>7, <2>8, <2>9, <2>10
<1> QED BY <1>1, <1>7, <1>8, <1>9

LEMMA AllReadable ==
  ASSUME src \in Seq(Words)
  PROVE  \A x \in Q!Points : Readable(x)
<1>1. \A x \in Q!Points : Remaining(x) \in Nat
  BY PointIs
<1> DEFINE S == {n \in Nat : \A x \in Soon(n) : Readable(x)}
<1>2. 0 \in S
  BY <1>1 DEF Soon
<1>3. ASSUME NEW n \in Nat, n \in S PROVE n + 1 \in S
  <2>1. ASSUME NEW x \in Soon(n + 1) PROVE Readable(x)
    <3>1. x \in Q!Points /\ \A y \in Q!Points : Remaining(y) < Remaining(x) => y \in Soon(n)
      BY <1>1 DEF Soon
    <3> QED BY <1>3, <3>1, ReadableStep
  <2> QED BY <2>1
<1> HIDE DEF S
<1>4. \A n \in Nat : n \in S
  BY <1>2, <1>3, AllNumbers
<1> TAKE x \in Q!Points
<1>5. Remaining(x) + 1 \in S /\ x \in Soon(Remaining(x) + 1)
  BY <1>1, <1>4 DEF Soon
<1> QED BY <1>5 DEF S

\* What the operations make: the machine's stack, and the readings they put together.
Items == {x \in [type : {"integer", "boolean"}, value : Int] : x.type = "boolean" => x.value \in {0, 1}}
Machines == [stack : Seq(Items), stop : {"no", "error"}]

Build(s, op) ==
  IF op \in Q!Atom THEN Append(s, Q!Word(op))
  ELSE IF op = "not" THEN Append(SubSeq(s, 1, Len(s) - 1), Q!Not(s[Len(s)]))
  ELSE Append(SubSeq(s, 1, Len(s) - 2), Q!Between(op, s[Len(s) - 1], s[Len(s)]))

Trace(task, ops, g, h) ==
  \A n \in 1 .. Len(ops) : g[n] = Build(g[n - 1], ops[n]) /\ h[n] = Q!Step(task, h[n - 1], ops[n])
Leads(task, ops, s, m, s2, m2) ==
  \E g, h : /\ g[0] = s /\ h[0] = m /\ Trace(task, ops, g, h)
            /\ g[Len(ops)] = s2 /\ h[Len(ops)] = m2

\* Code runs operation by operation, and on from one code to the next.
LEMMA LeadsOne ==
  ASSUME NEW task, NEW op, NEW s, NEW m
  PROVE  Leads(task, <<op>>, s, m, Build(s, op), Q!Step(task, m, op))
<1> DEFINE g == [n \in 0 .. 1 |-> IF n = 0 THEN s ELSE Build(s, op)]
           h == [n \in 0 .. 1 |-> IF n = 0 THEN m ELSE Q!Step(task, m, op)]
<1>1. g[0] = s /\ h[0] = m /\ g[1] = Build(s, op) /\ h[1] = Q!Step(task, m, op)
  OBVIOUS
<1> HIDE DEF g, h
<1>2. Len(<<op>>) = 1 /\ <<op>>[1] = op
  OBVIOUS
<1>3. \A n \in 1 .. 1 : n = 1 /\ n - 1 = 0
  OBVIOUS
<1>4. Trace(task, <<op>>, g, h)
  BY <1>1, <1>2, <1>3 DEF Trace
<1> QED BY <1>1, <1>2, <1>4 DEF Leads

LEMMA LeadsBoth ==
  ASSUME NEW task, NEW a \in Seq(AllWords), NEW b \in Seq(AllWords), NEW s, NEW m, NEW s2, NEW m2, NEW s3, NEW m3,
         Leads(task, a, s, m, s2, m2), Leads(task, b, s2, m2, s3, m3)
  PROVE  Leads(task, a \o b, s, m, s3, m3)
<1>1. PICK g, h : /\ g[0] = s /\ h[0] = m /\ Trace(task, a, g, h)
                  /\ g[Len(a)] = s2 /\ h[Len(a)] = m2
  BY DEF Leads
<1>2. PICK c, d : /\ c[0] = s2 /\ d[0] = m2 /\ Trace(task, b, c, d)
                  /\ c[Len(b)] = s3 /\ d[Len(b)] = m3
  BY DEF Leads
<1> DEFINE N == Len(a) + Len(b) M == Len(a)
           u == [n \in 0 .. N |-> IF n <= M THEN g[n] ELSE c[n - M]]
           v == [n \in 0 .. N |-> IF n <= M THEN h[n] ELSE d[n - M]]
<1>3. Len(a) \in Nat /\ Len(b) \in Nat /\ Len(a \o b) = N
      /\ \A i \in 1 .. N : (a \o b)[i] = IF i <= M THEN a[i] ELSE b[i - M]
  <2>1. a \in Seq(AllWords) /\ b \in Seq(AllWords)
    OBVIOUS
  <2> QED BY <2>1, ConcatProperties, LenProperties
<1>4. \A n \in 0 .. N : /\ u[n] = IF n <= M THEN g[n] ELSE c[n - M]
                        /\ v[n] = IF n <= M THEN h[n] ELSE d[n - M]
  OBVIOUS
<1> HIDE DEF u, v
<1>5. ASSUME NEW n \in 1 .. N
      PROVE  u[n] = Build(u[n - 1], (a \o b)[n]) /\ v[n] = Q!Step(task, v[n - 1], (a \o b)[n])
  <2>0. n \in 0 .. N /\ n - 1 \in 0 .. N /\ n \in Int /\ M \in Int
    BY <1>3
  <2>1. CASE n <= M
    <3>1. n \in 1 .. Len(a) /\ n - 1 <= M
      BY <1>3, <2>1
    <3>2. u[n] = g[n] /\ v[n] = h[n] /\ u[n - 1] = g[n - 1] /\ v[n - 1] = h[n - 1]
      BY <1>4, <2>0, <2>1, <3>1
    <3>3. (a \o b)[n] = a[n]
      BY <1>3, <2>1
    <3> QED BY <1>1, <3>1, <3>2, <3>3 DEF Trace
  <2>2. CASE ~(n <= M)
    <3>1. n - M \in 1 .. Len(b) /\ (n - M) - 1 = (n - 1) - M
      BY <1>3, <2>2
    <3>2. u[n] = c[n - M] /\ v[n] = d[n - M]
      BY <1>4, <2>0, <2>2
    <3>3. u[n - 1] = c[(n - M) - 1] /\ v[n - 1] = d[(n - M) - 1]
      <4>1. CASE n - 1 <= M
        <5>1. n - 1 = M /\ (n - M) - 1 = 0
          BY <2>0, <2>2, <4>1
        <5>2. u[n - 1] = g[M] /\ v[n - 1] = h[M]
          BY <1>4, <2>0, <4>1, <5>1
        <5> QED BY <1>1, <1>2, <5>1, <5>2
      <4>2. CASE ~(n - 1 <= M)
        BY <1>4, <2>0, <3>1, <4>2
      <4> QED BY <4>1, <4>2
    <3>4. (a \o b)[n] = b[n - M]
      BY <1>3, <2>2
    <3>5. /\ c[n - M] = Build(c[(n - M) - 1], b[n - M])
          /\ d[n - M] = Q!Step(task, d[(n - M) - 1], b[n - M])
      BY <1>2, <3>1 DEF Trace
    <3> QED BY <3>2, <3>3, <3>4, <3>5
  <2> QED BY <2>1, <2>2
<1>6. Trace(task, a \o b, u, v)
  BY <1>3, <1>5 DEF Trace
<1>7. u[0] = s /\ v[0] = m
  <2>1. 0 \in 0 .. N /\ 0 <= M
    BY <1>3
  <2> QED BY <1>1, <1>4, <2>1
<1>8. u[N] = s3 /\ v[N] = m3
  <2>1. N \in 0 .. N
    BY <1>3
  <2>2. CASE N <= M
    <3>1. Len(b) = 0 /\ N = M
      BY <1>3, <2>2
    <3> QED BY <1>1, <1>2, <1>4, <2>1, <2>2, <3>1
  <2>3. CASE ~(N <= M)
    <3>1. N - M = Len(b)
      BY <1>3
    <3> QED BY <1>2, <1>4, <2>1, <2>3, <3>1
  <2> QED BY <2>2, <2>3
<1> QED BY <1>3, <1>6, <1>7, <1>8 DEF Leads

\* The operations lead to one result.
LEMMA LeadsAlone ==
  ASSUME NEW task, NEW ops \in Seq(AllWords), NEW s, NEW m, NEW s2, NEW m2, NEW s3, NEW m3,
         Leads(task, ops, s, m, s2, m2), Leads(task, ops, s, m, s3, m3)
  PROVE  s2 = s3 /\ m2 = m3
<1>1. PICK g, h : /\ g[0] = s /\ h[0] = m /\ Trace(task, ops, g, h)
                  /\ g[Len(ops)] = s2 /\ h[Len(ops)] = m2
  BY DEF Leads
<1>2. PICK c, d : /\ c[0] = s /\ d[0] = m /\ Trace(task, ops, c, d)
                  /\ c[Len(ops)] = s3 /\ d[Len(ops)] = m3
  BY DEF Leads
<1> DEFINE S == {n \in Nat : n <= Len(ops) => g[n] = c[n] /\ h[n] = d[n]}
<1>3. 0 \in S
  BY <1>1, <1>2
<1>4. ASSUME NEW n \in Nat, n \in S PROVE n + 1 \in S
  <2>1. CASE n + 1 <= Len(ops)
    <3>1. n + 1 \in 1 .. Len(ops) /\ (n + 1) - 1 = n /\ n <= Len(ops)
      BY <2>1
    <3>2. g[n + 1] = Build(g[n], ops[n + 1]) /\ h[n + 1] = Q!Step(task, h[n], ops[n + 1])
      BY <1>1, <3>1 DEF Trace
    <3>3. c[n + 1] = Build(c[n], ops[n + 1]) /\ d[n + 1] = Q!Step(task, d[n], ops[n + 1])
      BY <1>2, <3>1 DEF Trace
    <3> QED BY <1>4, <3>1, <3>2, <3>3
  <2>2. CASE ~(n + 1 <= Len(ops))
    BY <2>2
  <2> QED BY <2>1, <2>2
<1> HIDE DEF S
<1>5. \A n \in Nat : n \in S
  BY <1>3, <1>4, AllNumbers
<1>6. Len(ops) \in Nat /\ Len(ops) <= Len(ops)
  OBVIOUS
<1>7. g[Len(ops)] = c[Len(ops)] /\ h[Len(ops)] = d[Len(ops)]
  BY <1>5, <1>6 DEF S
<1> QED BY <1>1, <1>2, <1>7

Idle == [stack |-> <<>>, stop |-> "no"]

\* The machine makes what the operations lead to.
LEMMA MachineIs ==
  ASSUME NEW task, NEW ops \in Seq(AllWords), NEW s, NEW s2, NEW m2, Leads(task, ops, s, Idle, s2, m2)
  PROVE  Q!Machine(task, ops) = m2
<1>1. PICK g, h : /\ g[0] = s /\ h[0] = Idle /\ Trace(task, ops, g, h)
                  /\ g[Len(ops)] = s2 /\ h[Len(ops)] = m2
  BY DEF Leads
<1> DEFINE A(f) == [n \in 0 .. Len(ops) |-> IF n = 0 THEN Idle ELSE Q!Step(task, f[n - 1], ops[n])]
           F == CHOOSE f : f = A(f)
           k == [n \in 0 .. Len(ops) |-> h[n]]
<1>2. Q!Machine(task, ops) = F[Len(ops)]
  BY DEF Q!Machine, Idle
<1>3. \A n \in 0 .. Len(ops) : k[n] = h[n]
  OBVIOUS
<1>4. k = [n \in 0 .. Len(ops) |-> k[n]]
  OBVIOUS
<1> HIDE DEF k
<1>5. \A n \in 0 .. Len(ops) : k[n] = IF n = 0 THEN Idle ELSE Q!Step(task, k[n - 1], ops[n])
  <2> TAKE n \in 0 .. Len(ops)
  <2>1. CASE n = 0
    BY <1>1, <1>3, <2>1
  <2>2. CASE n # 0
    <3>1. n \in 1 .. Len(ops) /\ n - 1 \in 0 .. Len(ops)
      BY <2>2
    <3> QED BY <1>1, <1>3, <2>2, <3>1 DEF Trace
  <2> QED BY <2>1, <2>2
<1>6. k = A(k)
  BY <1>4, <1>5, Zenon
<1>7. F = A(F)
  BY <1>6
<1> HIDE DEF F
<1>8. \A n \in 0 .. Len(ops) : F[n] = IF n = 0 THEN Idle ELSE Q!Step(task, F[n - 1], ops[n])
  BY <1>7, Zenon
<1> DEFINE S == {n \in Nat : n <= Len(ops) => F[n] = h[n]}
<1>9. 0 \in S
  BY <1>1, <1>8
<1>10. ASSUME NEW n \in Nat, n \in S PROVE n + 1 \in S
  <2>1. CASE n + 1 <= Len(ops)
    <3>1. n + 1 \in 1 .. Len(ops) /\ (n + 1) - 1 = n /\ n <= Len(ops) /\ n + 1 \in 0 .. Len(ops) /\ n + 1 # 0
      BY <2>1
    <3>2. F[n + 1] = Q!Step(task, F[n], ops[n + 1])
      BY <1>8, <3>1
    <3>3. h[n + 1] = Q!Step(task, h[n], ops[n + 1])
      BY <1>1, <3>1 DEF Trace
    <3> QED BY <1>10, <3>1, <3>2, <3>3
  <2>2. CASE ~(n + 1 <= Len(ops))
    BY <2>2
  <2> QED BY <2>1, <2>2
<1> HIDE DEF S
<1>11. \A n \in Nat : n \in S
  BY <1>9, <1>10, AllNumbers
<1>12. Len(ops) \in Nat /\ Len(ops) <= Len(ops)
  OBVIOUS
<1>13. F[Len(ops)] = h[Len(ops)]
  BY <1>11, <1>12 DEF S
<1> QED BY <1>1, <1>2, <1>13

\* A step of the machine, and what it means.
Running(st) == [stack |-> st, stop |-> "no"]
Follows(m, m2, it) ==
  /\ m2 \in Machines
  /\ IF m.stop = "no" /\ it # Q!Nonsense THEN m2 = Running(Append(m.stack, it)) ELSE m2.stop = "error"

\* The items on a stack, and the machines that run or have stopped.
LEMMA ItemIs ==
  /\ \A b \in BOOLEAN : Q!Truth(b) \in Items /\ Q!Truth(b).type = "boolean" /\ (Q!Truth(b).value = 1 <=> b)
  /\ \A i \in Int : Q!Item("integer", i) \in Items /\ Q!Item("integer", i).type = "integer"
  /\ Q!Nonsense.type = "none" /\ Q!Nonsense \notin Items
  /\ \A x \in Items : x.type \in {"integer", "boolean"} /\ x.value \in Int /\ (x.type = "boolean" => x.value \in {0, 1})
BY DEF Q!Truth, Q!Item, Items, Q!Nonsense

LEMMA MachineHas ==
  ASSUME NEW m \in Machines
  PROVE  /\ m.stop = "no" \/ m.stop = "error"
         /\ m.stack \in Seq(Items) /\ (m.stop = "no" => m = Running(m.stack))
         /\ \A st \in Seq(Items) : Running(st) \in Machines
         /\ \A st : Running(st).stop = "no" /\ Running(st).stack = st
<1>1. m.stop \in {"no", "error"} /\ m.stack \in Seq(Items) /\ m = [stack |-> m.stack, stop |-> m.stop]
  BY DEF Machines
<1> QED BY <1>1 DEF Machines, Running

LEMMA PushIs ==
  ASSUME NEW task \in Tasks, NEW op \in Q!Atom
  PROVE  Q!Push(task, op) \in Items
<1>1. /\ Tag \subseteq Words \ Q!Keyword /\ Numbers \subseteq Words \ Q!Keyword /\ Huids \subseteq Words \ Q!Keyword
      /\ Tag \cap Numbers = {} /\ Tag \cap Huids = {} /\ Numbers \cap Huids = {}
      /\ Value \in [Numbers -> Int] /\ task.priority \in Int
  BY QueryAssumption DEF Q!QueryAssumption
<1>2. {"any", "tagged", "priority"} \subseteq Q!Keyword
  BY DEF Q!Keyword
<1>3. CASE op \in Tag
  <2>1. Q!Push(task, op) = Q!Truth(op \in task.tags)
    BY <1>1, <1>2, <1>3 DEF Q!Push
  <2>2. (op \in task.tags) \in BOOLEAN
    OBVIOUS
  <2> QED BY <2>1, <2>2, ItemIs
<1>4. CASE op \in Huids
  <2>1. Q!Push(task, op) = Q!Truth(task.id = op)
    BY <1>1, <1>2, <1>4 DEF Q!Push
  <2> QED BY <2>1, ItemIs
<1>5. CASE op \in Numbers
  <2>1. Q!Push(task, op) = Q!Item("integer", Value[op])
    BY <1>1, <1>2, <1>5 DEF Q!Push
  <2> QED BY <1>1, <1>5, <2>1, ItemIs
<1>6. CASE op = "any"
  <2>1. Q!Push(task, op) = Q!Truth(TRUE)
    BY <1>1, <1>2, <1>6 DEF Q!Push
  <2> QED BY <2>1, ItemIs
<1>7. CASE op = "tagged"
  <2>1. Q!Push(task, op) = Q!Truth(task.tags # {})
    BY <1>1, <1>2, <1>7 DEF Q!Push
  <2> QED BY <2>1, ItemIs
<1>8. CASE op = "priority"
  <2>1. Q!Push(task, op) = Q!Item("integer", task.priority)
    BY <1>1, <1>2, <1>8 DEF Q!Push
  <2> QED BY <1>1, <2>1, ItemIs
<1> QED BY <1>3, <1>4, <1>5, <1>6, <1>7, <1>8 DEF Q!Atom

\* What a word pushes is of one type, whatever the task.
LEMMA PushTypes ==
  ASSUME NEW s \in Tasks, NEW t \in Tasks, NEW op \in Q!Atom
  PROVE  Q!Push(s, op).type = Q!Push(t, op).type
<1>1. /\ Tag \subseteq Words \ Q!Keyword /\ Numbers \subseteq Words \ Q!Keyword /\ Huids \subseteq Words \ Q!Keyword
      /\ Tag \cap Numbers = {} /\ Tag \cap Huids = {} /\ Numbers \cap Huids = {}
  BY QueryAssumption DEF Q!QueryAssumption
<1>2. {"any", "tagged", "priority"} \subseteq Q!Keyword
  BY DEF Q!Keyword
<1>3. \A b : Q!Truth(b).type = "boolean"
  BY DEF Q!Truth, Q!Item
<1>4. \A i : Q!Item("integer", i).type = "integer"
  BY DEF Q!Item
<1>5. CASE op \in Tag
  BY <1>1, <1>2, <1>3, <1>5 DEF Q!Push
<1>6. CASE op \in Huids
  BY <1>1, <1>2, <1>3, <1>6 DEF Q!Push
<1>7. CASE op \in Numbers
  BY <1>1, <1>2, <1>4, <1>7 DEF Q!Push
<1>8. CASE op \in {"any", "tagged"}
  BY <1>1, <1>2, <1>3, <1>8 DEF Q!Push
<1>9. CASE op = "priority"
  BY <1>1, <1>2, <1>4, <1>9 DEF Q!Push
<1> QED BY <1>5, <1>6, <1>7, <1>8, <1>9 DEF Q!Atom

LEMMA StopStays ==
  ASSUME NEW m \in Machines, m.stop = "error", NEW task, NEW op
  PROVE  Q!Step(task, m, op) = m
BY DEF Q!Step

\* An operand puts one item on top.
LEMMA StepAtom ==
  ASSUME NEW m \in Machines, NEW task \in Tasks, NEW op \in Q!Atom
  PROVE  Follows(m, Q!Step(task, m, op), Q!Push(task, op))
<1>1. Q!Push(task, op) \in Items /\ Q!Push(task, op) # Q!Nonsense
  BY PushIs, ItemIs
<1>2. CASE m.stop = "no"
  <2> DEFINE st == m.stack
  <2>1. m = Running(st) /\ st \in Seq(Items) /\ Len(st) \in Nat
    BY <1>2, MachineHas
  <2>2. Q!Arity(op) = 0
    BY Kinds DEF Q!Arity
  <2> HIDE DEF st
  <2>3. Q!Step(task, m, op) = [m EXCEPT !.stack = Append(@, Q!Push(task, op))]
    BY <1>2, <2>1, <2>2 DEF Q!Step, Running
  <2>4. Q!Step(task, m, op) = Running(Append(st, Q!Push(task, op)))
    BY <2>1, <2>3 DEF Running
  <2>5. Append(st, Q!Push(task, op)) \in Seq(Items)
    BY <1>1, <2>1
  <2>6. Q!Step(task, m, op) \in Machines
    BY <2>4, <2>5, MachineHas
  <2> QED BY <1>1, <1>2, <2>4, <2>6 DEF Follows, st
<1>3. CASE m.stop = "error"
  BY <1>3, StopStays DEF Follows
<1> QED BY <1>2, <1>3, MachineHas

\* The stack below the last item, and the last.
LEMMA LastOff ==
  ASSUME NEW S, NEW st \in Seq(S), NEW a \in S
  PROVE  LET ast == Append(st, a) IN
         /\ ast \in Seq(S) /\ Len(ast) = Len(st) + 1 /\ Len(st) \in Nat /\ ast[Len(st) + 1] = a
         /\ SubSeq(ast, Len(st) + 1, Len(st) + 1) = <<a>> /\ SubSeq(ast, 1, Len(st)) = st
<1> DEFINE ast == Append(st, a)
<1>1. /\ ast \in Seq(S) /\ Len(ast) = Len(st) + 1 /\ Len(st) \in Nat /\ ast[Len(st) + 1] = a
      /\ \A i \in 1 .. Len(st) : ast[i] = st[i]
  OBVIOUS
<1> HIDE DEF ast
<1>2. SubSeq(ast, Len(st) + 1, Len(st) + 1) = <<a>>
  <2>1. SubSeq(ast, Len(st) + 1, Len(st) + 1) = [i \in 1 .. 1 |-> ast[Len(st) + 1 + i - 1]]
    BY <1>1 DEF SubSeq
  <2>2. <<a>> = [i \in 1 .. 1 |-> a]
    OBVIOUS
  <2>3. \A i \in 1 .. 1 : Len(st) + 1 + i - 1 = Len(st) + 1
    BY <1>1
  <2> QED BY <1>1, <2>1, <2>2, <2>3
<1>3. SubSeq(ast, 1, Len(st)) = st
  <2>1. SubSeq(ast, 1, Len(st)) = [i \in 1 .. Len(st) |-> ast[1 + i - 1]]
    BY <1>1 DEF SubSeq
  <2>2. st = [i \in 1 .. Len(st) |-> st[i]]
    OBVIOUS
  <2>3. \A i \in 1 .. Len(st) : 1 + i - 1 = i
    OBVIOUS
  <2> QED BY <1>1, <2>1, <2>2, <2>3
<1> QED BY <1>1, <1>2, <1>3 DEF ast

\* The two items on top of a stack, and what is below them.
LEMMA TwoOff ==
  ASSUME NEW S, NEW st \in Seq(S), NEW a \in S, NEW b \in S
  PROVE  LET ab == Append(Append(st, a), b) IN
         /\ ab \in Seq(S) /\ Len(ab) = Len(st) + 2 /\ Len(st) \in Nat
         /\ ab[Len(st) + 1] = a /\ ab[Len(st) + 2] = b
         /\ SubSeq(ab, Len(st) + 1, Len(st) + 2) = <<a, b>> /\ SubSeq(ab, 1, Len(st)) = st
<1> DEFINE ab == Append(Append(st, a), b)
<1>1. /\ ab \in Seq(S) /\ Len(ab) = Len(st) + 2 /\ Len(st) \in Nat
      /\ ab[Len(st) + 1] = a /\ ab[Len(st) + 2] = b
      /\ \A i \in 1 .. Len(st) : ab[i] = st[i]
  <2>1. /\ Append(st, a) \in Seq(S) /\ Len(Append(st, a)) = Len(st) + 1 /\ Len(st) \in Nat
        /\ Append(st, a)[Len(st) + 1] = a /\ \A i \in 1 .. Len(st) : Append(st, a)[i] = st[i]
    OBVIOUS
  <2> DEFINE x == Append(st, a)
  <2> HIDE DEF x
  <2>2. /\ x \in Seq(S) /\ Len(x) = Len(st) + 1 /\ Len(st) \in Nat
        /\ x[Len(st) + 1] = a /\ \A i \in 1 .. Len(st) : x[i] = st[i]
    BY <2>1 DEF x
  <2>3. /\ Append(x, b) \in Seq(S) /\ Len(Append(x, b)) = Len(st) + 2
        /\ Append(x, b)[Len(st) + 2] = b /\ \A i \in 1 .. Len(st) + 1 : Append(x, b)[i] = x[i]
    BY <2>2
  <2>4. Len(st) + 1 \in 1 .. Len(st) + 1 /\ \A i \in 1 .. Len(st) : i \in 1 .. Len(st) + 1
    BY <2>2
  <2> QED BY <2>2, <2>3, <2>4 DEF x
<1> HIDE DEF ab
<1>2. SubSeq(ab, Len(st) + 1, Len(st) + 2) = <<a, b>>
  <2>1. SubSeq(ab, Len(st) + 1, Len(st) + 2) = [i \in 1 .. 2 |-> ab[Len(st) + 1 + i - 1]]
    BY <1>1 DEF SubSeq
  <2>2. <<a, b>> = [i \in 1 .. 2 |-> IF i = 1 THEN a ELSE b]
    OBVIOUS
  <2>3. \A i \in 1 .. 2 : Len(st) + 1 + i - 1 = Len(st) + i /\ (i = 1 \/ i = 2)
    BY <1>1
  <2>4. \A i \in 1 .. 2 : ab[Len(st) + 1 + i - 1] = IF i = 1 THEN a ELSE b
    BY <1>1, <2>3
  <2> QED BY <2>1, <2>2, <2>4
<1>3. SubSeq(ab, 1, Len(st)) = st
  <2>1. SubSeq(ab, 1, Len(st)) = [i \in 1 .. Len(st) |-> ab[1 + i - 1]]
    BY <1>1 DEF SubSeq
  <2>2. st = [i \in 1 .. Len(st) |-> st[i]]
    OBVIOUS
  <2>3. \A i \in 1 .. Len(st) : 1 + i - 1 = i
    OBVIOUS
  <2> QED BY <1>1, <2>1, <2>2, <2>3
<1> QED BY <1>1, <1>2, <1>3 DEF ab

\* not replaces the item on top, and a binary operation the two on top, or stops.
LEMMA StepNot ==
  ASSUME NEW st \in Seq(Items), NEW a \in Items, NEW task
  PROVE  Follows(Running(st), Q!Step(task, Running(Append(st, a)), "not"), Q!Negated(a))
<1> DEFINE ast == Append(st, a) m == Running(ast)
<1>1. /\ ast \in Seq(Items) /\ Len(ast) = Len(st) + 1 /\ Len(st) \in Nat
      /\ SubSeq(ast, Len(st) + 1, Len(st) + 1) = <<a>> /\ SubSeq(ast, 1, Len(st)) = st
  BY LastOff
<1>2. Q!Arity("not") = 1 /\ Q!Operand("not") = "boolean"
  BY DEF Q!Arity, Q!Operand, Q!Comparison
<1>3. m.stop = "no" /\ m.stack = ast /\ m = [stack |-> ast, stop |-> "no"]
  BY DEF Running
<1> HIDE DEF ast, m
<1>4. Q!Step(task, m, "not") =
        IF Q!WellTyped("not", <<a>>) THEN [m EXCEPT !.stack = Append(SubSeq(@, 1, Len(st)), Q!Apply("not", <<a>>))]
        ELSE [m EXCEPT !.stop = "error"]
  <2>1. Len(m.stack) - Q!Arity("not") = Len(st) /\ Q!Arity("not") # 0 /\ ~(Len(st) < 0)
        /\ SubSeq(m.stack, Len(st) + 1, Len(m.stack)) = <<a>>
    BY <1>1, <1>2, <1>3
  <2> QED BY <1>3, <2>1, Zenon DEF Q!Step
<1>5. Q!WellTyped("not", <<a>>) <=> a.type = "boolean"
  BY <1>2 DEF Q!WellTyped
<1>6. CASE a.type = "boolean"
  <2>1. Q!Apply("not", <<a>>) = Q!Truth(a.value = 0)
    BY DEF Q!Apply, Q!Comparison
  <2>2. a.value \in {0, 1}
    BY <1>6, ItemIs
  <2>3. Q!Negated(a) = Q!Truth(a.value = 0)
    BY <1>6, <2>2 DEF Q!Negated
  <2>4. Q!Step(task, m, "not") = Running(Append(st, Q!Negated(a)))
    <3>1. Q!Step(task, m, "not") = [m EXCEPT !.stack = Append(SubSeq(@, 1, Len(st)), Q!Negated(a))]
      BY <1>4, <1>5, <1>6, <2>1, <2>3
    <3> QED BY <1>1, <1>3, <3>1 DEF Running
  <2>5. Q!Negated(a) \in Items /\ Q!Negated(a) # Q!Nonsense
    BY <2>3, ItemIs
  <2>6. Running(Append(st, Q!Negated(a))) \in Machines
    BY <2>5 DEF Running, Machines
  <2> QED BY <2>4, <2>5, <2>6 DEF Follows, Running, m, ast
<1>7. CASE a.type # "boolean"
  <2>1. Q!Negated(a) = Q!Nonsense
    BY <1>7 DEF Q!Negated
  <2>2. Q!Step(task, m, "not") = [stack |-> ast, stop |-> "error"]
    BY <1>3, <1>4, <1>5, <1>7
  <2>3. Q!Step(task, m, "not") \in Machines
    BY <1>1, <2>2 DEF Machines
  <2> QED BY <2>1, <2>2, <2>3 DEF Follows, m, ast
<1> QED BY <1>6, <1>7

LEMMA StepTwo ==
  ASSUME NEW st \in Seq(Items), NEW a \in Items, NEW b \in Items, NEW task, NEW op \in Q!Comparison \cup {"and", "or"}
  PROVE  Follows(Running(st), Q!Step(task, Running(Append(Append(st, a), b)), op), Q!Combined(op, a, b))
<1> DEFINE ab == Append(Append(st, a), b) m == Running(ab)
<1>1. /\ ab \in Seq(Items) /\ Len(ab) = Len(st) + 2 /\ Len(st) \in Nat
      /\ SubSeq(ab, Len(st) + 1, Len(st) + 2) = <<a, b>> /\ SubSeq(ab, 1, Len(st)) = st
  BY TwoOff
<1>2. Q!Arity(op) = 2 /\ op # "not" /\ Q!Operand(op) = IF op \in Q!Comparison THEN "integer" ELSE "boolean"
  BY Kinds DEF Q!Arity, Q!Operand, Q!Comparison
<1>3. m.stop = "no" /\ m.stack = ab /\ m = [stack |-> ab, stop |-> "no"]
  BY DEF Running
<1> HIDE DEF ab, m
<1>4. Q!Step(task, m, op) =
        IF Q!WellTyped(op, <<a, b>>) THEN [m EXCEPT !.stack = Append(SubSeq(@, 1, Len(st)), Q!Apply(op, <<a, b>>))]
        ELSE [m EXCEPT !.stop = "error"]
  <2>1. Len(m.stack) - Q!Arity(op) = Len(st) /\ Q!Arity(op) # 0 /\ ~(Len(st) < 0)
        /\ SubSeq(m.stack, Len(st) + 1, Len(m.stack)) = <<a, b>>
    BY <1>1, <1>2, <1>3
  <2> QED BY <1>3, <2>1, Zenon DEF Q!Step
<1>5. Q!WellTyped(op, <<a, b>>) <=> a.type = Q!Operand(op) /\ b.type = Q!Operand(op)
  BY DEF Q!WellTyped
<1>6. CASE a.type = Q!Operand(op) /\ b.type = Q!Operand(op)
  <2>1. /\ Q!Apply(op, <<a, b>>) = Q!Combined(op, a, b)
        /\ \E r \in BOOLEAN : Q!Combined(op, a, b) = Q!Truth(r)
    <3>0. /\ a.type = "boolean" => a.value \in {0, 1}
          /\ b.type = "boolean" => b.value \in {0, 1}
          /\ "and" \notin Q!Comparison /\ "or" \notin Q!Comparison
      BY ItemIs DEF Q!Comparison
    <3>1. CASE op = "and"
      <4>1. a.type = "boolean" /\ b.type = "boolean"
        BY <1>2, <1>6, <3>0, <3>1
      <4>2. Q!Apply(op, <<a, b>>) = Q!Truth(a.value = 1 /\ b.value = 1)
        BY <3>1, <3>0 DEF Q!Apply
      <4>3. Q!Combined(op, a, b) = Q!Truth({a.value, b.value} = {1})
        BY <3>1, <3>0, <4>1 DEF Q!Combined
      <4>4. {a.value, b.value} = {1} <=> a.value = 1 /\ b.value = 1
        OBVIOUS
      <4> QED BY <4>2, <4>3, <4>4 DEF Q!Truth
    <3>2. CASE op = "or"
      <4>1. a.type = "boolean" /\ b.type = "boolean"
        BY <1>2, <1>6, <3>0, <3>2
      <4>2. Q!Apply(op, <<a, b>>) = Q!Truth(a.value = 1 \/ b.value = 1)
        BY <3>2, <3>0 DEF Q!Apply
      <4>3. Q!Combined(op, a, b) = Q!Truth(1 \in {a.value, b.value})
        BY <3>2, <3>0, <4>1 DEF Q!Combined
      <4>4. 1 \in {a.value, b.value} <=> a.value = 1 \/ b.value = 1
        OBVIOUS
      <4> QED BY <4>2, <4>3, <4>4 DEF Q!Truth
    <3>3. CASE op \in Q!Comparison
      <4>1. a.type = "integer" /\ b.type = "integer"
        BY <1>2, <1>6, <3>3
      <4>2. Q!Apply(op, <<a, b>>) = Q!Truth(Q!Related(op, a.value, b.value))
        BY <1>2, <3>3, <3>0 DEF Q!Apply
      <4>3. Q!Combined(op, a, b) = Q!Truth(Q!Related(op, a.value, b.value))
        BY <3>3, <3>0, <4>1 DEF Q!Combined
      <4>4. \E r \in BOOLEAN : Q!Truth(Q!Related(op, a.value, b.value)) = Q!Truth(r)
        BY DEF Q!Truth
      <4> QED BY <4>2, <4>3, <4>4
    <3> QED BY <3>1, <3>2, <3>3
  <2> DEFINE c == Q!Combined(op, a, b)
  <2>2. c \in Items /\ c # Q!Nonsense
    BY <2>1, ItemIs
  <2>3. Q!Step(task, m, op) = [m EXCEPT !.stack = Append(SubSeq(@, 1, Len(st)), c)]
    BY <1>4, <1>5, <1>6, <2>1
  <2> HIDE DEF c
  <2>4. Q!Step(task, m, op) = Running(Append(st, c))
    BY <1>1, <1>3, <2>3 DEF Running
  <2>5. Running(Append(st, c)) \in Machines
    BY <2>2 DEF Running, Machines
  <2> QED BY <2>2, <2>4, <2>5 DEF Follows, Running, m, ab, c
<1>7. CASE ~(a.type = Q!Operand(op) /\ b.type = Q!Operand(op))
  <2>1. Q!Combined(op, a, b) = Q!Nonsense
    <3>1. CASE op = "and"
      BY <1>2, <1>7, <3>1 DEF Q!Combined, Q!Comparison
    <3>2. CASE op = "or"
      BY <1>2, <1>7, <3>2 DEF Q!Combined, Q!Comparison
    <3>3. CASE op \in Q!Comparison
      BY <1>2, <1>7, <3>3 DEF Q!Combined, Q!Comparison
    <3> QED BY <3>1, <3>2, <3>3
  <2>2. Q!Step(task, m, op) = [stack |-> ab, stop |-> "error"]
    BY <1>3, <1>4, <1>5, <1>7
  <2>3. Q!Step(task, m, op) \in Machines
    BY <1>1, <2>2 DEF Machines
  <2> QED BY <2>1, <2>2, <2>3 DEF Follows, m, ab
<1> QED BY <1>6, <1>7

\* The code of a reading: run, it puts the reading and what it means on top.
AnyReading == UNION {Q!Readings[x] : x \in Q!Spans}
Sense(T) == /\ \A task \in Tasks : T.means[task] \in Items \cup {Q!Nonsense}
            /\ \A s, t \in Tasks : T.means[s].type = T.means[t].type
Makes(task, ops, T) ==
  \A s \in Seq(AnyReading) : \A m : \E m2 : /\ Leads(task, ops, s, m, Append(s, T), m2)
                                            /\ task \in Tasks /\ m \in Machines => Follows(m, m2, T.means[task])
CodeOf(ops, T) == ops \in Seq(AllWords) /\ Sense(T) /\ \A task : Makes(task, ops, T)

\* The code of an operand is that of its reading.
LEMMA CodeOfWord ==
  ASSUME NEW w \in Q!Atom
  PROVE  CodeOf(<<w>>, Q!Word(w))
<1>1. \A task \in Tasks : Q!Word(w).means[task] = Q!Push(task, w)
  BY DEF Q!Word, Q!Reading
<1>2. <<w>> \in Seq(AllWords)
  BY Kinds
<1>3. Sense(Q!Word(w))
  BY <1>1, PushIs, PushTypes DEF Sense
<1>4. ASSUME NEW task, NEW s \in Seq(AnyReading), NEW m
      PROVE  /\ Leads(task, <<w>>, s, m, Append(s, Q!Word(w)), Q!Step(task, m, w))
             /\ task \in Tasks /\ m \in Machines => Follows(m, Q!Step(task, m, w), Q!Word(w).means[task])
  <2>1. Build(s, w) = Append(s, Q!Word(w))
    BY DEF Build
  <2>2. Leads(task, <<w>>, s, m, Append(s, Q!Word(w)), Q!Step(task, m, w))
    BY <2>1, LeadsOne
  <2> QED BY <1>1, <2>2, StepAtom
<1> QED BY <1>2, <1>3, <1>4 DEF CodeOf, Makes

\* What not and the binary operations make, and of which type.
LEMMA NegatedIs ==
  /\ \A a \in Items \cup {Q!Nonsense} : Q!Negated(a) \in Items \cup {Q!Nonsense}
  /\ Q!Negated(Q!Nonsense) = Q!Nonsense
  /\ \A a, b : a.type = b.type => Q!Negated(a).type = Q!Negated(b).type
<1>1. \A b \in BOOLEAN : Q!Truth(b) \in Items
  BY ItemIs
<1>2. \A b : Q!Truth(b).type = "boolean"
  BY DEF Q!Truth, Q!Item
<1>3. \A a : Q!Negated(a) = IF a.type = "boolean" THEN Q!Truth(a.value # 1) ELSE Q!Nonsense
  BY DEF Q!Negated
<1>4. Q!Nonsense.type # "boolean"
  BY ItemIs
<1> QED BY <1>1, <1>2, <1>3, <1>4

LEMMA CombinedIs ==
  ASSUME NEW op \in Q!Comparison \cup {"and", "or"}
  PROVE  /\ \A a, b \in Items \cup {Q!Nonsense} : Q!Combined(op, a, b) \in Items \cup {Q!Nonsense}
         /\ \A a, b : a = Q!Nonsense \/ b = Q!Nonsense => Q!Combined(op, a, b) = Q!Nonsense
         /\ \A a, b, c, d : a.type = c.type /\ b.type = d.type => Q!Combined(op, a, b).type = Q!Combined(op, c, d).type
<1> DEFINE type == IF op \in Q!Comparison THEN "integer" ELSE "boolean"
<1>1. "and" \notin Q!Comparison /\ "or" \notin Q!Comparison /\ Q!Nonsense.type = "none"
  BY ItemIs DEF Q!Comparison
<1>2. ASSUME NEW a, NEW b
      PROVE  /\ a.type = type /\ b.type = type => \E r \in BOOLEAN : Q!Combined(op, a, b) = Q!Truth(r)
             /\ ~(a.type = type /\ b.type = type) => Q!Combined(op, a, b) = Q!Nonsense
  <2>1. CASE op = "and"
    <3>1. a.type = type /\ b.type = type => Q!Combined(op, a, b) = Q!Truth({a.value, b.value} = {1})
      BY <1>1, <2>1 DEF Q!Combined
    <3>2. ~(a.type = type /\ b.type = type) => Q!Combined(op, a, b) = Q!Nonsense
      BY <1>1, <2>1 DEF Q!Combined
    <3> QED BY <3>1, <3>2
  <2>2. CASE op = "or"
    <3>1. a.type = type /\ b.type = type => Q!Combined(op, a, b) = Q!Truth(1 \in {a.value, b.value})
      BY <1>1, <2>2 DEF Q!Combined
    <3>2. ~(a.type = type /\ b.type = type) => Q!Combined(op, a, b) = Q!Nonsense
      BY <1>1, <2>2 DEF Q!Combined
    <3>3. (1 \in {a.value, b.value}) \in BOOLEAN
      OBVIOUS
    <3> QED BY <3>1, <3>2, <3>3
  <2>3. CASE op \in Q!Comparison
    <3>1. a.type = type /\ b.type = type => Q!Combined(op, a, b) = Q!Truth(Q!Related(op, a.value, b.value))
      BY <1>1, <2>3 DEF Q!Combined
    <3>2. ~(a.type = type /\ b.type = type) => Q!Combined(op, a, b) = Q!Nonsense
      BY <1>1, <2>3 DEF Q!Combined
    <3>3. \E r \in BOOLEAN : Q!Truth(Q!Related(op, a.value, b.value)) = Q!Truth(r)
      BY DEF Q!Truth
    <3> QED BY <3>1, <3>2, <3>3
  <2> QED BY <2>1, <2>2, <2>3
<1>3. type # "none"
  OBVIOUS
<1>4. \A r \in BOOLEAN : Q!Truth(r) \in Items /\ Q!Truth(r).type = "boolean"
  BY ItemIs
<1> HIDE DEF type
<1>5. \A a, b \in Items \cup {Q!Nonsense} : Q!Combined(op, a, b) \in Items \cup {Q!Nonsense}
  BY <1>2, <1>4
<1>6. \A a, b : a = Q!Nonsense \/ b = Q!Nonsense => Q!Combined(op, a, b) = Q!Nonsense
  BY <1>1, <1>2, <1>3
<1>7. \A a, b, c, d : a.type = c.type /\ b.type = d.type => Q!Combined(op, a, b).type = Q!Combined(op, c, d).type
  BY <1>2, <1>4
<1> QED BY <1>5, <1>6, <1>7

\* The code of not, and of a binary operation, is that of its reading, if those of its parts are.
LEMMA CodeOfNot ==
  ASSUME NEW r \in AnyReading, NEW ops, CodeOf(ops, r)
  PROVE  CodeOf(Append(ops, "not"), Q!Not(r))
<1>1. \A task \in Tasks : Q!Not(r).means[task] = Q!Negated(r.means[task])
  BY DEF Q!Not, Q!Reading
<1>2. ops \in Seq(AllWords) /\ Sense(r)
  BY DEF CodeOf
<1>3. <<"not">> \in Seq(AllWords) /\ Append(ops, "not") = ops \o <<"not">> /\ Append(ops, "not") \in Seq(AllWords)
  <2>1. "not" \in AllWords
    BY Kinds
  <2> QED BY <1>2, <2>1, AppendIsConcat
<1>4. Sense(Q!Not(r))
  BY <1>1, <1>2, NegatedIs DEF Sense
<1>5. ASSUME NEW task, NEW s \in Seq(AnyReading), NEW m
      PROVE  \E m2 : /\ Leads(task, Append(ops, "not"), s, m, Append(s, Q!Not(r)), m2)
                     /\ task \in Tasks /\ m \in Machines => Follows(m, m2, Q!Not(r).means[task])
  <2>1. PICK m1 : /\ Leads(task, ops, s, m, Append(s, r), m1)
                  /\ task \in Tasks /\ m \in Machines => Follows(m, m1, r.means[task])
    BY DEF CodeOf, Makes
  <2>2. Build(Append(s, r), "not") = Append(s, Q!Not(r))
    <3>1. "not" \notin Q!Atom
      BY Kinds
    <3> DEFINE sr == Append(s, r)
    <3>2. Len(sr) = Len(s) + 1 /\ Len(s) \in Nat /\ sr[Len(s) + 1] = r /\ SubSeq(sr, 1, Len(s)) = s
      BY LastOff
    <3> HIDE DEF sr
    <3>3. Len(sr) - 1 = Len(s)
      BY <3>2
    <3>4. Build(sr, "not") = Append(SubSeq(sr, 1, Len(sr) - 1), Q!Not(sr[Len(sr)]))
      BY <3>1 DEF Build
    <3>5. Build(sr, "not") = Append(s, Q!Not(r))
      BY <3>2, <3>3, <3>4
    <3> QED BY <3>5 DEF sr
  <2> DEFINE m2 == Q!Step(task, m1, "not")
  <2>3. Leads(task, <<"not">>, Append(s, r), m1, Append(s, Q!Not(r)), m2)
    BY <2>2, LeadsOne
  <2>4. Leads(task, Append(ops, "not"), s, m, Append(s, Q!Not(r)), m2)
    BY <1>2, <1>3, <2>1, <2>3, LeadsBoth
  <2>5. ASSUME task \in Tasks, m \in Machines PROVE Follows(m, m2, Q!Negated(r.means[task]))
    <3> DEFINE a == r.means[task]
    <3>1. Follows(m, m1, a) /\ a \in Items \cup {Q!Nonsense}
      BY <1>2, <2>1, <2>5 DEF Sense
    <3> HIDE DEF a
    <3>2. CASE m.stop = "no" /\ a # Q!Nonsense
      <4>1. m1 = Running(Append(m.stack, a)) /\ a \in Items
        BY <3>1, <3>2 DEF Follows
      <4>2. m.stack \in Seq(Items) /\ m = Running(m.stack)
        BY <2>5, <3>2, MachineHas
      <4>3. Follows(Running(m.stack), m2, Q!Negated(a))
        BY <4>1, <4>2, StepNot
      <4> QED BY <4>2, <4>3 DEF a
    <3>3. CASE ~(m.stop = "no" /\ a # Q!Nonsense)
      <4>1. m1 \in Machines /\ m1.stop = "error"
        BY <3>1, <3>3 DEF Follows
      <4>2. m2 = m1
        BY <4>1, StopStays
      <4>3. m.stop = "no" => Q!Negated(a) = Q!Nonsense
        BY <3>3, NegatedIs
      <4> QED BY <4>1, <4>2, <4>3 DEF Follows, a
    <3> QED BY <3>2, <3>3
  <2> QED BY <1>1, <2>4, <2>5
<1> QED BY <1>3, <1>4, <1>5 DEF CodeOf, Makes

LEMMA CodeOfBetween ==
  ASSUME NEW l \in AnyReading, NEW r \in AnyReading, NEW op \in Q!Comparison \cup {"and", "or"},
         NEW a, NEW b, CodeOf(a, l), CodeOf(b, r)
  PROVE  CodeOf(a \o Append(b, op), Q!Between(op, l, r))
<1> DEFINE T == Q!Between(op, l, r)
<1>1. \A task \in Tasks : T.means[task] = Q!Combined(op, l.means[task], r.means[task])
  BY DEF Q!Between, Q!Reading
<1> HIDE DEF T
<1>2. a \in Seq(AllWords) /\ Sense(l) /\ b \in Seq(AllWords) /\ Sense(r)
  BY DEF CodeOf
<1>3. op \in AllWords /\ op \notin Q!Atom /\ op # "not"
  <2>1. "not" \notin Q!Comparison
    BY DEF Q!Comparison
  <2> QED BY <2>1, Kinds
<1>4. /\ <<op>> \in Seq(AllWords) /\ Append(b, op) = b \o <<op>> /\ Append(b, op) \in Seq(AllWords)
      /\ a \o Append(b, op) \in Seq(AllWords)
  <2>1. <<op>> \in Seq(AllWords) /\ Append(b, op) = b \o <<op>> /\ Append(b, op) \in Seq(AllWords)
    BY <1>2, <1>3, AppendIsConcat
  <2> QED BY <1>2, <2>1
<1>5. Sense(T)
  <2>1. ASSUME NEW task \in Tasks PROVE T.means[task] \in Items \cup {Q!Nonsense}
    <3>1. l.means[task] \in Items \cup {Q!Nonsense} /\ r.means[task] \in Items \cup {Q!Nonsense}
      BY <1>2 DEF Sense
    <3>2. Q!Combined(op, l.means[task], r.means[task]) \in Items \cup {Q!Nonsense}
      BY <3>1, CombinedIs
    <3> QED BY <1>1, <3>2
  <2>2. ASSUME NEW s \in Tasks, NEW t \in Tasks PROVE T.means[s].type = T.means[t].type
    <3>1. l.means[s].type = l.means[t].type /\ r.means[s].type = r.means[t].type
      BY <1>2 DEF Sense
    <3>2. Q!Combined(op, l.means[s], r.means[s]).type = Q!Combined(op, l.means[t], r.means[t]).type
      BY <3>1, CombinedIs
    <3> QED BY <1>1, <3>2
  <2> QED BY <2>1, <2>2 DEF Sense
<1>6. ASSUME NEW task, NEW s \in Seq(AnyReading), NEW m
      PROVE  \E m2 : /\ Leads(task, a \o Append(b, op), s, m, Append(s, T), m2)
                     /\ task \in Tasks /\ m \in Machines => Follows(m, m2, T.means[task])
  <2>1. PICK m0 : /\ Leads(task, a, s, m, Append(s, l), m0)
                  /\ task \in Tasks /\ m \in Machines => Follows(m, m0, l.means[task])
    BY DEF CodeOf, Makes
  <2>2. Append(s, l) \in Seq(AnyReading)
    OBVIOUS
  <2>3. PICK m1 : /\ Leads(task, b, Append(s, l), m0, Append(Append(s, l), r), m1)
                  /\ task \in Tasks /\ m0 \in Machines => Follows(m0, m1, r.means[task])
    BY <2>2 DEF CodeOf, Makes
  <2>4. Build(Append(Append(s, l), r), op) = Append(s, T)
    <3> DEFINE sr == Append(Append(s, l), r)
    <3>1. /\ Len(sr) = Len(s) + 2 /\ Len(s) \in Nat
          /\ sr[Len(s) + 1] = l /\ sr[Len(s) + 2] = r /\ SubSeq(sr, 1, Len(s)) = s
      BY TwoOff
    <3> HIDE DEF sr
    <3>2. Len(sr) - 2 = Len(s) /\ Len(sr) - 1 = Len(s) + 1
      BY <3>1
    <3>3. Build(sr, op) = Append(SubSeq(sr, 1, Len(sr) - 2), Q!Between(op, sr[Len(sr) - 1], sr[Len(sr)]))
      BY <1>3 DEF Build
    <3>4. Build(sr, op) = Append(s, T)
      BY <3>1, <3>2, <3>3 DEF T
    <3> QED BY <3>4 DEF sr
  <2> DEFINE m2 == Q!Step(task, m1, op)
  <2>5. Leads(task, <<op>>, Append(Append(s, l), r), m1, Append(s, T), m2)
    BY <2>4, LeadsOne
  <2>6. Leads(task, Append(b, op), Append(s, l), m0, Append(s, T), m2)
    BY <1>2, <1>4, <2>3, <2>5, LeadsBoth
  <2>7. Leads(task, a \o Append(b, op), s, m, Append(s, T), m2)
    BY <1>2, <1>4, <2>1, <2>6, LeadsBoth
  <2>8. ASSUME task \in Tasks, m \in Machines PROVE Follows(m, m2, Q!Combined(op, l.means[task], r.means[task]))
    <3> DEFINE x == l.means[task] y == r.means[task]
    <3>1. Follows(m, m0, x) /\ x \in Items \cup {Q!Nonsense} /\ y \in Items \cup {Q!Nonsense}
      BY <1>2, <2>1, <2>8 DEF Sense
    <3>2. m0 \in Machines /\ Follows(m0, m1, y)
      BY <2>3, <2>8, <3>1 DEF Follows
    <3> HIDE DEF x, y
    <3>3. CASE m.stop = "no" /\ x # Q!Nonsense /\ y # Q!Nonsense
      <4>1. m0 = Running(Append(m.stack, x)) /\ x \in Items /\ y \in Items
        BY <3>1, <3>3 DEF Follows
      <4>2. m0.stop = "no" /\ m0.stack = Append(m.stack, x)
        BY <4>1 DEF Running
      <4>3. m1 = Running(Append(Append(m.stack, x), y))
        BY <3>2, <3>3, <4>2 DEF Follows
      <4>4. m.stack \in Seq(Items) /\ m = Running(m.stack)
        BY <2>8, <3>3, MachineHas
      <4>5. Follows(Running(m.stack), m2, Q!Combined(op, x, y))
        BY <4>1, <4>3, <4>4, StepTwo
      <4> QED BY <4>4, <4>5 DEF x, y
    <3>4. CASE ~(m.stop = "no" /\ x # Q!Nonsense /\ y # Q!Nonsense)
      <4>1. m1 \in Machines /\ m1.stop = "error"
        <5>1. CASE m.stop = "no" /\ x # Q!Nonsense
          BY <3>2, <3>4, <5>1 DEF Follows
        <5>2. CASE ~(m.stop = "no" /\ x # Q!Nonsense)
          <6>1. m0.stop = "error" /\ m0.stop # "no"
            BY <3>1, <5>2 DEF Follows
          <6> QED BY <3>2, <6>1 DEF Follows
        <5> QED BY <5>1, <5>2
      <4>2. m2 = m1
        BY <4>1, StopStays
      <4>3. m.stop = "no" => Q!Combined(op, x, y) = Q!Nonsense
        BY <3>4, CombinedIs
      <4> QED BY <4>1, <4>2, <4>3 DEF Follows, x, y
    <3> QED BY <3>3, <3>4
  <2> QED BY <1>1, <2>7, <2>8
<1> QED BY <1>4, <1>5, <1>6 DEF CodeOf, Makes, T

\* What can be read is compiled to its code, up to where the loop of its level goes on.
Compiles(level, i, j, ops) ==
  IF level = 0 THEN Whole(0, i) = Q!Code(j + 1, ops)
  ELSE Whole(level, i) = Q!Joined(Q!Code(j + 1, ops), Rest(level, j + 1))
Coded(x) ==
  \A T \in Q!Readings[x] :
    (\A m \in 1 .. x[1] - 1 : Q!Token(x[3] + 1) \notin Q!Infix[m]) =>
      \E ops : CodeOf(ops, T) /\ Compiles(x[1], x[2], x[3], ops)

Divided(T, level, i, j) ==
  \E k \in i + 1 .. j - 1 :
    /\ src[k] \in Q!Infix[level]
    /\ \E l \in SpanReads(level, i, k - 1), r \in SpanReads(level - 1, k + 1, j) : T = Q!Between(src[k], l, r)

\* A reading at a level is one of the level below or has its last operator on top.
LEMMA ReadOf ==
  ASSUME src \in Seq(Words), NEW i \in Q!Places, NEW j \in 0 .. Len(src), NEW level \in 1 .. 3, NEW T \in SpanReads(level, i, j)
  PROVE  T \in SpanReads(level - 1, i, j) \/ Divided(T, level, i, j)
<1>1. \A l \in 1 .. 3 :
        T \in SpanReads(l, i, j) <=>
          /\ i <= j
          /\ \/ T \in SpanReads(l - 1, i, j)
             \/ \E k \in i + 1 .. j - 1 :
                  /\ src[k] \in Q!Infix[l]
                  /\ \E a \in SpanReads(l, i, k - 1), r \in SpanReads(l - 1, k + 1, j) : T = Q!Between(src[k], a, r)
  BY ReadAs, Zenon
<1> QED BY <1>1, Zenon DEF Divided

\* Code with one more operation.
LEMMA EmitCode ==
  ASSUME NEW at \in Nat, NEW ops \in Seq(AllWords), NEW op \in AllWords
  PROVE  Q!Emit(Q!Code(at, ops), op) = Q!Code(at, Append(ops, op))
<1> DEFINE e == Q!Code(at, ops) d == Q!Emit(e, op)
<1>1. e \in Result /\ e.ok = TRUE /\ e.at = at /\ e.ops = ops
  BY Results DEF Q!Code
<1> HIDE DEF e
<1>2. d \in Result /\ d.ok = TRUE /\ d.at = at /\ d.ops = Append(ops, op)
  BY <1>1, Results
<1> HIDE DEF d
<1>3. d = [ok |-> d.ok, at |-> d.at, ops |-> d.ops]
  BY <1>2 DEF Result
<1> QED BY <1>2, <1>3 DEF Q!Code, d, e

\* Where no operator of the level follows, that is all.
LEMMA SettledIs ==
  ASSUME src \in Seq(Words), NEW level \in 0 .. 3, NEW i \in Q!Places, NEW j \in 0 .. Len(src), i <= j,
         Coded(<<level, i, j>>), NEW T \in SpanReads(level, i, j), \A m \in 1 .. level : Q!Token(j + 1) \notin Q!Infix[m]
  PROVE  \E ops : CodeOf(ops, T) /\ Whole(level, i) = Q!Code(j + 1, ops)
<1> DEFINE x == <<level, i, j>>
<1>1. x[1] = level /\ x[2] = i /\ x[3] = j /\ Q!Readings[x] = SpanReads(level, i, j)
  BY DEF SpanReads
<1> HIDE DEF x
<1>2. \A m \in 1 .. level - 1 : Q!Token(j + 1) \notin Q!Infix[m]
  OBVIOUS
<1>3. Coded(x)
  BY DEF x
<1>4. PICK ops : CodeOf(ops, T) /\ Compiles(level, i, j, ops)
  BY <1>1, <1>2, <1>3 DEF Coded
<1>5. CASE level = 0
  BY <1>4, <1>5 DEF Compiles
<1>6. CASE level # 0
  <2>1. j + 1 \in Q!Places /\ level \in 1 .. 3 /\ level \in 1 .. level
    BY <1>6 DEF Q!Places
  <2>2. Q!Token(j + 1) \notin Q!Infix[level]
    BY <2>1
  <2>3. Rest(level, j + 1) = Q!Code(j + 1, <<>>)
    BY <2>1, <2>2, RestIs
  <2>4. Whole(level, i) = Q!Joined(Q!Code(j + 1, ops), Q!Code(j + 1, <<>>))
    BY <1>4, <1>6, <2>3 DEF Compiles
  <2>5. ops \o <<>> = ops
    BY <1>4 DEF CodeOf
  <2>6. Q!Joined(Q!Code(j + 1, ops), Q!Code(j + 1, <<>>)) = Q!Code(j + 1, ops \o <<>>)
    BY DEF Q!Joined, Q!Code
  <2> QED BY <1>4, <2>4, <2>5, <2>6
<1> QED BY <1>5, <1>6

\* A span with a reading is not empty.
LEMMA AnyReadingIs ==
  ASSUME src \in Seq(Words), NEW level \in 0 .. 3, NEW i \in Q!Places, NEW j \in 0 .. Len(src), NEW T \in SpanReads(level, i, j)
  PROVE  T \in AnyReading /\ i <= j /\ j + 1 \in Q!Places /\ j \in 1 .. Len(src)
<1>1. <<level, i, j>> \in Q!Spans
  BY SpanFor
<1>2. T \in AnyReading
  BY <1>1 DEF AnyReading, SpanReads
<1>3. level = 0 \/ level \in 1 .. 3
  OBVIOUS
<1>4. i <= j
  BY <1>3, ReadAs, Zenon
<1> QED BY <1>2, <1>4 DEF Q!Places

\* What has a reading is compiled to the code of that reading, by induction on the size of a span.
LEMMA CodedStep ==
  ASSUME src \in Seq(Words), NEW x \in Q!Spans, \A y \in Q!Spans : Size(y) < Size(x) => Coded(y)
  PROVE  Coded(x)
<1> DEFINE level == x[1] i == x[2] j == x[3]
<1>1. level \in 0 .. 3 /\ i \in Q!Places /\ j \in 0 .. Len(src) /\ Len(src) \in Nat /\ x = <<level, i, j>>
  BY SpanIs
<1>2. Size(x) = 4 * (Len(src) + 1 - i + j) + level
  BY DEF Size
<1>3. Q!Readings[x] = SpanReads(level, i, j)
  BY <1>1 DEF SpanReads
<1> SUFFICES ASSUME NEW T \in SpanReads(level, i, j), \A m \in 1 .. level - 1 : Q!Token(j + 1) \notin Q!Infix[m]
             PROVE  \E ops : CodeOf(ops, T) /\ Compiles(level, i, j, ops)
  BY <1>3 DEF Coded
<1> HIDE DEF level, i, j
<1>4. ASSUME NEW l \in 0 .. 3, NEW a \in Q!Places, NEW b \in 0 .. Len(src), 4 * (b - a) + l < 4 * (j - i) + level
      PROVE  Coded(<<l, a, b>>)
  <2> DEFINE y == <<l, a, b>>
  <2>1. y \in Q!Spans /\ Size(y) = 4 * (Len(src) + 1 - a + b) + l
    BY SpanFor
  <2> HIDE DEF y
  <2>2. Size(y) < Size(x)
    <3>1. a \in Int /\ b \in Int /\ l \in Int /\ i \in Int /\ j \in Int /\ level \in Int /\ Len(src) \in Int
      BY <1>1 DEF Q!Places
    <3> QED BY <1>2, <1>4, <2>1, <3>1
  <2>3. Coded(y)
    BY <2>1, <2>2
  <2> QED BY <2>3 DEF y
<1>5. i <= j /\ j + 1 \in Q!Places /\ j \in 1 .. Len(src) /\ i \in 1 .. Len(src)
  <2>1. i <= j /\ j + 1 \in Q!Places /\ j \in 1 .. Len(src)
    BY <1>1, AnyReadingIs
  <2> QED BY <1>1, <2>1 DEF Q!Places
<1>6. \A k \in 1 .. Len(src) : Q!Token(k) = src[k] /\ k \in Q!Places
  BY DEF Q!Token, Q!Places
<1>7. CASE level = 0
  <2> SUFFICES \E ops : CodeOf(ops, T) /\ Whole(0, i) = Q!Code(j + 1, ops)
    BY <1>7 DEF Compiles
  <2>1. T \in SpanReads(0, i, j)
    BY <1>7
  <2>2. \/ i = j /\ src[i] \in Q!Atom /\ T = Q!Word(src[i])
        \/ src[i] = "not" /\ \E r \in SpanReads(0, i + 1, j) : T = Q!Not(r)
        \/ src[i] = "[" /\ src[j] = "]" /\ T \in SpanReads(3, i + 1, j - 1)
    BY <1>1, <2>1, ReadAs, Zenon
  <2>3. Q!Token(i) = src[i] /\ i + 1 \in Q!Places
    BY <1>1, <1>5, <1>6 DEF Q!Places
  <2>4. CASE i = j /\ src[i] \in Q!Atom /\ T = Q!Word(src[i])
    <3>1. Whole(0, i) = Q!Code(j + 1, <<src[i]>>)
      BY <1>1, <2>3, <2>4, PrimaryIs
    <3> QED BY <2>4, <3>1, CodeOfWord
  <2>5. CASE src[i] = "not" /\ \E r \in SpanReads(0, i + 1, j) : T = Q!Not(r)
    <3>1. PICK r \in SpanReads(0, i + 1, j) : T = Q!Not(r)
      BY <2>5
    <3>2. r \in AnyReading /\ i + 1 <= j
      BY <1>1, <2>3, AnyReadingIs
    <3>3. Coded(<<0, i + 1, j>>)
      <4>1. 4 * (j - (i + 1)) + 0 < 4 * (j - i) + level /\ 0 \in 0 .. 3
        BY <1>1, <1>7 DEF Q!Places
      <4> QED BY <1>1, <1>4, <2>3, <4>1
    <3>4. \A m \in 1 .. 0 : Q!Token(j + 1) \notin Q!Infix[m]
      OBVIOUS
    <3>5. PICK ops : CodeOf(ops, r) /\ Whole(0, i + 1) = Q!Code(j + 1, ops)
      BY <1>1, <2>3, <3>2, <3>3, <3>4, SettledIs
    <3>6. Whole(0, i) = Q!Emit(Whole(0, i + 1), "not")
      BY <1>1, <2>3, <2>5, <3>5, PrimaryIs DEF Q!Code
    <3>7. Q!Emit(Q!Code(j + 1, ops), "not") = Q!Code(j + 1, Append(ops, "not"))
      <4>1. j + 1 \in Nat /\ ops \in Seq(AllWords) /\ "not" \in AllWords
        BY <1>1, <3>5, Kinds DEF CodeOf
      <4> QED BY <4>1, EmitCode
    <3>8. CodeOf(Append(ops, "not"), Q!Not(r))
      BY <3>2, <3>5, CodeOfNot
    <3> QED BY <3>1, <3>5, <3>6, <3>7, <3>8
  <2>6. CASE src[i] = "[" /\ src[j] = "]" /\ T \in SpanReads(3, i + 1, j - 1)
    <3>1. j - 1 \in 0 .. Len(src)
      BY <1>5
    <3>2. i + 1 <= j - 1
      BY <2>3, <2>6, <3>1, AnyReadingIs
    <3>3. Coded(<<3, i + 1, j - 1>>)
      <4>1. 4 * ((j - 1) - (i + 1)) + 3 < 4 * (j - i) + level /\ 3 \in 0 .. 3
        BY <1>1, <1>7 DEF Q!Places
      <4> QED BY <1>4, <2>3, <3>1, <4>1
    <3>4. (j - 1) + 1 = j /\ Q!Token(j) = "]"
      BY <1>5, <1>6, <2>6
    <3>5. \A m \in 1 .. 3 : Q!Token((j - 1) + 1) \notin Q!Infix[m]
      BY <3>4, InfixIs
    <3>6. PICK ops : CodeOf(ops, T) /\ Whole(3, i + 1) = Q!Code((j - 1) + 1, ops)
      BY <2>3, <2>6, <3>1, <3>2, <3>3, <3>5, SettledIs
    <3>7. Whole(3, i + 1).ok /\ Whole(3, i + 1).at = j /\ Whole(3, i + 1).ops = ops
      BY <3>4, <3>6 DEF Q!Code
    <3>8. Whole(0, i) = Q!Code(j + 1, ops)
      BY <1>1, <2>3, <2>6, <3>4, <3>7, PrimaryIs
    <3> QED BY <3>6, <3>8
  <2> QED BY <2>2, <2>4, <2>5, <2>6
<1>8. CASE level # 0
  <2>1. level \in 1 .. 3 /\ level - 1 \in 0 .. 3 /\ level \in 0 .. 3
    BY <1>1, <1>8
  <2> SUFFICES \E ops : CodeOf(ops, T) /\ Whole(level, i) = Q!Joined(Q!Code(j + 1, ops), Rest(level, j + 1))
    BY <1>8 DEF Compiles
  <2>2. Whole(level, i) = IF Whole(level - 1, i).ok
                          THEN Q!Joined(Whole(level - 1, i), Rest(level, Whole(level - 1, i).at)) ELSE Q!Failed
    BY <1>1, <2>1, CompilesAs
  <2>3. T \in SpanReads(level - 1, i, j) \/ Divided(T, level, i, j)
    BY <1>1, <2>1, ReadOf
  <2>4. CASE T \in SpanReads(level - 1, i, j)
    <3>1. Coded(<<level - 1, i, j>>)
      <4>1. 4 * (j - i) + (level - 1) < 4 * (j - i) + level
        BY <1>1 DEF Q!Places
      <4> QED BY <1>1, <1>4, <2>1, <4>1
    <3>2. PICK ops : CodeOf(ops, T) /\ Whole(level - 1, i) = Q!Code(j + 1, ops)
      BY <1>1, <1>5, <2>1, <2>4, <3>1, SettledIs
    <3>3. Whole(level - 1, i).ok /\ Whole(level - 1, i).at = j + 1
      BY <3>2 DEF Q!Code
    <3> QED BY <2>2, <3>2, <3>3
  <2>5. ASSUME NEW k \in i + 1 .. j - 1, src[k] \in Q!Infix[level],
               NEW l \in SpanReads(level, i, k - 1), NEW r \in SpanReads(level - 1, k + 1, j), T = Q!Between(src[k], l, r)
        PROVE  \E ops : CodeOf(ops, T) /\ Whole(level, i) = Q!Joined(Q!Code(j + 1, ops), Rest(level, j + 1))
    <3>0. i \in Int /\ j \in Int /\ k \in Int /\ level \in Int /\ 0 < level /\ level <= 3 /\ i < k /\ k < j
      BY <1>1, <2>1 DEF Q!Places
    <3>1. /\ k \in 1 .. Len(src) /\ k - 1 \in 0 .. Len(src) /\ k + 1 \in Q!Places /\ (k - 1) + 1 = k
          /\ Q!Token(k) = src[k] /\ k \in Q!Places
      BY <1>1, <1>5, <1>6 DEF Q!Places
    <3>2. l \in AnyReading /\ i <= k - 1
      BY <1>1, <2>1, <3>1, AnyReadingIs
    <3>3. r \in AnyReading /\ k + 1 <= j
      BY <1>1, <2>1, <3>1, AnyReadingIs
    <3>4. Coded(<<level, i, k - 1>>)
      <4>1. 4 * ((k - 1) - i) + level < 4 * (j - i) + level
        BY <3>0
      <4> QED BY <1>1, <1>4, <2>1, <3>1, <4>1
    <3>5. Coded(<<level - 1, k + 1, j>>)
      <4>1. 4 * (j - (k + 1)) + (level - 1) < 4 * (j - i) + level
        BY <3>0
      <4> QED BY <1>1, <1>4, <2>1, <3>1, <4>1
    <3>6. PICK b : CodeOf(b, r) /\ Whole(level - 1, k + 1) = Q!Code(j + 1, b)
      BY <1>1, <2>1, <3>1, <3>3, <3>5, SettledIs
    <3>7. PICK a : CodeOf(a, l) /\ Whole(level, i) = Q!Joined(Q!Code(k, a), Rest(level, k))
      <4> DEFINE y == <<level, i, k - 1>>
      <4>1. y[1] = level /\ y[2] = i /\ y[3] = k - 1 /\ Q!Readings[y] = SpanReads(level, i, k - 1) /\ y[3] + 1 = k
        BY <3>1 DEF SpanReads
      <4> HIDE DEF y
      <4>2. Coded(y)
        BY <3>4 DEF y
      <4>3. \A m \in 1 .. level - 1 : Q!Token(k) \notin Q!Infix[m]
        <5>1. \A m \in 1 .. level - 1 : m \in 1 .. 3 /\ m # level
          BY <2>1
        <5> QED BY <2>1, <2>5, <3>1, <5>1, InfixIs
      <4>4. PICK a : CodeOf(a, l) /\ Compiles(level, i, k - 1, a)
        BY <4>1, <4>2, <4>3 DEF Coded
      <4>5. Whole(level, i) = Q!Joined(Q!Code(k, a), Rest(level, k))
        BY <1>8, <3>1, <4>4 DEF Compiles
      <4> QED BY <4>4, <4>5
    <3> DEFINE op == src[k] rest == Rest(level, j + 1) ops == a \o Append(b, op)
    <3>8. Rest(level, k) = Q!Joined(Q!Emit(Q!Code(j + 1, b), op), rest)
      <4>1. Q!Token(k) \in Q!Infix[level]
        BY <2>5, <3>1
      <4>2. Whole(level - 1, k + 1).ok /\ Whole(level - 1, k + 1).at = j + 1
        BY <3>6 DEF Q!Code
      <4> QED BY <2>1, <3>1, <3>6, <4>1, <4>2, RestIs
    <3>10. op \in Q!Comparison \cup {"and", "or"} /\ op \in AllWords
      <4>1. level = 1 \/ level = 2 \/ level = 3
        BY <2>1
      <4> QED BY <2>1, <2>5, <4>1, InfixIs
    <3>9. Q!Emit(Q!Code(j + 1, b), op) = Q!Code(j + 1, Append(b, op))
      <4>1. j + 1 \in Nat /\ b \in Seq(AllWords)
        BY <1>1, <3>6 DEF CodeOf
      <4> QED BY <3>10, <4>1, EmitCode
    <3>11. rest \in Result
      BY <1>5, <2>1, CompilesAs
    <3>12. CodeOf(ops, T)
      BY <2>5, <3>2, <3>3, <3>6, <3>7, <3>10, CodeOfBetween
    <3>13. a \in Seq(AllWords) /\ b \in Seq(AllWords)
      BY <3>6, <3>7 DEF CodeOf
    <3> HIDE DEF op, rest
    <3> DEFINE c == Append(b, op)
    <3>14. c \in Seq(AllWords)
      BY <3>10, <3>13
    <3> HIDE DEF c
    <3>15. Q!Joined(Q!Code(k, a), Q!Joined(Q!Code(j + 1, c), rest)) = Q!Joined(Q!Code(j + 1, a \o c), rest)
      <4>1. CASE rest.ok
        <5>1. rest.ops \in Seq(AllWords)
          BY <3>11 DEF Result
        <5>2. Q!Joined(Q!Code(j + 1, c), rest) = Q!Code(rest.at, c \o rest.ops)
          BY <4>1 DEF Q!Joined, Q!Code
        <5>3. Q!Joined(Q!Code(k, a), Q!Code(rest.at, c \o rest.ops)) = Q!Code(rest.at, a \o (c \o rest.ops))
          BY DEF Q!Joined, Q!Code
        <5>4. Q!Joined(Q!Code(j + 1, a \o c), rest) = Q!Code(rest.at, (a \o c) \o rest.ops)
          BY <4>1 DEF Q!Joined, Q!Code
        <5>5. a \o (c \o rest.ops) = (a \o c) \o rest.ops
          <6> DEFINE d == rest.ops
          <6>1. a \in Seq(AllWords) /\ c \in Seq(AllWords) /\ d \in Seq(AllWords)
            BY <3>13, <3>14, <5>1
          <6> HIDE DEF d
          <6>2. a \o (c \o d) = (a \o c) \o d
            BY <6>1, ConcatAssociative
          <6> QED BY <6>2 DEF d
        <5> QED BY <5>2, <5>3, <5>4, <5>5
      <4>2. CASE ~rest.ok
        BY <4>2 DEF Q!Joined, Q!Failed
      <4> QED BY <4>1, <4>2
    <3> QED BY <3>7, <3>8, <3>9, <3>12, <3>15 DEF c, rest
  <2>6. CASE Divided(T, level, i, j)
    BY <2>5, <2>6, Zenon DEF Divided
  <2> QED BY <2>3, <2>4, <2>6
<1> QED BY <1>7, <1>8

LEMMA AllCoded ==
  ASSUME src \in Seq(Words)
  PROVE  \A x \in Q!Spans : Coded(x)
<1>1. \A x \in Q!Spans : Size(x) \in Nat
  BY SpanIs
<1> DEFINE S == {n \in Nat : \A x \in Short(n) : Coded(x)}
<1>2. 0 \in S
  BY <1>1 DEF Short
<1>3. ASSUME NEW n \in Nat, n \in S PROVE n + 1 \in S
  <2>1. ASSUME NEW x \in Short(n + 1) PROVE Coded(x)
    <3>1. x \in Q!Spans /\ \A y \in Q!Spans : Size(y) < Size(x) => y \in Short(n)
      BY <1>1 DEF Short
    <3> QED BY <1>3, <3>1, CodedStep
  <2> QED BY <2>1
<1> HIDE DEF S
<1>4. \A n \in Nat : n \in S
  BY <1>2, <1>3, AllNumbers
<1> TAKE x \in Q!Spans
<1>5. Size(x) + 1 \in S /\ x \in Short(Size(x) + 1)
  BY <1>1, <1>4 DEF Short
<1> QED BY <1>5 DEF S

-----------------------------------------------------------------------------
\* A query with a parse is compiled to its code.
LEMMA ParsesCoded ==
  ASSUME src \in Seq(Words), NEW T \in Q!Parses
  PROVE  \E ops : CodeOf(ops, T) /\ Q!Query = Q!Code(Len(src) + 1, ops)
<1> DEFINE L == Len(src)
<1>1. L \in Nat /\ 1 \in Q!Places /\ L \in 0 .. L /\ L + 1 \in Q!Places /\ 3 \in 0 .. 3
  BY DEF Q!Places
<1>2. T \in SpanReads(3, 1, L)
  BY DEF Q!Parses, SpanReads
<1>3. 1 <= L
  BY <1>1, <1>2, AnyReadingIs
<1>4. Q!Token(L + 1) = Q!End
  BY <1>1, TokenIs
<1>5. \A m \in 1 .. 3 : Q!Token(L + 1) \notin Q!Infix[m]
  BY <1>4, InfixIs
<1>6. Coded(<<3, 1, L>>)
  <2>1. <<3, 1, L>> \in Q!Spans
    BY <1>1, SpanFor
  <2> QED BY <2>1, AllCoded
<1>7. PICK ops : CodeOf(ops, T) /\ Whole(3, 1) = Q!Code(L + 1, ops)
  BY <1>1, <1>2, <1>3, <1>5, <1>6, SettledIs
<1>8. Q!Query = Q!Code(L + 1, ops)
  BY <1>4, <1>7 DEF Q!Query, Whole, Q!Code
<1> QED BY <1>7, <1>8

\* A query that is compiled has a parse.
LEMMA QueryReads ==
  ASSUME src \in Seq(Words), Q!Query.ok
  PROVE  Q!Parses # {}
<1> DEFINE e == Whole(3, 1)
<1>1. Len(src) \in Nat /\ 1 \in Q!Places /\ 3 \in 0 .. 3 /\ <<"whole", 3, 1>> \in Q!Points
  <2>1. Len(src) \in Nat /\ 1 \in Q!Places /\ 3 \in 0 .. 3
    BY DEF Q!Places
  <2> QED BY <2>1, PointFor
<1>2. e.ok /\ Q!Token(e.at) = Q!End
  BY DEF Q!Query, Whole, Q!Failed
<1>3. e.at \in Q!Places /\ 1 < e.at
  BY <1>1, <1>2, CompilesAs
<1>4. SpanReads(3, 1, e.at - 1) # {}
  <2> DEFINE x == <<"whole", 3, 1>>
  <2>1. x \in Q!Points /\ x[1] = "whole" /\ x[2] = 3 /\ x[3] = 1 /\ e = Q!Compiled[x]
    BY <1>1 DEF Whole
  <2> HIDE DEF x, e
  <2>2. Readable(x)
    BY <2>1, AllReadable
  <2> QED BY <1>2, <2>1, <2>2 DEF Readable
<1> HIDE DEF e
<1>5. e.at = Len(src) + 1
  <2>1. ASSUME e.at <= Len(src) PROVE FALSE
    <3>1. e.at \in 1 .. Len(src) /\ Q!Token(e.at) = src[e.at]
      BY <1>3, <2>1 DEF Q!Token, Q!Places
    <3>2. src[e.at] \in Words
      BY <3>1
    <3>3. Q!End \notin Words
      BY QueryAssumption DEF Q!QueryAssumption
    <3> QED BY <1>2, <3>1, <3>2, <3>3
  <2> QED BY <1>1, <1>3, <2>1 DEF Q!Places
<1>6. e.at - 1 = Len(src)
  BY <1>1, <1>5
<1> QED BY <1>4, <1>6 DEF Q!Parses, SpanReads

\* The two properties of a query.
LEMMA Accepts ==
  ASSUME src \in Seq(Words)
  PROVE  Q!AcceptsGrammar
<1>1. Q!Query.ok => Q!Parses # {}
  BY QueryReads
<1>2. ASSUME NEW T \in Q!Parses PROVE Q!Query.ok
  <2>1. PICK ops : Q!Query = Q!Code(Len(src) + 1, ops)
    BY ParsesCoded
  <2> QED BY <2>1 DEF Q!Code
<1>3. ASSUME NEW r \in Q!Parses, NEW s \in Q!Parses PROVE r = s
  <2>1. PICK ops : CodeOf(ops, r) /\ Q!Query = Q!Code(Len(src) + 1, ops)
    BY ParsesCoded
  <2>2. PICK ops2 : CodeOf(ops2, s) /\ Q!Query = Q!Code(Len(src) + 1, ops2)
    BY ParsesCoded
  <2>3. ops = ops2
    BY <2>1, <2>2 DEF Q!Code
  <2>4. <<>> \in Seq(AnyReading) /\ ops \in Seq(AllWords)
    BY <2>1 DEF CodeOf
  <2>5. PICK m2 : Leads(0, ops, <<>>, Idle, Append(<<>>, r), m2)
    BY <2>1, <2>4 DEF CodeOf, Makes
  <2>6. PICK m3 : Leads(0, ops, <<>>, Idle, Append(<<>>, s), m3)
    BY <2>2, <2>3, <2>4 DEF CodeOf, Makes
  <2>7. Append(<<>>, r) = Append(<<>>, s)
    BY <2>4, <2>5, <2>6, LeadsAlone
  <2>8. Append(<<>>, r) = <<r>> /\ Append(<<>>, s) = <<s>>
    OBVIOUS
  <2>9. <<r>>[1] = r /\ <<s>>[1] = s
    OBVIOUS
  <2> QED BY <2>7, <2>8, <2>9
<1> QED BY <1>1, <1>2, <1>3 DEF Q!AcceptsGrammar

LEMMA Agrees ==
  ASSUME src \in Seq(Words)
  PROVE  Q!MachineAgrees
<1> SUFFICES ASSUME Q!Query.ok
             PROVE  /\ \A r \in Q!Parses, task \in Tasks :
                         Q!Matches(task, Q!Query.ops) =
                           LET m == r.means[task] IN
                           IF m.type # "boolean" THEN "error" ELSE IF m.value = 1 THEN "matched" ELSE "mismatched"
                    /\ \A s, t \in Tasks : Q!Matches(s, Q!Query.ops) = "error" <=> Q!Matches(t, Q!Query.ops) = "error"
  BY DEF Q!MachineAgrees
<1> DEFINE Answer(m) == IF m.type # "boolean" THEN "error" ELSE IF m.value = 1 THEN "matched" ELSE "mismatched"
<1>1. ASSUME NEW r \in Q!Parses, NEW task \in Tasks PROVE Q!Matches(task, Q!Query.ops) = Answer(r.means[task])
  <2>1. PICK ops : CodeOf(ops, r) /\ Q!Query = Q!Code(Len(src) + 1, ops)
    BY ParsesCoded
  <2>2. Q!Query.ops = ops /\ ops \in Seq(AllWords) /\ <<>> \in Seq(AnyReading)
    BY <2>1 DEF Q!Code, CodeOf
  <2>3. Idle \in Machines /\ Idle.stop = "no" /\ Idle.stack = <<>>
    BY DEF Idle, Machines
  <2>4. PICK m2 : /\ Leads(task, ops, <<>>, Idle, Append(<<>>, r), m2)
                  /\ Follows(Idle, m2, r.means[task])
    BY <2>1, <2>2, <2>3 DEF CodeOf, Makes
  <2>5. Q!Machine(task, ops) = m2
    BY <2>2, <2>4, MachineIs
  <2> DEFINE it == r.means[task]
  <2>6. it \in Items \cup {Q!Nonsense}
    BY <2>1 DEF CodeOf, Sense
  <2>7. Q!Matches(task, ops) =
          IF m2.stop # "no" THEN m2.stop
          ELSE IF m2.stack = <<>> THEN "underflow"
          ELSE IF Last(m2.stack).type # "boolean" THEN "error"
          ELSE IF Last(m2.stack).value = 1 THEN "matched" ELSE "mismatched"
    <3> DEFINE m == Q!Machine(task, ops)
    <3>1. Q!Matches(task, ops) =
            IF m.stop # "no" THEN m.stop
            ELSE IF m.stack = <<>> THEN "underflow"
            ELSE IF Last(m.stack).type # "boolean" THEN "error"
            ELSE IF Last(m.stack).value = 1 THEN "matched" ELSE "mismatched"
      BY DEF Q!Matches, Q!Last, Last
    <3>2. m = m2
      BY <2>5
    <3> HIDE DEF m
    <3> QED BY <3>1, <3>2
  <2>8. CASE it = Q!Nonsense
    <3>1. m2.stop = "error"
      BY <2>4, <2>8 DEF Follows
    <3> QED BY <2>2, <2>7, <2>8, <3>1, ItemIs
  <2>9. CASE it # Q!Nonsense
    <3>1. m2 = Running(Append(<<>>, it))
      BY <2>3, <2>4, <2>9 DEF Follows
    <3> HIDE DEF it
    <3>2. Append(<<>>, it) = <<it>> /\ <<it>> # <<>> /\ Last(<<it>>) = it
      BY DEF Last
    <3>3. m2.stop = "no" /\ m2.stack = <<it>>
      BY <3>1, <3>2 DEF Running
    <3>4. Q!Matches(task, ops) = Answer(it)
      BY <2>7, <3>2, <3>3
    <3> QED BY <2>2, <3>4 DEF it
  <2> QED BY <2>8, <2>9
<1>2. ASSUME NEW s \in Tasks, NEW t \in Tasks, Q!Matches(s, Q!Query.ops) = "error" PROVE Q!Matches(t, Q!Query.ops) = "error"
  <2>1. PICK r : r \in Q!Parses
    BY QueryReads
  <2>2. r.means[s].type = r.means[t].type
    BY <2>1, ParsesCoded DEF CodeOf, Sense
  <2>3. Q!Matches(s, Q!Query.ops) = Answer(r.means[s]) /\ Q!Matches(t, Q!Query.ops) = Answer(r.means[t])
    BY <1>1, <2>1
  <2> QED BY <1>2, <2>2, <2>3
<1> QED BY <1>1, <1>2

-----------------------------------------------------------------------------
\* A query is words.
LEMMA WordsTyped ==
  ASSUME src \in Seq(Words), [PartsNext]_<<vars, src, kind, text, part>>
  PROVE  src' \in Seq(Words)
<1>1. CASE part = "query" /\ Q!Next /\ UNCHANGED <<vars, kind, text>>
  <2>1. PICK w \in Words : src' = Append(src, w)
    BY <1>1 DEF Q!Next, Q!Type
  <2> QED BY <2>1
<1>2. CASE UNCHANGED src
  BY <1>2
<1> QED BY <1>1, <1>2 DEF PartsNext

\* The compiler takes exactly the queries of the grammar, and each has one reading.
THEOREM CompilerAccepts == PartsSpec => []AcceptsGrammar
<1>1. PartsInit => src \in Seq(Words)
  <2>1. <<>> \in Seq(Words)
    OBVIOUS
  <2> QED BY <2>1 DEF PartsInit, Q!Init
<1>2. src \in Seq(Words) /\ [PartsNext]_<<vars, src, kind, text, part>> => (src \in Seq(Words))'
  BY WordsTyped
<1>3. src \in Seq(Words) => AcceptsGrammar
  BY Accepts DEF AcceptsGrammar
<1> QED BY <1>1, <1>2, <1>3, PTL DEF PartsSpec

\* The machine answers what the query means, and a type error for all tasks or none.
THEOREM MachineMeans == PartsSpec => []MachineAgrees
<1>1. PartsInit => src \in Seq(Words)
  <2>1. <<>> \in Seq(Words)
    OBVIOUS
  <2> QED BY <2>1 DEF PartsInit, Q!Init
<1>2. src \in Seq(Words) /\ [PartsNext]_<<vars, src, kind, text, part>> => (src \in Seq(Words))'
  BY WordsTyped
<1>3. src \in Seq(Words) => MachineAgrees
  BY Agrees DEF MachineAgrees
<1> QED BY <1>1, <1>2, <1>3, PTL DEF PartsSpec

-----------------------------------------------------------------------------
(* Ids and numbers: each reader is brought to the same terms, which are how  *)
(* many spaces, which sign, how many digits, and what these denote.          *)

\* The ten digits, and their values.
LEMMA DigitIs == /\ \A c : X!IsDigit(c) <=> c \in DOMAIN X!Digit
                 /\ \A c \in DOMAIN X!Digit : X!Digit[c] \in 0 .. 9 /\ c \notin {X!Space, "-", "+"} 
                 /\ "0" \in DOMAIN X!Digit
<1>1. DOMAIN X!Digit = {X!Figures[n] : n \in 1 .. 10}
  BY DEF X!Digit, X!ToSet, X!Figures
<1>2. ASSUME NEW c \in DOMAIN X!Digit PROVE X!Digit[c] \in 0 .. 9
  <2>1. \E n \in 1 .. 10 : X!Figures[n] = c
    BY <1>1
  <2>2. (CHOOSE n \in 1 .. 10 : X!Figures[n] = c) \in 1 .. 10
    BY <2>1, Zenon
  <2>3. X!Digit[c] = (CHOOSE n \in 1 .. 10 : X!Figures[n] = c) - 1
    BY <1>2 DEF X!Digit
  <2> DEFINE n == CHOOSE n \in 1 .. 10 : X!Figures[n] = c
  <2> HIDE DEF n
  <2> QED BY <2>2, <2>3 DEF n
<1>3. ASSUME NEW c \in DOMAIN X!Digit PROVE c \notin {X!Space, "-", "+"}
  <2>1. PICK n \in 1 .. 10 : c = X!Figures[n]
    BY <1>1
  <2>2. n = 1 \/ n = 2 \/ n = 3 \/ n = 4 \/ n = 5 \/ n = 6 \/ n = 7 \/ n = 8 \/ n = 9 \/ n = 10
    BY <2>1
  <2>3. c \in {"0", "1", "2", "3", "4", "5", "6", "7", "8", "9"}
    BY <2>1, <2>2 DEF X!Figures
  <2> QED BY <2>3, Zenon DEF X!Space
<1>4. "0" \in DOMAIN X!Digit
  BY <1>1 DEF X!Figures
<1> QED BY <1>2, <1>3, <1>4 DEF X!IsDigit

\* The test for overflow is exact.
LEMMA TenIs ==
  ASSUME NEW n \in Nat, NEW d \in 0 .. 9, NEW limit \in Nat, limit > 10
  PROVE  X!Fits(n, d, limit) <=> n * 10 + d <= limit
BY DEF X!Fits

\* The longest beginning of characters in C.
LEMMA RunIs ==
  ASSUME NEW A, NEW s \in Seq(A), NEW C
  PROVE  /\ X!Run(s, C) \in 0 .. Len(s) /\ \A k \in 1 .. X!Run(s, C) : s[k] \in C
         /\ X!Run(s, C) < Len(s) => s[X!Run(s, C) + 1] \notin C
         /\ \A n \in 0 .. Len(s) : (\A k \in 1 .. n : s[k] \in C) /\ (n < Len(s) => s[n + 1] \notin C) => n = X!Run(s, C)
<1> DEFINE S == {n \in 0 .. Len(s) : n = Len(s) \/ s[n + 1] \notin C}
           Is(n) == (\A k \in 1 .. n : s[k] \in C) /\ (n < Len(s) => s[n + 1] \notin C)
<1>1. S \in SUBSET Nat /\ S # {}
  <2>1. Len(s) \in Nat
    OBVIOUS
  <2>2. Len(s) \in S
    BY <2>1
  <2> QED BY <2>1, <2>2
<1>2. PICK x \in S : \A y \in S : x <= y
  <2> HIDE DEF S
  <2> QED BY <1>1, LeastOf
<1>3. ASSUME NEW k \in 1 .. x PROVE s[k] \in C
  <2>1. k - 1 \in 0 .. Len(s) /\ k - 1 # Len(s) /\ ~(x <= k - 1) /\ (k - 1) + 1 = k
    OBVIOUS
  <2>2. k - 1 \notin S
    BY <1>2, <2>1
  <2> QED BY <2>1, <2>2
<1>4. x \in 0 .. Len(s) /\ Is(x)
  BY <1>3
<1>5. X!Run(s, C) \in 0 .. Len(s) /\ Is(X!Run(s, C))
  <2>1. X!Run(s, C) = CHOOSE n \in 0 .. Len(s) : Is(n)
    BY Zenon DEF X!Run
  <2> HIDE DEF Is
  <2> QED BY <1>4, <2>1, Zenon
<1>6. \A n, m \in 0 .. Len(s) : Is(n) /\ Is(m) => n = m
  <2> SUFFICES ASSUME NEW n \in 0 .. Len(s), NEW m \in 0 .. Len(s), Is(n), Is(m), n < m PROVE FALSE
    <3>1. Len(s) \in Nat
      OBVIOUS
    <3> HIDE DEF Is
    <3> QED BY <3>1
  <2>1. n + 1 \in 1 .. m /\ n < Len(s)
    OBVIOUS
  <2> QED BY <2>1
<1> QED BY <1>5, <1>6

\* A text without its first characters.
LEMMA DropIs ==
  ASSUME NEW A, NEW s \in Seq(A), NEW a \in 0 .. Len(s)
  PROVE  /\ X!Drop(s, a) \in Seq(A) /\ Len(X!Drop(s, a)) = Len(s) - a
         /\ \A k \in 1 .. Len(s) - a : X!Drop(s, a)[k] = s[a + k]
BY DEF X!Drop

\* The spaces before a text.
Gap(s) == X!Run(s, {X!Space})

\* There are spaces as far as the gap goes, and no further.
LEMMA GapIs ==
  ASSUME NEW A, NEW s \in Seq(A)
  PROVE  /\ Gap(s) \in 0 .. Len(s) /\ \A k \in 1 .. Gap(s) : s[k] = X!Space
         /\ Gap(s) < Len(s) => s[Gap(s) + 1] # X!Space
         /\ Len(s) = 0 \/ s[1] # X!Space => Gap(s) = 0
<1>1. PICK C : C = {X!Space}
  OBVIOUS
<1>2. PICK r : r = X!Run(s, C)
  OBVIOUS
<1>3. /\ r \in 0 .. Len(s) /\ \A k \in 1 .. r : s[k] \in C
      /\ r < Len(s) => s[r + 1] \notin C
  BY <1>2, RunIs
<1>4. r = Gap(s)
  BY <1>1, <1>2 DEF Gap
<1>5. \A c : c \in C <=> c = X!Space
  BY <1>1
<1>6. Len(s) = 0 \/ s[1] # X!Space => r = 0
  <2> SUFFICES ASSUME r # 0 PROVE Len(s) # 0 /\ s[1] = X!Space
    OBVIOUS
  <2>1. 1 \in 1 .. r /\ Len(s) # 0
    BY <1>3
  <2> QED BY <1>3, <1>5, <2>1
<1> QED BY <1>3, <1>4, <1>5, <1>6

\* Where the last character is that is not a space.
LastOther(t) == CHOOSE n \in 0 .. Len(t) : /\ n > 0 => t[n] # X!Space
                                          /\ \A k \in n + 1 .. Len(t) : t[k] = X!Space

\* After it there are only spaces.
LEMMA LastOtherIs ==
  ASSUME NEW A, NEW t \in Seq(A)
  PROVE  /\ LastOther(t) \in 0 .. Len(t) /\ (LastOther(t) > 0 => t[LastOther(t)] # X!Space)
         /\ \A k \in LastOther(t) + 1 .. Len(t) : t[k] = X!Space
<1> DEFINE Is(n) == (n > 0 => t[n] # X!Space) /\ (\A k \in n + 1 .. Len(t) : t[k] = X!Space)
           L == {n \in 0 .. Len(t) : Len(t) - n = 0 \/ t[Len(t) - n] # X!Space}
<1>1. Len(t) \in Nat
  OBVIOUS
<1>2. L \in SUBSET Nat /\ Len(t) \in L
  BY <1>1
<1>3. PICK x \in L : \A y \in L : x <= y
  <2> HIDE DEF L
  <2> QED BY <1>2, LeastOf
<1>4. Len(t) - x \in 0 .. Len(t) /\ (Len(t) - x > 0 => t[Len(t) - x] # X!Space)
  BY <1>1
<1>5. ASSUME NEW k \in Len(t) - x + 1 .. Len(t) PROVE t[k] = X!Space
  <2>1. Len(t) - k \in 0 .. Len(t) /\ ~(x <= Len(t) - k) /\ Len(t) - (Len(t) - k) = k /\ k # 0
    BY <1>1, <1>4
  <2>2. Len(t) - k \notin L
    BY <1>3, <2>1
  <2> QED BY <2>1, <2>2
<1>6. Is(Len(t) - x)
  BY <1>4, <1>5
<1>7. LastOther(t) \in 0 .. Len(t) /\ Is(LastOther(t))
  <2>1. LastOther(t) = CHOOSE n \in 0 .. Len(t) : Is(n)
    BY Zenon DEF LastOther
  <2> HIDE DEF Is
  <2> QED BY <1>4, <1>6, <2>1, Zenon
<1> QED BY <1>7

\* What a text is without the spaces before and behind.
LEMMA TrimIs ==
  ASSUME NEW A, NEW s \in Seq(A)
  PROVE  \E m \in 0 .. Len(s) - Gap(s) :
           /\ X!Trim(s) = SubSeq(s, Gap(s) + 1, Gap(s) + m)
           /\ m > 0 => s[Gap(s) + m] # X!Space
           /\ \A k \in m + 1 .. Len(s) - Gap(s) : s[Gap(s) + k] = X!Space
<1>0. PICK r : r = Gap(s)
  OBVIOUS
<1>1. r \in 0 .. Len(s)
  BY <1>0, GapIs
<1>2. PICK t : t = X!Drop(s, r)
  OBVIOUS
<1>3. t \in Seq(A) /\ Len(t) = Len(s) - r /\ Len(t) \in Nat /\ \A k \in 1 .. Len(s) - r : t[k] = s[r + k]
  <2>1. X!Drop(s, r) \in Seq(A) /\ Len(X!Drop(s, r)) = Len(s) - r /\ \A k \in 1 .. Len(s) - r : X!Drop(s, r)[k] = s[r + k]
    BY <1>1, DropIs
  <2>2. Len(s) - r \in Nat
    BY <1>1
  <2> QED BY <1>2, <2>1, <2>2
<1>4. PICK m : m = LastOther(t)
  OBVIOUS
<1>5. m \in 0 .. Len(t) /\ (m > 0 => t[m] # X!Space) /\ (\A k \in m + 1 .. Len(t) : t[k] = X!Space)
  BY <1>3, <1>4, LastOtherIs
<1>6. X!Trim(s) = SubSeq(t, 1, m)
  BY <1>0, <1>2, <1>4, Zenon DEF X!Trim, LastOther, Gap
<1>7. SubSeq(t, 1, m) = SubSeq(s, r + 1, r + m)
  <2>1. PICK u : u = SubSeq(s, r + 1, r + m)
    OBVIOUS
  <2>2. PICK v : v = SubSeq(t, 1, m)
    OBVIOUS
  <2>3. u \in Seq(A) /\ Len(u) = m /\ \A k \in 1 .. m : u[k] = s[r + k]
    <3>1. r + m \in r .. Len(s) /\ (r + m) - r = m
      BY <1>1, <1>3, <1>5
    <3> QED BY <1>1, <2>1, <3>1, PartIs
  <2>4. v \in Seq(A) /\ Len(v) = m /\ \A k \in 1 .. m : v[k] = t[k]
    BY <1>3, <1>5, <2>2
  <2>5. u = v
    BY <2>3, <2>4, <1>3, <1>5, SeqEqual
  <2> QED BY <2>1, <2>2, <2>5
<1>8. m \in 0 .. Len(s) - r /\ (m > 0 => s[r + m] # X!Space) /\ \A k \in m + 1 .. Len(s) - r : s[r + k] = X!Space
  BY <1>3, <1>5
<1> QED BY <1>0, <1>6, <1>7, <1>8

\* What strtol and strtoull see: where the digits begin, and how many there are.
Beginning(s) == LET from == X!Run(s, {X!Space}) IN IF from < Len(s) /\ s[from + 1] \in {"-", "+"} THEN from + 1 ELSE from

Negative(s) == (Gap(s) < Len(s) /\ s[Gap(s) + 1] \in {"-", "+"}) /\ s[Beginning(s)] = "-"

Many(s) == X!Run(X!Drop(s, Beginning(s)), DOMAIN X!Digit)

Figuring(s) == SubSeq(s, Beginning(s) + 1, Beginning(s) + Many(s))

Val(q) == X!FoldLeft(LAMBDA x, c : x * 10 + X!Digit[c], 0, q)

\* What strtol reads, in these terms.
LEMMA DenotedIs ==
  ASSUME NEW s
  PROVE  /\ X!Denoted(s).n = Val(Figuring(s)) /\ (X!Denoted(s).negative <=> Negative(s))
         /\ X!Denoted(s).to = IF Many(s) = 0 THEN 0 ELSE Beginning(s) + Many(s)
BY Zenon DEF X!Denoted, Beginning, Many, Figuring, Val, Gap, Negative

\* The digits begin after the spaces and the sign.
LEMMA BeginningIs ==
  ASSUME NEW A, NEW s \in Seq(A)
  PROVE  /\ Beginning(s) = IF Gap(s) < Len(s) /\ s[Gap(s) + 1] \in {"-", "+"} THEN Gap(s) + 1 ELSE Gap(s)
         /\ Beginning(s) \in Gap(s) .. Len(s) /\ Beginning(s) \in 0 .. Len(s)
<1>1. Beginning(s) = IF Gap(s) < Len(s) /\ s[Gap(s) + 1] \in {"-", "+"} THEN Gap(s) + 1 ELSE Gap(s)
  BY Zenon DEF Beginning, Gap
<1> QED BY <1>1, GapIs

\* The digits, and where they end.
LEMMA ManyIs ==
  ASSUME NEW A, NEW s \in Seq(A)
  PROVE  /\ Many(s) \in 0 .. Len(s) - Beginning(s)
         /\ \A k \in 1 .. Many(s) : s[Beginning(s) + k] \in DOMAIN X!Digit
         /\ Many(s) < Len(s) - Beginning(s) => s[Beginning(s) + Many(s) + 1] \notin DOMAIN X!Digit
         /\ \A n \in 0 .. Len(s) - Beginning(s) :
              /\ \A k \in 1 .. n : s[Beginning(s) + k] \in DOMAIN X!Digit
              /\ n < Len(s) - Beginning(s) => s[Beginning(s) + n + 1] \notin DOMAIN X!Digit
              => n = Many(s)
<1>2. Len(s) \in Nat
  OBVIOUS
<1>3. PICK a : a = Beginning(s)
  OBVIOUS
<1>5. a \in 0 .. Len(s)
  BY <1>3, BeginningIs
<1>6. PICK d : d = X!Drop(s, a)
  OBVIOUS
<1>7. d \in Seq(A) /\ Len(d) = Len(s) - a /\ \A k \in 1 .. Len(s) - a : d[k] = s[a + k]
  BY <1>5, <1>6, DropIs
<1>8. PICK m : m = Many(s)
  OBVIOUS
<1>9. m = X!Run(d, DOMAIN X!Digit)
  BY <1>3, <1>6, <1>8, Zenon DEF Many
<1>10. /\ m \in 0 .. Len(d) /\ \A k \in 1 .. m : d[k] \in DOMAIN X!Digit
       /\ m < Len(d) => d[m + 1] \notin DOMAIN X!Digit
       /\ \A n \in 0 .. Len(d) : (\A k \in 1 .. n : d[k] \in DOMAIN X!Digit) /\ (n < Len(d) => d[n + 1] \notin DOMAIN X!Digit) => n = m
  BY <1>7, <1>9, RunIs
<1>11. m \in 0 .. Len(s) - a
  BY <1>7, <1>10
<1>12. \A k \in 1 .. m : s[a + k] \in DOMAIN X!Digit
  <2>1. \A k \in 1 .. m : k \in 1 .. Len(s) - a
    BY <1>2, <1>5, <1>11
  <2> QED BY <1>7, <1>10, <2>1
<1>13. m < Len(s) - a => s[a + m + 1] \notin DOMAIN X!Digit
  <2> SUFFICES ASSUME m < Len(s) - a PROVE s[a + m + 1] \notin DOMAIN X!Digit
    OBVIOUS
  <2>1. m + 1 \in 1 .. Len(s) - a /\ a + (m + 1) = a + m + 1
    BY <1>2, <1>5, <1>11
  <2> QED BY <1>7, <1>10, <2>1
<1>14. ASSUME NEW n \in 0 .. Len(s) - a,
              \A k \in 1 .. n : s[a + k] \in DOMAIN X!Digit,
              n < Len(s) - a => s[a + n + 1] \notin DOMAIN X!Digit
       PROVE  n = m
  <2>1. ASSUME NEW k \in 1 .. n PROVE d[k] \in DOMAIN X!Digit
    <3>1. k \in 1 .. Len(s) - a
      BY <1>2, <1>5, <1>14
    <3> QED BY <1>7, <1>14, <3>1
  <2>2. n < Len(d) => d[n + 1] \notin DOMAIN X!Digit
    <3> SUFFICES ASSUME n < Len(d) PROVE d[n + 1] \notin DOMAIN X!Digit
      OBVIOUS
    <3>1. n + 1 \in 1 .. Len(s) - a /\ a + (n + 1) = a + n + 1
      BY <1>2, <1>5, <1>7
    <3> QED BY <1>7, <1>14, <3>1
  <2> QED BY <1>7, <1>10, <2>1, <2>2
<1> QED BY <1>3, <1>8, <1>11, <1>12, <1>13, <1>14

\* They are digits, the same as in the text.
LEMMA FiguringIs ==
  ASSUME NEW A, NEW s \in Seq(A)
  PROVE  /\ Figuring(s) \in Seq(DOMAIN X!Digit) /\ Len(Figuring(s)) = Many(s)
         /\ \A k \in 1 .. Many(s) : Figuring(s)[k] = s[Beginning(s) + k]
<1>2. Len(s) \in Nat
  OBVIOUS
<1>3. PICK a : a = Beginning(s)
  OBVIOUS
<1>5. a \in 0 .. Len(s)
  BY <1>3, BeginningIs
<1>8. PICK m : m = Many(s)
  OBVIOUS
<1>11. m \in 0 .. Len(s) - a
  BY <1>3, <1>8, ManyIs
<1>12. \A k \in 1 .. m : s[a + k] \in DOMAIN X!Digit
  BY <1>3, <1>8, ManyIs
<1>15. PICK q : q = Figuring(s)
  OBVIOUS
<1>16. q = SubSeq(s, a + 1, a + m)
  BY <1>3, <1>8, <1>15 DEF Figuring
<1>17. q \in Seq(A) /\ Len(q) = m /\ \A k \in 1 .. m : q[k] = s[a + k]
  <2>1. a + m \in a .. Len(s) /\ (a + m) - a = m
    BY <1>2, <1>5, <1>11
  <2> QED BY <1>5, <1>16, <2>1, PartIs
<1>18. q \in Seq(DOMAIN X!Digit)
  <2>1. \A k \in 1 .. Len(q) : q[k] \in DOMAIN X!Digit
    BY <1>12, <1>17
  <2> QED BY <1>17, <2>1
<1> QED BY <1>3, <1>8, <1>15, <1>17, <1>18

\* The value of digits, one after the other.
Tens == [x \in Nat \X DOMAIN X!Digit |-> x[1] * 10 + X!Digit[x[2]]]

\* It multiplies by ten and adds a digit.
LEMMA ValIs ==
  ASSUME NEW q \in Seq(DOMAIN X!Digit)
  PROVE  \E h \in [0 .. Len(q) -> Nat] :
           /\ h[0] = 0 /\ h[Len(q)] = Val(q)
           /\ \A k \in 1 .. Len(q) : h[k] = h[k - 1] * 10 + X!Digit[q[k]]
<1>1. \A x \in Nat, c \in DOMAIN X!Digit : Tens[<<x, c>>] = x * 10 + X!Digit[c] /\ Tens[<<x, c>>] \in Nat
  <2>1. \A x \in Nat, d \in 0 .. 9 : x * 10 + d \in Nat
    OBVIOUS
  <2>2. \A c \in DOMAIN X!Digit : X!Digit[c] \in 0 .. 9
    BY DigitIs
  <2>3. \A x \in Nat, c \in DOMAIN X!Digit : Tens[<<x, c>>] = x * 10 + X!Digit[c]
    BY DEF Tens
  <2> QED BY <2>1, <2>2, <2>3
<1>2. Tens \in [Nat \X DOMAIN X!Digit -> Nat]
  BY <1>1 DEF Tens
<1>3. Len(q) \in Nat /\ DOMAIN q = 1 .. Len(q) /\ \A i \in 1 .. Len(q) : q[i] \in DOMAIN X!Digit
  OBVIOUS
<1> HIDE DEF Tens
<1>4. \E f : /\ f = [s \in SUBSET DOMAIN q |->
                      IF s = {} THEN 0 ELSE LET x == X!Max(s) IN f[s \ {x}] * 10 + X!Digit[q[x]]]
             /\ Val(q) = f[DOMAIN q]
  <2>1. PICK g \in [SUBSET (1 .. Len(q)) -> Nat] : Folds(g, Tens, 0, q, Len(q))
    BY <1>2, <1>3, FoldsExist
  <2>2. \A s \in SUBSET (1 .. Len(q)) : s # {} => X!Max(s) \in 1 .. Len(q) /\ s \ {X!Max(s)} \in SUBSET (1 .. Len(q))
    BY <1>3, GreatestIs
  <2>3. ASSUME NEW s \in SUBSET (1 .. Len(q)), s # {}
        PROVE  Tens[<<g[s \ {X!Max(s)}], q[X!Max(s)]>>] = g[s \ {X!Max(s)}] * 10 + X!Digit[q[X!Max(s)]]
    BY <2>3, <1>1, <1>3, <2>2
  <2>4. g = [s \in SUBSET (1 .. Len(q)) |-> IF s = {} THEN 0 ELSE Tens[<<g[s \ {X!Max(s)}], q[X!Max(s)]>>]]
    BY <2>1 DEF Folds
  <2>5. g = [s \in SUBSET (1 .. Len(q)) |-> IF s = {} THEN 0 ELSE g[s \ {X!Max(s)}] * 10 + X!Digit[q[X!Max(s)]]]
    BY <2>3, <2>4, Zenon
  <2>6. g = [s \in SUBSET DOMAIN q |-> IF s = {} THEN 0 ELSE LET x == X!Max(s) IN g[s \ {x}] * 10 + X!Digit[q[x]]]
    BY <2>5, <1>3, Zenon
  <2> QED BY <2>6, Zenon DEF Val, X!FoldLeft, X!MapThenFoldSet
<1>5. PICK f : /\ f = [s \in SUBSET DOMAIN q |->
                      IF s = {} THEN 0 ELSE LET x == X!Max(s) IN f[s \ {x}] * 10 + X!Digit[q[x]]]
               /\ Val(q) = f[DOMAIN q]
  BY <1>4
<1>6. \A s \in SUBSET (1 .. Len(q)) : f[s] = IF s = {} THEN 0 ELSE f[s \ {X!Max(s)}] * 10 + X!Digit[q[X!Max(s)]]
  BY <1>3, <1>5, Zenon
<1>7. Unfolds(f, Tens, 0, q, Nat)
  <2>1. ASSUME NEW s \in SUBSET (1 .. Len(q)), s # {}, f[s \ {X!Max(s)}] \in Nat
        PROVE  f[s] = Tens[<<f[s \ {X!Max(s)}], q[X!Max(s)]>>]
    BY <1>1, <1>3, <1>6, <2>1, GreatestIs
  <2> QED BY <1>6, <2>1, Zenon DEF Unfolds
<1>8. Chained(f, Tens, 0, q, Nat)
  BY <1>2, <1>3, <1>7, FoldsChain
<1>9. PICK h \in [0 .. Len(q) -> Nat] :
           /\ h[0] = 0 /\ h[Len(q)] = f[1 .. Len(q)]
           /\ \A k \in 1 .. Len(q) : h[k] = Tens[<<h[k - 1], q[k]>>]
  BY <1>8 DEF Chained
<1>10. \A k \in 1 .. Len(q) : h[k] = h[k - 1] * 10 + X!Digit[q[k]]
  <2>1. \A k \in 1 .. Len(q) : h[k - 1] \in Nat /\ q[k] \in DOMAIN X!Digit
    BY <1>3
  <2> QED BY <1>1, <1>9, <2>1
<1> QED BY <1>3, <1>5, <1>9, <1>10

\* What scheduler_integer makes of them: the same, as long as it fits.
Counts == [ok : BOOLEAN, n : Nat]

CountOf(x, c, limit) == IF x.ok /\ X!IsDigit(c) /\ X!Fits(x.n, X!Digit[c], limit)
                        THEN X!Number(x.n * 10 + X!Digit[c]) ELSE X!NoNumber

Count(q, limit) == X!FoldLeft(LAMBDA x, c : IF x.ok /\ X!IsDigit(c) /\ X!Fits(x.n, X!Digit[c], limit)
                                          THEN X!Number(x.n * 10 + X!Digit[c]) ELSE X!NoNumber,
                            X!Number(0), q)

\* A step leaves a count.
LEMMA CountType ==
  ASSUME NEW x \in Counts, NEW c, NEW limit
  PROVE  CountOf(x, c, limit) \in Counts
<1>1. X!NoNumber \in Counts /\ \A n \in Nat : X!Number(n) \in Counts
  BY DEF X!NoNumber, X!Number, Counts
<1>2. CASE x.ok /\ X!IsDigit(c) /\ X!Fits(x.n, X!Digit[c], limit)
  <2>1. x.n \in Nat /\ X!Digit[c] \in 0 .. 9
    BY <1>2, DigitIs DEF Counts
  <2>2. x.n * 10 + X!Digit[c] \in Nat
    BY <2>1
  <2> QED BY <1>1, <1>2, <2>2 DEF CountOf
<1>3. CASE ~(x.ok /\ X!IsDigit(c) /\ X!Fits(x.n, X!Digit[c], limit))
  BY <1>1, <1>3, Zenon DEF CountOf
<1> QED BY <1>2, <1>3

Counting(A, limit) == [x \in Counts \X A |-> CountOf(x[1], x[2], limit)]

\* The count, one digit after the other.
LEMMA CountIs ==
  ASSUME NEW A, NEW q \in Seq(A), NEW limit
  PROVE  \E h \in [0 .. Len(q) -> Counts] :
           /\ h[0] = X!Number(0) /\ h[Len(q)] = Count(q, limit)
           /\ \A k \in 1 .. Len(q) : h[k] = CountOf(h[k - 1], q[k], limit)
<1> DEFINE op == Counting(A, limit) base == X!Number(0)
<1>1. \A x \in Counts, c \in A : op[<<x, c>>] = CountOf(x, c, limit) /\ op[<<x, c>>] \in Counts
  BY CountType DEF Counting
<1>2. op \in [Counts \X A -> Counts] /\ base \in Counts
  <2>1. base \in Counts
    BY DEF X!Number, Counts
  <2>2. \A y \in Counts \X A : y[1] \in Counts
    OBVIOUS
  <2> QED BY <2>1, <2>2, CountType DEF Counting
<1>3. Len(q) \in Nat /\ DOMAIN q = 1 .. Len(q) /\ \A i \in 1 .. Len(q) : q[i] \in A
  OBVIOUS
<1> HIDE DEF op
<1>4. \E f : /\ f = [s \in SUBSET DOMAIN q |->
                      IF s = {} THEN base ELSE LET x == X!Max(s) IN CountOf(f[s \ {x}], q[x], limit)]
             /\ Count(q, limit) = f[DOMAIN q]
  <2>1. PICK g \in [SUBSET (1 .. Len(q)) -> Counts] : Folds(g, op, base, q, Len(q))
    <3> HIDE DEF base
    <3> QED BY <1>2, <1>3, FoldsExist
  <2>2. \A s \in SUBSET (1 .. Len(q)) : s # {} => X!Max(s) \in 1 .. Len(q) /\ s \ {X!Max(s)} \in SUBSET (1 .. Len(q))
    BY <1>3, GreatestIs
  <2>3. ASSUME NEW s \in SUBSET (1 .. Len(q)), s # {}
        PROVE  op[<<g[s \ {X!Max(s)}], q[X!Max(s)]>>] = CountOf(g[s \ {X!Max(s)}], q[X!Max(s)], limit)
    BY <2>3, <1>1, <1>3, <2>2
  <2>4. g = [s \in SUBSET (1 .. Len(q)) |-> IF s = {} THEN base ELSE op[<<g[s \ {X!Max(s)}], q[X!Max(s)]>>]]
    BY <2>1 DEF Folds
  <2>5. g = [s \in SUBSET (1 .. Len(q)) |-> IF s = {} THEN base ELSE CountOf(g[s \ {X!Max(s)}], q[X!Max(s)], limit)]
    BY <2>3, <2>4, Zenon
  <2>6. g = [s \in SUBSET DOMAIN q |-> IF s = {} THEN base ELSE LET x == X!Max(s) IN CountOf(g[s \ {x}], q[x], limit)]
    BY <2>5, <1>3, Zenon
  <2> QED BY <2>6, Zenon DEF Count, CountOf, X!FoldLeft, X!MapThenFoldSet
<1>5. PICK f : /\ f = [s \in SUBSET DOMAIN q |->
                      IF s = {} THEN base ELSE LET x == X!Max(s) IN CountOf(f[s \ {x}], q[x], limit)]
               /\ Count(q, limit) = f[DOMAIN q]
  BY <1>4
<1> HIDE DEF base
<1>6. \A s \in SUBSET (1 .. Len(q)) : f[s] = IF s = {} THEN base ELSE CountOf(f[s \ {X!Max(s)}], q[X!Max(s)], limit)
  BY <1>3, <1>5, Zenon
<1>7. Unfolds(f, op, base, q, Counts)
  <2>1. ASSUME NEW s \in SUBSET (1 .. Len(q)), s # {}, f[s \ {X!Max(s)}] \in Counts
        PROVE  f[s] = op[<<f[s \ {X!Max(s)}], q[X!Max(s)]>>]
    BY <1>1, <1>3, <1>6, <2>1, GreatestIs
  <2> QED BY <1>6, <2>1, Zenon DEF Unfolds
<1>8. Chained(f, op, base, q, Counts)
  BY <1>2, <1>3, <1>7, FoldsChain
<1>9. PICK h \in [0 .. Len(q) -> Counts] :
           /\ h[0] = base /\ h[Len(q)] = f[1 .. Len(q)]
           /\ \A k \in 1 .. Len(q) : h[k] = op[<<h[k - 1], q[k]>>]
  BY <1>8 DEF Chained
<1>10. \A k \in 1 .. Len(q) : h[k] = CountOf(h[k - 1], q[k], limit)
  <2>1. \A k \in 1 .. Len(q) : h[k - 1] \in Counts /\ q[k] \in A
    BY <1>3
  <2> QED BY <1>1, <1>9, <2>1
<1> QED BY <1>3, <1>5, <1>9, <1>10 DEF base

\* A number that is in the range, or none.
LEMMA CountFits ==
  ASSUME NEW A, NEW q \in Seq(A), NEW limit \in Nat, limit > 10
  PROVE  /\ q \in Seq(DOMAIN X!Digit) => Count(q, limit) = IF Val(q) <= limit THEN X!Number(Val(q)) ELSE X!NoNumber
         /\ q \notin Seq(DOMAIN X!Digit) => Count(q, limit) = X!NoNumber
<1>1. PICK g \in [0 .. Len(q) -> Counts] :
           /\ g[0] = X!Number(0) /\ g[Len(q)] = Count(q, limit)
           /\ \A k \in 1 .. Len(q) : g[k] = CountOf(g[k - 1], q[k], limit)
  BY CountIs
<1>2. Len(q) \in Nat
  OBVIOUS
<1>3. \A n : X!Number(n) = [ok |-> TRUE, n |-> n] /\ X!NoNumber = [ok |-> FALSE, n |-> 0]
  BY DEF X!Number, X!NoNumber
<1>4. ASSUME q \in Seq(DOMAIN X!Digit)
      PROVE  Count(q, limit) = IF Val(q) <= limit THEN X!Number(Val(q)) ELSE X!NoNumber
  <2>1. PICK h \in [0 .. Len(q) -> Nat] :
           /\ h[0] = 0 /\ h[Len(q)] = Val(q)
           /\ \A k \in 1 .. Len(q) : h[k] = h[k - 1] * 10 + X!Digit[q[k]]
    BY <1>4, ValIs
  <2> DEFINE Right(k) == g[k] = IF h[k] <= limit THEN X!Number(h[k]) ELSE X!NoNumber
             S == {k \in 0 .. Len(q) : Right(k)}
  <2>2. 0 \in S
    BY <1>1, <1>2, <2>1
  <2>3. ASSUME NEW k \in 1 .. Len(q), k - 1 \in S PROVE k \in S
    <3>1. k \in 0 .. Len(q) /\ k - 1 \in 0 .. Len(q) /\ Right(k - 1)
      BY <1>2, <2>3
    <3>2. PICK d : d = X!Digit[q[k]]
      OBVIOUS
    <3>3. d \in 0 .. 9 /\ X!IsDigit(q[k])
      BY <1>4, <3>2, DigitIs
    <3>4. PICK n : n = h[k - 1]
      OBVIOUS
    <3>5. n \in Nat /\ h[k] = n * 10 + d
      BY <2>1, <3>1, <3>2, <3>4
    <3>6. g[k] = CountOf(g[k - 1], q[k], limit)
      BY <1>1
    <3>7. CASE n <= limit
      <4>1. g[k - 1] = X!Number(n)
        BY <3>1, <3>4, <3>7
      <4>2. g[k - 1].ok = TRUE /\ g[k - 1].n = n
        BY <1>3, <4>1
      <4>3. g[k] = IF X!Fits(n, d, limit) THEN X!Number(n * 10 + d) ELSE X!NoNumber
        BY <3>2, <3>3, <3>6, <4>2 DEF CountOf
      <4>4. X!Fits(n, d, limit) <=> n * 10 + d <= limit
        BY <3>3, <3>5, TenIs
      <4> QED BY <3>1, <3>5, <4>3, <4>4
    <3>8. CASE ~(n <= limit)
      <4>1. g[k - 1] = X!NoNumber
        BY <3>1, <3>4, <3>8
      <4>2. ~g[k - 1].ok
        BY <1>3, <4>1
      <4>3. g[k] = X!NoNumber
        BY <3>6, <4>2 DEF CountOf
      <4>4. ~(n * 10 + d <= limit)
        BY <3>3, <3>5, <3>8
      <4> QED BY <3>1, <3>5, <4>3, <4>4
    <3> QED BY <3>7, <3>8
  <2>4. Len(q) \in S
    <3>1. \A k \in 0 .. Len(q) : k \in S
      <4> HIDE DEF S
      <4> QED BY <1>2, <2>2, <2>3, AlongChain
    <3> QED BY <1>2, <3>1
  <2> QED BY <1>1, <2>1, <2>4
<1>5. ASSUME q \notin Seq(DOMAIN X!Digit)
      PROVE  Count(q, limit) = X!NoNumber
  <2>1. PICK i \in 1 .. Len(q) : q[i] \notin DOMAIN X!Digit
    BY <1>2, <1>5
  <2> DEFINE S == {k \in 0 .. Len(q) : k >= i => g[k] = X!NoNumber}
  <2>2. 0 \in S
    BY <1>2
  <2>3. ASSUME NEW k \in 1 .. Len(q), k - 1 \in S PROVE k \in S
    <3>1. k \in 0 .. Len(q) /\ g[k] = CountOf(g[k - 1], q[k], limit)
      BY <1>1, <1>2
    <3>2. CASE k >= i + 1
      <4>1. g[k - 1] = X!NoNumber
        BY <2>3, <3>2
      <4>2. ~g[k - 1].ok
        BY <1>3, <4>1
      <4> QED BY <3>1, <4>2 DEF CountOf
    <3>3. CASE k = i
      <4>1. ~X!IsDigit(q[k])
        BY <2>1, <3>3, DigitIs
      <4> QED BY <3>1, <4>1 DEF CountOf
    <3>4. CASE k < i
      BY <3>1, <3>4
    <3> QED BY <3>2, <3>3, <3>4
  <2>4. \A k \in 0 .. Len(q) : k \in S
    <3> HIDE DEF S
    <3> QED BY <1>2, <2>2, <2>3, AlongChain
  <2> QED BY <1>1, <1>2, <2>4
<1> QED BY <1>4, <1>5

\* A sequence of digits has none other.
LEMMA ValType == ASSUME NEW q \in Seq(DOMAIN X!Digit) PROVE Val(q) \in Nat
<1>1. PICK h \in [0 .. Len(q) -> Nat] : h[Len(q)] = Val(q)
  BY ValIs
<1>2. Len(q) \in 0 .. Len(q)
  OBVIOUS
<1> QED BY <1>1, <1>2

\* What is trimmed is read as what it is trimmed from.
LEMMA TrimmedDenotes ==
  ASSUME NEW A, NEW s \in Seq(A)
  PROVE  LET t == X!Trim(s) IN
         /\ t \in Seq(A) /\ Gap(t) = 0 /\ Many(t) = Many(s) /\ Figuring(t) = Figuring(s)
         /\ (X!Denoted(t).negative <=> X!Denoted(s).negative) /\ X!Denoted(t).n = X!Denoted(s).n
         /\ Beginning(s) = Gap(s) + Beginning(t)
<1>1. PICK r : r = Gap(s)
  OBVIOUS
<1>2. PICK t : t = X!Trim(s)
  OBVIOUS
<1>3. PICK m \in 0 .. Len(s) - r :
           /\ t = SubSeq(s, r + 1, r + m)
           /\ m > 0 => s[r + m] # X!Space
           /\ \A k \in m + 1 .. Len(s) - r : s[r + k] = X!Space
  BY <1>1, <1>2, TrimIs
<1>4. /\ r \in 0 .. Len(s) /\ Len(s) \in Nat /\ \A k \in 1 .. r : s[k] = X!Space
      /\ r < Len(s) => s[r + 1] # X!Space
  BY <1>1, GapIs
<1>5. /\ t \in Seq(A) /\ Len(t) = m /\ \A k \in 1 .. m : t[k] = s[r + k]
  <2>1. r + m \in r .. Len(s) /\ (r + m) - r = m
    BY <1>3, <1>4
  <2>2. PICK b : b = r + m
    OBVIOUS
  <2>3. b \in r .. Len(s) /\ b - r = m
    BY <2>1, <2>2
  <2>4. SubSeq(s, r + 1, b) \in Seq(A) /\ Len(SubSeq(s, r + 1, b)) = b - r /\ \A k \in 1 .. b - r : SubSeq(s, r + 1, b)[k] = s[r + k]
    BY <1>4, <2>3, PartIs
  <2> QED BY <1>3, <2>2, <2>3, <2>4
<1>6. r < Len(s) => m > 0
  <2> SUFFICES ASSUME r < Len(s), m = 0 PROVE FALSE
    BY <1>3
  <2>1. 1 \in m + 1 .. Len(s) - r
    BY <1>4
  <2> QED BY <1>3, <1>4, <2>1
<1>7. m > 0 => r < Len(s) /\ t[1] = s[r + 1]
  <2> SUFFICES ASSUME m > 0 PROVE r < Len(s) /\ t[1] = s[r + 1]
    OBVIOUS
  <2>1. 1 \in 1 .. m
    BY <1>3, <1>4
  <2> QED BY <1>3, <1>4, <1>5, <2>1
<1>8. Gap(t) = 0
  <2>1. Len(t) = 0 \/ t[1] # X!Space
    BY <1>3, <1>4, <1>5, <1>7
  <2> QED BY <1>5, <2>1, GapIs
<1>9. PICK a : a = Beginning(t)
  OBVIOUS
<1>10. a = IF m > 0 /\ t[1] \in {"-", "+"} THEN 1 ELSE 0
  <2>1. a = IF Gap(t) < Len(t) /\ t[Gap(t) + 1] \in {"-", "+"}
            THEN Gap(t) + 1 ELSE Gap(t)
    BY <1>5, <1>9, BeginningIs
  <2> QED BY <1>3, <1>5, <1>8, <2>1
<1>11. Beginning(s) = r + a
  <2>1. Beginning(s) = IF r < Len(s) /\ s[r + 1] \in {"-", "+"} THEN r + 1 ELSE r
    BY <1>1, BeginningIs
  <2> QED BY <1>4, <1>6, <1>7, <1>10, <2>1
<1>12. PICK n : n = Many(t)
  OBVIOUS
<1>13. /\ a \in 0 .. m /\ n \in 0 .. m - a
       /\ \A k \in 1 .. n : t[a + k] \in DOMAIN X!Digit
       /\ n < m - a => t[a + n + 1] \notin DOMAIN X!Digit
       /\ Figuring(t) \in Seq(DOMAIN X!Digit) /\ Len(Figuring(t)) = n
       /\ \A k \in 1 .. n : Figuring(t)[k] = t[a + k]
  <2>1. a \in 0 .. m
    BY <1>3, <1>10
  <2>2. t \in Seq(A) /\ Len(t) = m
    BY <1>5
  <2>3. /\ n \in 0 .. m - a
        /\ \A k \in 1 .. n : t[a + k] \in DOMAIN X!Digit
        /\ n < m - a => t[a + n + 1] \notin DOMAIN X!Digit
    BY <1>9, <1>12, <2>2, ManyIs
  <2>4. /\ Figuring(t) \in Seq(DOMAIN X!Digit) /\ Len(Figuring(t)) = n
        /\ \A k \in 1 .. n : Figuring(t)[k] = t[a + k]
    BY <1>9, <1>12, <2>2, FiguringIs
  <2> QED BY <2>1, <2>3, <2>4
<1>14. \A k \in 1 .. n : t[a + k] = s[Beginning(s) + k]
  <2>1. ASSUME NEW k \in 1 .. n PROVE t[a + k] = s[Beginning(s) + k]
    <3>1. a + k \in 1 .. m /\ r + (a + k) = (r + a) + k
      BY <1>3, <1>4, <1>13
    <3> QED BY <1>5, <1>11, <3>1
  <2> QED BY <2>1
<1>15. n = Many(s)
  <2>1. n \in 0 .. Len(s) - Beginning(s)
    BY <1>3, <1>4, <1>11, <1>13
  <2>2. \A k \in 1 .. n : s[Beginning(s) + k] \in DOMAIN X!Digit
    BY <1>13, <1>14
  <2>3. n < Len(s) - Beginning(s) => s[Beginning(s) + n + 1] \notin DOMAIN X!Digit
    <3> SUFFICES ASSUME n < Len(s) - Beginning(s) PROVE s[Beginning(s) + n + 1] \notin DOMAIN X!Digit
      OBVIOUS
    <3>1. CASE n < m - a
      <4>1. a + n + 1 \in 1 .. m /\ r + (a + n + 1) = (r + a) + n + 1
        BY <1>3, <1>4, <1>13, <3>1
      <4> QED BY <1>5, <1>11, <1>13, <3>1, <4>1
    <3>2. CASE ~(n < m - a)
      <4>1. a + n + 1 \in m + 1 .. Len(s) - r /\ r + (a + n + 1) = (r + a) + n + 1
        BY <1>3, <1>4, <1>11, <1>13, <3>2
      <4>2. s[Beginning(s) + n + 1] = X!Space
        BY <1>3, <1>11, <4>1
      <4> QED BY <4>2, DigitIs
    <3> QED BY <3>1, <3>2
  <2> QED BY <2>1, <2>2, <2>3, ManyIs
<1>16. Figuring(t) = Figuring(s)
  <2>1. /\ Figuring(s) \in Seq(DOMAIN X!Digit) /\ Len(Figuring(s)) = n
        /\ \A k \in 1 .. n : Figuring(s)[k] = s[Beginning(s) + k]
    BY <1>15, FiguringIs
  <2>2. \A k \in 1 .. n : Figuring(t)[k] = Figuring(s)[k]
    BY <1>13, <1>14, <2>1
  <2>3. Figuring(t) \in Seq(DOMAIN X!Digit) /\ Len(Figuring(t)) = n
    BY <1>13
  <2> QED BY <2>1, <2>2, <2>3, SeqEqual
<1>17. (X!Denoted(t).negative <=> X!Denoted(s).negative) /\ X!Denoted(t).n = X!Denoted(s).n
  <2>1. X!Denoted(t).n = Val(Figuring(t)) /\ X!Denoted(s).n = Val(Figuring(s))
    BY <1>5, DenotedIs
  <2>2. (X!Denoted(t).negative <=> Negative(t)) /\ (X!Denoted(s).negative <=> Negative(s))
    BY <1>5, DenotedIs
  <2>3. Negative(s) <=> (r < Len(s) /\ s[r + 1] \in {"-", "+"}) /\ s[r + a] = "-"
    BY <1>1, <1>11 DEF Negative
  <2>4. Negative(t) <=> (m > 0 /\ t[1] \in {"-", "+"}) /\ t[a] = "-"
    <3>1. Gap(t) + 1 = 1 /\ (Gap(t) < Len(t) <=> m > 0)
      BY <1>3, <1>5, <1>8
    <3> QED BY <1>9, <3>1 DEF Negative
  <2>5. CASE m > 0
    <3>1. (Negative(s) <=> Negative(t))
      BY <1>7, <1>10, <2>3, <2>4, <2>5
    <3> QED BY <1>16, <2>1, <2>2, <3>1
  <2>6. CASE ~(m > 0)
    <3>1. ~(r < Len(s))
      BY <1>6, <2>6
    <3>2. (Negative(s) <=> Negative(t))
      BY <2>3, <2>4, <2>6, <3>1, Zenon
    <3> QED BY <1>16, <2>1, <2>2, <3>2
  <2> QED BY <1>16, <2>1, <2>5, <2>6
<1> QED BY <1>1, <1>2, <1>5, <1>8, <1>9, <1>11, <1>12, <1>15, <1>16, <1>17

Widths == /\ IntMax \in Nat /\ LongMax \in Nat /\ WordMax \in Nat /\ IntMax > 10
          /\ LongMax > IntMax /\ WordMax > LongMax

\* The widths of the code are such widths.
LEMMA WidthsAre == Widths
BY TextAssumption DEF X!FormatsAssumption, X!TextAssumption, Widths

\* An integer is the digits behind the sign, if there is nothing else and they fit.
LEMMA IntegerIs ==
  ASSUME NEW A, NEW s \in Seq(A)
  PROVE  LET t == X!Trim(s) d == X!Denoted(t) IN
         X!Integer(s) = IF d.to > 0 /\ d.to = Len(t) /\ t[1] # "+" /\ X!Fitting(d) THEN X!Number(X!Exactly(d)) ELSE X!NoNumber
<1>1. PICK t : t = X!Trim(s)
  OBVIOUS
<1>2. t \in Seq(A) /\ Gap(t) = 0 /\ Len(t) \in Nat
  BY <1>1, TrimmedDenotes
<1>3. PICK neg \in BOOLEAN : neg <=> (t # <<>> /\ t[1] = "-")
  OBVIOUS
<1>4. PICK limit : limit = IF neg THEN IntMax + 1 ELSE IntMax
  OBVIOUS
<1>5. PICK q : q = IF neg THEN Tail(t) ELSE t
  OBVIOUS
<1>6. X!Integer(s) = IF q = <<>> \/ ~Count(q, limit).ok THEN X!NoNumber
                   ELSE X!Number(IF neg THEN -Count(q, limit).n ELSE Count(q, limit).n)
  <2>1. X!Integer(s) = LET negative == t # <<>> /\ t[1] = "-"
                         lim == IF negative THEN IntMax + 1 ELSE IntMax
                         digits == IF negative THEN Tail(t) ELSE t
                         m == Count(digits, lim) IN
                     IF digits = <<>> \/ ~m.ok THEN X!NoNumber ELSE X!Number(IF negative THEN -m.n ELSE m.n)
    <3>1. X!Integer(s) = LET u == X!Trim(s)
                           negative == u # <<>> /\ u[1] = "-"
                           lim == IF negative THEN IntMax + 1 ELSE IntMax
                           digits == IF negative THEN Tail(u) ELSE u
                           m == Count(digits, lim) IN
                       IF digits = <<>> \/ ~m.ok THEN X!NoNumber ELSE X!Number(IF negative THEN -m.n ELSE m.n)
      BY DEF X!Integer, Count
    <3> QED BY <1>1, <3>1
  <2>2. CASE neg
    BY <1>3, <1>4, <1>5, <2>1, <2>2
  <2>3. CASE ~neg
    BY <1>3, <1>4, <1>5, <2>1, <2>3
  <2> QED BY <2>2, <2>3
<1>7. limit \in Nat /\ limit > 10
  BY <1>4, WidthsAre DEF Widths
<1>8. t # <<>> <=> Len(t) > 0
  BY <1>2
<1>9. neg => Len(t) > 0 /\ t[1] = "-"
  BY <1>3, <1>8
<1>10. q \in Seq(A) /\ Len(q) = (IF neg THEN Len(t) - 1 ELSE Len(t)) /\ Len(q) \in Nat
  BY <1>2, <1>5, <1>9
<1>11. \A k \in 1 .. Len(q) : q[k] = IF neg THEN t[k + 1] ELSE t[k]
  BY <1>2, <1>5, <1>9
<1>12. q = <<>> <=> Len(q) = 0
  <2>1. q \in Seq(A)
    BY <1>10
  <2> QED BY <2>1
<1>13. PICK a : a = Beginning(t)
  OBVIOUS
<1>14. a = IF Len(t) > 0 /\ t[1] \in {"-", "+"} THEN 1 ELSE 0
  <2>1. a = IF Gap(t) < Len(t) /\ t[Gap(t) + 1] \in {"-", "+"} THEN Gap(t) + 1 ELSE Gap(t)
    BY <1>2, <1>13, BeginningIs
  <2>2. Gap(t) + 1 = 1 /\ (Gap(t) < Len(t) <=> Len(t) > 0)
    BY <1>2
  <2> QED BY <1>2, <2>1, <2>2
<1>15. PICK m : m = Many(t)
  OBVIOUS
<1>16. /\ m \in 0 .. Len(t) - a
       /\ \A k \in 1 .. m : t[a + k] \in DOMAIN X!Digit
       /\ m < Len(t) - a => t[a + m + 1] \notin DOMAIN X!Digit
  BY <1>2, <1>13, <1>15, ManyIs
<1>17. PICK d : d = X!Denoted(t)
  OBVIOUS
<1>18. d.n = Val(Figuring(t)) /\ (d.negative <=> Negative(t)) /\ d.to = IF m = 0 THEN 0 ELSE a + m
  BY <1>13, <1>15, <1>17, DenotedIs
<1>19. Negative(t) <=> neg
  <2>1. Gap(t) + 1 = 1 /\ (Gap(t) < Len(t) <=> Len(t) > 0)
    BY <1>2
  <2>2. Negative(t) <=> (Len(t) > 0 /\ t[1] \in {"-", "+"}) /\ t[a] = "-"
    BY <1>13, <2>1 DEF Negative
  <2> QED BY <1>3, <1>8, <1>14, <2>2
<1>20. CASE Len(t) > 0 /\ t[1] = "+"
  <2>1. ~neg /\ 1 \in 1 .. Len(q) /\ q[1] \notin DOMAIN X!Digit
    BY <1>2, <1>3, <1>10, <1>11, <1>20, DigitIs
  <2>2. q \notin Seq(DOMAIN X!Digit)
    BY <2>1
  <2>3. Count(q, limit) = X!NoNumber
    BY <1>7, <1>10, <2>2, CountFits
  <2>4. X!Integer(s) = X!NoNumber
    BY <1>6, <2>3 DEF X!NoNumber
  <2> QED BY <1>1, <1>17, <1>20, <2>4
<1>21. CASE ~(Len(t) > 0 /\ t[1] = "+")
  <2>1. a = IF neg THEN 1 ELSE 0
    BY <1>3, <1>8, <1>14, <1>21
  <2>2. Len(q) = Len(t) - a /\ \A k \in 1 .. Len(q) : q[k] = t[a + k]
    BY <1>2, <1>10, <1>11, <2>1
  <2>3. CASE m = Len(t) - a
    <3>1. \A k \in 1 .. Len(q) : q[k] \in DOMAIN X!Digit
      BY <1>16, <2>2, <2>3
    <3>2. q \in Seq(DOMAIN X!Digit)
      BY <1>10, <3>1
    <3>3. q = Figuring(t)
      <4>1. Figuring(t) \in Seq(DOMAIN X!Digit) /\ Len(Figuring(t)) = m /\ \A k \in 1 .. m : Figuring(t)[k] = t[a + k]
        BY <1>2, <1>13, <1>15, FiguringIs
      <4> QED BY <2>2, <2>3, <3>2, <4>1, SeqEqual
    <3>4. PICK v \in Nat : v = Val(q)
      BY <3>2, ValType
    <3>5. Count(q, limit) = IF v <= limit THEN X!Number(v) ELSE X!NoNumber
      BY <1>7, <1>10, <3>2, <3>4, CountFits
    <3>6. d.n = v
      BY <1>18, <3>3, <3>4
    <3>7. X!Fitting(d) <=> v <= limit
      BY <1>4, <1>18, <1>19, <3>6 DEF X!Fitting
    <3>8. X!Exactly(d) = IF neg THEN -v ELSE v
      BY <1>18, <1>19, <3>6 DEF X!Exactly
    <3>9. CASE m = 0
      BY <1>1, <1>6, <1>12, <1>17, <1>18, <2>2, <2>3, <3>9
    <3>10. CASE m # 0
      <4>1. d.to > 0 /\ d.to = Len(t) /\ t[1] # "+" /\ q # <<>>
        BY <1>2, <1>10, <1>12, <1>14, <1>16, <1>18, <1>21, <2>2, <2>3, <3>10
      <4>2. CASE v <= limit
        <5>1. Count(q, limit).ok /\ Count(q, limit).n = v
          BY <3>5, <4>2 DEF X!Number
        <5>2. X!Integer(s) = X!Number(X!Exactly(d))
          BY <1>6, <3>8, <4>1, <5>1
        <5> QED BY <1>1, <1>17, <3>7, <4>1, <4>2, <5>2
      <4>3. CASE ~(v <= limit)
        <5>1. X!Integer(s) = X!NoNumber
          BY <1>6, <3>5, <4>3 DEF X!NoNumber
        <5> QED BY <1>1, <1>17, <3>7, <4>3, <5>1
      <4> QED BY <4>2, <4>3
    <3> QED BY <3>9, <3>10
  <2>4. CASE m # Len(t) - a
    <3>1. d.to # Len(t) \/ ~(d.to > 0)
      BY <1>2, <1>14, <1>16, <1>18, <2>4
    <3>2. m + 1 \in 1 .. Len(q) /\ q[m + 1] \notin DOMAIN X!Digit
      <4>1. m + 1 \in 1 .. Len(q) /\ a + (m + 1) = a + m + 1
        BY <1>2, <1>14, <1>16, <2>2, <2>4
      <4>2. q[m + 1] = t[a + m + 1]
        BY <2>2, <4>1
      <4>3. m < Len(t) - a
        BY <1>2, <1>14, <1>16, <2>4
      <4> QED BY <1>16, <4>1, <4>2, <4>3
    <3>3. q \notin Seq(DOMAIN X!Digit)
      BY <3>2
    <3>4. Count(q, limit) = X!NoNumber
      BY <1>7, <1>10, <3>3, CountFits
    <3>5. X!Integer(s) = X!NoNumber
      BY <1>6, <3>4 DEF X!NoNumber
    <3> QED BY <1>1, <1>17, <3>1, <3>5
  <2> QED BY <2>3, <2>4
<1> QED BY <1>20, <1>21

\* A long as an int is the same number if it fits, and one that differs by the width if not.
LEMMA AsIntIs ==
  ASSUME NEW n \in Int
  PROVE  /\ -(IntMax + 1) <= n /\ n <= IntMax => X!AsInt(n) = n
         /\ (X!AsInt(n) - n) % (IntMax + 1) = 0
<1>1. PICK i : i = IntMax + 1
  OBVIOUS
<1>2. i \in Nat \ {0} /\ IntMax = i - 1 /\ 2 * i \in Nat \ {0}
  BY <1>1, WidthsAre DEF Widths
<1>3. PICK w : w = 2 * i
  OBVIOUS
<1>4. PICK m : m = n % w
  OBVIOUS
<1>5. X!AsInt(n) = IF m > i - 1 THEN m - w ELSE m
  BY <1>1, <1>2, <1>3, <1>4 DEF X!AsInt
<1>6. PICK q : q = n \div w
  OBVIOUS
<1>7. q \in Int /\ m \in 0 .. w - 1 /\ n = w * q + m
  BY <1>2, <1>3, <1>4, <1>6, ModExact
<1>8. ASSUME -i <= n, n <= i - 1 PROVE X!AsInt(n) = n
  <2>1. CASE n >= 0
    <3>1. n \in 0 .. w - 1 /\ n = w * 0 + n
      BY <1>2, <1>3, <1>8, <2>1
    <3>2. m = n
      BY <1>2, <1>3, <1>4, <3>1, ModIs
    <3> QED BY <1>2, <1>5, <1>8, <3>2
  <2>2. CASE n < 0
    <3>1. n + w \in 0 .. w - 1 /\ n = w * (-1) + (n + w)
      BY <1>2, <1>3, <1>8, <2>2
    <3>2. m = n + w
      BY <1>2, <1>3, <1>4, <3>1, ModIs
    <3> QED BY <1>2, <1>3, <1>5, <1>8, <3>2
  <2> QED BY <2>1, <2>2
<1>9. (X!AsInt(n) - n) % i = 0
  <2>1. PICK a : a = w * q
    OBVIOUS
  <2>2. a \in Int /\ a = i * (2 * q)
    BY <1>2, <1>3, <1>7, <2>1
  <2>3. X!AsInt(n) \in Int /\ (X!AsInt(n) - n = -a \/ X!AsInt(n) - n = -a - w)
    BY <1>2, <1>3, <1>5, <1>7, <2>1, <2>2
  <2>4. \E p \in Int : X!AsInt(n) - n = i * p
    <3>1. -2 * q \in Int /\ -2 * q - 2 \in Int
      BY <1>7
    <3>2. -a = i * (-2 * q) /\ -a - w = i * (-2 * q - 2)
      BY <1>2, <1>3, <1>7, <2>2
    <3>3. CASE X!AsInt(n) - n = -a
      <4>1. X!AsInt(n) - n = i * (-2 * q)
        BY <3>2, <3>3
      <4> QED BY <3>1, <4>1
    <3>4. CASE X!AsInt(n) - n = -a - w
      <4>1. X!AsInt(n) - n = i * (-2 * q - 2)
        BY <3>2, <3>4
      <4> QED BY <3>1, <4>1
    <3> QED BY <2>3, <3>3, <3>4
  <2>5. PICK p \in Int : X!AsInt(n) - n = i * p
    BY <2>4
  <2>6. PICK b : b = X!AsInt(n) - n
    OBVIOUS
  <2>7. b \in Int /\ b = i * p + 0 /\ 0 \in 0 .. i - 1
    BY <1>2, <2>3, <2>5, <2>6
  <2>8. b % i = 0
    BY <1>2, <2>7, ModIs
  <2> QED BY <2>6, <2>8
<1> QED BY <1>1, <1>2, <1>8, <1>9

\* strtol is exact up to the ends of a long.
LEMMA StrtolIs ==
  ASSUME NEW A, NEW s \in Seq(A)
  PROVE  /\ X!Strtol(s).to = X!Denoted(s).to /\ X!Denoted(s).n \in Nat /\ X!Denoted(s).to \in 0 .. Len(s)
         /\ X!Denoted(s).n <= LongMax => X!Strtol(s).n = X!Exactly(X!Denoted(s))
         /\ X!Exactly(X!Denoted(s)) \in Int /\ X!Strtol(s).n \in Int
<1>1. PICK d : d = X!Denoted(s)
  OBVIOUS
<1>2. d.n \in Nat /\ d.to \in 0 .. Len(s)
  <2>1. Figuring(s) \in Seq(DOMAIN X!Digit)
    BY FiguringIs
  <2>2. Beginning(s) \in 0 .. Len(s) /\ Many(s) \in 0 .. Len(s) - Beginning(s) /\ Len(s) \in Nat
    BY BeginningIs, ManyIs
  <2>3. d.n = Val(Figuring(s)) /\ d.to = IF Many(s) = 0 THEN 0 ELSE Beginning(s) + Many(s)
    BY <1>1, DenotedIs
  <2>4. d.n \in Nat
    BY <2>1, <2>3, ValType
  <2> QED BY <2>2, <2>3, <2>4
<1>3. LongMax \in Nat
  BY WidthsAre DEF Widths
<1>4. X!Strtol(s) = [to |-> d.to, n |-> IF d.negative THEN IF d.n > LongMax THEN -LongMax - 1 ELSE -d.n
                                 ELSE IF d.n > LongMax THEN LongMax ELSE d.n]
  BY <1>1 DEF X!Strtol
<1>5. X!Strtol(s).to = d.to
  BY <1>4
<1>6. X!Strtol(s).n = IF d.negative THEN IF d.n > LongMax THEN -LongMax - 1 ELSE -d.n
                                 ELSE IF d.n > LongMax THEN LongMax ELSE d.n
  BY <1>4
<1>7. X!Exactly(d) = IF d.negative THEN -d.n ELSE d.n
  BY DEF X!Exactly
<1> QED BY <1>1, <1>2, <1>3, <1>5, <1>6, <1>7

\* scheduler_integer, atoi and the literals of queries.
LEMMA IntegersAgree ==
  ASSUME NEW A, NEW s \in Seq(A)
  PROVE  LET t == X!Trim(s) d == X!Denoted(t) IN
         /\ X!Integer(s).ok => X!Atoi(s) = X!Integer(s).n /\ X!Literal(t) = X!Integer(s)
         /\ X!Literal(s).ok /\ d.n <= LongMax => (X!Literal(s).n - X!Exactly(d)) % (IntMax + 1) = 0
<1>1. PICK t : t = X!Trim(s)
  OBVIOUS
<1>2. PICK d : d = X!Denoted(t)
  OBVIOUS
<1>3. PICK e : e = X!Denoted(s)
  OBVIOUS
<1>4. t \in Seq(A) /\ (d.negative <=> e.negative) /\ d.n = e.n
  BY <1>1, <1>2, <1>3, TrimmedDenotes
<1>5. X!Exactly(d) = X!Exactly(e)
  BY <1>4 DEF X!Exactly
<1>6. /\ X!Strtol(s).to = e.to /\ e.n \in Nat /\ e.to \in 0 .. Len(s) 
      /\ e.n <= LongMax => X!Strtol(s).n = X!Exactly(e)
      /\ X!Exactly(e) \in Int
  BY <1>3, StrtolIs
<1>7. /\ X!Strtol(t).to = d.to /\ d.n \in Nat /\ d.to \in 0 .. Len(t) 
      /\ d.n <= LongMax => X!Strtol(t).n = X!Exactly(d)
      /\ X!Exactly(d) \in Int
  BY <1>2, <1>4, StrtolIs
<1>8. \A n : X!Number(n).ok = TRUE /\ X!Number(n).n = n /\ X!NoNumber.ok = FALSE
  BY DEF X!Number, X!NoNumber
<1>9. ASSUME X!Integer(s).ok PROVE X!Atoi(s) = X!Integer(s).n /\ X!Literal(t) = X!Integer(s)
  <2>1. d.to > 0 /\ d.to = Len(t) /\ X!Fitting(d) /\ X!Integer(s) = X!Number(X!Exactly(d))
    <3>1. X!Integer(s) = IF d.to > 0 /\ d.to = Len(t) /\ t[1] # "+" /\ X!Fitting(d) THEN X!Number(X!Exactly(d)) ELSE X!NoNumber
      BY <1>1, <1>2, IntegerIs
    <3> QED BY <1>8, <1>9, <3>1
  <2>2. d.n <= LongMax /\ -(IntMax + 1) <= X!Exactly(d) /\ X!Exactly(d) <= IntMax
    BY <1>7, <2>1, WidthsAre DEF Widths, X!Fitting, X!Exactly
  <2>3. X!AsInt(X!Exactly(d)) = X!Exactly(d)
    BY <1>7, <2>2, AsIntIs
  <2>4. X!Atoi(s) = X!Exactly(d)
    BY <1>4, <1>5, <1>6, <2>2, <2>3 DEF X!Atoi
  <2>5. X!Literal(t) = X!Number(X!Exactly(d))
    BY <1>7, <2>1, <2>2, <2>3 DEF X!Literal
  <2> QED BY <1>8, <2>1, <2>4, <2>5
<1>10. ASSUME X!Literal(s).ok, d.n <= LongMax PROVE (X!Literal(s).n - X!Exactly(d)) % (IntMax + 1) = 0
  <2>1. X!Literal(s) = X!Number(X!AsInt(X!Strtol(s).n))
    BY <1>8, <1>10 DEF X!Literal
  <2>2. X!Literal(s).n = X!AsInt(X!Exactly(d))
    BY <1>4, <1>5, <1>6, <1>8, <1>10, <2>1
  <2> QED BY <1>7, <2>2, AsIntIs
<1> QED BY <1>1, <1>2, <1>9, <1>10

\* The options of flag.h.
LEMMA OptionsExact ==
  ASSUME NEW A, NEW s \in Seq(A)
  PROVE  LET e == X!Denoted(s) IN
         /\ X!FlagUint64(s).ok /\ ~e.negative => X!FlagUint64(s).n = e.n
         /\ X!FlagSize(s).ok /\ ~e.negative =>
              LET m == e.n * IF e.to < Len(s) THEN Unit[X!Last(s)] ELSE 1 IN
              m <= WordMax => X!FlagSize(s).n = m
<1>1. PICK e : e = X!Denoted(s)
  OBVIOUS
<1>2. e.n \in Nat /\ e.to \in 0 .. Len(s) /\ Len(s) \in Nat
  BY <1>1, StrtolIs
<1>3. WordMax \in Nat /\ \A c \in DOMAIN Unit : Unit[c] \in Nat
  BY TextAssumption DEF X!FormatsAssumption, X!TextAssumption
<1>4. \A n : X!Number(n).ok = TRUE /\ X!Number(n).n = n /\ X!NoNumber.ok = FALSE
  BY DEF X!Number, X!NoNumber
<1> SUFFICES ASSUME ~e.negative
             PROVE  /\ X!FlagUint64(s).ok => X!FlagUint64(s).n = e.n
                    /\ X!FlagSize(s).ok =>
                         LET m == e.n * IF e.to < Len(s) THEN Unit[X!Last(s)] ELSE 1 IN
                         m <= WordMax => X!FlagSize(s).n = m
  BY <1>1
<1>5. PICK x : x = X!Word(s)
  OBVIOUS
<1>6. x = [to |-> e.to, erange |-> e.n > WordMax, n |-> IF e.n > WordMax THEN WordMax ELSE e.n]
  BY <1>1, <1>5 DEF X!Word
<1>7. x.to = e.to /\ (x.erange <=> e.n > WordMax) /\ x.n = IF e.n > WordMax THEN WordMax ELSE e.n
  BY <1>6
<1>8. X!FlagUint64(s).ok => X!FlagUint64(s).n = e.n
  <2> SUFFICES ASSUME X!FlagUint64(s).ok PROVE X!FlagUint64(s).n = e.n
    OBVIOUS
  <2>1. X!FlagUint64(s) = X!Checked(x, x.n)
    BY <1>4, <1>5 DEF X!FlagUint64
  <2>2. X!FlagUint64(s) = X!Number(x.n) /\ ~(x.n = WordMax /\ x.erange)
    BY <1>4, <2>1 DEF X!Checked
  <2> QED BY <1>4, <1>7, <2>2
<1>9. ASSUME X!FlagSize(s).ok,
             NEW m, m = e.n * IF e.to < Len(s) THEN Unit[X!Last(s)] ELSE 1, m <= WordMax
      PROVE  X!FlagSize(s).n = m
  <2>1. PICK z : z = X!Drop(s, e.to)
    OBVIOUS
  <2>2. z \in Seq(A) /\ Len(z) = Len(s) - e.to /\ \A k \in 1 .. Len(s) - e.to : z[k] = s[e.to + k]
    BY <1>2, <2>1, DropIs
  <2>3. PICK y : y = X!Multiplied(x.n, z)
    OBVIOUS
  <2>4. X!FlagSize(s) = IF y.ok THEN X!Checked(x, y.n) ELSE X!NoNumber
    BY <1>5, <1>7, <2>1, <2>3 DEF X!FlagSize
  <2>5. y.ok /\ X!FlagSize(s) = X!Checked(x, y.n)
    BY <1>4, <1>9, <2>4
  <2>6. X!FlagSize(s) = X!Number(y.n) /\ X!FlagSize(s).n = y.n
    BY <1>4, <1>9, <2>5 DEF X!Checked
  <2>7. x.n \in Nat
    BY <1>2, <1>3, <1>7
  <2>8. CASE e.to = Len(s)
    <3>1. z = <<>>
      BY <1>2, <2>2, <2>8
    <3>2. y = X!Number(x.n)
      BY <2>3, <3>1 DEF X!Multiplied
    <3>3. m = e.n
      BY <1>2, <1>9, <2>8
    <3> QED BY <1>2, <1>3, <1>4, <1>7, <1>9, <2>6, <3>2, <3>3
  <2>9. CASE e.to # Len(s)
    <3>1. e.to < Len(s) /\ z # <<>>
      BY <1>2, <2>2, <2>9
    <3>2. Len(z) = 1 /\ z[1] \in DOMAIN Unit /\ y = X!Number((x.n * Unit[z[1]]) % (WordMax + 1))
      <4>1. y # X!NoNumber
        BY <1>4, <2>5
      <4>2. ~(Len(z) > 1) /\ z[1] \in DOMAIN Unit /\ y = X!Number((x.n * Unit[z[1]]) % (WordMax + 1))
        BY <2>3, <3>1, <4>1 DEF X!Multiplied
      <4> QED BY <1>2, <2>2, <3>1, <4>2
    <3>3. z[1] = X!Last(s)
      BY <1>2, <2>2, <3>1, <3>2 DEF X!Last
    <3>4. PICK u \in Nat : u = Unit[z[1]]
      BY <1>3, <3>2
    <3>5. m = e.n * u
      BY <1>9, <3>1, <3>3, <3>4
    <3>6. y.n = (x.n * u) % (WordMax + 1)
      BY <1>4, <3>2, <3>4
    <3>7. x.n * u = m
      <4>1. CASE e.n <= WordMax
        BY <1>2, <1>3, <1>7, <3>5, <4>1
      <4>2. CASE e.n > WordMax
        <5>1. \A p, r \in Nat : r >= 1 => p * r >= p
          OBVIOUS
        <5>2. u = 0
          BY <1>2, <1>3, <1>9, <3>4, <3>5, <4>2, <5>1
        <5> QED BY <1>2, <2>7, <3>5, <5>2
      <4> QED BY <1>2, <1>3, <4>1, <4>2
    <3>8. m \in 0 .. (WordMax + 1) - 1 /\ m = (WordMax + 1) * 0 + m /\ WordMax + 1 \in Nat \ {0}
      <4>1. m \in Nat
        BY <1>2, <3>5
      <4> QED BY <1>3, <1>9, <4>1
    <3>9. m % (WordMax + 1) = m
      BY <3>8, ModIs
    <3> QED BY <2>6, <3>6, <3>7, <3>9
  <2> QED BY <2>8, <2>9
<1> QED BY <1>8, <1>9

\* Everything about numbers together.
LEMMA NumbersDo == ASSUME NEW A, text \in Seq(A) PROVE X!NumbersAgree
<1>1. PICK t : t = X!Trim(text)
  OBVIOUS
<1>2. PICK d : d = X!Denoted(t)
  OBVIOUS
<1>3. X!Integer(text) = IF (d.to > 0 /\ d.to = Len(t) /\ t[1] # "+") /\ X!Fitting(d) THEN X!Number(X!Exactly(d)) ELSE X!NoNumber
  BY <1>1, <1>2, IntegerIs
<1>4. /\ X!Integer(text).ok => X!Atoi(text) = X!Integer(text).n /\ X!Literal(t) = X!Integer(text)
      /\ X!Literal(text).ok /\ d.n <= LongMax => (X!Literal(text).n - X!Exactly(d)) % (IntMax + 1) = 0
  BY <1>1, <1>2, IntegersAgree
<1> QED BY <1>1, <1>2, <1>3, <1>4, OptionsExact DEF X!NumbersAgree

\* The parts of an id, by the characters of the text it is in.
LEMMA NamesDo == ASSUME NEW A, text \in Seq(A) PROVE X!NamesAgree
<1>1. PICK D : D = DateDigits
  OBVIOUS
<1>2. PICK P : P = X!Stamp
  OBVIOUS
<1>3. PICK L : L = Len(text)
  OBVIOUS
<1>4. D \in Nat /\ P \in Nat /\ P >= D + 1 /\ L \in Nat /\ MaxName \in Nat
  BY <1>1, <1>2, <1>3, TextAssumption DEF X!FormatsAssumption, X!TextAssumption, X!Stamp
<1> DEFINE Stamps(n) == n >= P /\ \A k \in 1 .. P : IF k = D + 1 THEN text[k] = "-" ELSE text[k] \in DOMAIN X!Digit
           Extends(n) == /\ n > P => text[P + 1] = "-"
                         /\ \A k \in P + 2 .. n : text[k] \in X!Plain
<1>5. ASSUME NEW n \in 0 .. L PROVE X!Huid(SubSeq(text, 1, n)) <=> Stamps(n) /\ Extends(n)
  <2>1. PICK s : s = SubSeq(text, 1, n)
    OBVIOUS
  <2>2. Len(s) = n /\ \A k \in 1 .. n : s[k] = text[k]
    BY <1>3, <1>4, <2>1
  <2>3. X!Stamped(s) <=> Stamps(n)
    <3>1. X!Stamped(s) <=> n >= P /\ \A k \in 1 .. P : IF k = D + 1 THEN s[k] = "-" ELSE s[k] \in DOMAIN X!Digit
      BY <1>1, <1>2, <2>2, DigitIs DEF X!Stamped
    <3> QED BY <1>4, <2>2, <3>1
  <2>4. X!Extended(s) <=> Extends(n)
    <3>1. X!Extended(s) <=> /\ n > P => s[P + 1] = "-"
                          /\ \A k \in P + 2 .. n : s[k] \in X!Plain
      BY <1>2, <2>2 DEF X!Extended
    <3> QED BY <1>4, <2>2, <3>1
  <2> QED BY <2>1, <2>3, <2>4 DEF X!Huid
<1>6. X!Huid(text) <=> Stamps(L) /\ Extends(L)
  <2>1. SubSeq(text, 1, L) = text
    BY <1>3
  <2>2. L \in 0 .. L
    BY <1>4
  <2>3. X!Huid(SubSeq(text, 1, L)) <=> Stamps(L) /\ Extends(L)
    BY <1>5, <2>2
  <2> QED BY <2>1, <2>3
<1>7. X!Chopped(text) =
        IF L <= D \/ (\E k \in 1 .. D : text[k] \notin DOMAIN X!Digit) \/ text[D + 1] # "-"
           \/ (\E k \in D + 2 .. P : k <= L /\ text[k] \notin DOMAIN X!Digit) THEN 0
        ELSE IF L < P THEN L
        ELSE P + IF L > P /\ text[P + 1] = "-" THEN X!Run(X!Drop(text, P), X!Plain) ELSE 0
  <2>1. PICK date : date = X!Slice(text, 1, D)
    OBVIOUS
  <2>2. PICK time : time = X!Slice(text, D + 2, P)
    OBVIOUS
  <2>3. PICK rest : rest = X!Drop(text, P)
    OBVIOUS
  <2>4. X!Chopped(text) = IF \/ L <= D \/ \E n \in DOMAIN date : ~X!IsDigit(date[n])
                           \/ text[D + 1] # "-" \/ \E n \in DOMAIN time : ~X!IsDigit(time[n])
                        THEN 0
                        ELSE D + 1 + Len(time) + IF rest # <<>> /\ rest[1] = "-" THEN X!Run(rest, X!Plain) ELSE 0
    BY <1>1, <1>2, <1>3, <2>1, <2>2, <2>3, Zenon DEF X!Chopped
  <2>5. CASE L <= D
    BY <2>4, <2>5
  <2>6. CASE L > D
    <3>1. DOMAIN date = 1 .. D /\ \A k \in 1 .. D : date[k] = text[k]
      BY <1>3, <1>4, <2>1, <2>6 DEF X!Slice
    <3>2. PICK h : h = IF P < L THEN P ELSE L
      OBVIOUS
    <3>3. h \in D + 1 .. L /\ time = SubSeq(text, D + 2, h)
      BY <1>3, <1>4, <2>2, <2>6, <3>2 DEF X!Slice
    <3>4. Len(time) = h - D - 1 /\ DOMAIN time = 1 .. h - D - 1 /\ \A k \in 1 .. h - D - 1 : time[k] = text[D + 1 + k]
      BY <1>3, <1>4, <3>3
    <3>5. (\E n \in DOMAIN time : ~X!IsDigit(time[n])) <=> \E k \in D + 2 .. P : k <= L /\ text[k] \notin DOMAIN X!Digit
      <4>1. ASSUME NEW n \in DOMAIN time, ~X!IsDigit(time[n])
            PROVE  \E k \in D + 2 .. P : k <= L /\ text[k] \notin DOMAIN X!Digit
        <5>1. D + 1 + n \in D + 2 .. P /\ D + 1 + n <= L /\ text[D + 1 + n] \notin DOMAIN X!Digit
          BY <1>4, <3>2, <3>3, <3>4, <4>1, DigitIs
        <5> QED BY <5>1
      <4>2. ASSUME NEW k \in D + 2 .. P, k <= L, text[k] \notin DOMAIN X!Digit
            PROVE  \E n \in DOMAIN time : ~X!IsDigit(time[n])
        <5>1. k - D - 1 \in DOMAIN time /\ time[k - D - 1] = text[k]
          BY <1>4, <3>2, <3>3, <3>4, <4>2
        <5> QED BY <4>2, <5>1, DigitIs
      <4> QED BY <4>1, <4>2
    <3>6. (\E n \in DOMAIN date : ~X!IsDigit(date[n])) <=> \E k \in 1 .. D : text[k] \notin DOMAIN X!Digit
      BY <3>1, DigitIs
    <3>7. CASE L < P
      <4>0. rest = SubSeq(text, P + 1, L)
        BY <1>3, <2>3 DEF X!Drop
      <4>1. rest = <<>> /\ D + 1 + Len(time) = L
        <5>1. P + 1 \in Int /\ L \in Int /\ L < P + 1
          BY <1>4, <3>7
        <5>2. SubSeq(text, P + 1, L) = <<>>
          BY <5>1, SubSeqEmpty
        <5> QED BY <1>4, <3>2, <3>3, <3>4, <3>7, <4>0, <5>2
      <4>2. D + 1 + Len(time) + (IF rest # <<>> /\ rest[1] = "-" THEN X!Run(rest, X!Plain) ELSE 0) = L
        BY <1>4, <4>1
      <4> QED BY <2>4, <3>5, <3>6, <3>7, <4>2
    <3>8. CASE L >= P
      <4>0. P \in 0 .. Len(text)
        BY <1>3, <1>4, <3>8
      <4>1. D + 1 + Len(time) = P
        BY <1>4, <3>2, <3>4, <3>8
      <4>2. rest \in Seq(A) /\ Len(rest) = L - P /\ \A k \in 1 .. L - P : rest[k] = text[P + k]
        BY <1>3, <1>4, <2>3, <3>8, <4>1, <4>0, DropIs
      <4>3. rest # <<>> /\ rest[1] = "-" <=> L > P /\ text[P + 1] = "-"
        BY <1>4, <3>8, <4>2
      <4> QED BY <1>4, <2>3, <2>4, <3>5, <3>6, <3>8, <4>1, <4>3
    <3> QED BY <1>4, <3>7, <3>8
  <2> QED BY <1>4, <2>5, <2>6
<1> DEFINE ids == {n \in 1 .. Len(text) : X!Huid(SubSeq(text, 1, n))}
<1>8. \A n : n \in ids <=> n \in 1 .. L /\ Stamps(n) /\ Extends(n)
  BY <1>3, <1>4, <1>5
<1> HIDE DEF ids
<1>9. ASSUME ids # {} PROVE X!Chopped(text) \in ids /\ \A n \in ids : n <= X!Chopped(text)
  <2>1. PICK m : m \in 1 .. L /\ Stamps(m)
    BY <1>8, <1>9
  <2>2. P <= L /\ Stamps(P) /\ Stamps(L)
    BY <1>4, <2>1
  <2>3. text[D + 1] = "-" /\ (\A k \in 1 .. D : text[k] \in DOMAIN X!Digit) /\ \A k \in D + 2 .. P : text[k] \in DOMAIN X!Digit
    BY <1>4, <2>2
  <2>4. PICK c : c = X!Chopped(text)
    OBVIOUS
  <2>5. c = P + IF L > P /\ text[P + 1] = "-" THEN X!Run(X!Drop(text, P), X!Plain) ELSE 0
    BY <1>4, <1>7, <2>2, <2>3, <2>4
  <2>6. CASE L > P /\ text[P + 1] = "-"
    <3>1. PICK rest : rest = X!Drop(text, P)
      OBVIOUS
    <3>2. rest \in Seq(A) /\ Len(rest) = L - P /\ \A k \in 1 .. L - P : rest[k] = text[P + k]
      <4>1. P \in 0 .. Len(text)
        BY <1>3, <1>4, <2>2
      <4> QED BY <1>3, <3>1, <4>1, DropIs
    <3>3. PICK r : r = X!Run(rest, X!Plain)
      OBVIOUS
    <3>4. r \in 0 .. L - P /\ (\A k \in 1 .. r : rest[k] \in X!Plain) /\ (r < L - P => rest[r + 1] \notin X!Plain)
      BY <3>2, <3>3, RunIs
    <3>5. c = P + r
      BY <2>5, <2>6, <3>1, <3>3
    <3>6. r >= 1
      <4>1. rest[1] \in X!Plain
        BY <1>4, <2>6, <3>2 DEF X!Plain
      <4> QED BY <1>4, <2>6, <3>4, <4>1
    <3>7. c \in 1 .. L /\ Stamps(c)
      BY <1>4, <2>2, <3>4, <3>5, <3>6
    <3>8. ASSUME NEW k \in P + 2 .. c PROVE text[k] \in X!Plain
      <4>1. k - P \in 1 .. r /\ rest[k - P] = text[k]
        BY <1>4, <2>2, <3>2, <3>4, <3>5
      <4> QED BY <3>4, <4>1
    <3>9. ASSUME NEW n \in ids PROVE n <= c
      <4>1. n \in 1 .. L /\ Extends(n)
        BY <1>8, <3>9
      <4>2. SUFFICES ASSUME n > c PROVE FALSE
        BY <1>4, <3>7, <4>1
      <4>3. c + 1 \in P + 2 .. n /\ r < L - P /\ rest[r + 1] = text[c + 1]
        BY <1>4, <3>2, <3>4, <3>5, <3>6, <4>1, <4>2
      <4> QED BY <3>4, <4>1, <4>3
    <3> QED BY <1>8, <2>4, <2>6, <3>7, <3>8, <3>9
  <2>7. CASE ~(L > P /\ text[P + 1] = "-")
    <3>1. c = P
      BY <1>4, <2>5, <2>7
    <3>2. P \in 1 .. L /\ Extends(P)
      BY <1>4, <2>2
    <3>3. ASSUME NEW n \in ids PROVE n <= P
      <4>1. n \in 1 .. L /\ Extends(n)
        BY <1>8, <3>3
      <4> QED BY <1>4, <2>7, <4>1
    <3> QED BY <1>8, <2>2, <2>4, <3>1, <3>2, <3>3
  <2> QED BY <2>6, <2>7
<1>10. ASSUME ids = {} PROVE X!Chopped(text) \in {0} \cup ((D + 1 .. P - 1) \cap {L})
  <2>1. SUFFICES ASSUME X!Chopped(text) # 0 PROVE X!Chopped(text) \in (D + 1 .. P - 1) \cap {L}
    OBVIOUS
  <2>2. /\ L > D /\ text[D + 1] = "-" /\ (\A k \in 1 .. D : text[k] \in DOMAIN X!Digit)
        /\ \A k \in D + 2 .. P : k <= L => text[k] \in DOMAIN X!Digit
    BY <1>4, <1>7, <2>1
  <2>3. L < P
    <3>1. SUFFICES ASSUME L >= P PROVE FALSE
      BY <1>4
    <3>2. P \in 1 .. L /\ Stamps(P) /\ Extends(P)
      BY <1>4, <2>2, <3>1
    <3> QED BY <1>8, <1>10, <3>2
  <2>4. X!Chopped(text) = L
    BY <1>4, <1>7, <2>2, <2>3, Z3
  <2> QED BY <1>4, <2>2, <2>3, <2>4
<1>11. ASSUME X!StoreId(text) PROVE X!Huid(text) /\ X!Chopped(text) = L
  <2>1. X!Huid(text)
    BY <1>11 DEF X!StoreId, X!Huid
  <2>2. L \in ids
    BY <1>4, <1>6, <1>8, <2>1
  <2>3. X!Chopped(text) \in 1 .. L /\ L <= X!Chopped(text)
    BY <1>8, <1>9, <2>2
  <2> QED BY <1>4, <2>1, <2>3
<1>12. PICK s : s = X!NewHuid(text)
  OBVIOUS
<1>13. /\ Len(s) = P + 1 + L /\ s[P + 1] = "-"
       /\ \A k \in 1 .. P : s[k] = IF k = D + 1 THEN "-" ELSE "0"
       /\ \A k \in 1 .. L : s[P + 1 + k] = text[k]
  <2>1. PICK zero : zero = [n \in 1 .. P |-> IF n = D + 1 THEN "-" ELSE "0"]
    OBVIOUS
  <2>2. PICK B : B = A \cup {"-", "0"}
    OBVIOUS
  <2>3. zero \in Seq(B) /\ Len(zero) = P /\ \A k \in 1 .. P : zero[k] = IF k = D + 1 THEN "-" ELSE "0"
    BY <1>4, <2>1, <2>2
  <2>4. <<"-">> \in Seq(B) /\ Len(<<"-">>) = 1 /\ <<"-">>[1] = "-" /\ text \in Seq(B)
    BY <2>2
  <2>5. PICK x : x = <<"-">>
    OBVIOUS
  <2>6. s = zero \o x \o text
    BY <1>1, <1>2, <1>12, <2>1, <2>5 DEF X!NewHuid
  <2>7. PICK y : y = zero \o x
    OBVIOUS
  <2>8. y \in Seq(B) /\ Len(y) = P + 1 /\ y[P + 1] = "-" /\ \A k \in 1 .. P : y[k] = zero[k]
    BY <1>4, <2>3, <2>4, <2>5, <2>7
  <2>9. Len(s) = P + 1 + L /\ (\A k \in 1 .. P + 1 : s[k] = y[k]) /\ \A k \in 1 .. L : s[P + 1 + k] = text[k]
    <3>1. /\ Len(y \o text) = Len(y) + Len(text)
          /\ \A k \in 1 .. Len(y) + Len(text) : (y \o text)[k] = IF k <= Len(y) THEN y[k] ELSE text[k - Len(y)]
      BY <2>4, <2>8, ConcatProperties
    <3>2. s = y \o text
      BY <2>6, <2>7
    <3>3. Len(s) = P + 1 + L /\ \A k \in 1 .. P + 1 + L : s[k] = IF k <= P + 1 THEN y[k] ELSE text[k - (P + 1)]
      BY <1>3, <2>8, <3>1, <3>2
    <3>4. ASSUME NEW k \in 1 .. L PROVE s[P + 1 + k] = text[k]
      <4>1. PICK j : j = P + 1 + k
        OBVIOUS
      <4>2. j \in 1 .. P + 1 + L /\ ~(j <= P + 1) /\ j - (P + 1) = k
        BY <1>4, <4>1
      <4>3. s[j] = text[j - (P + 1)]
        BY <3>3, <4>2
      <4> QED BY <4>1, <4>2, <4>3
    <3> QED BY <1>4, <3>3, <3>4
  <2> QED BY <1>4, <2>3, <2>8, <2>9
<1>14. X!Stamped(s)
  BY <1>1, <1>2, <1>4, <1>13, DigitIs DEF X!Stamped
<1>15. X!Extended(s) <=> \A k \in 1 .. L : text[k] \in X!Plain
  <2>1. X!Extended(s) <=> \A k \in P + 2 .. P + 1 + L : s[k] \in X!Plain
    BY <1>2, <1>4, <1>13 DEF X!Extended
  <2>2. ASSUME X!Extended(s), NEW k \in 1 .. L PROVE text[k] \in X!Plain
    <3>1. P + 1 + k \in P + 2 .. P + 1 + L
      BY <1>4
    <3> QED BY <1>13, <2>1, <2>2, <3>1
  <2>3. ASSUME \A k \in 1 .. L : text[k] \in X!Plain, NEW k \in P + 2 .. P + 1 + L PROVE s[k] \in X!Plain
    <3>1. k - P - 1 \in 1 .. L /\ s[k] = text[k - P - 1]
      <4>1. k - P - 1 \in 1 .. L /\ k = P + 1 + (k - P - 1)
        BY <1>4
      <4> QED BY <1>13, <4>1
    <3> QED BY <2>3, <3>1
  <2> QED BY <2>1, <2>2, <2>3
<1>16. X!StoreId(s) <=> P + 1 + L <= MaxName /\ \A k \in 1 .. L : text[k] \in X!Plain
  BY <1>13, <1>14, <1>15 DEF X!StoreId
<1>17. X!SuffixOK(text) <=> L > 0 /\ P + 1 + L <= MaxName /\ \A k \in 1 .. L : text[k] \in X!Plain
  <2>1. DOMAIN text = 1 .. L
    BY <1>3
  <2>2. L \in 1 .. MaxName - P - 1 <=> L > 0 /\ P + 1 + L <= MaxName
    BY <1>4
  <2>3. X!SuffixOK(text) <=> L \in 1 .. MaxName - P - 1 /\ \A k \in 1 .. L : text[k] \in X!Plain
    BY <1>2, <1>3, <2>1 DEF X!SuffixOK
  <2> QED BY <2>2, <2>3
<1>18. (IF ids # {} THEN X!Chopped(text) \in ids /\ \A n \in ids : n <= X!Chopped(text)
       ELSE X!Chopped(text) \in {0} \cup ((DateDigits + 1 .. X!Stamp - 1) \cap {Len(text)}))
  BY <1>1, <1>2, <1>3, <1>9, <1>10
<1> QED BY <1>3, <1>11, <1>12, <1>16, <1>17, <1>18 DEF X!NamesAgree, ids

\* Ids and numbers are read alike by all their readers, whatever the widths of the code and
\* however long the text: what chop_huid takes off a text, is_valid_huid and the store take,
\* and scheduler_integer, atoi, the literals of queries and the options agree on numbers.
THEOREM ReadersDo == PartsSpec => []ReadersAgree
<1>1. PartsInit => text \in Seq(Alphabet[kind])
  <2>1. <<>> \in Seq(Alphabet[kind])
    OBVIOUS
  <2> QED BY <2>1 DEF PartsInit, X!Init
<1>2. text \in Seq(Alphabet[kind]) /\ [PartsNext]_<<vars, src, kind, text, part>> => (text \in Seq(Alphabet[kind]))'
  BY TextsTyped
<1>3. text \in Seq(Alphabet[kind]) => ReadersAgree
  BY NamesDo, NumbersDo DEF ReadersAgree
<1> QED BY <1>1, <1>2, <1>3, PTL DEF PartsSpec

=============================================================================
