----------------------------- MODULE TasksProofs -----------------------------
(***************************************************************************)
(* Proofs about Relations and Tasks, for any ids, drafts, assignments and  *)
(* commands.  First what reachability and acyclicity give, what            *)
(* scheduler_satisfied computes, and when a change to one record leaves    *)
(* the graphs of the others valid.  No recursion is unfolded: an acyclic   *)
(* set has a record none of whose edges stay inside, and that record is    *)
(* where two answers would first differ.  Then the commands, whose steps   *)
(* come down to a few kinds of change to the records (RecordsStep).  The   *)
(* reports are right on any records, whatever commands made them.          *)
(***************************************************************************)
EXTENDS Tasks, TLAPS, FiniteSetTheorems

\* Records as discovery leaves them.
AreRecords(rs) == DOMAIN rs \subseteq Id /\ \A i \in DOMAIN rs : rs[i] \in Task

-----------------------------------------------------------------------------
(* Reachability and cycles.                                                  *)

\* The edges of a task lead to ids.
LEMMA EdgesType == \A t \in Task : Edges(t) \subseteq Id
BY DEF Edges, Task

\* A record reaches itself.
LEMMA ReachSelf == ASSUME NEW rs, NEW i \in Id PROVE i \in Reach(rs, i)
BY DEF Reach

\* What is reachable is closed: the edges of its records stay inside.
LEMMA ReachClosed ==
  ASSUME NEW rs, AreRecords(rs), NEW i \in Id
  PROVE  Reach(rs, i) \subseteq Id /\ Closed(rs, Reach(rs, i))
<1> SUFFICES ASSUME NEW k \in Reach(rs, i) \cap DOMAIN rs, NEW e \in Edges(rs[k])
             PROVE  e \in Reach(rs, i)
    BY DEF Closed, Reach
<1>1. e \in Id
  BY EdgesType DEF AreRecords
<1>2. ASSUME NEW S \in SUBSET Id, i \in S, Closed(rs, S) PROVE e \in S
  <2>1. k \in S
    BY <1>2 DEF Reach
  <2> QED BY <1>2, <2>1 DEF Closed
<1> QED BY <1>1, <1>2 DEF Reach

\* It is the least such set.
LEMMA ReachLeast ==
  ASSUME NEW rs, NEW S \in SUBSET Id, NEW i \in S, Closed(rs, S)
  PROVE  Reach(rs, i) \subseteq S
BY DEF Reach

\* What a reachable record reaches is reachable.
LEMMA ReachInto ==
  ASSUME NEW rs, AreRecords(rs), NEW i \in Id, NEW j \in Reach(rs, i)
  PROVE  Reach(rs, j) \subseteq Reach(rs, i)
BY ReachClosed, ReachLeast

\* Where there is no cycle, every part has a record whose edges all leave it.
LEMMA AcyclicFirst ==
  ASSUME NEW rs, NEW S, Acyclic(rs, S), NEW T \in SUBSET S, T # {}
  PROVE  \E i \in T : Edges(rs[i]) \cap T = {}
BY DEF Acyclic

\* Satisfied is the equation it is defined by.  There is a function of that kind even where
\* prerequisites go round in circles: the union of all sets of tasks that are done and have
\* their prerequisites in the set.
LEMMA SatisfiedEquation ==
  ASSUME NEW rs
  PROVE  Satisfied(rs) =
           [i \in DOMAIN rs |->
              /\ rs[i].status = "CLOSED" /\ rs[i].resolution = "DONE"
              /\ \A d \in rs[i].depends : d \in DOMAIN rs /\ Satisfied(rs)[d]]
<1> DEFINE D == DOMAIN rs
           Done(i) == rs[i].status = "CLOSED" /\ rs[i].resolution = "DONE"
           Good == {S \in SUBSET D : \A i \in S : Done(i) /\ rs[i].depends \subseteq S}
           G == UNION Good
           Eq(f) == f = [i \in D |-> /\ rs[i].status = "CLOSED" /\ rs[i].resolution = "DONE"
                                     /\ \A d \in rs[i].depends : d \in D /\ f[d]]
           g == [i \in D |-> i \in G]
<1>1. ASSUME NEW i \in D
      PROVE  i \in G <=> Done(i) /\ \A d \in rs[i].depends : d \in D /\ d \in G
  <2>1. ASSUME i \in G PROVE Done(i) /\ \A d \in rs[i].depends : d \in D /\ d \in G
    BY <2>1
  <2>2. ASSUME Done(i), \A d \in rs[i].depends : d \in D /\ d \in G
        PROVE  i \in G
    <3>1. G \cup {i} \in Good
      BY <2>2
    <3> QED BY <3>1
  <2> QED BY <2>1, <2>2
<1> HIDE DEF G
<1>2. Eq(g)
  <2>1. \A d \in D : g[d] = (d \in G)
    OBVIOUS
  <2>2. \A i \in D : (\A d \in rs[i].depends : d \in D /\ d \in G)
                      = (\A d \in rs[i].depends : d \in D /\ g[d])
    BY <2>1
  <2>3. \A i \in D : (i \in G) = (Done(i) /\ \A d \in rs[i].depends : d \in D /\ g[d])
    BY <1>1, <2>2
  <2> QED BY <2>3
<1>3. Satisfied(rs) = CHOOSE f : Eq(f)
  BY DEF Satisfied
<1> HIDE DEF Eq, g
<1>4. Eq(Satisfied(rs))
  BY <1>2, <1>3
<1> QED BY <1>4 DEF Eq

-----------------------------------------------------------------------------
(* Changes that keep graphs valid.                                           *)

\* A graph stays valid if nothing on it gets other edges or is no longer strict, and no
\* record that was there becomes a container.
LEMMA SameEdgesKeepValid ==
  ASSUME NEW rs, AreRecords(rs), NEW new, AreRecords(new), DOMAIN rs \subseteq DOMAIN new,
         Containers(new) \cap DOMAIN rs \subseteq Containers(rs), NEW j, Valid(rs, j),
         \A k \in Reach(rs, j) : /\ new[k].spec = rs[k].spec /\ new[k].depends = rs[k].depends
                                 /\ Strict(k, rs[k]) => Strict(k, new[k])
  PROVE  Valid(new, j)
<1> DEFINE R == Reach(rs, j)
           N == Reach(new, j)
<1>1. j \in Id /\ R \subseteq DOMAIN rs /\ (\A k \in R : Sound(rs, Containers(rs), k)) /\ Acyclic(rs, R)
  BY DEF Valid, VisitOK, AreRecords
<1>2. \A k \in R : Edges(new[k]) = Edges(rs[k])
  BY DEF Edges
<1>3. N \subseteq R
  <2>1. Closed(new, R)
    BY <1>1, <1>2, ReachClosed DEF Closed
  <2> QED BY <1>1, <2>1, ReachSelf, ReachClosed, ReachLeast
<1>4. ASSUME NEW k \in R PROVE Sound(new, Containers(new), k)
  <2>1. /\ Sound(rs, Containers(rs), k) /\ Edges(new[k]) = Edges(rs[k])
        /\ new[k].spec = rs[k].spec /\ new[k].depends = rs[k].depends
        /\ Strict(k, new[k])
    BY <1>1, <1>2 DEF Sound
  <2>2. new[k].spec # None => new[new[k].spec].spec = None
    <3> SUFFICES ASSUME new[k].spec # None PROVE new[new[k].spec].spec = None
        OBVIOUS
    <3>1. rs[k].spec \in Edges(rs[k]) /\ rs[rs[k].spec].spec = None
      BY <2>1 DEF Sound, Edges
    <3>2. rs[k].spec \in R
      BY <1>1, <3>1, ReachClosed DEF Closed
    <3> QED BY <2>1, <3>1, <3>2
  <2>3. k \in Containers(new) => Edges(new[k]) = {}
    BY <1>1, <2>1 DEF Sound
  <2>4. new[k].depends \subseteq DOMAIN new \ Containers(new)
    BY <2>1 DEF Sound
  <2>5. new[k].spec # None => new[k].spec \in DOMAIN new \ {k}
    BY <2>1 DEF Sound
  <2> QED BY <2>1, <2>2, <2>3, <2>4, <2>5 DEF Sound
<1>5. Acyclic(new, N)
  BY <1>1, <1>2, <1>3 DEF Acyclic
<1> QED BY <1>1, <1>3, <1>4, <1>5 DEF Valid, VisitOK

\* One record is there anew or has other contents.
OneChanged(rs, new, i) == /\ DOMAIN new = DOMAIN rs \cup {i}
                          /\ \A k \in DOMAIN rs \ {i} : new[k] = rs[k]

\* The check that new and set make around the record they change is enough for every other
\* graph of the database: whatever it shares with the changed record has been checked, and
\* nothing else of it is different.  The part of scheduler_graph that looks at all
\* dependencies is needed for the record that becomes a container by the change.
LEMMA CheckedKeepsValid ==
  ASSUME NEW rs, AreRecords(rs), NEW new, AreRecords(new), NEW i, OneChanged(rs, new, i),
         GraphOK(new, i), NEW j, Valid(rs, j)
  PROVE  Valid(new, j)
<1> DEFINE R == Reach(rs, j)
           A == Reach(new, i)
           N == Reach(new, j)
           C == Containers(rs)
           D == Containers(new)
<1>1. /\ j \in DOMAIN rs /\ j \in Id /\ R \subseteq DOMAIN rs /\ Acyclic(rs, R)
      /\ \A k \in R : Sound(rs, C, k)
  BY DEF Valid, VisitOK, AreRecords
<1>2. /\ i \in DOMAIN new /\ i \in Id /\ A \subseteq DOMAIN new /\ Acyclic(new, A)
      /\ \A k \in A : Sound(new, D, k)
  BY DEF GraphOK, Valid, VisitOK, AreRecords
<1>3. \A k \in DOMAIN new : \A d \in new[k].depends : d \in D => d \notin A
  BY DEF GraphOK
<1>4. i \in A /\ Closed(new, A) /\ A \subseteq Id /\ j \in R /\ Closed(rs, R) /\ R \subseteq Id
  BY <1>1, <1>2, ReachSelf, ReachClosed
<1>5. \A k \in R \ A : k # i /\ k \in DOMAIN new /\ new[k] = rs[k]
  BY <1>1, <1>4 DEF OneChanged
<1>6. N \subseteq R \cup A
  <2>1. Closed(new, R \cup A)
    BY <1>1, <1>4, <1>5 DEF Closed
  <2> QED BY <1>4, <1>1, <2>1, ReachLeast
<1>7. \A s \in D : s \in C \/ s \in A
  <2> SUFFICES ASSUME NEW s \in D PROVE s \in C \/ s \in A
      OBVIOUS
  <2>1. PICK m \in DOMAIN new : new[m].spec = s
    BY DEF Containers, Members
  <2>2. CASE m = i
    <3>1. s # None
      BY <1>2, RelationsAssumption DEF Containers, AreRecords
    <3> QED BY <1>2, <1>4, <2>1, <2>2, <3>1 DEF Closed, Edges
  <2>3. CASE m # i
    <3>1. m \in DOMAIN rs /\ rs[m].spec = s
      BY <2>1, <2>3 DEF OneChanged
    <3>2. s \in DOMAIN rs \/ s = i
      BY DEF Containers, OneChanged
    <3> QED BY <1>4, <3>1, <3>2 DEF Containers, Members
  <2> QED BY <2>2, <2>3
<1>8. ASSUME NEW k \in R \ A PROVE Sound(new, D, k)
  <2>1. Sound(rs, C, k) /\ new[k] = rs[k] /\ k \in DOMAIN new
    BY <1>1, <1>5
  <2>2. k \in D => Edges(new[k]) = {}
    BY <1>7, <2>1 DEF Sound
  <2>3. new[k].spec # None => new[k].spec \in DOMAIN new \ {k} /\ new[new[k].spec].spec = None
    <3> DEFINE s == new[k].spec
    <3> SUFFICES ASSUME s # None PROVE s \in DOMAIN new \ {k} /\ new[s].spec = None
        OBVIOUS
    <3>1. s \in DOMAIN rs \ {k} /\ rs[s].spec = None
      BY <2>1 DEF Sound
    <3>2. s = i => new[s].spec = None
      <4> SUFFICES ASSUME s = i PROVE new[i].spec = None
          OBVIOUS
      <4>1. i \in D
        BY <1>2, <2>1 DEF Containers, Members
      <4>2. Edges(new[i]) = {}
        BY <1>2, <1>4, <4>1 DEF Sound
      <4> QED BY <4>2 DEF Edges
    <3> QED BY <3>1, <3>2 DEF OneChanged
  <2>4. new[k].depends \subseteq DOMAIN new \ D
    <3>1. new[k].depends \subseteq DOMAIN rs \ C
      BY <2>1 DEF Sound
    <3> QED BY <1>3, <1>7, <2>1, <3>1 DEF OneChanged
  <2> QED BY <2>1, <2>2, <2>3, <2>4 DEF Sound
<1>9. Acyclic(new, N)
  <2> SUFFICES ASSUME NEW T \in SUBSET N, T # {}
               PROVE  \E k \in T : Edges(new[k]) \cap T = {}
      BY DEF Acyclic
  <2>1. CASE T \cap A # {}
    <3>1. PICK k \in T \cap A : Edges(new[k]) \cap (T \cap A) = {}
      BY <1>2, <2>1, AcyclicFirst
    <3>2. Edges(new[k]) \subseteq A
      BY <1>2, <1>4 DEF Closed
    <3> QED BY <3>1, <3>2
  <2>2. CASE T \cap A = {}
    <3>1. T \subseteq R
      BY <1>6, <2>2
    <3>2. PICK k \in T : Edges(rs[k]) \cap T = {}
      BY <1>1, <3>1, AcyclicFirst
    <3>3. new[k] = rs[k]
      BY <1>5, <2>2, <3>1
    <3> QED BY <3>2, <3>3
  <2> QED BY <2>1, <2>2
<1> QED BY <1>1, <1>2, <1>5, <1>6, <1>8, <1>9 DEF Valid, VisitOK, OneChanged

\* A record that is new and names no other leaves every graph as it is, whoever names it.
LEMMA EdgelessKeepsValid ==
  ASSUME NEW rs, AreRecords(rs), NEW new, AreRecords(new), NEW i, OneChanged(rs, new, i),
         i \notin DOMAIN rs, Edges(new[i]) = {}, NEW j, Valid(rs, j)
  PROVE  Valid(new, j)
<1>1. \A k \in DOMAIN rs : k # i /\ new[k] = rs[k]
  BY DEF OneChanged
<1>2. new[i].spec = None
  BY DEF Edges
<1>3. Containers(new) \cap DOMAIN rs \subseteq Containers(rs)
  <2> SUFFICES ASSUME NEW s \in DOMAIN rs, NEW m \in DOMAIN new, new[m].spec = s
               PROVE  \E k \in DOMAIN rs : rs[k].spec = s
      BY DEF Containers, Members
  <2>1. s # None
    BY RelationsAssumption DEF AreRecords
  <2> QED BY <1>1, <1>2, <2>1 DEF OneChanged
<1>4. Reach(rs, j) \subseteq DOMAIN rs
  BY DEF Valid, VisitOK
<1> QED BY <1>1, <1>3, <1>4, SameEdgesKeepValid DEF OneChanged

-----------------------------------------------------------------------------
(* What counts as satisfied.                                                 *)

\* The equation, for one task.
LEMMA SatisfiedAt ==
  ASSUME NEW rs, NEW i \in DOMAIN rs
  PROVE  /\ Satisfied(rs)[i] \in BOOLEAN
         /\ Satisfied(rs)[i] <=> /\ rs[i].status = "CLOSED" /\ rs[i].resolution = "DONE"
                                 /\ \A d \in rs[i].depends : d \in DOMAIN rs /\ Satisfied(rs)[d]
<1> DEFINE sat == Satisfied(rs)
           Body(k) == /\ rs[k].status = "CLOSED" /\ rs[k].resolution = "DONE"
                      /\ \A d \in rs[k].depends : d \in DOMAIN rs /\ sat[d]
<1>1. sat = [k \in DOMAIN rs |-> Body(k)]
  BY SatisfiedEquation
<1> HIDE DEF sat
<1>2. sat[i] = Body(i)
  BY <1>1
<1>3. Body(i) \in BOOLEAN
  OBVIOUS
<1> QED BY <1>2, <1>3 DEF sat

\* Records that are the same all around a task that is on no cycle satisfy it or not alike.
LEMMA SatisfiedSame ==
  ASSUME NEW old, AreRecords(old), NEW new, NEW i \in Id, Acyclic(old, Reach(old, i)),
         \A k \in Reach(old, i) : k \in DOMAIN old /\ k \in DOMAIN new /\ new[k] = old[k]
  PROVE  \A k \in Reach(old, i) : Satisfied(old)[k] = Satisfied(new)[k]
<1> DEFINE R == Reach(old, i)
           T == {k \in R : Satisfied(old)[k] # Satisfied(new)[k]}
<1> SUFFICES ASSUME T # {} PROVE FALSE
    OBVIOUS
<1>1. PICK k \in T : Edges(old[k]) \cap T = {}
  BY AcyclicFirst
<1>2. old[k].depends \subseteq R \ T
  BY <1>1, ReachClosed DEF Closed, Edges
<1>3. \A d \in old[k].depends : (d \in DOMAIN old /\ Satisfied(old)[d]) <=> (d \in DOMAIN new /\ Satisfied(new)[d])
  BY <1>2
<1>4. /\ Satisfied(old)[k] \in BOOLEAN /\ Satisfied(new)[k] \in BOOLEAN
      /\ Satisfied(old)[k] <=> Satisfied(new)[k]
  BY <1>3, SatisfiedAt
<1> QED BY <1>4

\* Nothing becomes satisfied by itself: where no record gets the resolution DONE or fewer
\* prerequisites, what is satisfied afterwards was satisfied before.
LEMMA SatisfiedBefore ==
  ASSUME NEW old, AreRecords(old), NEW new, NEW i, Valid(old, i), i \in DOMAIN new, Satisfied(new)[i],
         \A k \in DOMAIN old : /\ new[k].resolution = "DONE" => old[k].resolution = "DONE"
                               /\ old[k].depends \subseteq new[k].depends
  PROVE  Satisfied(old)[i]
<1> DEFINE R == Reach(old, i)
           T == {k \in R : k \in DOMAIN new /\ Satisfied(new)[k] /\ ~Satisfied(old)[k]}
<1>1. i \in Id /\ i \in R /\ R \subseteq DOMAIN old /\ Acyclic(old, R) /\ Closed(old, R)
  BY ReachSelf, ReachClosed DEF Valid, VisitOK, AreRecords
<1> SUFFICES ASSUME T # {} PROVE FALSE
    BY <1>1
<1>2. PICK k \in T : Edges(old[k]) \cap T = {}
  BY <1>1, AcyclicFirst
<1>3. old[k].status = "CLOSED" /\ old[k].resolution = "DONE"
  <2>1. old[k].resolution = "DONE"
    BY <1>1, SatisfiedAt
  <2>2. Strict(k, old[k]) /\ old[k] \in Task
    BY <1>1 DEF Valid, VisitOK, Sound, AreRecords
  <2> QED BY <2>1, <2>2 DEF Strict, Task
<1>4. \A d \in old[k].depends : d \in DOMAIN old /\ Satisfied(old)[d]
  <2> SUFFICES ASSUME NEW d \in old[k].depends PROVE d \in DOMAIN old /\ Satisfied(old)[d]
      OBVIOUS
  <2>1. d \in DOMAIN new /\ Satisfied(new)[d]
    BY <1>1, SatisfiedAt
  <2>2. d \in R /\ d \notin T
    BY <1>1, <1>2 DEF Closed, Edges
  <2> QED BY <1>1, <2>1, <2>2
<1> QED BY <1>1, <1>3, <1>4, SatisfiedAt

-----------------------------------------------------------------------------
(* The snapshot.                                                             *)

\* Two sets of records with the same snapshot have the same report: the records that are
\* hashed are all the report depends on.
LEMMA SnapshotDecidesReport ==
  ASSUME NEW old, AreRecords(old), NEW new, AreRecords(new), NEW s \in Id,
         ScopeOK(old, s), ScopeOK(new, s), Snapshot(old, s) = Snapshot(new, s)
  PROVE  Report(old, s) = Report(new, s)
<1> DEFINE I == Inspected(old, s)
           M == Members(old, s)
           C == Containers(old) \cup {s}
<1>1. Inspected(new, s) = I /\ \A k \in I : new[k] = old[k]
  BY DEF Snapshot
<1>2. /\ s \in DOMAIN old /\ VisitOK(old, C, s)
      /\ \A i \in M : i \in Id /\ i \in DOMAIN old /\ VisitOK(old, C, i)
  BY DEF ScopeOK, Members, AreRecords
<1>3. I \subseteq DOMAIN old /\ I \subseteq DOMAIN new
  <2>1. I \subseteq DOMAIN old
    BY <1>2 DEF Inspected, VisitOK
  <2>2. Inspected(new, s) \subseteq DOMAIN new
    BY DEF Inspected, VisitOK, ScopeOK, Members
  <2> QED BY <1>1, <2>1, <2>2
<1>4. Members(new, s) = M
  <2>1. M \subseteq I
    BY <1>2, ReachSelf DEF Inspected
  <2>2. Members(new, s) \subseteq Inspected(new, s)
    BY ReachSelf DEF Inspected, Members, AreRecords
  <2>3. M \subseteq Members(new, s)
    BY <1>1, <1>3, <2>1 DEF Members
  <2>4. Members(new, s) \subseteq M
    BY <1>1, <1>3, <2>2 DEF Members
  <2> QED BY <2>3, <2>4
<1>5. ASSUME NEW i \in M, NEW k \in Reach(old, i)
      PROVE  k \in DOMAIN old /\ new[k] = old[k] /\ Satisfied(old)[k] = Satisfied(new)[k]
  <2>1. Reach(old, i) \subseteq I
    BY DEF Inspected
  <2> QED BY <1>1, <1>2, <1>3, <2>1, SatisfiedSame DEF VisitOK
<1>6. ASSUME NEW i \in M
      PROVE  /\ new[i] = old[i] /\ Satisfied(old)[i] = Satisfied(new)[i]
             /\ \A d \in old[i].depends : /\ new[d] = old[d]
                                          /\ Satisfied(old)[d] = Satisfied(new)[d]
  BY <1>2, <1>5, ReachSelf, ReachClosed DEF Closed, Edges
<1> DEFINE Waiting(rs, i) == {d \in rs[i].depends : ~Satisfied(rs)[d]}
           Reasons(rs, i) == {[id |-> d, reason |-> Reason(rs[d]), external |-> d \notin M] : d \in Waiting(rs, i)}
           Ready(rs) == {i \in M : Eligible(rs[i], Satisfied(rs))}
           Unmet(rs) == {i \in M : Unresolved(rs[i])}
           Waits(rs) == {j \in M \ Unmet(rs) : Waiting(rs, j) # {}}
           Blocked(rs) == {[id |-> i, prerequisites |-> Reasons(rs, i)] : i \in Waits(rs)}
           Complete(rs) == \A i \in M : Satisfied(rs)[i]
           All(rs) == [state |-> IF Ready(rs) # {} THEN "ready" ELSE IF M = {} THEN "empty"
                                 ELSE IF Complete(rs) THEN "complete" ELSE "blocked",
                       ready |-> Ready(rs), unresolved |-> Unmet(rs), blocked |-> Blocked(rs)]
<1>7. Report(old, s) = All(old) /\ Report(new, s) = All(new)
  BY <1>4 DEF Report
<1>8. Ready(old) = Ready(new)
  BY <1>6 DEF Eligible
<1>9. Unmet(old) = Unmet(new)
  BY <1>6
<1>10. Complete(old) = Complete(new)
  BY <1>6
<1>11. \A i \in M : Waiting(old, i) = Waiting(new, i)
  BY <1>6
<1>12. \A i \in M : Reasons(old, i) = Reasons(new, i)
  BY <1>6, <1>11
<1>13. Waits(old) = Waits(new)
  BY <1>9, <1>11
<1> HIDE DEF Reasons, Waits, Unmet, Ready, Complete
<1>14. Blocked(old) = Blocked(new)
  <2>1. Waits(old) \subseteq M
    BY DEF Waits
  <2> QED BY <1>12, <1>13, <2>1
<1> QED BY <1>7, <1>8, <1>9, <1>10, <1>14

-----------------------------------------------------------------------------
(* The invariant.                                                            *)

\* A bulk update has only tasks before it, which nobody takes away under the lock.
IInv == TypeOK /\ \A i \in bulk.left : db[i] \in Task

\* Without drafts no task names one that is not there.
NoDangling == Drafts = {} => \A j \in DOMAIN Records(db) : Edges(db[j]) \subseteq DOMAIN Records(db)

-----------------------------------------------------------------------------
(* The records of a database, and what one write does to them.               *)

\* The records of a database are records, of the tasks it holds.
LEMMA RecordsType ==
  ASSUME TypeOK
  PROVE  /\ AreRecords(Records(db))
         /\ DOMAIN Records(db) = {i \in Id : db[i] \in Task}
         /\ \A i \in DOMAIN Records(db) : Records(db)[i] = db[i]
BY TasksAssumption DEF TypeOK, Records, AreRecords

\* A task that is put into the database is the only record that changes.
LEMMA PutTask ==
  ASSUME TypeOK, NEW i \in Id, NEW t \in Task, Put(i, t)
  PROVE  /\ db' \in [Id -> Task \cup {Absent, Reserved}]
         /\ Records(db)' = With(Records(db), i, t)
         /\ AreRecords(Records(db)')
         /\ OneChanged(Records(db), Records(db)', i)
         /\ i \in DOMAIN Records(db)' /\ Records(db)'[i] = t
<1>1. db' = [j \in Id |-> IF j = i THEN t ELSE db[j]]
  BY DEF TypeOK, Put
<1>2. db' \in [Id -> Task \cup {Absent, Reserved}]
  BY <1>1 DEF TypeOK
<1>2a. /\ DOMAIN Records(db) = {j \in Id : db[j] \in Task} /\ t \notin {Absent, Reserved}
       /\ \A j \in Id : db[j] \notin Task <=> db[j] \in {Absent, Reserved}
  <2>1. DOMAIN Records(db) = {j \in Id : db[j] \in Task} /\ db \in [Id -> Task \cup {Absent, Reserved}]
    BY RecordsType DEF TypeOK
  <2>2. {Absent, Reserved} \cap Task = {}
    BY TasksAssumption
  <2> QED BY <2>1, <2>2
<1>3. {j \in DOMAIN db' : db'[j] \notin {Absent, Reserved}} = DOMAIN Records(db) \cup {i}
  BY <1>1, <1>2a
<1>4. Records(db)' = [j \in DOMAIN Records(db) \cup {i} |-> db'[j]]
  BY <1>3 DEF Records
<1>5. Records(db)' = With(Records(db), i, t)
  BY <1>1, <1>4, RecordsType DEF With
<1>6. AreRecords(Records(db)')
  BY <1>5, RecordsType DEF AreRecords, With
<1>7. OneChanged(Records(db), Records(db)', i)
  BY <1>5 DEF OneChanged, With
<1> QED BY <1>2, <1>5, <1>6, <1>7 DEF With

\* A directory without a task is no record.
LEMMA PutReserved ==
  ASSUME TypeOK, NEW i \in Id, db[i] = Absent, Put(i, Reserved)
  PROVE  /\ db' \in [Id -> Task \cup {Absent, Reserved}]
         /\ Records(db)' = Records(db)
<1>1. db' = [j \in Id |-> IF j = i THEN Reserved ELSE db[j]]
  BY DEF TypeOK, Put
<1>2. {j \in DOMAIN db' : db'[j] \notin {Absent, Reserved}} = DOMAIN Records(db)
  BY <1>1, TasksAssumption, RecordsType DEF TypeOK
<1>3. Records(db)' = [j \in DOMAIN Records(db) |-> db'[j]]
  BY <1>2 DEF Records
<1>4. \A j \in DOMAIN Records(db) : db'[j] = db[j]
  BY <1>1, TasksAssumption, RecordsType
<1>5. Records(db) = [j \in DOMAIN Records(db) |-> db[j]]
  BY DEF Records
<1> QED BY <1>1, <1>3, <1>4, <1>5 DEF TypeOK

\* What assignments make of a task is one.
LEMMA ApplyType ==
  ASSUME NEW t \in Task, NEW a \in Changes
  PROVE  Apply(t, a) \in Task
BY TasksAssumption DEF Apply, Assigned, Task

\* What a bulk update makes of a task is one, with the same relationships, and strict if it was
\* unless the update adds a tag that is not UTF-8.
LEMMA UpdatedTask ==
  ASSUME NEW i, NEW t \in Task, NEW op, NEW h \in Headers(t, op)
  PROVE  LET n == [Updated(t, op) EXCEPT !.header = h] IN
         /\ n \in Task /\ n.spec = t.spec /\ n.depends = t.depends
         /\ Strict(i, t) => Strict(i, n) \/ (op = "garble" /\ n.header = "garbled")
<1>1. h \in {"strict", "legacy", "garbled"} /\ (t.header = "strict" => h = "strict" \/ (op = "garble" /\ h = "garbled"))
  BY DEF Headers, Task
<1>2. Updated(t, op) = t \/ Updated(t, op) = [t EXCEPT !.status = "CLOSED"]
      \/ Updated(t, op) = [t EXCEPT !.status = "OPEN", !.resolution = ""]
  BY DEF Updated
<1> QED BY <1>1, <1>2 DEF Task, Strict

-----------------------------------------------------------------------------
(* The commands.                                                             *)

\* The kinds of change: todo creates a task without relationships and looks at no other;
\* new has checked the graphs around the one it creates, if a task it could read called for
\* that; set has checked the one around the task it changes; ls -update changes no relationship.
RecordsStep(rs, new) ==
  \/ new = rs
  \/ \E i \in Id :
       /\ OneChanged(rs, new, i) /\ AreRecords(new)
       /\ \/ "todo" \in Commands /\ i \notin DOMAIN rs /\ Edges(new[i]) = {}
          \/ /\ i \notin DOMAIN rs /\ Strict(i, new[i])
             /\ Edges(new[i]) # {} => unread' = {}
             /\ Edges(new[i]) # {} \/ Incoming(Without(rs, unread'), i) => NewGraphOK(new, i)
          \/ i \in DOMAIN rs /\ GraphOK(new, i)
          \/ /\ i \in DOMAIN rs
             /\ new[i].spec = rs[i].spec /\ new[i].depends = rs[i].depends
             /\ Strict(i, rs[i]) => Strict(i, new[i]) \/ (bulk.op = "garble" /\ new[i].header = "garbled")

\* Every step keeps the invariant and is one of these.
LEMMA Step ==
  ASSUME IInv, [Next]_vars
  PROVE  IInv' /\ RecordsStep(Records(db), Records(db)')
<1> DEFINE rs == Records(db)
<1> USE DEF IInv
<1>1. ASSUME NEW i \in Id, NEW spec \in Id \cup {None}, NEW depends \in SUBSET Id,
             New(i, spec, depends)
      PROVE  IInv' /\ RecordsStep(rs, rs')
  <2> DEFINE t == Open(spec, depends)
  <2>1. t \in Task
    BY DEF Open, Task
  <2>2. /\ NewAccepts(i, t, unread') /\ unread' \in Missable(t)
        /\ db[i] = Absent /\ bulk = NoBulk /\ bulk' = bulk /\ i \notin DOMAIN rs
    BY <1>1, TasksAssumption, RecordsType DEF New, Idle
  <2>2a. unread' \subseteq Id /\ (Edges(t) # {} => unread' = {})
    BY <2>2, RecordsType DEF Missable
  <2>3. CASE Put(i, t)
    <3>1. IInv'
      BY <2>1, <2>2, <2>2a, <2>3, PutTask DEF TypeOK, NoBulk
    <3>2. rs' = With(rs, i, t) /\ rs'[i] = t /\ OneChanged(rs, rs', i) /\ AreRecords(rs')
      BY <2>1, <2>3, PutTask
    <3> QED BY <2>2, <2>2a, <3>1, <3>2 DEF NewAccepts, RecordsStep
  <2>4. CASE Put(i, Reserved)
    BY <2>2, <2>2a, <2>4, PutReserved DEF TypeOK, NoBulk, RecordsStep
  <2> QED BY <1>1, <2>3, <2>4 DEF New
<1>2. ASSUME NEW i \in Id, Todo(i)
      PROVE  IInv' /\ RecordsStep(rs, rs')
  <2> DEFINE t == Open(None, {})
  <2>1. t \in Task /\ Edges(t) = {}
    BY DEF Open, Task, Edges
  <2>2. /\ Put(i, t) /\ "todo" \in Commands /\ bulk = NoBulk /\ bulk' = bulk /\ unread' = {}
        /\ i \notin DOMAIN rs
    BY <1>2, TasksAssumption, RecordsType DEF Todo, Idle
  <2>3. IInv'
    BY <2>1, <2>2, PutTask DEF TypeOK, NoBulk
  <2> QED BY <2>1, <2>2, <2>3, PutTask DEF RecordsStep
<1>3. ASSUME NEW i \in Id, NEW a \in Changes, Set(i, a)
      PROVE  IInv' /\ RecordsStep(rs, rs')
  <2> DEFINE t == Apply(db[i], a)
  <2>1. db[i] \in Task /\ i \in DOMAIN rs
    BY <1>3, RecordsType DEF Set, Discovered, Loaded, TypeOK
  <2>2. t \in Task
    BY <2>1, ApplyType
  <2>3. Put(i, t) /\ GraphOK(With(rs, i, t), i) /\ bulk = NoBulk /\ bulk' = bulk /\ unread' = {}
    BY <1>3 DEF Set, Idle
  <2>4. IInv'
    BY <2>2, <2>3, PutTask DEF TypeOK, NoBulk
  <2> QED BY <2>1, <2>2, <2>3, <2>4, PutTask DEF RecordsStep
<1>4. ASSUME NEW i \in Id, BulkReplace(i)
      PROVE  IInv' /\ RecordsStep(rs, rs')
  <2>1. db[i] \in Task /\ i \in DOMAIN rs /\ rs[i] = db[i]
    BY <1>4, RecordsType DEF BulkReplace
  <2>2. /\ bulk' \in [op: {"none"} \cup Actions, left: SUBSET Id] /\ bulk'.left \subseteq bulk.left
        /\ unread' = {}
    BY <1>4 DEF BulkReplace, TypeOK, NoBulk
  <2>3. CASE UNCHANGED db
    BY <2>2, <2>3 DEF TypeOK, RecordsStep, Records
  <2>4. ASSUME NEW h \in Headers(db[i], bulk.op),
               Put(i, [Updated(db[i], bulk.op) EXCEPT !.header = h])
        PROVE  IInv' /\ RecordsStep(rs, rs')
    <3> DEFINE t == [Updated(db[i], bulk.op) EXCEPT !.header = h]
    <3>0. /\ t \in Task /\ t.spec = db[i].spec /\ t.depends = db[i].depends
          /\ Strict(i, db[i]) => Strict(i, t) \/ (bulk.op = "garble" /\ t.header = "garbled")
      <4> DEFINE o == bulk.op x == db[i]
      <4>1. o = bulk.op /\ x = db[i] /\ x \in Task
        BY <2>1
      <4> HIDE DEF o, x
      <4>2. h \in Headers(x, o) /\ t = [Updated(x, o) EXCEPT !.header = h]
        BY <2>4, <4>1
      <4> HIDE DEF t
      <4>3. /\ t \in Task /\ t.spec = x.spec /\ t.depends = x.depends
            /\ Strict(i, x) => Strict(i, t) \/ (o = "garble" /\ t.header = "garbled")
        BY <4>1, <4>2, UpdatedTask
      <4> QED BY <4>1, <4>3
    <3> HIDE DEF t
    <3>1. /\ t \in Task /\ t.spec = rs[i].spec /\ t.depends = rs[i].depends
          /\ Strict(i, rs[i]) => Strict(i, t) \/ (bulk.op = "garble" /\ t.header = "garbled")
      BY <2>1, <3>0
    <3>2. Put(i, t)
      BY <2>4 DEF t
    <3>3. \A j \in bulk'.left : db'[j] \in Task
      BY <2>2, <3>1, <3>2 DEF Put, TypeOK
    <3>4. IInv'
      BY <2>2, <3>1, <3>2, <3>3, PutTask DEF TypeOK
    <3> QED BY <2>1, <3>1, <3>2, <3>4, PutTask DEF RecordsStep
  <2> QED BY <1>4, <2>3, <2>4 DEF BulkReplace
<1>5. ASSUME NEW op \in Actions, NEW S \in SUBSET Id, BulkStart(op, S)
      PROVE  IInv' /\ RecordsStep(rs, rs')
  BY <1>5, RecordsType DEF BulkStart, TypeOK, RecordsStep, Records
<1>6. CASE BulkStop
  BY <1>6 DEF BulkStop, NoBulk, TypeOK, RecordsStep, Records
<1>7. CASE UNCHANGED vars
  BY <1>7 DEF vars, TypeOK, RecordsStep, Records
<1> QED BY <1>1, <1>2, <1>3, <1>4, <1>5, <1>6, <1>7 DEF Next

\* The database is well typed, and a bulk update under way has only tasks left.
THEOREM TasksInvariant == Spec => []IInv
<1>1. Init => IInv
  <2> SUFFICES ASSUME Init PROVE IInv
      OBVIOUS
  <2>1. \A i \in Id : db[i] \in Task \cup {Absent, Reserved}
    BY TasksAssumption DEF Init
  <2>2. bulk \in [op: {"none"} \cup Actions, left: SUBSET Id] /\ bulk.left = {} /\ unread \subseteq Id
    BY DEF Init, NoBulk
  <2> QED BY <2>1, <2>2 DEF Init, IInv, TypeOK
<1>2. IInv /\ [Next]_vars => IInv'
  BY Step
<1> QED BY <1>1, <1>2, PTL DEF Spec

\* new, set, todo and ls -update leave every graph valid that was, unless ls -update writes a
\* tag that is not UTF-8 into it: the check around the task a command is about is enough for
\* all the others.
THEOREM GraphsStayValid == Spec => KeepsValid
<1>1. ASSUME IInv, [Next]_vars, NEW i \in Id, Valid(Records(db), i)
      PROVE  \/ Valid(Records(db)', i)
             \/ bulk.op = "garble" /\ \E j \in Reach(Records(db), i) : db'[j].header = "garbled"
  <2> DEFINE rs == Records(db)
             new == Records(db)'
  <2>1. AreRecords(rs) /\ RecordsStep(rs, new)
    BY <1>1, RecordsType, Step DEF IInv
  <2>1a. \A k \in DOMAIN new : new[k] = db'[k]
    BY DEF Records
  <2> SUFFICES ASSUME ~(bulk.op = "garble" /\ \E j \in Reach(rs, i) : db'[j].header = "garbled")
               PROVE  Valid(new, i)
      OBVIOUS
  <2> HIDE DEF rs, new
  <2>2. Valid(rs, i)
    BY <1>1 DEF rs
  <2>3. ASSUME NEW k \in Id, OneChanged(rs, new, k), AreRecords(new),
               k \notin DOMAIN rs, Edges(new[k]) # {} => NewGraphOK(new, k)
        PROVE  Valid(new, i)
    <3>1. CASE Edges(new[k]) = {}
      BY <2>1, <2>2, <2>3, <3>1, EdgelessKeepsValid
    <3>2. CASE Edges(new[k]) # {} /\ k \in Containers(new)
      <4>1. ScopeOK(new, k)
        BY <2>3, <3>2 DEF NewGraphOK
      <4>2. Sound(new, Containers(new) \cup {k}, k)
        BY <4>1, ReachSelf DEF ScopeOK, VisitOK
      <4> QED BY <3>2, <4>2 DEF Sound
    <3>3. CASE Edges(new[k]) # {} /\ k \notin Containers(new)
      BY <2>1, <2>2, <2>3, <3>3, CheckedKeepsValid DEF NewGraphOK
    <3> QED BY <3>1, <3>2, <3>3
  <2>4. ASSUME NEW k \in Id, OneChanged(rs, new, k), AreRecords(new), k \in DOMAIN rs,
               new[k].spec = rs[k].spec, new[k].depends = rs[k].depends,
               Strict(k, rs[k]) => Strict(k, new[k]) \/ (bulk.op = "garble" /\ new[k].header = "garbled")
        PROVE  Valid(new, i)
    <3>0. \A j \in DOMAIN rs : /\ new[j].spec = rs[j].spec /\ new[j].depends = rs[j].depends
                               /\ j \in DOMAIN new /\ (j # k => new[j] = rs[j])
      BY <2>4 DEF OneChanged
    <3>1. \A j \in Reach(rs, i) \cap DOMAIN rs : Strict(j, rs[j]) => Strict(j, new[j])
      BY <2>1a, <2>4, <3>0
    <3>2. DOMAIN new = DOMAIN rs /\ Containers(new) \subseteq Containers(rs)
      BY <2>4, <3>0 DEF OneChanged, Containers, Members
    <3>3. Reach(rs, i) \subseteq DOMAIN rs
      BY <2>2 DEF Valid, VisitOK
    <3>4. \A j \in Reach(rs, i) :
            /\ new[j].spec = rs[j].spec /\ new[j].depends = rs[j].depends
            /\ Strict(j, rs[j]) => Strict(j, new[j])
      BY <3>0, <3>1, <3>3
    <3>5. DOMAIN rs \subseteq DOMAIN new /\ AreRecords(new) /\ Containers(new) \cap DOMAIN rs \subseteq Containers(rs)
      BY <2>4, <3>2
    <3> QED BY <2>1, <2>2, <3>4, <3>5, SameEdgesKeepValid
  <2>5. Valid(new, i)
    BY <2>1, <2>2, <2>3, <2>4, EdgelessKeepsValid, CheckedKeepsValid DEF RecordsStep
  <2> QED BY <2>5 DEF new
<1>2. IInv /\ [Next]_vars => \A i \in Id : Valid(Records(db), i) =>
        \/ Valid(Records(db)', i)
        \/ bulk.op = "garble" /\ \E j \in Reach(Records(db), i) : db'[j].header = "garbled"
  BY <1>1
<1> QED BY <1>2, TasksInvariant, PTL DEF Spec, KeepsValid

\* Nothing is satisfied unless somebody wrote DONE or dropped a prerequisite.
THEOREM DoneNeedsWriting == Spec => DoneIsExplicit
<1>1. ASSUME IInv
      PROVE  LET old == Records(db) new == Records(db)' IN
             (\E i \in Id : Valid(old, i) /\ Valid(new, i)
                            /\ ~Satisfied(old)[i] /\ Satisfied(new)[i])
             => \E k \in DOMAIN old : \/ old[k].resolution # "DONE" /\ new[k].resolution = "DONE"
                                     \/ ~(old[k].depends \subseteq new[k].depends)
  BY <1>1, RecordsType, SatisfiedBefore DEF IInv, Valid
<1> QED BY <1>1, TasksInvariant, PTL DEF Spec, DoneIsExplicit

\* The token that check and ready print vouches for what ready says.
THEOREM TokenVouches == Spec => SnapshotVouches
<1>1. TypeOK => AreRecords(Records(db))
  BY RecordsType
<1>2. TypeOK' => AreRecords(Records(db))'
  BY <1>1, PTL
<1>3. ASSUME IInv, [Next]_vars
      PROVE  LET old == Records(db) new == Records(db)' IN
             \A s \in Id : /\ ScopeOK(old, s) /\ ScopeOK(new, s)
                           /\ Snapshot(old, s) = Snapshot(new, s)
                           => Report(old, s) = Report(new, s)
  <2>1. AreRecords(Records(db)) /\ AreRecords(Records(db)')
    BY <1>1, <1>2, <1>3, Step DEF IInv, AreRecords
  <2> QED BY <2>1, SnapshotDecidesReport
<1> QED BY <1>3, TasksInvariant, PTL DEF Spec, SnapshotVouches

\* What new has checked around the task it creates reaches no missing record.
LEMMA SoundEdges ==
  ASSUME NEW rs, NEW containers, NEW i, Sound(rs, containers, i)
  PROVE  Edges(rs[i]) \subseteq DOMAIN rs \ {i}
BY DEF Sound, Strict, Edges

\* A graph that scheduler_graph accepts for a new task leads only to tasks there are, and not back to itself.
LEMMA NewGraphSound ==
  ASSUME NEW rs, AreRecords(rs), NEW i \in DOMAIN rs, NewGraphOK(rs, i)
  PROVE  Edges(rs[i]) \subseteq DOMAIN rs \ {i}
<1>1. i \in Id /\ i \in Reach(rs, i)
  BY ReachSelf DEF AreRecords
<1>2. \E containers : VisitOK(rs, containers, i)
  BY DEF NewGraphOK, ScopeOK, GraphOK, Valid
<1> QED BY <1>1, <1>2, SoundEdges DEF VisitOK

\* A new task that others name is checked with each of them.
LEMMA NewGraphValidates ==
  ASSUME NEW rs, NEW i, NewGraphOK(rs, i), NEW j \in DOMAIN rs \ {i}, i \in Edges(rs[j]), i \in DOMAIN rs
  PROVE  Valid(rs, j)
<1>1. CASE rs[j].spec = i
  <2>1. j \in Members(rs, i) /\ i \in Containers(rs)
    BY <1>1 DEF Members, Containers
  <2>2. ScopeOK(rs, i) /\ Containers(rs) \cup {i} = Containers(rs)
    BY <2>1 DEF NewGraphOK
  <2> QED BY <2>1, <2>2 DEF ScopeOK, Valid
<1>2. CASE i \in rs[j].depends
  BY <1>2 DEF NewGraphOK, GraphOK
<1> QED BY <1>1, <1>2 DEF Edges

\* Without drafts, tasks only ever name tasks that are there.
LEMMA NoDanglingInvariant == Spec => []NoDangling
<1>1. ASSUME Init PROVE NoDangling
  <2>1. Drafts = {} => DOMAIN Records(db) = {}
    BY <1>1 DEF Init, Records
  <2> QED BY <2>1 DEF NoDangling
<1>2. ASSUME IInv, NoDangling, [Next]_vars PROVE NoDangling'
  <2> DEFINE rs == Records(db)
             new == Records(db)'
  <2> SUFFICES ASSUME Drafts = {}, NEW j \in DOMAIN new PROVE Edges(db'[j]) \subseteq DOMAIN new
      BY DEF NoDangling
  <2>1. AreRecords(rs) /\ RecordsStep(rs, new) /\ \A k \in DOMAIN rs : rs[k] = db[k]
    BY <1>2, RecordsType, Step DEF IInv
  <2>2. \A k \in DOMAIN new : new[k] = db'[k]
    BY DEF Records
  <2>3. \A k \in DOMAIN rs : Edges(rs[k]) \subseteq DOMAIN rs
    BY <1>2, <2>1 DEF NoDangling
  <2> HIDE DEF rs, new
  <2>4. ASSUME NEW i \in Id, OneChanged(rs, new, i),
               i \in DOMAIN new /\ Edges(new[i]) \subseteq DOMAIN new
        PROVE  Edges(new[j]) \subseteq DOMAIN new
    BY <2>3, <2>4 DEF OneChanged
  <2>5. ASSUME NEW i \in Id, OneChanged(rs, new, i), AreRecords(new),
               Edges(new[i]) # {} => NewGraphOK(new, i)
        PROVE  Edges(new[i]) \subseteq DOMAIN new
    BY <2>5, NewGraphSound DEF OneChanged
  <2>6. ASSUME NEW i \in Id, GraphOK(new, i) PROVE Edges(new[i]) \subseteq DOMAIN new
    BY <2>6, ReachSelf, SoundEdges DEF GraphOK, Valid, VisitOK
  <2>7. ASSUME NEW i \in DOMAIN rs, OneChanged(rs, new, i),
               new[i].spec = rs[i].spec, new[i].depends = rs[i].depends
        PROVE  Edges(new[i]) \subseteq DOMAIN new
    BY <2>3, <2>7 DEF OneChanged, Edges
  <2>8. Edges(new[j]) \subseteq DOMAIN new
    BY <2>1, <2>3, <2>4, <2>5, <2>6, <2>7 DEF RecordsStep, OneChanged
  <2> QED BY <2>2, <2>8
<1> QED BY <1>1, <1>2, TasksInvariant, PTL DEF Spec

\* new leaves no invalid graph behind a reference that it makes resolve, unless it could read
\* none of the tasks that hold it.  todo does not look, so this is for databases that it does
\* not create tasks in, or that hold no drafts.
THEOREM CreationIsChecked == "todo" \notin Commands \/ Drafts = {} => (Spec => CreationValidates)
<1> SUFFICES ASSUME "todo" \notin Commands \/ Drafts = {} PROVE Spec => CreationValidates
    OBVIOUS
<1>1. ASSUME IInv, NoDangling, [Next]_vars,
             NEW i \in DOMAIN Records(db)' \ DOMAIN Records(db),
             NEW k \in DOMAIN Records(db)', i \in Edges(db'[k]), k \notin unread',
             NEW j \in DOMAIN Records(db)', i \in Edges(db'[j])
      PROVE  Valid(Records(db)', j)
  <2> DEFINE rs == Records(db)
             new == Records(db)'
  <2>1. AreRecords(rs) /\ RecordsStep(rs, new) /\ \A l \in DOMAIN rs : rs[l] = db[l]
    BY <1>1, RecordsType, Step DEF IInv
  <2>2. \A l \in DOMAIN new : new[l] = db'[l]
    BY DEF Records
  <2>3. \A l \in DOMAIN rs : Drafts = {} => Edges(rs[l]) \subseteq DOMAIN rs
    BY <1>1, <2>1 DEF NoDangling
  <2>4. /\ i \notin DOMAIN rs /\ i \in DOMAIN new /\ j \in DOMAIN new /\ i \in Edges(new[j])
        /\ k \in DOMAIN new /\ i \in Edges(new[k]) /\ k \notin unread'
    BY <1>1, <2>2
  <2> HIDE DEF rs, new
  <2>5. OneChanged(rs, new, i) /\ AreRecords(new)
    BY <2>1, <2>4 DEF RecordsStep, OneChanged
  <2>6. \/ "todo" \in Commands /\ Edges(new[i]) = {}
        \/ Edges(new[i]) # {} \/ Incoming(Without(rs, unread'), i) => NewGraphOK(new, i)
    BY <2>1, <2>4 DEF RecordsStep, OneChanged
  <2>7. \A l \in DOMAIN new \ {i} : l \in DOMAIN rs /\ new[l] = rs[l]
    BY <2>5 DEF OneChanged
  <2>8. NewGraphOK(new, i)
    <3>1. CASE Edges(new[i]) # {}
      BY <2>6, <3>1
    <3>2. CASE Edges(new[i]) = {}
      <4>1. k # i /\ k \in DOMAIN rs /\ i \in Edges(rs[k])
        BY <2>4, <2>7, <3>2
      <4>2. Incoming(Without(rs, unread'), i)
        BY <2>4, <4>1 DEF Incoming, Without
      <4>3. Drafts # {}
        BY <2>3, <2>4, <4>1
      <4> QED BY <2>6, <4>2, <4>3
    <3> QED BY <3>1, <3>2
  <2>9. ASSUME j = i PROVE Valid(new, j)
    BY <2>4, <2>5, <2>8, <2>9, NewGraphSound
  <2>10. ASSUME j # i PROVE Valid(new, j)
    BY <2>4, <2>8, <2>10, NewGraphValidates
  <2>11. Valid(new, j)
    BY <2>9, <2>10
  <2> QED BY <2>11 DEF new
<1>2. ASSUME IInv, NoDangling, [Next]_vars
      PROVE  \A i \in DOMAIN Records(db)' \ DOMAIN Records(db) :
               LET naming == {j \in DOMAIN Records(db)' : i \in Edges(db'[j])} IN
               naming \subseteq unread' \/ \A j \in naming : Valid(Records(db)', j)
  BY <1>1, <1>2
<1> QED BY <1>2, TasksInvariant, NoDanglingInvariant, PTL DEF Spec, CreationValidates

-----------------------------------------------------------------------------
(* What ready reports.  The lemmas are about any records whose scope check and *)
(* ready accept.                                                             *)

\* The members and what they reach are there, acyclic, and name only tasks that are there.
LEMMA ScopeMembers ==
  ASSUME NEW rs, AreRecords(rs), NEW s \in Id, ScopeOK(rs, s), NEW i \in Members(rs, s)
  PROVE  /\ i \in DOMAIN rs /\ i \in Id /\ rs[i] \in Task
         /\ i \in Reach(rs, i) /\ Reach(rs, i) \subseteq DOMAIN rs /\ Reach(rs, i) \subseteq Id
         /\ Acyclic(rs, Reach(rs, i))
         /\ \A k \in Reach(rs, i) : /\ rs[k].depends \subseteq Reach(rs, i)
                                    /\ rs[k].depends \subseteq Edges(rs[k])
                                    /\ Strict(k, rs[k]) /\ rs[k] \in Task
<1>1. i \in DOMAIN rs /\ i \in Id /\ rs[i] \in Task /\ i \in Reach(rs, i)
  BY ReachSelf DEF Members, AreRecords
<1>2. /\ Reach(rs, i) \subseteq DOMAIN rs /\ Acyclic(rs, Reach(rs, i))
      /\ \A k \in Reach(rs, i) : Strict(k, rs[k])
  BY DEF ScopeOK, VisitOK, Sound
<1> QED BY <1>1, <1>2, ReachClosed DEF Closed, Edges, AreRecords

\* Prerequisites holds the direct ones and theirs, nothing but what is reachable, and is
\* part of every set that is so closed.
LEMMA PrerequisitesClosed ==
  ASSUME NEW rs, AreRecords(rs), NEW s \in Id, ScopeOK(rs, s), NEW i \in Members(rs, s)
  PROVE  /\ rs[i].depends \subseteq Prerequisites(rs, i)
         /\ Prerequisites(rs, i) \subseteq Reach(rs, i)
         /\ \A k \in Prerequisites(rs, i) : rs[k].depends \subseteq Prerequisites(rs, i)
<1> DEFINE P == Prerequisites(rs, i)
           R == Reach(rs, i)
<1>1. /\ R \subseteq DOMAIN rs /\ R \subseteq Id /\ i \in R
      /\ \A k \in R : rs[k].depends \subseteq R /\ rs[k] \in Task
  BY ScopeMembers
<1>2. P \subseteq R
  BY <1>1 DEF Prerequisites
<1>3. rs[i].depends \subseteq P
  BY <1>1 DEF Prerequisites
<1>4. ASSUME NEW k \in P, NEW d \in rs[k].depends PROVE d \in P
  <2>1. k \in DOMAIN rs /\ d \in Id
    BY <1>1, <1>2
  <2>2. ASSUME NEW S \in SUBSET Id, rs[i].depends \subseteq S,
               \A l \in S \cap DOMAIN rs : rs[l].depends \subseteq S
        PROVE  d \in S
    <3>1. k \in S
      BY <2>2 DEF Prerequisites
    <3> QED BY <2>1, <2>2, <3>1
  <2> QED BY <2>1, <2>2 DEF Prerequisites
<1> QED BY <1>2, <1>3, <1>4

\* What scheduler_satisfied finds recursively is that all prerequisites are done.
LEMMA SatisfiedMeansFinished ==
  ASSUME NEW rs, AreRecords(rs), NEW s \in Id, ScopeOK(rs, s), NEW i \in Members(rs, s)
  PROVE  /\ (\A d \in rs[i].depends : Satisfied(rs)[d])
               <=> \A j \in Prerequisites(rs, i) : rs[j].status = "CLOSED" /\ rs[j].resolution = "DONE"
         /\ Satisfied(rs)[i]
               <=> /\ rs[i].status = "CLOSED" /\ rs[i].resolution = "DONE"
                   /\ \A d \in rs[i].depends : Satisfied(rs)[d]
<1> DEFINE P == Prerequisites(rs, i)
           R == Reach(rs, i)
           Done(j) == rs[j].status = "CLOSED" /\ rs[j].resolution = "DONE"
<1>1. /\ R \subseteq DOMAIN rs /\ R \subseteq Id /\ Acyclic(rs, R) /\ i \in R
      /\ \A k \in R : rs[k].depends \subseteq R /\ rs[k].depends \subseteq Edges(rs[k])
  BY ScopeMembers
<1>2. /\ rs[i].depends \subseteq P /\ P \subseteq R
      /\ \A k \in P : rs[k].depends \subseteq P
  BY PrerequisitesClosed
<1>3. ASSUME \A j \in P : Done(j), NEW d \in rs[i].depends PROVE Satisfied(rs)[d]
  <2> DEFINE T == {k \in P : ~Satisfied(rs)[k]}
  <2> SUFFICES ASSUME T # {} PROVE FALSE
      BY <1>2
  <2>1. PICK k \in T : Edges(rs[k]) \cap T = {}
    <3>1. T \subseteq R
      BY <1>2
    <3> HIDE DEF T
    <3> QED BY <1>1, <3>1, AcyclicFirst
  <2>2. k \in DOMAIN rs /\ \A e \in rs[k].depends : e \in DOMAIN rs /\ Satisfied(rs)[e]
    BY <1>1, <1>2, <2>1
  <2> QED BY <1>3, <2>2, SatisfiedAt
<1>4. ASSUME \A d \in rs[i].depends : Satisfied(rs)[d], NEW j \in P PROVE Done(j)
  <2> DEFINE S == {k \in Id : k \in DOMAIN rs /\ Satisfied(rs)[k]}
  <2>1. rs[i].depends \subseteq S
    BY <1>1, <1>4
  <2>2. \A k \in S \cap DOMAIN rs : rs[k].depends \subseteq S
    BY SatisfiedAt DEF AreRecords
  <2>3. j \in S
    BY <2>1, <2>2 DEF Prerequisites
  <2> QED BY <2>3, SatisfiedAt
<1>5. \A d \in rs[i].depends : d \in DOMAIN rs
  BY <1>1
<1>6. i \in DOMAIN rs
  BY <1>1
<1> QED BY <1>3, <1>4, <1>5, <1>6, SatisfiedAt

\* ready authorises exactly what can be worked on, and says complete only if everything is.
THEOREM ReadyAuthorises == Spec => []ReadyIsRunnable
<1> DEFINE Finished(rs, S) == \A j \in S : rs[j].status = "CLOSED" /\ rs[j].resolution = "DONE"
<1>1. ASSUME NEW rs, AreRecords(rs), NEW s \in Id, ScopeOK(rs, s)
      PROVE  /\ Report(rs, s).ready = {i \in Members(rs, s) :
                                         rs[i].status = "OPEN" /\ Finished(rs, Prerequisites(rs, i))}
             /\ Report(rs, s).state = "complete"
                  <=> /\ Members(rs, s) # {}
                      /\ \A i \in Members(rs, s) : Finished(rs, {i} \cup Prerequisites(rs, i))
  <2> DEFINE M == Members(rs, s)
             R == {i \in M : Eligible(rs[i], Satisfied(rs))}
  <2>1. /\ Report(rs, s).ready = R
        /\ Report(rs, s).state = IF R # {} THEN "ready" ELSE IF M = {} THEN "empty"
                                ELSE IF \A i \in M : Satisfied(rs)[i] THEN "complete" ELSE "blocked"
    BY DEF Report
  <2>2. \A i \in M : Eligible(rs[i], Satisfied(rs))
                     <=> rs[i].status = "OPEN" /\ Finished(rs, Prerequisites(rs, i))
    BY <1>1, SatisfiedMeansFinished DEF Eligible
  <2>3. \A i \in M : Satisfied(rs)[i] <=> Finished(rs, {i} \cup Prerequisites(rs, i))
    BY <1>1, SatisfiedMeansFinished
  <2>4. \A i \in M : Satisfied(rs)[i] => i \notin R
    BY <1>1, SatisfiedMeansFinished DEF Eligible
  <2>5. Report(rs, s).state = "complete" <=> M # {} /\ \A i \in M : Satisfied(rs)[i]
    BY <2>1, <2>4
  <2> QED BY <2>1, <2>2, <2>3, <2>5
<1>2. TypeOK => ReadyIsRunnable
  BY <1>1, RecordsType DEF ReadyIsRunnable
<1> QED BY <1>2, TasksInvariant, PTL DEF IInv

\* No member drops out of the report or is in it twice.
THEOREM MembersExplained == Spec => []EveryMemberExplained
<1>1. ASSUME NEW rs, AreRecords(rs), NEW s \in Id, ScopeOK(rs, s), NEW i \in Members(rs, s)
      PROVE  LET r == Report(rs, s)
                 blocked == {b.id : b \in r.blocked}
                 satisfied == {j \in Members(rs, s) : Satisfied(rs)[j]}
                 Parts == <<r.ready, blocked, r.unresolved, satisfied>>
             IN Cardinality({n \in 1 .. 4 : i \in Parts[n]}) = 1
  <2> DEFINE M == Members(rs, s)
             r == Report(rs, s)
             blocked == {b.id : b \in r.blocked}
             satisfied == {j \in M : Satisfied(rs)[j]}
             Parts == <<r.ready, blocked, r.unresolved, satisfied>>
             U == {j \in M : Unresolved(rs[j])}
             Waiting(j) == {d \in rs[j].depends : ~Satisfied(rs)[d]}
             W == {j \in M \ U : Waiting(j) # {}}
             Why(j) == {[id |-> d, reason |-> Reason(rs[d]), external |-> d \notin M] : d \in Waiting(j)}
  <2>1. r.ready = {j \in M : Eligible(rs[j], Satisfied(rs))} /\ r.unresolved = U
    BY DEF Report
  <2>2. r.blocked = {[id |-> j, prerequisites |-> Why(j)] : j \in W}
    BY DEF Report
  <2>3. blocked = W
    <3> HIDE DEF W, Why, r
    <3>1. ASSUME NEW x \in blocked PROVE x \in W
      <4>1. PICK b \in r.blocked : x = b.id
        OBVIOUS
      <4>2. PICK j \in W : b = [id |-> j, prerequisites |-> Why(j)]
        BY <2>2, <4>1
      <4> QED BY <4>1, <4>2
    <3>2. ASSUME NEW j \in W PROVE j \in blocked
      <4> DEFINE b == [id |-> j, prerequisites |-> Why(j)]
      <4>1. b \in r.blocked /\ b.id = j
        BY <2>2
      <4> QED BY <4>1
    <3> QED BY <3>1, <3>2
  <2>4. /\ rs[i] \in Task /\ Strict(i, rs[i])
        /\ Satisfied(rs)[i] <=> /\ rs[i].status = "CLOSED" /\ rs[i].resolution = "DONE"
                                /\ Waiting(i) = {}
    BY <1>1, SatisfiedMeansFinished, ScopeMembers
  <2>5. (i \in r.ready) = (rs[i].status = "OPEN" /\ Waiting(i) = {})
    BY <2>1 DEF Eligible
  <2>6. (i \in r.unresolved) = (rs[i].status = "CLOSED" /\ rs[i].resolution # "DONE")
    BY <2>1 DEF Unresolved
  <2>7. (i \in blocked) = (~(rs[i].status = "CLOSED" /\ rs[i].resolution # "DONE") /\ Waiting(i) # {})
    BY <2>3 DEF Unresolved
  <2>8. (i \in satisfied) = (rs[i].status = "CLOSED" /\ rs[i].resolution = "DONE" /\ Waiting(i) = {})
    BY <2>4
  <2>9. rs[i].status \in {"OPEN", "CLOSED"}
    BY <2>4 DEF Task
  <2> HIDE DEF r, blocked, satisfied, Waiting
  <2>10. \E m \in 1 .. 4 : {n \in 1 .. 4 : i \in Parts[n]} = {m}
    <3>0. /\ Parts[1] = r.ready /\ Parts[2] = blocked
          /\ Parts[3] = r.unresolved /\ Parts[4] = satisfied
      OBVIOUS
    <3> HIDE DEF Parts
    <3> DEFINE X == {n \in 1 .. 4 : i \in Parts[n]}
    <3>1. CASE rs[i].status = "CLOSED" /\ rs[i].resolution # "DONE"
      <4>1. i \notin Parts[1] /\ i \notin Parts[2] /\ i \in Parts[3] /\ i \notin Parts[4]
        BY <2>5, <2>6, <2>7, <2>8, <3>0, <3>1
      <4> QED BY <4>1
    <3>2. CASE Waiting(i) # {} /\ ~(rs[i].status = "CLOSED" /\ rs[i].resolution # "DONE")
      <4>1. i \notin Parts[1] /\ i \in Parts[2] /\ i \notin Parts[3] /\ i \notin Parts[4]
        BY <2>5, <2>6, <2>7, <2>8, <3>0, <3>2
      <4> QED BY <4>1
    <3>3. CASE Waiting(i) = {} /\ rs[i].status = "OPEN"
      <4>1. i \in Parts[1] /\ i \notin Parts[2] /\ i \notin Parts[3] /\ i \notin Parts[4]
        BY <2>5, <2>6, <2>7, <2>8, <3>0, <3>3
      <4> QED BY <4>1
    <3>4. CASE Waiting(i) = {} /\ rs[i].status = "CLOSED" /\ rs[i].resolution = "DONE"
      <4>1. i \notin Parts[1] /\ i \notin Parts[2] /\ i \notin Parts[3] /\ i \in Parts[4]
        BY <2>5, <2>6, <2>7, <2>8, <3>0, <3>4
      <4> QED BY <4>1
    <3> QED BY <2>9, <3>1, <3>2, <3>3, <3>4
  <2> QED BY <2>10, FS_Singleton DEF r, blocked, satisfied
<1>2. TypeOK => EveryMemberExplained
  BY <1>1, RecordsType DEF EveryMemberExplained
<1> QED BY <1>2, TasksInvariant, PTL DEF IInv

\* A spec is blocked only by a closure that is not DONE or by open work elsewhere.
THEOREM BlockingHasCause == Spec => []BlockedHasCause
<1>1. ASSUME NEW rs, AreRecords(rs), NEW s \in Id, ScopeOK(rs, s), Report(rs, s).state = "blocked"
      PROVE  \E i \in Members(rs, s) : \E j \in {i} \cup Prerequisites(rs, i) :
               \/ rs[j].status = "CLOSED" /\ rs[j].resolution # "DONE"
               \/ rs[j].status = "OPEN" /\ j \notin Members(rs, s)
  <2> DEFINE M == Members(rs, s)
             E == {i \in M : Eligible(rs[i], Satisfied(rs))}
  <2>1. E = {} /\ \E i \in M : ~Satisfied(rs)[i]
    <3>1. Report(rs, s).state = IF E # {} THEN "ready" ELSE IF M = {} THEN "empty"
                                ELSE IF \A i \in M : Satisfied(rs)[i] THEN "complete" ELSE "blocked"
      BY DEF Report
    <3> QED BY <1>1, <3>1
  <2>2. PICK i \in M : ~Satisfied(rs)[i]
    BY <2>1
  <2> DEFINE P == Prerequisites(rs, i)
             T == {k \in {i} \cup P : ~Satisfied(rs)[k]}
  <2>3. /\ Reach(rs, i) \subseteq DOMAIN rs /\ Acyclic(rs, Reach(rs, i)) /\ i \in Reach(rs, i)
        /\ \A k \in Reach(rs, i) : rs[k].depends \subseteq Edges(rs[k]) /\ rs[k] \in Task
    BY <1>1, ScopeMembers
  <2>4. /\ rs[i].depends \subseteq P /\ P \subseteq Reach(rs, i)
        /\ \A k \in P : rs[k].depends \subseteq P
    BY <1>1, PrerequisitesClosed
  <2>5. PICK k \in T : Edges(rs[k]) \cap T = {}
    <3>1. T # {} /\ T \subseteq Reach(rs, i)
      BY <2>2, <2>3, <2>4
    <3> HIDE DEF T
    <3> QED BY <2>3, <3>1, AcyclicFirst
  <2>6. /\ k \in DOMAIN rs /\ rs[k] \in Task
        /\ \A d \in rs[k].depends : d \in DOMAIN rs /\ Satisfied(rs)[d]
    BY <2>3, <2>4, <2>5
  <2>7. ~(rs[k].status = "CLOSED" /\ rs[k].resolution = "DONE")
    BY <2>5, <2>6, SatisfiedAt
  <2>8. rs[k].status = "OPEN" => k \notin M
    BY <2>1, <2>6 DEF Eligible
  <2>9. rs[k].status = "OPEN" \/ rs[k].status = "CLOSED"
    BY <2>6 DEF Task
  <2> QED BY <2>7, <2>8, <2>9
<1>2. TypeOK => BlockedHasCause
  BY <1>1, RecordsType DEF BlockedHasCause
<1> QED BY <1>2, TasksInvariant, PTL DEF IInv

\* What ready answers can be acted on, on any records a database can hold.
THEOREM AnswersCanBeActedOn == Spec => []ReportIsTrue
BY ReadyAuthorises, BlockingHasCause, PTL DEF ReportIsTrue
=============================================================================
