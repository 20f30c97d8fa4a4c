------------------------------ MODULE Relations -----------------------------
(***************************************************************************)
(* The task facts the scheduler decides on, and what it computes from them *)
(* (src/src/scheduler.c): which records are acceptable, which graphs are,  *)
(* and what check and ready report.  Everything here is a function of the  *)
(* records rs that discovery read, a function from the ids found to tasks. *)
(*                                                                         *)
(* Graphs are described by what is reachable and what is acyclic; module   *)
(* Visit is the depth-first search that decides it.                        *)
(***************************************************************************)
EXTENDS Naturals, FiniteSets

CONSTANTS Id,    \* task ids
          None   \* no SPEC

ASSUME RelationsAssumption == None \notin Id

\* What a TASK.md says.  header: it has every field scheduler_strict wants, well formed and
\* once; it may lack that, as a legacy task or a draft does; or it is not even UTF-8.
Task == [header: {"strict", "legacy", "garbled"}, status: {"OPEN", "CLOSED"},
         resolution: {"", "DONE", "CANCELLED"},
         spec: Id \cup {None}, depends: SUBSET Id]

Strict(i, t) == /\ t.header = "strict"
                /\ t.status = "OPEN" => t.resolution = ""
                /\ i \notin t.depends

Members(rs, s) == {i \in DOMAIN rs : rs[i].spec = s}
Containers(rs) == {s \in DOMAIN rs : Members(rs, s) # {}}

\* The records scheduler_visit goes to from t: its container and its prerequisites.
Edges(t) == t.depends \cup ({t.spec} \ {None})

\* What scheduler_visit demands of one record and of those it names.
Sound(rs, containers, i) ==
  LET t == rs[i] IN
  /\ Strict(i, t)
  /\ i \in containers => Edges(t) = {}
  /\ t.spec # None => /\ t.spec \in DOMAIN rs \ {i}
                      /\ rs[t.spec].spec = None
  /\ t.depends \subseteq DOMAIN rs \ containers

Closed(rs, S) == \A i \in S \cap DOMAIN rs : Edges(rs[i]) \subseteq S
Reach(rs, i) == LET around == {S \in SUBSET Id : i \in S /\ Closed(rs, S)}
                IN {j \in Id : \A S \in around : j \in S}

Acyclic(rs, S) == \A T \in (SUBSET S) \ {{}} : {i \in T : Edges(rs[i]) \cap T = {}} # {}

\* Everything reachable from i is there, sound, and on no cycle.
VisitOK(rs, containers, i) ==
  LET R == Reach(rs, i) IN
  /\ R \subseteq DOMAIN rs
  /\ \A j \in R : Sound(rs, containers, j)
  /\ Acyclic(rs, R)

Valid(rs, i) == i \in DOMAIN rs /\ VisitOK(rs, Containers(rs), i)

\* Slip: dependencies on what has become a container go unnoticed.
GraphOK_NoTargets(rs, i) == Valid(rs, i)

\* scheduler_graph with scope false, which set and new run before they write.
GraphOK(rs, i) ==
  /\ Valid(rs, i)
  /\ (UNION {rs[j].depends : j \in DOMAIN rs}) \cap Containers(rs) \cap Reach(rs, i) = {}

\* scheduler_graph with scope true, which check and ready run: s counts as a
\* container even without members.
ScopeOK(rs, s) ==
  LET containers == Containers(rs) \cup {s} IN
  /\ s \in DOMAIN rs /\ VisitOK(rs, containers, s)
  /\ \A i \in Members(rs, s) : i \notin containers /\ VisitOK(rs, containers, i)

\* Slip: what members depend on is not inspected.
Inspected_Members(rs, s) == {s} \cup Members(rs, s)

Inspected(rs, s) == Reach(rs, s) \cup UNION {Reach(rs, i) : i \in Members(rs, s)}

-----------------------------------------------------------------------------
(* Readiness, once ScopeOK holds.                                          *)

\* Slips: any closure but CANCELLED fulfils; or the prerequisites are not looked at.
Satisfied_AnyClosure(rs) ==
  LET sat[i \in DOMAIN rs] == /\ rs[i].status = "CLOSED" /\ rs[i].resolution # "CANCELLED"
                              /\ \A d \in rs[i].depends : sat[d]
  IN sat
Satisfied_Flat(rs) ==
  [i \in DOMAIN rs |-> rs[i].status = "CLOSED" /\ rs[i].resolution = "DONE"]

\* scheduler_satisfied: CLOSED and DONE with every prerequisite satisfied, and so there.
Satisfied(rs) ==
  LET sat[i \in DOMAIN rs] == /\ rs[i].status = "CLOSED" /\ rs[i].resolution = "DONE"
                              /\ \A d \in rs[i].depends : d \in DOMAIN rs /\ sat[d]
  IN sat

Reason(t) == IF t.status = "OPEN" THEN "open"
             ELSE IF t.resolution = "CANCELLED" THEN "cancelled"
             ELSE IF t.resolution = "" THEN "unspecified_closure"
             ELSE "recursively_unsatisfied"

\* Slips: an unspecified closure is passed over; or only tasks without prerequisites
\* are eligible.
Unresolved_Cancelled(t) == t.status = "CLOSED" /\ t.resolution = "CANCELLED"
Eligible_NoPrerequisites(t, sat) == t.status = "OPEN" /\ t.depends = {}

Unresolved(t) == t.status = "CLOSED" /\ t.resolution # "DONE"
Eligible(t, sat) == t.status = "OPEN" /\ \A d \in t.depends : sat[d]

\* scheduler_ready_output: what ready says about the container s.
Report(rs, s) ==
  LET sat == Satisfied(rs)
      children == Members(rs, s)
      ready == {i \in children : Eligible(rs[i], sat)}
      unresolved == {i \in children : Unresolved(rs[i])}
      waiting(i) == {d \in rs[i].depends : ~sat[d]}
  IN [state |-> IF ready # {} THEN "ready"
                ELSE IF children = {} THEN "empty"
                ELSE IF \A i \in children : sat[i] THEN "complete" ELSE "blocked",
      ready |-> ready,
      unresolved |-> unresolved,
      blocked |-> {[id |-> i, prerequisites |->
                      {[id |-> d, reason |-> Reason(rs[d]), external |-> d \notin children] :
                         d \in waiting(i)}] :
                   i \in {j \in children \ unresolved : waiting(j) # {}}}]

\* The token check and ready print: a hash of every inspected record.
Snapshot(rs, s) == [i \in Inspected(rs, s) |-> rs[i]]
=============================================================================
