-------------------------------- MODULE Visit -------------------------------
(***************************************************************************)
(* The depth-first search of scheduler_graph and scheduler_visit           *)
(* (src/src/scheduler.c), one step per call, edge and return.  It decides, *)
(* with colours and a stack of ids, what Relations states with reachable   *)
(* sets: whether the graph of a task, or the scope of a spec, is valid.    *)
(***************************************************************************)
EXTENDS Relations, Sequences, SequencesExt

CONSTANTS Found,  \* tasks a record can be
          Missing \* no record of that id

ASSUME VisitAssumption == Id \subseteq Nat /\ Found \subseteq Task /\ Missing \notin Task

VARIABLES rs,         \* the records, as scheduler_discover left them
          root,       \* where the search starts
          scope,      \* check and ready: visit the members of root too
          color,      \* 0 new, 1 on the stack, 2 finished
          inspected,  \* the records the search has entered
          stack,      \* frames: a record, and whether its SPEC and which dependencies are still to be followed
          target,     \* the record scheduler_visit is called with, or None
          outcome,    \* "running", "ok" or the error code
          cycle       \* the ids a dependency_cycle error lists

graph == <<rs, root, scope>>
search == <<color, inspected, stack, target>>
vars == <<graph, search, outcome, cycle>>

\* Slip: a root without members is not treated as a container.
InScope_Named == Containers(rs)

\* scope makes the root a container even without members.
InScope == Containers(rs) \cup (IF scope THEN {root} ELSE {})
Top == Last(stack)

\* A record's dependencies are followed in the order of their ids.
Least(S) == CHOOSE i \in S : \A j \in S : i <= j

Init ==
  /\ \E d \in [Id -> Found \cup {Missing}] :
       rs = [i \in {j \in Id : d[j] # Missing} |-> d[i]]
  /\ root \in DOMAIN rs /\ scope \in BOOLEAN
  /\ color = [i \in Id |-> 0] /\ inspected = {}
  /\ stack = <<>> /\ target = root
  /\ outcome = "running" /\ cycle = <<>>

Fail(code) == outcome' = code /\ UNCHANGED <<graph, search>>

-----------------------------------------------------------------------------
\* A call of scheduler_visit: known records return at once, one on the stack is a
\* cycle, a new one is checked and pushed.
Known == /\ color[target] = 2
         /\ target' = None
         /\ UNCHANGED <<graph, color, inspected, stack, outcome, cycle>>

\* Slip: the whole stack is listed.
CycleFrom_Bottom(ids) == ids

\* The stack from where the target is on it.
CycleFrom(ids) == SubSeq(ids, CHOOSE n \in 1 .. Len(ids) : ids[n] = target, Len(ids))

Cycle == /\ color[target] = 1
         /\ cycle' = CycleFrom([n \in 1 .. Len(stack) |-> stack[n].id]) \o <<target>>
         /\ Fail("dependency_cycle")

Refuse == /\ color[target] = 0
          /\ \/ ~Strict(target, rs[target]) /\ Fail("invalid_task")
             \/ /\ Strict(target, rs[target])
                /\ target \in InScope /\ Edges(rs[target]) # {}
                /\ Fail("invalid_relationship")
          /\ UNCHANGED cycle

Enter == /\ color[target] = 0
         /\ Strict(target, rs[target])
         /\ target \in InScope => Edges(rs[target]) = {}
         /\ color' = [color EXCEPT ![target] = 1]
         /\ inspected' = inspected \cup {target}
         /\ stack' = Append(stack, [id |-> target, spec |-> rs[target].spec # None,
                                    depends |-> rs[target].depends])
         /\ target' = None
         /\ UNCHANGED <<graph, outcome, cycle>>

Visit == target # None /\ (Known \/ Cycle \/ Refuse \/ Enter)

\* The next edge of the record on top of the stack: its SPEC, then its dependencies.
BadSpec(i, s) == s \in DOMAIN rs \ {i} => rs[s].spec # None

Follow(next, frame) == /\ target' = next
                       /\ stack' = [stack EXCEPT ![Len(stack)] = frame]
                       /\ UNCHANGED <<graph, color, inspected, outcome>>

SpecEdge ==
  /\ target = None /\ stack # <<>> /\ Top.spec
  /\ LET s == rs[Top.id].spec IN
     \/ BadSpec(Top.id, s) /\ Fail("invalid_relationship")
     \/ ~BadSpec(Top.id, s) /\ Follow(s, [Top EXCEPT !.spec = FALSE])
  /\ UNCHANGED cycle

DependsEdge ==
  /\ target = None /\ stack # <<>> /\ ~Top.spec /\ Top.depends # {}
  /\ LET next == Least(Top.depends) IN
     \/ next \notin DOMAIN rs /\ Fail("missing_dependency")
     \/ next \in InScope /\ Fail("invalid_relationship")
     \/ next \in DOMAIN rs \ InScope /\ Follow(next, [Top EXCEPT !.depends = @ \ {next}])
  /\ UNCHANGED cycle

Return == /\ target = None /\ stack # <<>> /\ ~Top.spec /\ Top.depends = {}
          /\ color' = [color EXCEPT ![Top.id] = 2]
          /\ stack' = Front(stack)
          /\ UNCHANGED <<graph, inspected, target, outcome, cycle>>

\* scheduler_graph, when a visit it made has returned.
Finish ==
  /\ target = None /\ stack = <<>>
  /\ \/ ~scope /\ IF \E j \in DOMAIN rs : rs[j].depends \cap InScope \cap inspected # {}
                  THEN Fail("invalid_relationship") ELSE Fail("ok")
     \/ scope /\ LET left == {i \in Members(rs, root) : color[i] # 2}
                     next == Least(left)
                 IN \/ left = {} /\ Fail("ok")
                    \/ /\ left # {} /\ next \in InScope
                       /\ Fail("invalid_relationship")
                    \/ /\ left # {} /\ next \notin InScope
                       /\ target' = next
                       /\ UNCHANGED <<graph, color, inspected, stack, outcome>>
  /\ UNCHANGED cycle

Next == outcome = "running" /\ (Visit \/ SpecEdge \/ DependsEdge \/ Return \/ Finish)

Spec == Init /\ [][Next]_vars

-----------------------------------------------------------------------------
\* The search accepts exactly the graphs without a missing, unsound or cyclic
\* record, whatever it met first.  If it accepts, what it reports as inspected, and hashes
\* into the snapshot, is all that the root and, in a scope, its members can reach.  If it
\* names a cycle, it is one: each id names the next, the last is the first, and nothing
\* else is repeated.
DecidesValidity ==
  /\ outcome # "running" =>
       (outcome = "ok" <=> IF scope THEN ScopeOK(rs, root) ELSE GraphOK(rs, root))
  /\ outcome = "ok" =>
       inspected = IF scope THEN Inspected(rs, root) ELSE Reach(rs, root)
  /\ outcome = "dependency_cycle" =>
       /\ Len(cycle) > 1 /\ Head(cycle) = Last(cycle)
       /\ \A n \in 1 .. Len(cycle) - 1 : cycle[n + 1] \in Edges(rs[cycle[n]])
       /\ IsInjective(Tail(cycle))
=============================================================================
