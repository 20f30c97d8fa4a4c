----------------------------- MODULE Dictionary -----------------------------
\* What a hash table promises: every key is absent or has the value put last, and what goes
\* through the keys comes to all of them.  A put may take some time, and nothing else changes
\* meanwhile.
CONSTANTS Keys, Values, Absent
VARIABLES map,
          putting, \* the key and the value of the put under way, or Absent twice
          left     \* the keys that are still to be visited, or {Absent}

vars == <<map, putting, left>>
Idle == <<Absent, Absent>>
Nothing == [k \in Keys |-> Absent]
Init == map = Nothing /\ putting = Idle /\ left = {Absent}

Start(k, v) == putting = Idle /\ putting' = <<k, v>> /\ UNCHANGED <<map, left>>
Finish == putting # Idle /\ map' = [map EXCEPT ![putting[1]] = putting[2]] /\ putting' = Idle /\ UNCHANGED left
Put(k, v) == putting = Idle /\ map' = [map EXCEPT ![k] = v] /\ UNCHANGED <<putting, left>>
Delete(k) == putting = Idle /\ map' = [map EXCEPT ![k] = Absent] /\ left' = left \ {k} /\ UNCHANGED putting
Clear == putting = Idle /\ map' = Nothing /\ UNCHANGED <<putting, left>>

Unvisited == IF left = {Absent} THEN {k \in Keys : map[k] # Absent} ELSE left
Visit(k) == putting = Idle /\ k \in Unvisited /\ left' = Unvisited \ {k} /\ UNCHANGED <<map, putting>>
Visited == left = {} /\ left' = {Absent} /\ UNCHANGED <<map, putting>>

Next == \/ \E k \in Keys, v \in Values : Start(k, v) \/ Put(k, v)
        \/ Finish
        \/ \E k \in Keys : Delete(k) \/ Visit(k)
        \/ Clear \/ Visited
Spec == Init /\ [][Next]_vars
FairSpec == Spec /\ WF_vars(Finish)
=============================================================================
