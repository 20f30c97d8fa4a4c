----------------------------- MODULE HashTable ------------------------------
(***************************************************************************)
(* The hash table of src/thirdparty/ht.h, which the reports of tatr count  *)
(* with: open addressing with triangular probing, tombstones, and a new    *)
(* array when the slots that are not empty reach the load factor.  A put   *)
(* is a step for each capacity that is tried, one for each slot of the old *)
(* array, and the last.                                                    *)
(***************************************************************************)
EXTENDS Integers, FiniteSets, FiniteSetsExt

CONSTANTS Keys, Values, Absent,
          Hash,    \* the hash of every key
          MinCap,  \* the smallest capacity, a power of two
          Load     \* the load factor in percent

VARIABLES slots,   \* a function on 0 .. capacity - 1
          count,   \* entries
          filled,  \* slots that are not empty
          old, at, \* the array entries are moved from, and the next slot of it; or the capacity tried
          pc,
          item,    \* the entry that is being put, or Empty
          iter,    \* the slot ht_foreach has come to, or -1
          due      \* the keys it has still to visit

vars == <<slots, count, filled, old, at, pc, item, iter, due>>

Empty == [state |-> "empty", key |-> Absent, value |-> Absent]
Deleted == [state |-> "deleted", key |-> Absent, value |-> Absent]
Entry(k, v) == [state |-> "live", key |-> k, value |-> v]
NoSlots == [i \in {} |-> Empty]
Cap(s) == Cardinality(DOMAIN s)

HashTableAssumption ==
  /\ Hash \in [Keys -> Nat] /\ Absent \notin Keys \cup Values
  /\ MinCap \in Nat \ {0} /\ Load \in 1 .. 99

Init == /\ slots = NoSlots /\ count = 0 /\ filled = 0 /\ old = NoSlots /\ at = 0
        /\ pc = "ready" /\ item = Empty /\ iter = -1 /\ due = {}

-----------------------------------------------------------------------------
\* Hashes 0 and 1 are taken by the empty and the deleted.
HashOf(k) == IF Hash[k] < 2 THEN Hash[k] + 2 ELSE Hash[k]

\* The nth slot that is looked at: the step grows by one each time.
Probe(k, n, c) == (HashOf(k) + (n * (n + 1)) \div 2) % c

Stops(s, k) == LET c == Cap(s) IN {n \in DOMAIN s : s[Probe(k, n, c)].state = "empty" \/ s[Probe(k, n, c)].key = k}

\* ht__find_slot: the slot of the key, or the empty one where it is missed, or -1.
FindSlot(s, k) == LET stops == Stops(s, k) IN IF stops = {} THEN -1 ELSE Probe(k, Min(stops), Cap(s))
Find(k) == LET i == FindSlot(slots, k) IN IF i # -1 /\ slots[i].state = "live" THEN i ELSE -1

Full == Cap(slots) = 0 \/ filled * 100 >= Load * Cap(slots)

-----------------------------------------------------------------------------
\* ht__put_no_expand followed by the caller's assignment to the value.
Insert(e) == LET i == FindSlot(slots, e.key) IN
  /\ i # -1
  /\ slots' = [slots EXCEPT ![i] = e]
  /\ filled' = IF slots[i].state = "empty" THEN filled + 1 ELSE filled
  /\ count' = IF slots[i].state = "empty" THEN count + 1 ELSE count

Put(k, v) == /\ pc = "ready" /\ iter = -1
             /\ IF Full THEN pc' = "grow" /\ at' = MinCap ELSE pc' = "put" /\ at' = 0
             /\ item' = Entry(k, v)
             /\ UNCHANGED <<slots, count, filled, old, iter, due>>

\* ht__expand: the capacity is doubled until the entries do not load it.
Grow == /\ pc = "grow"
        /\ IF count * 100 >= Load * at
           THEN at' = 2 * at /\ UNCHANGED <<slots, count, filled, old, pc>>
           ELSE /\ slots' = [i \in 0 .. at - 1 |-> Empty] /\ count' = 0 /\ filled' = 0 /\ old' = slots
                /\ at' = 0 /\ pc' = "put"
        /\ UNCHANGED <<item, iter, due>>

\* Slip: only the key is copied.
Carried_Key == [old[at] EXCEPT !.value = Absent]

Carried == old[at]

After == at + 1

Move == /\ pc = "put" /\ at \in DOMAIN old /\ at' = After
        /\ IF old[at].state = "live" THEN Insert(Carried) ELSE UNCHANGED <<slots, count, filled>>
        /\ UNCHANGED <<old, pc, item, iter, due>>
Moved == /\ pc = "put" /\ at \notin DOMAIN old /\ Insert(item)
         /\ old' = NoSlots /\ at' = 0 /\ pc' = "ready" /\ item' = Empty /\ UNCHANGED <<iter, due>>

\* ht__find_or_put: an entry that is there is not put, so the table is not expanded.
FindOrPut(k, v) == LET i == Find(k) IN
  IF i = -1 THEN Put(k, v)
  ELSE /\ pc = "ready" /\ slots' = [slots EXCEPT ![i].value = v]
       /\ UNCHANGED <<count, filled, old, at, pc, item, iter, due>>

\* Slip: the slot is made empty again.
Tomb_Empty == Empty

Tomb == Deleted

Refilled == filled

\* ht__delete, of what has been found or of what ht_foreach is at.
Delete(k) == LET i == Find(k) IN
  /\ pc = "ready" /\ i # -1 /\ iter \in {-1, i}
  /\ slots' = [slots EXCEPT ![i] = Tomb] /\ count' = count - 1 /\ filled' = Refilled
  /\ due' = due \ {k}
  /\ UNCHANGED <<old, at, pc, item, iter>>

\* ht__reset leaves the tombstones of a table without entries.
Reset == /\ pc = "ready" /\ iter = -1 /\ count # 0
         /\ slots' = [i \in DOMAIN slots |-> Empty] /\ count' = 0 /\ filled' = 0
         /\ UNCHANGED <<old, at, pc, item, iter, due>>
Release == /\ pc = "ready" /\ iter = -1
           /\ slots' = NoSlots /\ count' = 0 /\ filled' = 0
           /\ UNCHANGED <<old, at, pc, item, iter, due>>

From == iter + 1

\* ht__next: the entries behind the one at hand.
Ahead == {i \in DOMAIN slots : i >= From /\ slots[i].state = "live"}
Live(s) == {i \in DOMAIN s : s[i].state = "live"}
Visit == /\ pc = "ready" /\ Ahead # {}
         /\ iter' = Min(Ahead)
         /\ due' = (IF iter = -1 THEN {slots[i].key : i \in Live(slots)} ELSE due) \ {slots[Min(Ahead)].key}
         /\ UNCHANGED <<slots, count, filled, old, at, pc, item>>
Visited == /\ pc = "ready" /\ iter # -1 /\ Ahead = {} /\ iter' = -1
           /\ UNCHANGED <<slots, count, filled, old, at, pc, item, due>>

Next == \/ \E k \in Keys, v \in Values : Put(k, v) \/ FindOrPut(k, v)
        \/ Grow \/ Move \/ Moved
        \/ \E k \in Keys : Delete(k)
        \/ Reset \/ Release \/ Visit \/ Visited
Spec == Init /\ [][Next]_vars
Works == Grow \/ Move \/ Moved
FairSpec == Spec /\ WF_vars(Works)

-----------------------------------------------------------------------------
\* The entries: those of the array, and those still to be moved into it.
Rest == {i \in Live(old) : i >= at}
Held == {slots[i] : i \in Live(slots)} \cup {old[i] : i \in Rest}
Map == LET held == Held IN
       [k \in Keys |-> IF \E e \in held : e.key = k THEN (CHOOSE e \in held : e.key = k).value ELSE Absent]
Abstract == INSTANCE Dictionary WITH map <- Map, putting <- <<item.key, item.value>>,
                                     left <- IF iter = -1 THEN {Absent} ELSE due

\* The table is the function of its calls: deleting, putting again, and moving to another
\* array neither lose an entry nor bring an old value back, no search misses a key or enters
\* it twice, ht_foreach visits all of them even if it deletes some, and every put is done in
\* the end: there is a slot for it, so no assertion fails, and an expansion ends.
Refines == Abstract!FairSpec
=============================================================================
