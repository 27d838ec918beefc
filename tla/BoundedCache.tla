---------------------------- MODULE BoundedCache ----------------------------
(***************************************************************************)
(* What every cache of the program promises its callers, whatever its      *)
(* eviction policy: it holds at most Capacity entries, a lookup answers    *)
(* with the value stored last under the key or with a miss, and storing    *)
(* one key never changes the value under another; it may only drop it.     *)
(***************************************************************************)
EXTENDS Naturals, FiniteSets, Functions

CONSTANTS Key, Value, Capacity, Miss

VARIABLES
  store,   \* the entries: a function from a subset of Key to Value
  answer   \* what the last lookup returned

Drop(E) == Restrict(store, DOMAIN store \ E)

Init ==
  /\ store = << >>
  /\ answer = Miss

Get(k) ==
  \/ /\ k \in DOMAIN store
     /\ answer' = store[k]
     /\ UNCHANGED store
  \/ /\ answer' = Miss
     /\ \E E \in SUBSET {k} : store' = Drop(E)

Put(k, v) ==
  /\ \E E \in SUBSET (DOMAIN store) :
       store' = [x \in (DOMAIN store \ E) \union {k} |-> IF x = k THEN v ELSE store[x]]
  /\ Cardinality(DOMAIN store') <= Capacity
  /\ UNCHANGED answer

\* Deletion, expiry, pruning, clearing.
Forget ==
  /\ \E E \in SUBSET (DOMAIN store) : store' = Drop(E)
  /\ UNCHANGED answer

Next ==
  \/ \E k \in Key : Get(k)
  \/ \E k \in Key, v \in Value : Put(k, v)
  \/ Forget

Spec == Init /\ [][Next]_<<store, answer>>
=============================================================================
