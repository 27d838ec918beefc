------------------------------ MODULE LRUCache ------------------------------
(***************************************************************************)
(* internal/cache/lru.go: the LRU cache with TTL behind PipelineManager.   *)
(* Get and Set hold c.mu for their whole body, so each is one action.      *)
(* entries and order are kept apart, as in the code, where a map and a     *)
(* list must agree.                                                        *)
(***************************************************************************)
EXTENDS CacheTypes, Naturals, FiniteSets, SequencesExt

CONSTANTS
  MaxSize,  \* c.maxSize, positive after NewLRUCache
  TTL       \* c.ttl in ticks

ASSUME LRUAssumption ==
  /\ MaxSize \in Nat \ {0}
  /\ TTL \in Nat \ {0}

VARIABLES
  entries,  \* the keys of c.entries
  order,    \* c.order, front first: records [key, value, age]
  answer,   \* what the last Get returned
  newer     \* history: <<a, b>> when a was used after b

vars == <<entries, order, answer, newer>>

Elem == [key : Key, value : Value, age : 0..(TTL + 1)]

Init ==
  /\ entries = {}
  /\ order = << >>
  /\ answer = Miss
  /\ newer = {}

-----------------------------------------------------------------------------
At(k) == CHOOSE i \in DOMAIN order : order[i].key = k

\* c.order.MoveToFront(elem), for an element already updated to e.
ToFront(k, e) == <<e>> \o RemoveAt(order, At(k))

\* Bookkeeping of the history variable: k is used now.
Use(k) ==
  newer' = {r \in newer : r[2] # k} \union {<<k, x>> : x \in Key \ {k}}

\* Mutant: a hit leaves the element where it is.
HitInPlace(k) ==
  /\ k \in entries
  /\ order[At(k)].age <= TTL
  /\ answer' = order[At(k)].value
  /\ Use(k)
  /\ UNCHANGED <<entries, order>>

\* Get of a live entry.
Hit(k) ==
  /\ k \in entries
  /\ order[At(k)].age <= TTL
  /\ order' = ToFront(k, order[At(k)])
  /\ answer' = order[At(k)].value
  /\ Use(k)
  /\ UNCHANGED entries

\* Get of an expired entry removes it.
Expired(k) ==
  /\ k \in entries
  /\ order[At(k)].age > TTL
  /\ entries' = entries \ {k}
  /\ order' = RemoveAt(order, At(k))
  /\ answer' = Miss
  /\ UNCHANGED newer

Absent(k) ==
  /\ k \notin entries
  /\ answer' = Miss
  /\ UNCHANGED <<entries, order, newer>>

\* Set of a key already present.
Update(k, v) ==
  /\ k \in entries
  /\ order' = ToFront(k, [key |-> k, value |-> v, age |-> 0])
  /\ Use(k)
  /\ UNCHANGED <<entries, answer>>

\* Mutant: > for >= in the capacity test.
InsertLate(k, v) ==
  /\ k \notin entries
  /\ LET kept == IF Len(order) > MaxSize THEN Front(order) ELSE order
     IN  /\ order' = <<[key |-> k, value |-> v, age |-> 0]>> \o kept
         /\ entries' = {kept[i].key : i \in DOMAIN kept} \union {k}
  /\ Use(k)
  /\ UNCHANGED answer

\* Set of a new key.  The list is never over capacity, so the loop that
\* evicts from the back runs at most once.
Insert(k, v) ==
  /\ k \notin entries
  /\ IF Len(order) >= MaxSize
       THEN /\ order' = <<[key |-> k, value |-> v, age |-> 0]>> \o Front(order)
            /\ entries' = (entries \ {Last(order).key}) \union {k}
       ELSE /\ order' = <<[key |-> k, value |-> v, age |-> 0]>> \o order
            /\ entries' = entries \union {k}
  /\ Use(k)
  /\ UNCHANGED answer

\* The clock; an entry's age matters only up to TTL + 1.
Tick ==
  /\ order' = [i \in DOMAIN order |->
                 [order[i] EXCEPT !.age = IF @ <= TTL THEN @ + 1 ELSE @]]
  /\ UNCHANGED <<entries, answer, newer>>

Next ==
  \/ \E k \in Key : Hit(k) \/ Expired(k) \/ Absent(k)
  \/ \E k \in Key, v \in Value : Update(k, v) \/ Insert(k, v)
  \/ Tick

Spec == Init /\ [][Next]_vars

-----------------------------------------------------------------------------
\* Eviction takes the least recently used entry: whatever Set drops, every
\* entry that stays was used after it (evictOldest).
EvictsLeastRecent ==
  [][\A k \in entries, v \in Key :
       (v \notin entries /\ v \in entries' /\ k \notin entries')
         => \A s \in entries \ {k} : <<s, k>> \in newer]_vars

\* What the cache holds under each key, live or expired.
held == [k \in {order[i].key : i \in DOMAIN order} |-> order[At(k)].value]

Cache == INSTANCE BoundedCache WITH
  Capacity <- MaxSize,
  store    <- held

\* The LRU cache implements the bounded cache: right value or a miss, never
\* more than maxSize entries.
ImplementsBoundedCache == Cache!Spec
=============================================================================
