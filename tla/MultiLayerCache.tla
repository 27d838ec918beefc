-------------------------- MODULE MultiLayerCache --------------------------
(***************************************************************************)
(* internal/cache/multilayer.go: one key space in three caches of the same *)
(* size with different policies; GetString asks them in turn, SetString    *)
(* and Delete change all three under c.mu.  The first is LRUCache, whose   *)
(* entries expire and which Delete only overwrites with nil.               *)
(***************************************************************************)
EXTENDS CacheTypes, Naturals, FiniteSets, Functions, SequencesExt

CONSTANTS
  LayerSize,  \* maxSize
  MaxUses,    \* bound on the use counts of the LFU layer
  Nil         \* what Delete stores in the LRU layer; no key

ASSUME LayerAssumption ==
  /\ LayerSize \in Nat \ {0}
  /\ MaxUses \in Nat \ {0}
  /\ Nil \notin Key \union Value \union {Miss}

VARIABLES
  emptyKey,   \* which of the keys is "", Nil if none is
  lruLayer,   \* front first: [key, value]
  stale,      \* the keys of lruLayer that are past the TTL
  lfuLayer,   \* from some keys to [value, uses]
  fifoItems,  \* from some keys to values
  fifoOrder,  \* c.order
  got,        \* what the last GetString answered, Miss for none
  truth       \* history: the value last set and not deleted, Miss for none

layerVars == <<emptyKey, lruLayer, stale, lfuLayer, fifoItems, fifoOrder, got, truth>>

LayerInit ==
  /\ emptyKey \in Key \union {Nil}
  /\ lruLayer = << >>
  /\ stale = {}
  /\ lfuLayer = << >>
  /\ fifoItems = << >>
  /\ fifoOrder = << >>
  /\ got = Miss
  /\ truth = [k \in Key |-> Miss]

-----------------------------------------------------------------------------
LRUKeys == {lruLayer[i].key : i \in DOMAIN lruLayer}
LRUAt(k) == CHOOSE i \in DOMAIN lruLayer : lruLayer[i].key = k
LRUDrop(k) == IF k \in LRUKeys THEN RemoveAt(lruLayer, LRUAt(k)) ELSE lruLayer
LRUValue(k) == lruLayer[LRUAt(k)].value

\* lru.Set of a key and a value or nil.
LRUSet(k, v) ==
  LET rest == IF k \in LRUKeys THEN LRUDrop(k)
              ELSE IF Len(lruLayer) >= LayerSize THEN Front(lruLayer)
              ELSE lruLayer
  IN  /\ lruLayer' = <<[key |-> k, value |-> v]>> \o rest
      /\ stale' = (stale \intersect {rest[i].key : i \in DOMAIN rest}) \ {k}

\* GetString served by the LRU layer.
GetFromLRU(k) ==
  /\ k \in LRUKeys \ stale
  /\ LRUValue(k) # Nil
  /\ got' = LRUValue(k)
  /\ lruLayer' = <<[key |-> k, value |-> LRUValue(k)]>> \o LRUDrop(k)
  /\ UNCHANGED <<emptyKey, stale, lfuLayer, fifoItems, fifoOrder, truth>>

\* What lru.Get leaves when it does not serve: a nil entry moves to the
\* front, an expired one is removed.
LRUPassed(k) ==
  /\ lruLayer' = IF k \in LRUKeys \ stale
                   THEN <<[key |-> k, value |-> Nil]>> \o LRUDrop(k)
                   ELSE LRUDrop(k)
  /\ stale' = stale \ {k}

NotInLRU(k) == k \in LRUKeys \ stale => LRUValue(k) = Nil

\* The LFU layer counts the use under the read lock only, so of two lookups
\* at the same time one count may be lost.
GetFromLFU(k) ==
  /\ NotInLRU(k)
  /\ k \in DOMAIN lfuLayer
  /\ LRUPassed(k)
  /\ got' = lfuLayer[k].value
  /\ lfuLayer' \in {lfuLayer, [lfuLayer EXCEPT ![k].uses = IF @ < MaxUses THEN @ + 1 ELSE @]}
  /\ UNCHANGED <<emptyKey, fifoItems, fifoOrder, truth>>

GetFromFIFO(k) ==
  /\ NotInLRU(k)
  /\ k \notin DOMAIN lfuLayer
  /\ LRUPassed(k)
  /\ got' = IF k \in DOMAIN fifoItems THEN fifoItems[k] ELSE Miss
  /\ UNCHANGED <<emptyKey, lfuLayer, fifoItems, fifoOrder, truth>>

\* lfu.Set: evict an entry with the fewest uses, unless its key is "".
LeastUsed == {k \in DOMAIN lfuLayer : \A j \in DOMAIN lfuLayer : lfuLayer[k].uses <= lfuLayer[j].uses}

LFUSet(k, v) ==
  IF k \in DOMAIN lfuLayer
    THEN lfuLayer' = [lfuLayer EXCEPT ![k] =
           [value |-> v, uses |-> IF @.uses < MaxUses THEN @.uses + 1 ELSE @.uses]]
    ELSE \E E \in SUBSET LeastUsed :
           /\ Cardinality(E) = IF Cardinality(DOMAIN lfuLayer) >= LayerSize THEN 1 ELSE 0
           /\ lfuLayer' = [x \in (DOMAIN lfuLayer \ (E \ {emptyKey})) \union {k} |->
                             IF x = k THEN [value |-> v, uses |-> 1] ELSE lfuLayer[x]]

\* Mutant: the FIFO layer keeps the value it has.
FIFOSetOnce(k, v) ==
  IF k \in DOMAIN fifoItems
    THEN UNCHANGED <<fifoItems, fifoOrder>>
    ELSE LET full == Cardinality(DOMAIN fifoItems) >= LayerSize
             out  == IF full THEN {Head(fifoOrder)} ELSE {}
         IN  /\ fifoItems' = [x \in (DOMAIN fifoItems \ out) \union {k} |->
                                IF x = k THEN v ELSE fifoItems[x]]
             /\ fifoOrder' = Append(IF full THEN Tail(fifoOrder) ELSE fifoOrder, k)

\* fifo.Set: the key at the head of the queue goes.
FIFOSet(k, v) ==
  LET full == k \notin DOMAIN fifoItems /\ Cardinality(DOMAIN fifoItems) >= LayerSize
      out  == IF full THEN {Head(fifoOrder)} ELSE {}
      left == IF full THEN Tail(fifoOrder) ELSE fifoOrder
  IN  /\ fifoItems' = [x \in (DOMAIN fifoItems \ out) \union {k} |->
                         IF x = k THEN v ELSE fifoItems[x]]
      /\ fifoOrder' = IF k \in DOMAIN fifoItems THEN left ELSE Append(left, k)

SetString(k, v) ==
  /\ LRUSet(k, v)
  /\ LFUSet(k, v)
  /\ FIFOSet(k, v)
  /\ truth' = [truth EXCEPT ![k] = v]
  /\ UNCHANGED <<emptyKey, got>>

\* Mutant: the queue keeps the key.
FIFODeleteMapOnly(k) ==
  /\ fifoItems' = Restrict(fifoItems, DOMAIN fifoItems \ {k})
  /\ UNCHANGED fifoOrder

\* fifo.Delete: from the map, and the first of its places in the queue.
FIFOPlaces(k) == {i \in DOMAIN fifoOrder : fifoOrder[i] = k}
FIFODelete(k) ==
  /\ fifoItems' = Restrict(fifoItems, DOMAIN fifoItems \ {k})
  /\ fifoOrder' = IF FIFOPlaces(k) = {} THEN fifoOrder
                   ELSE RemoveAt(fifoOrder, CHOOSE i \in FIFOPlaces(k) :
                                              \A j \in FIFOPlaces(k) : i <= j)

LayerDelete(k) ==
  /\ LRUSet(k, Nil)
  /\ lfuLayer' = Restrict(lfuLayer, DOMAIN lfuLayer \ {k})
  /\ FIFODelete(k)
  /\ truth' = [truth EXCEPT ![k] = Miss]
  /\ UNCHANGED <<emptyKey, got>>

\* The clock takes an entry of the LRU layer past its TTL of five minutes.
LayerExpire(k) ==
  /\ k \in LRUKeys \ stale
  /\ stale' = stale \union {k}
  /\ UNCHANGED <<emptyKey, lruLayer, lfuLayer, fifoItems, fifoOrder, got, truth>>

LayerNext ==
  \/ \E k \in Key : \/ GetFromLRU(k) \/ GetFromLFU(k) \/ GetFromFIFO(k)
                    \/ LayerDelete(k) \/ LayerExpire(k)
  \/ \E k \in Key, v \in Value : SetString(k, v)

LayerSpec == LayerInit /\ [][LayerNext]_layerVars

-----------------------------------------------------------------------------
\* The queue of the FIFO layer is its map in some order, so that the head it
\* evicts is in the map and room is made; no layer outgrows its size, the LFU
\* layer as long as the key is never "".
QueueMatchesMap ==
  /\ DOMAIN fifoItems = ToSet(fifoOrder)
  /\ Cardinality(DOMAIN fifoItems) = Len(fifoOrder)
  /\ Len(fifoOrder) <= LayerSize
  /\ Len(lruLayer) <= LayerSize
  /\ emptyKey = Nil => Cardinality(DOMAIN lfuLayer) <= LayerSize

\* Whichever layer still has a key, it has the value set last, and no layer
\* has a deleted one: after any evictions and expiries GetString cannot fall
\* through to an older value (GetString, SetString, Delete); and the books of
\* the FIFO layer, which decide what it evicts, are in order.
LayersAgree ==
  /\ \A k \in Key :
       /\ k \in LRUKeys => LRUValue(k) \in {truth[k]} \union (IF truth[k] = Miss THEN {Nil} ELSE {})
       /\ k \in DOMAIN lfuLayer => lfuLayer[k].value = truth[k]
       /\ k \in DOMAIN fifoItems => fifoItems[k] = truth[k]
  /\ QueueMatchesMap
=============================================================================
