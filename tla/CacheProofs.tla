---------------------------- MODULE CacheProofs ----------------------------
(***************************************************************************)
(* Proofs about the caches, for any number of keys, values, callers and    *)
(* processes and any capacity.                                             *)
(***************************************************************************)
EXTENDS LRUCache, HashCache, ScanCache, TokenCache, MultiLayerCache, ContextRead, DataLemmas

-----------------------------------------------------------------------------
(***************************************************************************)
(* Lists                                                                   *)
(***************************************************************************)
\* What removing the element at i leaves.
LEMMA RemoveAtProperties ==
  ASSUME NEW S, NEW s \in Seq(S), NEW i \in 1..Len(s)
  PROVE  /\ RemoveAt(s, i) \in Seq(S)
         /\ Len(RemoveAt(s, i)) = Len(s) - 1
         /\ \A j \in 1..(Len(s) - 1) : RemoveAt(s, i)[j] = s[IF j < i THEN j ELSE j + 1]
<1> DEFINE a == SubSeq(s, 1, i - 1)
           b == SubSeq(s, i + 1, Len(s))
<1>1. Len(s) \in Nat
  OBVIOUS
<1>2. a \in Seq(S) /\ Len(a) = i - 1 /\ \A j \in 1..(i - 1) : a[j] = s[j]
  BY <1>1
<1>3. b \in Seq(S) /\ Len(b) = Len(s) - i /\ \A j \in 1..(Len(s) - i) : b[j] = s[i + j]
  BY <1>1
<1>4. RemoveAt(s, i) = a \o b
  BY DEF RemoveAt
<1> HIDE DEF a, b
<1> DEFINE c == a \o b
<1>0. /\ c \in Seq(S)
      /\ Len(c) = Len(a) + Len(b)
      /\ \A j \in 1..(Len(a) + Len(b)) : c[j] = IF j <= Len(a) THEN a[j] ELSE b[j - Len(a)]
  BY <1>2, <1>3, ConcatProperties, Zenon
<1> HIDE DEF c
<1>5. Len(c) = Len(s) - 1
  BY <1>0, <1>1, <1>2, <1>3
<1>6. ASSUME NEW j \in 1..(Len(s) - 1)
      PROVE  c[j] = s[IF j < i THEN j ELSE j + 1]
  <2>1. CASE j < i
    <3>1. j \in 1..(Len(a) + Len(b)) /\ j <= Len(a) /\ j \in 1..(i - 1)
      BY <1>1, <1>2, <1>3, <2>1
    <3>2. c[j] = a[j]
      BY <1>0, <3>1
    <3> QED
      BY <1>2, <2>1, <3>1, <3>2
  <2>2. CASE ~(j < i)
    <3>1. c[j] = b[j - (i - 1)]
      <4>1. j \in 1..(Len(a) + Len(b)) /\ ~(j <= Len(a))
        BY <1>1, <1>2, <1>3, <2>2
      <4>2. c[j] = b[j - Len(a)]
        BY <1>0, <4>1
      <4> QED
        BY <1>2, <4>2
    <3>2. j - (i - 1) \in 1..(Len(s) - i) /\ i + (j - (i - 1)) = j + 1
      BY <1>1, <2>2
    <3> QED
      BY <1>3, <2>2, <3>1, <3>2
  <2> QED
    BY <2>1, <2>2
<1> QED
  BY <1>0, <1>4, <1>5, <1>6 DEF c

\* What pushing e to the front makes.
LEMMA PushProperties ==
  ASSUME NEW S, NEW s \in Seq(S), NEW e \in S
  PROVE  /\ <<e>> \o s \in Seq(S)
         /\ Len(<<e>> \o s) = Len(s) + 1
         /\ (<<e>> \o s)[1] = e
         /\ \A j \in 2..(Len(s) + 1) : (<<e>> \o s)[j] = s[j - 1]
<1>1. <<e>> \in Seq(S) /\ Len(<<e>>) = 1 /\ <<e>>[1] = e
  OBVIOUS
<1>2. Len(s) \in Nat
  OBVIOUS
<1> DEFINE h == <<e>>
<1> HIDE DEF h
<1>3. h \in Seq(S) /\ Len(h) = 1 /\ h[1] = e
  BY <1>1 DEF h
<1> DEFINE c == h \o s
<1>4. /\ c \in Seq(S)
      /\ Len(c) = Len(h) + Len(s)
      /\ \A j \in 1..(Len(h) + Len(s)) : c[j] = IF j <= Len(h) THEN h[j] ELSE s[j - Len(h)]
  BY <1>3, ConcatProperties, Zenon
<1> HIDE DEF c
<1>5. Len(c) = Len(s) + 1 /\ c[1] = e /\ \A j \in 2..(Len(s) + 1) : c[j] = s[j - 1]
  BY <1>2, <1>3, <1>4
<1> QED
  BY <1>4, <1>5 DEF c, h

\* Dropping the last element is removing at Len(s).
LEMMA FrontIsRemoveAt ==
  ASSUME NEW S, NEW s \in Seq(S), Len(s) > 0
  PROVE  Front(s) = RemoveAt(s, Len(s))
<1> DEFINE b == SubSeq(s, Len(s) + 1, Len(s))
<1>1. Len(s) \in Nat /\ Front(s) \in Seq(S)
  BY DEF Front
<1>2. b = << >>
  BY <1>1
<1>3. RemoveAt(s, Len(s)) = Front(s) \o b
  BY DEF RemoveAt, Front
<1> QED
  BY <1>1, <1>2, <1>3

\* A list of n different elements holds n elements.
LEMMA DistinctSize ==
  ASSUME NEW n \in Nat, NEW T, NEW f \in [1..n -> T],
         \A i, j \in 1..n : f[i] = f[j] => i = j,
         \A x \in T : \E i \in 1..n : f[i] = x
  PROVE  IsFiniteSet(T) /\ Cardinality(T) = n
<1>1. f \in Surjection(1..n, T) /\ f \in Injection(1..n, T)
  BY DEF Surjection, Injection, IsInjective
<1>2. IsFiniteSet(1..n) /\ Cardinality(1..n) = n
  BY FS_Interval
<1> QED
  BY <1>1, <1>2, FS_Surjection

-----------------------------------------------------------------------------
(***************************************************************************)
(* Scan caches                                                             *)
(***************************************************************************)
\* While Set holds the lock to evict, the entries it has still to visit are
\* in the map, and oldestKey is a visited one with the oldest stamp of the
\* visited.
ScanLoop ==
  /\ scan \in Scans
  /\ scan.todo \subseteq DOMAIN table
  /\ DOMAIN table # {}
  /\ scan.oldest = NoEntry => scan.todo = DOMAIN table
  /\ scan.oldest # NoEntry =>
       /\ scan.oldest.key \in DOMAIN table
       /\ scan.oldest.stamp = table[scan.oldest.key].stamp
       /\ \A k \in DOMAIN table \ scan.todo : scan.oldest.stamp <= table[k].stamp

\* The map never outgrows its limit, and a lookup is in progress only in the
\* fingerprint cache.
ScanInv ==
  /\ flavour \in Flavours
  /\ table = [k \in DOMAIN table |-> table[k]]
  /\ DOMAIN table \subseteq Key
  /\ \A k \in DOMAIN table : table[k] \in Stamped
  /\ IsFiniteSet(DOMAIN table)
  /\ Cardinality(DOMAIN table) <= MaxEntries
  /\ clock \in Nat
  /\ found # NoEntry => flavour = "fingerprint" /\ Key # {}
  /\ scan # NoEntry => ScanLoop

LEMMA ScanInitInv == ScanInit => ScanInv
<1> SUFFICES ASSUME ScanInit PROVE ScanInv
  OBVIOUS
<1> USE DEF ScanInit
<1>1. DOMAIN table = {} /\ table = [k \in DOMAIN table |-> table[k]]
  OBVIOUS
<1>2. IsFiniteSet({}) /\ Cardinality({}) = 0
  BY FS_EmptySet
<1> QED
  BY <1>1, <1>2, ScanAssumption DEF ScanInv, Flavours

\* A Set that evicts one entry keeps the map finite and does not let it grow.
LEMMA StoreSize ==
  ASSUME NEW D, IsFiniteSet(D), NEW k, NEW o \in D
  PROVE  /\ IsFiniteSet((D \ {o}) \union {k})
         /\ Cardinality((D \ {o}) \union {k}) <= Cardinality(D)
<1>1. Cardinality(D) \in Nat
  BY FS_CardinalityType
<1>2. IsFiniteSet(D \ {o}) /\ Cardinality(D \ {o}) = Cardinality(D) - 1
  BY FS_RemoveElement
<1>3. /\ IsFiniteSet((D \ {o}) \union {k})
      /\ \/ Cardinality((D \ {o}) \union {k}) = Cardinality(D \ {o})
         \/ Cardinality((D \ {o}) \union {k}) = Cardinality(D \ {o}) + 1
  BY <1>2, FS_AddElement
<1> QED
  BY <1>1, <1>2, <1>3

\* A Set that does not evict adds at most one entry.
LEMMA AddSize ==
  ASSUME NEW D, IsFiniteSet(D), NEW k
  PROVE  /\ IsFiniteSet(D \union {k})
         /\ Cardinality(D \union {k}) <= Cardinality(D) + 1
<1>1. Cardinality(D) \in Nat
  BY FS_CardinalityType
<1> QED
  BY <1>1, FS_AddElement

\* What Store leaves in the map, as long as there is room for it.
LEMMA StoreKeeps ==
  ASSUME ScanInv, NEW k \in Key, NEW v \in Value, NEW t \in Nat,
         NEW K \in SUBSET DOMAIN table, Store(K, k, v, t),
         K = {} => Cardinality(DOMAIN table) < MaxEntries,
         \A x, y \in K : x = y
  PROVE  /\ table' = [x \in DOMAIN table' |-> table'[x]]
         /\ DOMAIN table' = (DOMAIN table \ K) \union {k}
         /\ DOMAIN table' \subseteq Key
         /\ \A x \in DOMAIN table' : table'[x] \in Stamped
         /\ IsFiniteSet(DOMAIN table')
         /\ Cardinality(DOMAIN table') <= MaxEntries
<1>1. Cardinality(DOMAIN table) \in Nat
  BY FS_CardinalityType DEF ScanInv
<1> DEFINE e == [value |-> v, stamp |-> IF flavour = "compression" THEN t ELSE clock]
<1>2. e \in Stamped
  BY DEF Stamped, ScanInv
<1>3. table' = [x \in (DOMAIN table \ K) \union {k} |-> IF x = k THEN e ELSE table[x]]
  BY DEF Store
<1> HIDE DEF e
<1>4. /\ table' = [x \in DOMAIN table' |-> table'[x]]
      /\ DOMAIN table' = (DOMAIN table \ K) \union {k}
      /\ DOMAIN table' \subseteq Key
      /\ \A x \in DOMAIN table' : table'[x] \in Stamped
  BY <1>2, <1>3 DEF ScanInv
<1> DEFINE D == DOMAIN table
<1>5. IsFiniteSet(D) /\ Cardinality(D) <= MaxEntries /\ Cardinality(D) \in Nat
  BY <1>1 DEF ScanInv
<1>6. CASE K = {}
  <2>1. DOMAIN table' = D \union {k}
    BY <1>4, <1>6
  <2>2. Cardinality(D) < MaxEntries
    BY <1>6
  <2> HIDE DEF D
  <2>3. IsFiniteSet(D \union {k}) /\ Cardinality(D \union {k}) <= Cardinality(D) + 1
    BY <1>5, AddSize
  <2>4. Cardinality(D \union {k}) \in Nat
    BY <2>3, FS_CardinalityType
  <2>5. Cardinality(D \union {k}) <= MaxEntries
    BY <1>5, <2>2, <2>3, <2>4, ScanAssumption
  <2> QED
    BY <1>4, <2>1, <2>3, <2>5
<1>7. CASE K # {}
  <2>1. PICK o \in K : K = {o}
    BY <1>7
  <2>2. o \in D /\ DOMAIN table' = (D \ {o}) \union {k}
    BY <1>4, <2>1
  <2> HIDE DEF D
  <2>3. /\ IsFiniteSet((D \ {o}) \union {k})
        /\ Cardinality((D \ {o}) \union {k}) <= Cardinality(D)
    BY <1>5, <2>2, StoreSize
  <2>4. Cardinality((D \ {o}) \union {k}) \in Nat
    BY <2>3, FS_CardinalityType
  <2>5. Cardinality((D \ {o}) \union {k}) <= MaxEntries
    BY <1>5, <2>3, <2>4, ScanAssumption
  <2> QED
    BY <1>4, <2>2, <2>3, <2>5
<1> QED
  BY <1>6, <1>7

\* What the end of the loop has found: a key of the map with the oldest stamp.
LEMMA ScanFindsOldest ==
  ASSUME ScanInv, ScanEvict
  PROVE  /\ scan \in Scans
         /\ scan.oldest # NoEntry
         /\ scan.oldest.key \in DOMAIN table
         /\ \A k \in DOMAIN table : table[scan.oldest.key].stamp <= table[k].stamp
  BY DEF ScanInv, ScanLoop, ScanEvict, Unlocked

\* What ScanEvict does, in terms of Store.
LEMMA ScanEvicts ==
  ASSUME ScanInv, ScanEvict
  PROVE  /\ scan.key \in Key /\ scan.value \in Value /\ scan.stamp \in Nat
         /\ {scan.oldest.key} \in SUBSET DOMAIN table
         /\ Store({scan.oldest.key}, scan.key, scan.value, scan.stamp)
<1>1. scan \in Scans /\ scan.oldest # NoEntry /\ scan.oldest.key \in DOMAIN table
  BY ScanFindsOldest
<1>2. Store({scan.oldest.key}, scan.key, scan.value, scan.stamp)
  BY <1>1 DEF ScanEvict
<1> QED
  BY <1>1, <1>2 DEF Scans

\* One turn of the loop keeps oldestKey the oldest of the visited entries.
LEMMA ScanVisitKeeps ==
  ASSUME ScanInv, NEW k \in Key, ScanVisit(k)
  PROVE  scan' \in Scans /\ ScanLoop'
<1>1. scan # NoEntry /\ ScanLoop /\ k \in scan.todo
  BY DEF ScanVisit, Unlocked, ScanInv
<1>2. k \in DOMAIN table /\ table[k].stamp \in Nat
  BY <1>1 DEF ScanLoop, ScanInv, Stamped
<1> DEFINE o == IF scan.oldest = NoEntry \/ table[k].stamp < scan.oldest.stamp
                  THEN [key |-> k, stamp |-> table[k].stamp] ELSE scan.oldest
<1>3. o \in OldestSoFar
  BY <1>1, <1>2 DEF ScanLoop, Scans, OldestSoFar
<1>4. scan' = [scan EXCEPT !.todo = scan.todo \ {k}, !.oldest = o]
  BY DEF ScanVisit
<1>5. o # NoEntry
  BY <1>3, ScanAssumption
<1>6. /\ o.key \in DOMAIN table
      /\ o.stamp = table[o.key].stamp
  BY <1>1, <1>2 DEF ScanLoop
<1>7. \A x \in DOMAIN table \ (scan.todo \ {k}) : o.stamp <= table[x].stamp
  <2> TAKE x \in DOMAIN table \ (scan.todo \ {k})
  <2>1. table[x].stamp \in Nat
    BY DEF ScanInv, Stamped
  <2>2. CASE scan.oldest = NoEntry
    <3>1. x = k
      BY <1>1, <2>2 DEF ScanLoop
    <3> QED
      BY <1>2, <2>2, <3>1
  <2>3. CASE scan.oldest # NoEntry
    <3>1. scan.oldest.stamp \in Nat
      BY <1>1, <2>3 DEF ScanLoop, Scans, OldestSoFar
    <3>2. x = k \/ scan.oldest.stamp <= table[x].stamp
      BY <1>1, <2>3 DEF ScanLoop
    <3> QED
      BY <1>2, <2>1, <2>3, <3>1, <3>2
  <2> QED
    BY <2>2, <2>3
<1> HIDE DEF o
<1>8. /\ scan' \in Scans
      /\ scan'.todo = scan.todo \ {k}
      /\ scan'.oldest = o
  BY <1>1, <1>3, <1>4 DEF ScanLoop, Scans
<1>9. UNCHANGED <<flavour, table, clock, found>>
  BY DEF ScanVisit
<1>10. ScanLoop'
  BY <1>1, <1>5, <1>6, <1>7, <1>8, <1>9 DEF ScanLoop
<1> QED
  BY <1>8, <1>10

\* A time that a store may be given.
LEMMA StampIsPast ==
  ASSUME ScanInv, NEW t \in (IF flavour = "compression" THEN 0..clock ELSE {clock})
  PROVE  t \in 0..clock
<1>1. clock \in Nat
  BY DEF ScanInv
<1> QED
  BY <1>1

LEMMA ScanNextInv == ScanInv /\ [ScanNext]_scanVars => ScanInv'
<1> SUFFICES ASSUME ScanInv, [ScanNext]_scanVars PROVE ScanInv'
  OBVIOUS
<1>1. ASSUME NEW k \in Key, FingerprintLookup(k) \/ MapMiss(k) PROVE ScanInv'
  BY <1>1 DEF FingerprintLookup, MapMiss, Unlocked, ScanInv
<1>2. ASSUME NEW k \in Key, MapGet(k) PROVE ScanInv'
  <2>1. CASE flavour = "file"
    <3>1. table' = [table EXCEPT ![k].stamp = clock]
      BY <1>2, <2>1 DEF MapGet
    <3>2. table[k] \in Stamped /\ clock \in Nat
      BY <1>2 DEF MapGet, ScanInv
    <3>3. [table[k] EXCEPT !.stamp = clock] \in Stamped
      BY <3>2 DEF Stamped
    <3>4. /\ DOMAIN table' = DOMAIN table
          /\ table' = [x \in DOMAIN table' |-> table'[x]]
          /\ \A x \in DOMAIN table' : table'[x] \in Stamped
      BY <3>1, <3>3 DEF ScanInv
    <3> QED
      BY <1>2, <3>4 DEF MapGet, Unlocked, ScanInv
  <2>2. CASE flavour # "file"
    BY <1>2, <2>2 DEF MapGet, Unlocked, ScanInv
  <2> QED
    BY <2>1, <2>2
<1>3. CASE FingerprintAnswer
  BY <1>3 DEF FingerprintAnswer, ScanInv, ScanLoop
<1>4. ASSUME NEW k \in Key, NEW v \in Value, NEW t \in 0..clock, ScanSet(k, v, t)
      PROVE  ScanInv'
  <2>0. Cardinality(DOMAIN table) \in Nat /\ t \in Nat
    BY FS_CardinalityType DEF ScanInv
  <2>1. CASE Cardinality(DOMAIN table) >= MaxEntries
    <3>1. /\ scan' = [key |-> k, value |-> v, stamp |-> t, todo |-> DOMAIN table,
                      oldest |-> NoEntry]
          /\ UNCHANGED <<table, flavour, clock, found>>
      BY <1>4, <2>1 DEF ScanSet, BeginScan
    <3>2. scan' \in Scans
      BY <2>0, <3>1 DEF Scans, ScanInv
    <3>3. DOMAIN table # {}
      <4>1. ASSUME DOMAIN table = {} PROVE FALSE
        BY <2>0, <2>1, <4>1, FS_EmptySet, ScanAssumption
      <4> QED
        BY <4>1
    <3>4. ScanLoop'
      BY <3>1, <3>2, <3>3 DEF ScanLoop
    <3> QED
      BY <3>1, <3>4 DEF ScanInv
  <2>2. CASE ~(Cardinality(DOMAIN table) >= MaxEntries)
    <3>1. Store({}, k, v, t) /\ UNCHANGED <<scan, flavour, clock, found>>
      BY <1>4, <2>2 DEF ScanSet
    <3>2. Cardinality(DOMAIN table) < MaxEntries
      BY <2>0, <2>2, ScanAssumption
    <3>3. /\ table' = [x \in DOMAIN table' |-> table'[x]]
          /\ DOMAIN table' \subseteq Key
          /\ \A x \in DOMAIN table' : table'[x] \in Stamped
          /\ IsFiniteSet(DOMAIN table')
          /\ Cardinality(DOMAIN table') <= MaxEntries
      <4>1. {} \in SUBSET DOMAIN table /\ \A x, y \in {} : x = y
        OBVIOUS
      <4>2. ScanInv
        OBVIOUS
      <4> QED
        BY <2>0, <3>1, <3>2, <4>1, <4>2, StoreKeeps
    <3> QED
      BY <1>4, <3>1, <3>3 DEF ScanSet, Unlocked, ScanInv
  <2> QED
    BY <2>1, <2>2
<1>5. ASSUME NEW k \in Key, ScanVisit(k) PROVE ScanInv'
  <2>1. ScanLoop'
    BY <1>5, ScanVisitKeeps
  <2> QED
    BY <1>5, <2>1 DEF ScanVisit, ScanInv
<1>6. CASE ScanEvict
  <2>1. /\ scan.key \in Key /\ scan.value \in Value /\ scan.stamp \in Nat
        /\ {scan.oldest.key} \in SUBSET DOMAIN table
        /\ Store({scan.oldest.key}, scan.key, scan.value, scan.stamp)
    BY <1>6, ScanEvicts
  <2>2. /\ table' = [x \in DOMAIN table' |-> table'[x]]
        /\ DOMAIN table' \subseteq Key
        /\ \A x \in DOMAIN table' : table'[x] \in Stamped
        /\ IsFiniteSet(DOMAIN table')
        /\ Cardinality(DOMAIN table') <= MaxEntries
    BY <2>1, StoreKeeps
  <2> QED
    BY <1>6, <2>2 DEF ScanEvict, ScanInv
<1>7. CASE ScanPrune
  <2> DEFINE D == DOMAIN table \ {k \in DOMAIN table : clock > table[k].stamp + EntryTTL}
  <2>1. table' = [k \in D |-> table[k]]
    BY <1>7 DEF ScanPrune, Without, Restrict
  <2>2. D \subseteq DOMAIN table
    OBVIOUS
  <2> HIDE DEF D
  <2>3. IsFiniteSet(D) /\ Cardinality(D) <= Cardinality(DOMAIN table)
    BY <2>2, FS_Subset DEF ScanInv
  <2>4. Cardinality(D) \in Nat /\ Cardinality(DOMAIN table) \in Nat
    BY <2>3, FS_CardinalityType DEF ScanInv
  <2>5. IsFiniteSet(DOMAIN table') /\ Cardinality(DOMAIN table') <= MaxEntries
    BY <2>1, <2>3, <2>4, ScanAssumption DEF ScanInv
  <2> QED
    BY <1>7, <2>1, <2>2, <2>5 DEF ScanPrune, Unlocked, ScanInv
<1>8. CASE ScanClear
  <2>1. DOMAIN table' = {} /\ table' = [k \in DOMAIN table' |-> table'[k]]
    BY <1>8 DEF ScanClear
  <2>2. IsFiniteSet(DOMAIN table') /\ Cardinality(DOMAIN table') = 0
    BY <2>1, FS_EmptySet
  <2> QED
    BY <1>8, <2>1, <2>2, ScanAssumption DEF ScanClear, Unlocked, ScanInv
<1>9. CASE ScanTick
  BY <1>9 DEF ScanTick, ScanInv, ScanLoop
<1>10. CASE UNCHANGED scanVars
  BY <1>10 DEF scanVars, ScanInv, ScanLoop
<1> QED
  BY <1>1, <1>2, <1>3, <1>4, <1>5, <1>6, <1>7, <1>8, <1>9, <1>10, StampIsPast DEF ScanNext

\* The three scan caches keep their invariant in every state.
LEMMA ScanInvariance == ScanSpec => []ScanInv
  BY ScanInitInv, ScanNextInv, PTL DEF ScanSpec

\* The loop of evictOldest and evict, which compares one entry of the map at a
\* time in any order, finds an entry no younger than any other, for any number
\* of entries: whatever Set evicts is no younger than what stays.
THEOREM EvictionIsByAge == ScanSpec => EvictsOldestStamp
<1> DEFINE Aged ==
      scan # NoEntry /\ scan' = NoEntry =>
        \A gone \in DOMAIN table \ DOMAIN table' :
          \A k \in DOMAIN table' \ {scan.key} : table[gone].stamp <= table[k].stamp
<1>1. ASSUME ScanInv, [ScanNext]_scanVars PROVE [Aged]_scanVars
  <2> SUFFICES ASSUME scan # NoEntry, scan' = NoEntry, ScanNext,
                      NEW gone \in DOMAIN table \ DOMAIN table',
                      NEW k \in DOMAIN table' \ {scan.key}
               PROVE  table[gone].stamp <= table[k].stamp
    BY <1>1 DEF scanVars
  <2>1. ASSUME NEW j \in Key, ScanVisit(j) PROVE FALSE
    BY <1>1, <2>1, ScanVisitKeeps, ScanAssumption
  <2>2. ScanEvict
    BY <2>1 DEF ScanNext, FingerprintLookup, FingerprintAnswer, MapGet, MapMiss, ScanSet,
               ScanPrune, ScanClear, ScanTick, Unlocked
  <2>3. /\ {scan.oldest.key} \in SUBSET DOMAIN table
        /\ Store({scan.oldest.key}, scan.key, scan.value, scan.stamp)
    BY <1>1, <2>2, ScanEvicts
  <2>4. gone = scan.oldest.key /\ k \in DOMAIN table
    BY <2>3 DEF Store
  <2> QED
    BY <1>1, <2>2, <2>4, ScanFindsOldest
<1> QED
  BY <1>1, ScanInvariance, PTL DEF ScanSpec, EvictsOldestStamp

\* The fingerprint cache, CompressionCache and FileCache implement the bounded
\* cache: never more than their limit, and a lookup answers with the value
\* stored last under the key or with a miss.
THEOREM ScanRefinesBoundedCache == ScanSpec => ScanImplementsBoundedCache
<1>1. ScanInit => ScanStore!Init
  BY DEF ScanInit, ScanStore!Init, shownStore, shownAnswer
<1>2. ASSUME ScanInv, [ScanNext]_scanVars
      PROVE  [ScanStore!Next]_<<shownStore, shownAnswer>>
  <2>1. CASE UNCHANGED scanVars
    BY <2>1 DEF scanVars, shownStore, shownAnswer
  <2> SUFFICES ASSUME ScanNext
               PROVE  ScanStore!Next \/ UNCHANGED <<shownStore, shownAnswer>>
    BY <1>2, <2>1
  <2>2. ASSUME UNCHANGED table PROVE UNCHANGED shownStore
    BY <2>2 DEF shownStore
  <2>3. ASSUME UNCHANGED <<found, reply>> PROVE UNCHANGED shownAnswer
    BY <2>3 DEF shownAnswer
  <2>4. ASSUME UNCHANGED table PROVE shownStore' = ScanStore!Drop({})
    BY <2>4 DEF shownStore, ScanStore!Drop, ScanStore!Restrict
  <2>5. ASSUME NEW k \in Key, FingerprintLookup(k) PROVE ScanStore!Get(k)
    <3>1. k \in DOMAIN shownStore /\ shownStore[k] = table[k].value
      BY <2>5 DEF FingerprintLookup, shownStore
    <3>2. found' # NoEntry
      BY <1>2, <2>5, ScanAssumption DEF FingerprintLookup, ScanInv
    <3>3. shownAnswer' = table[k].value
      BY <2>5, <3>2 DEF FingerprintLookup, shownAnswer
    <3>4. UNCHANGED shownStore
      BY <2>2, <2>5 DEF FingerprintLookup
    <3> QED
      BY <3>1, <3>3, <3>4 DEF ScanStore!Get
  <2>6. CASE FingerprintAnswer
    <3>1. UNCHANGED shownStore /\ shownStore' = ScanStore!Drop({})
      BY <2>2, <2>4, <2>6 DEF FingerprintAnswer
    <3>2. shownAnswer = found.value /\ shownAnswer' = reply'
      BY <2>6 DEF FingerprintAnswer, shownAnswer
    <3>3. CASE reply' = found.value
      BY <3>1, <3>2, <3>3
    <3>4. CASE reply' = Miss
      <4>1. PICK k \in Key : TRUE
        BY <1>2, <2>6 DEF ScanInv, FingerprintAnswer
      <4>2. {} \in SUBSET {k}
        OBVIOUS
      <4>3. ScanStore!Get(k)
        BY <3>1, <3>2, <3>4, <4>2 DEF ScanStore!Get
      <4> QED
        BY <4>3 DEF ScanStore!Next
    <3> QED
      BY <2>6, <3>3, <3>4 DEF FingerprintAnswer
  <2>7. ASSUME NEW k \in Key, MapGet(k) PROVE ScanStore!Get(k) \/ UNCHANGED <<shownStore, shownAnswer>>
    <3>1. k \in DOMAIN shownStore /\ shownStore[k] = table[k].value
      BY <2>7 DEF MapGet, shownStore
    <3>2. DOMAIN table' = DOMAIN table
      BY <2>7 DEF MapGet
    <3>3. ASSUME NEW x \in DOMAIN table PROVE table'[x].value = table[x].value
      <4>1. table[x] \in Stamped
        BY <1>2 DEF ScanInv
      <4> QED
        BY <2>7, <4>1 DEF MapGet, Stamped
    <3>4. UNCHANGED shownStore
      BY <3>2, <3>3 DEF shownStore
    <3>5. found = NoEntry
      BY <1>2, <2>7 DEF ScanInv, MapGet
    <3>6. shownAnswer' = table[k].value
      BY <2>7, <3>5 DEF MapGet, shownAnswer
    <3> QED
      BY <3>1, <3>4, <3>6 DEF ScanStore!Get
  <2>8. ASSUME NEW k \in Key, MapMiss(k) PROVE ScanStore!Get(k)
    <3>1. shownAnswer' = Miss
      BY <2>8 DEF MapMiss, shownAnswer
    <3>2. shownStore' = ScanStore!Drop({})
      BY <2>4, <2>8 DEF MapMiss
    <3>3. {} \in SUBSET {k}
      OBVIOUS
    <3> QED
      BY <3>1, <3>2, <3>3 DEF ScanStore!Get
  <2>9. ASSUME NEW k \in Key, NEW v \in Value, NEW t \in Nat, NEW K \in SUBSET DOMAIN table,
               Store(K, k, v, t), Cardinality(DOMAIN table') <= MaxEntries,
               DOMAIN table' = (DOMAIN table \ K) \union {k},
               UNCHANGED <<found, reply>>
        PROVE  ScanStore!Put(k, v)
    <3>1. K \in SUBSET (DOMAIN shownStore)
      BY DEF shownStore
    <3>2. shownStore' = [x \in (DOMAIN shownStore \ K) \union {k} |->
                           IF x = k THEN v ELSE shownStore[x]]
      BY <2>9 DEF Store, shownStore
    <3>3. ScanStore!Cardinality(DOMAIN shownStore') <= MaxEntries
      BY <2>9 DEF shownStore, Cardinality, ScanStore!Cardinality
    <3>4. UNCHANGED shownAnswer
      BY <2>3, <2>9
    <3>5. \E E \in SUBSET (DOMAIN shownStore) :
            shownStore' = [x \in (DOMAIN shownStore \ E) \union {k} |->
                             IF x = k THEN v ELSE shownStore[x]]
      BY <3>1, <3>2, Zenon
    <3> QED
      BY <3>3, <3>4, <3>5 DEF ScanStore!Put
  <2>10. ASSUME NEW k \in Key, NEW v \in Value, NEW t \in 0..clock, ScanSet(k, v, t)
         PROVE  ScanStore!Put(k, v) \/ UNCHANGED <<shownStore, shownAnswer>>
    <3>1. CASE Cardinality(DOMAIN table) >= MaxEntries
      BY <2>2, <2>3, <2>10, <3>1 DEF ScanSet
    <3>2. CASE ~(Cardinality(DOMAIN table) >= MaxEntries)
      <4>1. Store({}, k, v, t) /\ t \in Nat /\ UNCHANGED <<found, reply>>
        BY <1>2, <2>10, <3>2 DEF ScanSet, ScanInv
      <4>2. Cardinality(DOMAIN table) < MaxEntries
        BY <1>2, <3>2, FS_CardinalityType, ScanAssumption DEF ScanInv
      <4>3. /\ Cardinality(DOMAIN table') <= MaxEntries
            /\ DOMAIN table' = (DOMAIN table \ {}) \union {k}
        <5> DEFINE K == {}
        <5>1. K \in SUBSET DOMAIN table /\ (\A x, y \in K : x = y) /\ Store(K, k, v, t)
          BY <4>1
        <5> HIDE DEF K
        <5>2. /\ Cardinality(DOMAIN table') <= MaxEntries
              /\ DOMAIN table' = (DOMAIN table \ K) \union {k}
          BY <1>2, <4>1, <4>2, <5>1, StoreKeeps
        <5> QED
          BY <5>2 DEF K
      <4> QED
        BY <2>9, <4>1, <4>3
    <3> QED
      BY <3>1, <3>2
  <2>11. ASSUME NEW k \in Key, ScanVisit(k) PROVE UNCHANGED <<shownStore, shownAnswer>>
    BY <2>2, <2>3, <2>11 DEF ScanVisit
  <2>12. CASE ScanEvict
    <3>1. /\ scan.key \in Key /\ scan.value \in Value /\ scan.stamp \in Nat
          /\ {scan.oldest.key} \in SUBSET DOMAIN table
          /\ Store({scan.oldest.key}, scan.key, scan.value, scan.stamp)
      BY <1>2, <2>12, ScanEvicts
    <3>2. /\ Cardinality(DOMAIN table') <= MaxEntries
          /\ DOMAIN table' = (DOMAIN table \ {scan.oldest.key}) \union {scan.key}
      <4> DEFINE K == {scan.oldest.key}
      <4>1. K # {} /\ \A x, y \in K : x = y
        OBVIOUS
      <4>2. K \in SUBSET DOMAIN table /\ Store(K, scan.key, scan.value, scan.stamp)
        BY <3>1
      <4> HIDE DEF K
      <4>3. /\ Cardinality(DOMAIN table') <= MaxEntries
            /\ DOMAIN table' = (DOMAIN table \ K) \union {scan.key}
        BY <1>2, <3>1, <4>1, <4>2, StoreKeeps
      <4> QED
        BY <4>3 DEF K
    <3>3. UNCHANGED <<found, reply>>
      BY <2>12 DEF ScanEvict
    <3>4. ScanStore!Put(scan.key, scan.value)
      BY <2>9, <3>1, <3>2, <3>3
    <3> QED
      BY <3>1, <3>4 DEF ScanStore!Next
  <2>13. CASE ScanPrune \/ ScanClear
    <3>1. PICK D \in SUBSET DOMAIN table : table' = [x \in DOMAIN table \ D |-> table[x]]
      <4>1. CASE ScanPrune
        <5> DEFINE D == {k \in DOMAIN table : clock > table[k].stamp + EntryTTL}
        <5>1. D \in SUBSET DOMAIN table /\ table' = [x \in DOMAIN table \ D |-> table[x]]
          BY <4>1 DEF ScanPrune, Without, Restrict
        <5> QED
          BY <5>1
      <4>2. CASE ScanClear
        <5>1. table' = [x \in DOMAIN table \ DOMAIN table |-> table[x]]
          BY <4>2 DEF ScanClear
        <5> QED
          BY <5>1
      <4> QED
        BY <2>13, <4>1, <4>2
    <3>2. D \in SUBSET DOMAIN shownStore
      BY DEF shownStore
    <3>3. shownStore' = ScanStore!Drop(D)
      BY <3>1 DEF shownStore, ScanStore!Drop, ScanStore!Restrict
    <3>4. UNCHANGED shownAnswer
      BY <2>3, <2>13 DEF ScanPrune, ScanClear
    <3> QED
      BY <3>2, <3>3, <3>4 DEF ScanStore!Next, ScanStore!Forget
  <2>14. CASE ScanTick
    BY <2>2, <2>3, <2>14 DEF ScanTick
  <2> QED
    BY <1>2, <2>5, <2>6, <2>7, <2>8, <2>10, <2>11, <2>12, <2>13, <2>14, StampIsPast
    DEF ScanNext, ScanStore!Next
<1> QED
  BY <1>1, <1>2, ScanInvariance, PTL DEF ScanSpec, ScanStore!Spec, ScanImplementsBoundedCache

-----------------------------------------------------------------------------
(***************************************************************************)
(* MCP hash cache                                                          *)
(***************************************************************************)
\* The entries of s have different keys.
DistinctKeys(s) == \A i, j \in 1..Len(s) : s[i].key = s[j].key => i = j

\* The map, the list and the count of the MCP hash cache agree.
Agreed(c) ==
  /\ c = [index |-> c.index, lru |-> c.lru, mem |-> c.mem]
  /\ c.lru \in Seq(Item) /\ DistinctKeys(c.lru)
  /\ c.index = KeysOf(c.lru)
  /\ c.mem = MemOf(c.lru)

HashInv == Agreed(Held) /\ limits \in HashLimits

LEMMA ItemTypes == \A x \in Item : x.key \in Key /\ x.size \in Nat /\ x.size > 0
<1>1. \A z \in Sizes : z \in Nat /\ z > 0
  BY HashAssumption
<1> QED
  BY <1>1 DEF Item

LEMMA MemOfEmpty == MemOf(<< >>) = 0
<1>1. DOMAIN << >> = {}
  OBVIOUS
<1> QED
  BY <1>1, SumOfNone DEF MemOf

\* The memory of a list and an entry more.
LEMMA MemOfAppend ==
  ASSUME NEW s \in Seq(Item), NEW x \in Item
  PROVE  MemOf(s) \in Nat /\ MemOf(Append(s, x)) = MemOf(s) + x.size
<1> DEFINE w(t) == [i \in DOMAIN t |-> t[i].size]
           n == Len(s)
           D == 1..n
<1>1. n \in Nat /\ DOMAIN s = D /\ DOMAIN Append(s, x) = D \union {n + 1} /\ n + 1 \notin D
  OBVIOUS
<1>2. \A i \in D : w(s)[i] \in Nat /\ w(Append(s, x))[i] = w(s)[i]
  BY <1>1, ItemTypes
<1>3. w(Append(s, x))[n + 1] = x.size /\ x.size \in Nat
  BY <1>1, ItemTypes
<1>4. MemOf(s) = SumFunctionOnSet(w(s), D)
  BY <1>1 DEF MemOf
<1>5. MemOf(Append(s, x)) = SumFunctionOnSet(w(Append(s, x)), D \union {n + 1})
  BY <1>1 DEF MemOf
<1>6. IsFiniteSet(D)
  BY <1>1, FS_Interval
<1> DEFINE v == w(s)
           u == w(Append(s, x))
<1>a. \A i \in D : v[i] \in Nat /\ u[i] = v[i]
  BY <1>2
<1>b. u[n + 1] = x.size
  BY <1>3
<1>c. MemOf(s) = SumFunctionOnSet(v, D) /\ MemOf(Append(s, x)) = SumFunctionOnSet(u, D \union {n + 1})
  BY <1>4, <1>5
<1> HIDE DEF v, u, D, w
<1>7. Ints(v, D) /\ Ints(u, D) /\ u[n + 1] \in Int
  BY <1>a, <1>b, <1>3 DEF Ints
<1>8. SumFunctionOnSet(v, D) \in Nat
  BY <1>6, <1>a, SumIsNat
<1>9. SumFunctionOnSet(u, D) = SumFunctionOnSet(v, D)
  BY <1>6, <1>7, <1>a, SumAgrees
<1>10. SumFunctionOnSet(u, D \union {n + 1}) = u[n + 1] + SumFunctionOnSet(u, D)
  BY <1>1, <1>6, <1>7, SumAdds
<1> QED
  BY <1>3, <1>b, <1>c, <1>8, <1>9, <1>10

LEMMA MemOfType == ASSUME NEW s \in Seq(Item) PROVE MemOf(s) \in Nat
<1> DEFINE P == {t \in Seq(Item) : MemOf(t) \in Nat}
<1>1. << >> \in P
  BY MemOfEmpty
<1>2. ASSUME NEW t \in Seq(Item), NEW x \in Item, t \in P PROVE Append(t, x) \in P
  BY <1>2, MemOfAppend, ItemTypes
<1> HIDE DEF P
<1>3. s \in P
  BY <1>1, <1>2, PrefixInduction
<1> QED
  BY <1>3 DEF P

LEMMA MemOfConcat ==
  ASSUME NEW s \in Seq(Item), NEW t \in Seq(Item)
  PROVE  MemOf(s \o t) = MemOf(s) + MemOf(t)
<1> DEFINE P == {u \in Seq(Item) : MemOf(s \o u) = MemOf(s) + MemOf(u)}
<1>1. << >> \in P
  <2>1. s \o << >> = s /\ MemOf(s) \in Nat
    BY MemOfType, ConcatEmptySeq
  <2> QED
    BY <2>1, MemOfEmpty
<1>2. ASSUME NEW u \in Seq(Item), NEW x \in Item, u \in P PROVE Append(u, x) \in P
  <2>1. s \o Append(u, x) = Append(s \o u, x) /\ s \o u \in Seq(Item) /\ Append(u, x) \in Seq(Item)
    OBVIOUS
  <2>2. MemOf(s) \in Nat /\ MemOf(u) \in Nat /\ x.size \in Nat
    BY MemOfType, ItemTypes
  <2>3. MemOf(Append(s \o u, x)) = MemOf(s \o u) + x.size /\ MemOf(Append(u, x)) = MemOf(u) + x.size
    BY <2>1, MemOfAppend
  <2>4. MemOf(s \o u) = MemOf(s) + MemOf(u)
    BY <1>2
  <2>5. MemOf(s \o Append(u, x)) = MemOf(s) + MemOf(Append(u, x))
    BY <2>1, <2>2, <2>3, <2>4
  <2> QED
    BY <2>1, <2>5
<1> HIDE DEF P
<1>3. t \in P
  BY <1>1, <1>2, PrefixInduction
<1> QED
  BY <1>3 DEF P

LEMMA MemOfOne == ASSUME NEW x \in Item PROVE MemOf(<<x>>) = x.size
<1>1. << >> \in Seq(Item) /\ Append(<< >>, x) = <<x>> /\ x.size \in Nat
  BY ItemTypes
<1>2. MemOf(Append(<< >>, x)) = MemOf(<< >>) + x.size
  BY <1>1, MemOfAppend
<1> QED
  BY <1>1, <1>2, MemOfEmpty

\* A list is its first n entries and the others.
LEMMA Cut ==
  ASSUME NEW s \in Seq(Item), NEW n \in 0..Len(s)
  PROVE  /\ SubSeq(s, 1, n) \in Seq(Item) /\ SubSeq(s, n + 1, Len(s)) \in Seq(Item)
         /\ Len(SubSeq(s, 1, n)) = n /\ Len(SubSeq(s, n + 1, Len(s))) = Len(s) - n
         /\ \A i \in 1..n : SubSeq(s, 1, n)[i] = s[i]
         /\ \A i \in 1..(Len(s) - n) : SubSeq(s, n + 1, Len(s))[i] = s[n + i]
         /\ MemOf(s) = MemOf(SubSeq(s, 1, n)) + MemOf(SubSeq(s, n + 1, Len(s)))
         /\ MemOf(SubSeq(s, 1, n)) \in Nat /\ MemOf(SubSeq(s, n + 1, Len(s))) \in Nat
<1> DEFINE a == SubSeq(s, 1, n)
           b == SubSeq(s, n + 1, Len(s))
<1>1. Len(s) \in Nat
  OBVIOUS
<1>2. a \in Seq(Item) /\ Len(a) = n /\ \A i \in 1..n : a[i] = s[i]
  BY <1>1
<1>3. b \in Seq(Item) /\ Len(b) = Len(s) - n /\ \A i \in 1..(Len(s) - n) : b[i] = s[n + i]
  BY <1>1
<1> HIDE DEF a, b
<1>4. a \o b = s
  <2>1. /\ 1 \in 1..(Len(s) + 1) /\ n \in (1 - 1)..Len(s) /\ Len(s) \in n..Len(s)
        /\ SubSeq(s, 1, Len(s)) = s
    BY <1>1, SubSeqFull
  <2> QED
    BY <1>1, <2>1, ConcatAdjacentSubSeq DEF a, b
<1>5. MemOf(s) = MemOf(a) + MemOf(b) /\ MemOf(a) \in Nat /\ MemOf(b) \in Nat
  BY <1>2, <1>3, <1>4, MemOfConcat, MemOfType
<1> QED
  BY <1>2, <1>3, <1>5 DEF a, b

LEMMA KeysOfMember ==
  ASSUME NEW s \in Seq(Item)
  PROVE  /\ \A k : k \in KeysOf(s) <=> \E i \in 1..Len(s) : s[i].key = k
         /\ KeysOf(s) = {x.key : x \in Range(s)} /\ KeysOf(s) \subseteq Key
         /\ Range(s) \subseteq Item
<1>1. DOMAIN s = 1..Len(s) /\ \A i \in 1..Len(s) : s[i] \in Item
  BY ElementOfSeq
<1>2. \A i \in 1..Len(s) : s[i].key \in Key
  BY <1>1, ItemTypes
<1> QED
  BY <1>1, <1>2 DEF KeysOf, Range

\* An entry of another key in front of a list.
LEMMA InFront ==
  ASSUME NEW s \in Seq(Item), DistinctKeys(s), NEW x \in Item, x.key \notin KeysOf(s)
  PROVE  /\ <<x>> \o s \in Seq(Item) /\ Len(<<x>> \o s) = Len(s) + 1
         /\ DistinctKeys(<<x>> \o s)
         /\ KeysOf(<<x>> \o s) = KeysOf(s) \union {x.key}
         /\ MemOf(<<x>> \o s) = MemOf(s) + x.size
<1> DEFINE t == <<x>> \o s
<1>1. /\ t \in Seq(Item) /\ Len(t) = Len(s) + 1 /\ Len(s) \in Nat
      /\ t[1] = x /\ \A i \in 2..(Len(s) + 1) : t[i] = s[i - 1]
  OBVIOUS
<1>2. MemOf(t) = MemOf(s) + x.size
  <2>1. <<x>> \in Seq(Item) /\ MemOf(s) \in Nat /\ x.size \in Nat
    BY MemOfType, ItemTypes
  <2>2. MemOf(t) = MemOf(<<x>>) + MemOf(s)
    BY <2>1, MemOfConcat
  <2>3. MemOf(<<x>>) = x.size
    BY MemOfOne
  <2> QED
    BY <2>1, <2>2, <2>3
<1> HIDE DEF t
<1>3. \A k : k \in KeysOf(t) <=> \E i \in 1..Len(t) : t[i].key = k
  BY <1>1, KeysOfMember
<1>4. \A k : k \in KeysOf(s) <=> \E i \in 1..Len(s) : s[i].key = k
  BY KeysOfMember
<1>5. KeysOf(t) = KeysOf(s) \union {x.key}
  <2>1. ASSUME NEW k \in KeysOf(t) PROVE k \in KeysOf(s) \union {x.key}
    <3>1. PICK i \in 1..Len(t) : t[i].key = k
      BY <1>3, <2>1
    <3>2. i # 1 => i \in 2..(Len(s) + 1) /\ i - 1 \in 1..Len(s)
      BY <1>1
    <3> QED
      BY <1>1, <1>4, <3>1, <3>2
  <2>2. ASSUME NEW k \in KeysOf(s) PROVE k \in KeysOf(t)
    <3>1. PICK i \in 1..Len(s) : s[i].key = k
      BY <1>4, <2>2
    <3>2. i + 1 \in 2..(Len(s) + 1) /\ i + 1 \in 1..Len(t) /\ (i + 1) - 1 = i
      BY <1>1
    <3>3. t[i + 1] = s[i]
      BY <1>1, <3>2
    <3> QED
      BY <1>3, <3>1, <3>2, <3>3
  <2>3. x.key \in KeysOf(t)
    BY <1>1, <1>3
  <2> QED
    BY <2>1, <2>2, <2>3
<1>6. DistinctKeys(t)
  <2>1. \A i \in 2..(Len(s) + 1) : t[i] = s[i - 1] /\ i - 1 \in 1..Len(s)
    BY <1>1
  <2>2. \A i \in 2..(Len(s) + 1) : t[i].key # x.key
    BY <1>4, <2>1
  <2>3. \A i, j \in 2..(Len(s) + 1) : t[i].key = t[j].key => i - 1 = j - 1
    BY <2>1 DEF DistinctKeys
  <2>4. ASSUME NEW i \in 1..Len(t), NEW j \in 1..Len(t), t[i].key = t[j].key PROVE i = j
    <3>1. i = 1 \/ i \in 2..(Len(s) + 1)
      BY <1>1
    <3>2. j = 1 \/ j \in 2..(Len(s) + 1)
      BY <1>1
    <3> QED
      BY <1>1, <2>2, <2>3, <2>4, <3>1, <3>2
  <2> QED
    BY <2>4 DEF DistinctKeys
<1> QED
  BY <1>1, <1>2, <1>5, <1>6 DEF t

\* The list without the entry at i.
LEMMA TakenOut ==
  ASSUME NEW s \in Seq(Item), DistinctKeys(s), NEW i \in 1..Len(s)
  PROVE  /\ RemoveAt(s, i) \in Seq(Item)
         /\ DistinctKeys(RemoveAt(s, i))
         /\ KeysOf(RemoveAt(s, i)) = KeysOf(s) \ {s[i].key}
         /\ MemOf(RemoveAt(s, i)) = MemOf(s) - s[i].size
<1> DEFINE r == RemoveAt(s, i)
           old(j) == IF j < i THEN j ELSE j + 1
<1>1. /\ r \in Seq(Item) /\ Len(r) = Len(s) - 1 /\ Len(s) \in Nat
      /\ \A j \in 1..(Len(s) - 1) : r[j] = s[old(j)]
  BY RemoveAtProperties
<1>2. MemOf(r) = MemOf(s) - s[i].size
  <2> DEFINE a == SubSeq(s, 1, i - 1)
             b == SubSeq(s, i + 1, Len(s))
             c == SubSeq(s, 1, i)
  <2>1. i - 1 \in 0..Len(s) /\ i \in 0..Len(s) /\ s[i] \in Item /\ s[i].size \in Nat
    BY ItemTypes, ElementOfSeq
  <2>2. /\ a \in Seq(Item) /\ b \in Seq(Item) /\ c \in Seq(Item)
        /\ Len(a) = i - 1 /\ Len(c) = i
        /\ \A j \in 1..(i - 1) : a[j] = s[j]
        /\ \A j \in 1..i : c[j] = s[j]
        /\ MemOf(s) = MemOf(c) + MemOf(b)
        /\ MemOf(a) \in Nat /\ MemOf(b) \in Nat /\ MemOf(c) \in Nat
    BY <2>1, Cut
  <2>3. r = a \o b
    BY DEF RemoveAt
  <2> HIDE DEF a, b, c, r
  <2>4. c = Append(a, s[i])
    <3> DEFINE d == Append(a, s[i])
    <3>1. /\ d \in Seq(Item) /\ Len(d) = i /\ d[i] = s[i]
          /\ \A j \in 1..(i - 1) : d[j] = a[j]
      BY <2>1, <2>2, AppendProperties
    <3> HIDE DEF d
    <3>2. ASSUME NEW j \in 1..i PROVE d[j] = c[j]
      <4>1. j = i \/ j \in 1..(i - 1)
        OBVIOUS
      <4> QED
        BY <2>2, <3>1, <4>1
    <3>3. c = d
      BY <2>2, <3>1, <3>2, SeqEqual
    <3> QED
      BY <3>3 DEF d
  <2>5. MemOf(c) = MemOf(a) + s[i].size
    BY <2>1, <2>2, <2>4, MemOfAppend
  <2>6. MemOf(r) = MemOf(a) + MemOf(b)
    BY <2>2, <2>3, MemOfConcat
  <2> QED
    BY <2>1, <2>2, <2>5, <2>6, SMTT(30)
<1> HIDE DEF r
<1>3. \A k : k \in KeysOf(r) <=> \E j \in 1..Len(r) : r[j].key = k
  BY <1>1, KeysOfMember
<1>4. \A k : k \in KeysOf(s) <=> \E j \in 1..Len(s) : s[j].key = k
  BY KeysOfMember
<1>5. \A j \in 1..Len(r) : old(j) \in 1..Len(s) /\ old(j) # i /\ r[j] = s[old(j)]
  BY <1>1
<1>6. DistinctKeys(r)
  <2>1. \A j, m \in 1..Len(r) : old(j) = old(m) => j = m
    BY <1>1
  <2> HIDE DEF old
  <2>2. \A j, m \in 1..Len(r) : r[j].key = r[m].key => old(j) = old(m)
    BY <1>5, SMTT(30) DEF DistinctKeys
  <2> QED
    BY <2>1, <2>2 DEF DistinctKeys
<1>7. ASSUME NEW k \in KeysOf(r) PROVE k \in KeysOf(s) \ {s[i].key}
  <2>1. PICK j \in 1..Len(r) : r[j].key = k
    BY <1>3, <1>7
  <2>2. old(j) \in 1..Len(s) /\ old(j) # i /\ s[old(j)].key = k
    BY <1>5, <2>1
  <2> HIDE DEF old
  <2> QED
    BY <1>4, <2>2 DEF DistinctKeys
<1>8. ASSUME NEW k \in KeysOf(s) \ {s[i].key} PROVE k \in KeysOf(r)
  <2>1. PICK m \in 1..Len(s) : s[m].key = k
    BY <1>4, <1>8
  <2>2. m # i
    BY <1>8, <2>1
  <2> DEFINE j == IF m < i THEN m ELSE m - 1
  <2>3. j \in 1..Len(r) /\ old(j) = m
    BY <1>1, <2>2
  <2> HIDE DEF j
  <2>4. r[j].key = k
    BY <1>5, <2>1, <2>3
  <2> QED
    BY <1>3, <2>3, <2>4
<1> QED
  BY <1>1, <1>2, <1>6, <1>7, <1>8 DEF r

LEMMA PlaceOf ==
  ASSUME NEW s \in Seq(Item), NEW k \in KeysOf(s)
  PROVE  Place(s, k) \in 1..Len(s) /\ s[Place(s, k)].key = k
<1>1. DOMAIN s = 1..Len(s) /\ \E i \in 1..Len(s) : s[i].key = k
  BY KeysOfMember
<1> QED
  BY <1>1 DEF Place

\* Putting an entry in front, new or in place, keeps map, list and count in
\* agreement.
LEMMA StoredAgreed ==
  ASSUME NEW c, Agreed(c), NEW it \in Item
  PROVE  /\ Agreed(Stored(c, it))
         /\ it.key \notin c.index =>
              /\ Stored(c, it).lru = <<it>> \o c.lru
              /\ Len(Stored(c, it).lru) = Len(c.lru) + 1
              /\ MemOf(Stored(c, it).lru) = MemOf(c.lru) + it.size
<1> DEFINE s == c.lru
           d == Stored(c, it)
<1>1. /\ s \in Seq(Item) /\ DistinctKeys(s) /\ c.index = KeysOf(s) /\ c.mem = MemOf(s)
      /\ c = [index |-> c.index, lru |-> c.lru, mem |-> c.mem]
  BY DEF Agreed
<1>2. CASE it.key \in c.index
  <2> DEFINE i == Place(s, it.key)
             r == RemoveAt(s, i)
  <2>1. i \in 1..Len(s) /\ s[i].key = it.key
    BY <1>1, <1>2, PlaceOf
  <2>2. d = [index |-> c.index, lru |-> <<it>> \o r, mem |-> c.mem - s[i].size + it.size]
    BY <1>2 DEF Stored, Fronted
  <2> HIDE DEF i, s, d
  <2>3. /\ r \in Seq(Item) /\ DistinctKeys(r) /\ KeysOf(r) = KeysOf(s) \ {it.key}
        /\ MemOf(r) = MemOf(s) - s[i].size
    BY <1>1, <2>1, TakenOut
  <2> HIDE DEF r
  <2>4. /\ <<it>> \o r \in Seq(Item) /\ DistinctKeys(<<it>> \o r)
        /\ KeysOf(<<it>> \o r) = KeysOf(r) \union {it.key}
        /\ MemOf(<<it>> \o r) = MemOf(r) + it.size
    BY <2>3, InFront
  <2>5. KeysOf(r) \union {it.key} = c.index
    BY <1>1, <1>2, <2>3
  <2>6. Agreed(d)
    BY <1>1, <2>2, <2>3, <2>4, <2>5 DEF Agreed
  <2> QED
    BY <1>2, <2>6 DEF d
<1>3. CASE it.key \notin c.index
  <2>1. d = [index |-> c.index \union {it.key}, lru |-> <<it>> \o s, mem |-> c.mem + it.size]
    BY <1>3 DEF Stored
  <2> HIDE DEF d
  <2>2. /\ <<it>> \o s \in Seq(Item) /\ DistinctKeys(<<it>> \o s)
        /\ Len(<<it>> \o s) = Len(s) + 1
        /\ KeysOf(<<it>> \o s) = KeysOf(s) \union {it.key}
        /\ MemOf(<<it>> \o s) = MemOf(s) + it.size
    BY <1>1, <1>3, InFront
  <2>3. Agreed(d)
    BY <1>1, <2>1, <2>2 DEF Agreed
  <2> QED
    BY <1>3, <2>1, <2>2, <2>3 DEF d
<1> QED
  BY <1>2, <1>3

\* So does evicting from the back.
LEMMA EvictedAgreed ==
  ASSUME Agreed(Held), NEW n \in 0..Len(lru)
  PROVE  /\ Agreed(Evicted(n)) /\ Evicted(n).index \subseteq index
         /\ Evicted(n).lru = SubSeq(lru, 1, n) /\ Len(Evicted(n).lru) = n
<1> DEFINE a == SubSeq(lru, 1, n)
           b == SubSeq(lru, n + 1, Len(lru))
<1>1. lru \in Seq(Item) /\ DistinctKeys(lru) /\ index = KeysOf(lru) /\ mem = MemOf(lru)
  BY DEF Agreed, Held
<1>2. /\ a \in Seq(Item) /\ b \in Seq(Item) /\ Len(a) = n /\ Len(b) = Len(lru) - n
      /\ \A i \in 1..n : a[i] = lru[i]
      /\ \A i \in 1..(Len(lru) - n) : b[i] = lru[n + i]
      /\ MemOf(lru) = MemOf(a) + MemOf(b) /\ MemOf(a) \in Nat /\ MemOf(b) \in Nat
      /\ Len(lru) \in Nat
  <2>1. Len(lru) \in Nat
    BY <1>1
  <2>2. /\ a \in Seq(Item) /\ b \in Seq(Item) /\ Len(a) = n /\ Len(b) = Len(lru) - n
        /\ MemOf(lru) = MemOf(a) + MemOf(b) /\ MemOf(a) \in Nat /\ MemOf(b) \in Nat
    BY <1>1, Cut
  <2>3. \A i \in 1..n : a[i] = lru[i]
    BY <1>1, Cut
  <2>4. \A i \in 1..(Len(lru) - n) : b[i] = lru[n + i]
    BY <1>1, Cut
  <2> QED
    BY <2>1, <2>2, <2>3, <2>4, Zenon
<1>3. Evicted(n) = [index |-> index \ KeysOf(b), lru |-> a, mem |-> mem - MemOf(b)]
  BY DEF Evicted
<1> HIDE DEF a, b
<1>4. /\ \A k : k \in KeysOf(lru) <=> \E i \in 1..Len(lru) : lru[i].key = k
      /\ \A k : k \in KeysOf(a) <=> \E i \in 1..n : a[i].key = k
      /\ \A k : k \in KeysOf(b) <=> \E i \in 1..(Len(lru) - n) : b[i].key = k
  <2>1. \A k : k \in KeysOf(lru) <=> \E i \in 1..Len(lru) : lru[i].key = k
    BY <1>1, KeysOfMember
  <2>2. \A k : k \in KeysOf(a) <=> \E i \in 1..Len(a) : a[i].key = k
    BY <1>2, KeysOfMember
  <2>3. \A k : k \in KeysOf(b) <=> \E i \in 1..Len(b) : b[i].key = k
    BY <1>2, KeysOfMember
  <2>4. Len(a) = n /\ Len(b) = Len(lru) - n
    BY <1>2
  <2> QED
    BY <2>1, <2>2, <2>3, <2>4
<1>5. DistinctKeys(a)
  <2>1. \A i \in 1..Len(a) : i \in 1..Len(lru) /\ a[i] = lru[i]
    BY <1>2
  <2> QED
    BY <1>1, <2>1 DEF DistinctKeys
<1>6. ASSUME NEW k \in KeysOf(a) PROVE k \in index \ KeysOf(b)
  <2>1. PICK i \in 1..n : lru[i].key = k
    BY <1>2, <1>4, <1>6
  <2>2. ASSUME NEW j \in 1..(Len(lru) - n), b[j].key = k PROVE FALSE
    <3>1. lru[n + j].key = k /\ n + j \in 1..Len(lru) /\ i \in 1..Len(lru) /\ n + j # i
      BY <1>2, <2>2
    <3> QED
      BY <1>1, <2>1, <3>1 DEF DistinctKeys
  <2>3. k \in KeysOf(lru)
    BY <1>2, <1>4, <2>1
  <2> QED
    BY <1>1, <1>4, <2>2, <2>3
<1>7. ASSUME NEW k \in index \ KeysOf(b) PROVE k \in KeysOf(a)
  <2>1. PICK i \in 1..Len(lru) : lru[i].key = k
    BY <1>1, <1>4, <1>7
  <2>2. ASSUME ~(i <= n) PROVE FALSE
    <3>1. i - n \in 1..(Len(lru) - n) /\ n + (i - n) = i
      BY <1>2, <2>2
    <3>2. b[i - n].key = k
      BY <1>2, <2>1, <3>1
    <3> QED
      BY <1>4, <1>7, <3>1, <3>2
  <2>3. i \in 1..n
    BY <2>2
  <2> QED
    BY <1>2, <1>4, <2>1, <2>3
<1>8. mem - MemOf(b) = MemOf(a)
  BY <1>1, <1>2
<1>9. index \ KeysOf(b) = KeysOf(a)
  BY <1>6, <1>7
<1>10. Agreed(Evicted(n))
  BY <1>2, <1>3, <1>5, <1>8, <1>9 DEF Agreed
<1> QED
  BY <1>2, <1>3, <1>10 DEF a

\* How many entries stay: what is left fits, or is nothing, and with one entry
\* more it would not fit.
LEMMA RemainingProperties ==
  ASSUME Agreed(Held), NEW added \in Nat, NEW size \in Nat, NEW l \in HashLimits
  PROVE  LET n == Remaining(added, size, l)
             Fits(m) == m + added <= l[1] /\ MemOf(SubSeq(lru, 1, m)) + size <= l[2]
         IN  /\ n \in 0..Len(lru)
             /\ n > 0 => Fits(n)
             /\ n < Len(lru) => ~Fits(n + 1)
<1> DEFINE L == Len(lru)
           Over(n) == \/ n + added > l[1]
                      \/ mem - MemOf(SubSeq(lru, n + 1, Len(lru))) + size > l[2]
           Fits(m) == m + added <= l[1] /\ MemOf(SubSeq(lru, 1, m)) + size <= l[2]
           Is(f) == f = [n \in 0..L |-> IF n > 0 /\ Over(n) THEN f[n - 1] ELSE n]
           left == CHOOSE f : Is(f)
           G == [a \in (0..L) \X (1..L) |-> IF Over(a[2]) THEN a[1] ELSE a[2]]
<1>1. lru \in Seq(Item) /\ mem = MemOf(lru) /\ L \in Nat
  BY DEF Agreed, Held
<1>2. ASSUME NEW n \in 0..L PROVE Over(n) <=> ~Fits(n)
  <2> DEFINE x == MemOf(SubSeq(lru, 1, n))
             y == MemOf(SubSeq(lru, n + 1, Len(lru)))
  <2>1. mem = x + y /\ x \in Nat /\ y \in Nat
    BY <1>1, Cut
  <2>2. l[1] \in Int /\ l[2] \in Int
    BY HashAssumption
  <2> HIDE DEF x, y
  <2>3. mem - y = x
    BY <2>1
  <2>4. Over(n) <=> (n + added > l[1] \/ x + size > l[2])
    BY <2>3 DEF y
  <2>5. Fits(n) <=> (n + added <= l[1] /\ x + size <= l[2])
    BY DEF x
  <2> QED
    BY <1>1, <2>1, <2>2, <2>4, <2>5
<1>3. Remaining(added, size, l) = left[L]
  BY DEF Remaining
<1> HIDE DEF Over, Fits
<1>4. G \in [(0..L) \X (1..L) -> 0..L]
  BY <1>1
<1>5. PICK h \in [0..L -> 0..L] : Iterates(h, L, 0, G)
  <2>1. 0 \in 0..L
    BY <1>1
  <2> DEFINE X == 0..L
  <2> HIDE DEF G, L, X
  <2>2. G \in [X \X (1..L) -> X] /\ 0 \in X /\ L \in Nat
    BY <1>1, <1>4, <2>1 DEF X
  <2>3. \E h \in [0..L -> X] : Iterates(h, L, 0, G)
    BY <2>2, Iteration
  <2> QED
    BY <2>3 DEF X
<1>6. Is(h)
  <2>1. ASSUME NEW n \in 0..L PROVE h[n] = IF n > 0 /\ Over(n) THEN h[n - 1] ELSE n
    <3>1. CASE n = 0
      BY <1>5, <3>1 DEF Iterates
    <3>2. CASE n # 0
      <4>1. n \in 1..L /\ n - 1 \in 0..L
        <5> HIDE DEF L
        <5> QED
          BY <1>1, <3>2
      <4>2. h[n] = G[<<h[n - 1], n>>]
        BY <1>5, <4>1 DEF Iterates
      <4> QED
        BY <4>1, <4>2
    <3> QED
      BY <3>1, <3>2
  <2> HIDE DEF L
  <2>2. h = [n \in 0..L |-> h[n]]
    BY <1>5
  <2> QED
    BY <2>1, <2>2
<1>7. Is(left)
  <2> HIDE DEF Is
  <2> QED
    BY <1>6
<1> DEFINE Good(n) == /\ left[n] \in 0..n
                      /\ left[n] > 0 => Fits(left[n])
                      /\ left[n] < n => ~Fits(left[n] + 1)
           S == {n \in 0..L : Good(n)}
<1> HIDE DEF left, G, L
<1>8. \A n \in 0..L : left[n] = IF n > 0 /\ Over(n) THEN left[n - 1] ELSE n
  BY <1>7
<1>9. 0 \in S
  BY <1>1, <1>8
<1>10. ASSUME NEW n \in 1..L, n - 1 \in S PROVE n \in S
  <2>1. n \in 0..L /\ n - 1 \in 0..L /\ n > 0 /\ Good(n - 1)
    <3> HIDE DEF Good
    <3> QED
      BY <1>1, <1>10
  <2>2. CASE Over(n)
    <3>1. left[n] = left[n - 1] /\ ~Fits(n)
      BY <1>2, <1>8, <2>1, <2>2
    <3>2. left[n - 1] \in 0..(n - 1) /\ (left[n - 1] < n - 1 \/ left[n - 1] + 1 = n)
      BY <2>1
    <3> QED
      BY <2>1, <3>1, <3>2
  <2>3. CASE ~Over(n)
    <3>1. left[n] = n /\ Fits(n)
      BY <1>2, <1>8, <2>1, <2>3
    <3> QED
      BY <2>1, <3>1
  <2> QED
    BY <2>2, <2>3
<1>11. Good(L)
  <2> HIDE DEF S, Good
  <2>1. \A n \in 0..L : n \in S
    BY <1>1, <1>9, <1>10, Induction
  <2> QED
    BY <1>1, <2>1 DEF S
<1> QED
  BY <1>3, <1>11 DEF Fits, L

LEMMA MemOfSelected ==
  ASSUME NEW s \in Seq(Item), NEW S, NEW T,
         \A x \in Item : x \in S <=> x \notin T
  PROVE  MemOf(s) = MemOf(Selected(s, S)) + MemOf(Selected(s, T))
<1> DEFINE P == {t \in Seq(Item) : MemOf(t) = MemOf(Selected(t, S)) + MemOf(Selected(t, T))}
<1>1. << >> \in P
  BY SelectedOfEmpty, MemOfEmpty
<1>2. ASSUME NEW t \in Seq(Item), NEW x \in Item, t \in P PROVE Append(t, x) \in P
  <2> DEFINE a == Selected(t, S)
             b == Selected(t, T)
             u == Append(t, x)
  <2>1. /\ a \in Seq(Item) /\ Selected(u, S) = IF x \in S THEN Append(a, x) ELSE a
        /\ b \in Seq(Item) /\ Selected(u, T) = IF x \in T THEN Append(b, x) ELSE b
    BY SelectedOfAppend
  <2>2. MemOf(t) = MemOf(a) + MemOf(b)
    BY <1>2
  <2>3. MemOf(u) = MemOf(t) + x.size /\ u \in Seq(Item)
    BY MemOfAppend
  <2> HIDE DEF a, b, u
  <2>4. MemOf(Append(a, x)) = MemOf(a) + x.size /\ MemOf(Append(b, x)) = MemOf(b) + x.size
    BY <2>1, MemOfAppend
  <2>5. MemOf(a) \in Nat /\ MemOf(b) \in Nat /\ x.size \in Nat
    BY <2>1, MemOfType, ItemTypes
  <2>6. MemOf(u) = MemOf(Selected(u, S)) + MemOf(Selected(u, T))
    <3>1. CASE x \in S
      BY <2>1, <2>2, <2>3, <2>4, <2>5, <3>1
    <3>2. CASE x \in T
      BY <2>1, <2>2, <2>3, <2>4, <2>5, <3>2
    <3> QED
      BY <3>1, <3>2
  <2> QED
    BY <2>3, <2>6 DEF u
<1> HIDE DEF P
<1>3. s \in P
  BY <1>1, <1>2, PrefixInduction
<1> QED
  BY <1>3 DEF P

LEMMA RemoveAgreed ==
  ASSUME HashInv, NEW K, HashRemove(K)
  PROVE  HashInv'
<1> DEFINE S == {it \in Item : it.key \notin K}
           T == {it \in Item : it.key \in K}
           t == Selected(lru, S)
<1>1. lru \in Seq(Item) /\ DistinctKeys(lru) /\ index = KeysOf(lru) /\ mem = MemOf(lru)
  BY DEF HashInv, Agreed, Held
<1>2. index' = index \ K /\ lru' = t /\ mem' = mem - MemOf(Selected(lru, T)) /\ limits' = limits
  BY DEF HashRemove
<1>3. \A x \in Item : x \in S <=> x \notin T
  OBVIOUS
<1>4. DOMAIN lru = 1..Len(lru) /\ \A i \in 1..Len(lru) : lru[i] \in Item
  BY <1>1, ElementOfSeq
<1>5. IsInjective(lru)
  BY <1>1, <1>4 DEF IsInjective, DistinctKeys
<1>6. t \in Seq(Item) /\ Range(t) = Range(lru) \intersect S /\ IsInjective(t)
  <2> HIDE DEF S
  <2> QED
    BY <1>1, <1>5, SelectedProperties
<1>7. mem' = MemOf(t)
  <2> HIDE DEF S, T
  <2>1. Selected(lru, T) \in Seq(Item)
    BY <1>1, SelectedProperties
  <2>2. MemOf(lru) = MemOf(t) + MemOf(Selected(lru, T))
    BY <1>1, <1>3, MemOfSelected
  <2>3. MemOf(t) \in Nat /\ MemOf(Selected(lru, T)) \in Nat
    BY <1>6, <2>1, MemOfType
  <2> QED
    BY <1>1, <1>2, <2>2, <2>3
<1> HIDE DEF t
<1>8. KeysOf(t) = {x.key : x \in Range(t)} /\ KeysOf(lru) = {x.key : x \in Range(lru)}
  BY <1>1, <1>6, KeysOfMember
<1>9. Range(lru) \subseteq Item
  BY <1>1, KeysOfMember
<1>10. index' = KeysOf(t)
  BY <1>1, <1>2, <1>6, <1>8, <1>9
<1>11. \A x, y \in Range(lru) : x.key = y.key => x = y
  BY <1>1, <1>4 DEF DistinctKeys, Range
<1>12. DistinctKeys(t)
  <2>1. DOMAIN t = 1..Len(t)
    BY <1>6
  <2>2. \A i \in 1..Len(t) : t[i] \in Range(lru)
    BY <1>6, <2>1 DEF Range
  <2> QED
    BY <1>6, <1>11, <2>1, <2>2 DEF DistinctKeys, IsInjective
<1>13. Agreed([index |-> index', lru |-> lru', mem |-> mem'])
  BY <1>2, <1>6, <1>7, <1>10, <1>12 DEF Agreed
<1> QED
  BY <1>2, <1>13 DEF HashInv, Held

LEMMA BecomesAgreed ==
  ASSUME HashInv, NEW c, Agreed(c), Becomes(c), UNCHANGED limits
  PROVE  HashInv'
<1>1. Agreed([index |-> index', lru |-> lru', mem |-> mem'])
  BY DEF Agreed, Becomes
<1> QED
  BY <1>1 DEF HashInv, Held

LEMMA BatchAgreed ==
  ASSUME HashInv, NEW b \in Seq(Item), HashBatchSet(b)
  PROVE  HashInv'
<1> DEFINE e == Evicted(Remaining(Len(b), MemOf(b), limits))
           n == Len(b)
           Is(c) == c = [i \in 0..n |-> IF i = 0 THEN e ELSE Stored(c[i - 1], b[i])]
           loop == CHOOSE c : Is(c)
           X == {c \in [index : SUBSET Key, lru : Seq(Item), mem : Nat] : Agreed(c)}
           G == [a \in X \X (1..n) |-> Stored(a[1], b[a[2]])]
<1>1. Agreed(Held) /\ limits \in HashLimits /\ n \in Nat /\ MemOf(b) \in Nat
  BY MemOfType DEF HashInv
<1>2. ASSUME NEW c, Agreed(c) PROVE c \in X
  <2>1. /\ c = [index |-> c.index, lru |-> c.lru, mem |-> c.mem] /\ c.lru \in Seq(Item)
        /\ c.index = KeysOf(c.lru) /\ c.mem = MemOf(c.lru)
    BY <1>2 DEF Agreed
  <2>2. c.index \in SUBSET Key /\ c.mem \in Nat
    BY <2>1, KeysOfMember, MemOfType
  <2>3. c \in [index : SUBSET Key, lru : Seq(Item), mem : Nat]
    BY <2>1, <2>2
  <2> QED
    BY <1>2, <2>3
<1>3. Becomes(loop[n]) /\ UNCHANGED limits
  BY DEF HashBatchSet
<1>4. e \in X
  <2>1. Remaining(n, MemOf(b), limits) \in 0..Len(lru)
    BY <1>1, RemainingProperties
  <2>2. Agreed(e)
    <3> HIDE DEF n
    <3> QED
      BY <1>1, <2>1, EvictedAgreed DEF n
  <2> QED
    BY <1>2, <2>2
<1>5. \A c \in X, it \in Item : Stored(c, it) \in X
  BY <1>2, StoredAgreed
<1>6. \A i \in 1..n : b[i] \in Item
  BY ElementOfSeq
<1> HIDE DEF X, n, e
<1>7. G \in [X \X (1..n) -> X]
  <2>1. \A a \in X \X (1..n) : a[1] \in X /\ a[2] \in 1..n
    OBVIOUS
  <2> QED
    BY <1>5, <1>6, <2>1
<1>8. PICK h \in [0..n -> X] : Iterates(h, n, e, G)
  <2> HIDE DEF G
  <2> QED
    BY <1>1, <1>4, <1>7, Iteration
<1>9. Is(h)
  <2>1. ASSUME NEW i \in 0..n PROVE h[i] = IF i = 0 THEN e ELSE Stored(h[i - 1], b[i])
    <3>1. CASE i = 0
      BY <1>8, <3>1 DEF Iterates
    <3>2. CASE i # 0
      <4>1. i \in 1..n /\ i - 1 \in 0..n /\ h[i - 1] \in X
        BY <1>1, <1>8, <3>2
      <4>2. h[i] = G[<<h[i - 1], i>>]
        BY <1>8, <4>1 DEF Iterates
      <4> QED
        BY <4>1, <4>2, <3>2
    <3> QED
      BY <3>1, <3>2
  <2>2. h = [i \in 0..n |-> h[i]]
    BY <1>8
  <2> QED
    BY <2>1, <2>2
<1>10. Is(loop)
  <2> HIDE DEF Is
  <2> QED
    BY <1>9
<1> HIDE DEF loop, G
<1>11. \A i \in 0..n : loop[i] = IF i = 0 THEN e ELSE Stored(loop[i - 1], b[i])
  BY <1>10
<1> DEFINE S == {i \in 0..n : loop[i] \in X}
<1>12. 0 \in S
  BY <1>1, <1>4, <1>11
<1>13. ASSUME NEW i \in 1..n, i - 1 \in S PROVE i \in S
  <2>1. i \in 0..n /\ i # 0 /\ loop[i - 1] \in X /\ b[i] \in Item
    BY <1>1, <1>6, <1>13
  <2> QED
    BY <1>5, <1>11, <2>1
<1>14. loop[n] \in X
  <2> HIDE DEF S
  <2>1. \A i \in 0..n : i \in S
    BY <1>1, <1>12, <1>13, Induction
  <2> QED
    BY <1>1, <2>1 DEF S
<1>15. Agreed(loop[n])
  BY <1>14 DEF X
<1> QED
  BY <1>1, <1>3, <1>15, BecomesAgreed

LEMMA EmptyAgreed == Agreed([index |-> {}, lru |-> << >>, mem |-> 0])
<1>1. << >> \in Seq(Item) /\ Len(<< >>) = 0
  OBVIOUS
<1>2. KeysOf(<< >>) = {}
  <2>1. \A k : k \in KeysOf(<< >>) <=> \E i \in 1..Len(<< >>) : << >>[i].key = k
    BY <1>1, KeysOfMember
  <2> QED
    BY <1>1, <2>1
<1>3. DistinctKeys(<< >>)
  BY <1>1 DEF DistinctKeys
<1> QED
  BY <1>1, <1>2, <1>3, MemOfEmpty DEF Agreed

LEMMA HashInitInv == HashInit => HashInv
<1> SUFFICES ASSUME HashInit PROVE HashInv
  OBVIOUS
<1> QED
  BY EmptyAgreed DEF HashInit, HashInv, Held

LEMMA HashNextInv == HashInv /\ [HashNext]_hashVars => HashInv'
<1> SUFFICES ASSUME HashInv, [HashNext]_hashVars PROVE HashInv'
  OBVIOUS
<1>0. Agreed(Held) /\ limits \in HashLimits
  BY DEF HashInv
<1>1. ASSUME NEW k \in Key, HashGet(k) PROVE HashInv'
  <2> DEFINE it == lru[Place(lru, k)]
  <2>1. lru \in Seq(Item) /\ k \in KeysOf(lru) /\ mem = MemOf(lru) /\ index = KeysOf(lru)
    BY <1>0, <1>1 DEF HashGet, Agreed, Held
  <2>2. it.key = k /\ it \in Item /\ mem \in Nat /\ it.size \in Nat
    BY <2>1, PlaceOf, ElementOfSeq, MemOfType, ItemTypes
  <2>3. mem - it.size + it.size = mem
    BY <2>2
  <2>4. Becomes(Stored(Held, it)) /\ UNCHANGED limits
    BY <1>1, <2>1, <2>2, <2>3 DEF HashGet, Becomes, Stored, Held
  <2> HIDE DEF it
  <2> QED
    BY <1>0, <2>2, <2>4, StoredAgreed, BecomesAgreed
<1>2. ASSUME NEW it \in Item, HashUpdate(it) PROVE HashInv'
  BY <1>0, <1>2, StoredAgreed, BecomesAgreed DEF HashUpdate
<1>3. ASSUME NEW it \in Item, HashInsert(it) PROVE HashInv'
  <2> DEFINE n == Remaining(1, it.size, limits)
  <2>1. n \in 0..Len(lru)
    BY <1>0, ItemTypes, RemainingProperties
  <2>2. Agreed(Evicted(n))
    BY <1>0, <2>1, EvictedAgreed
  <2>3. Becomes(Stored(Evicted(n), it)) /\ UNCHANGED limits
    BY <1>3 DEF HashInsert
  <2> HIDE DEF n
  <2> QED
    BY <1>0, <2>2, <2>3, StoredAgreed, BecomesAgreed
<1>4. ASSUME NEW K, HashRemove(K) PROVE HashInv'
  BY <1>4, RemoveAgreed
<1>5. CASE HashClear
  BY <1>0, <1>5, EmptyAgreed DEF HashClear, HashInv, Held
<1>6. ASSUME NEW b \in Seq(Item), HashBatchSet(b) PROVE HashInv'
  BY <1>6, BatchAgreed
<1>7. ASSUME NEW l \in HashLimits, HashResize(l) PROVE HashInv'
  <2> DEFINE n == Remaining(0, 0, l)
  <2>1. n \in 0..Len(lru)
    BY <1>0, RemainingProperties
  <2>2. Agreed(Evicted(n))
    BY <1>0, <2>1, EvictedAgreed
  <2>3. Becomes(Evicted(n)) /\ limits' = l
    BY <1>7 DEF HashResize
  <2> HIDE DEF n
  <2>4. Agreed(Held')
    BY <2>2, <2>3 DEF Becomes, Held, Agreed
  <2> QED
    BY <2>3, <2>4 DEF HashInv, Held
<1>8. CASE UNCHANGED hashVars
  BY <1>8 DEF hashVars, HashInv, Held
<1>9. ASSUME NEW x \in Item, NEW y \in Item, HashBatchSet(<<x, y>>) PROVE HashInv'
  <2>1. <<x, y>> \in Seq(Item)
    OBVIOUS
  <2> DEFINE b == <<x, y>>
  <2>2. b \in Seq(Item) /\ HashBatchSet(b)
    BY <1>9, <2>1
  <2> HIDE DEF b
  <2> QED
    BY <1>6, <2>2
<1> QED
  BY <1>1, <1>2, <1>3, <1>4, <1>5, <1>7, <1>8, <1>9 DEF HashNext, HashDelete, HashInvalidate

\* Set of a new key in the MCP hash cache takes it back within its limits on
\* entries and on memory, whatever updates, batches, invalidations and resizes
\* came before, unless the entry alone is too large, and evicts no entry that
\* could have stayed (Set, evictLRU).
THEOREM SetStaysWithinLimits == HashSpec => SetKeepsLimits
<1> DEFINE Keeps ==
      \A it \in Item : Len(lru') > 0 /\ lru'[1] = it /\ HashInsert(it) =>
        LET n == Len(lru') - 1
        IN  /\ n < limits[1] \/ lru' = <<it>>
            /\ MemOf(lru') <= limits[2] \/ lru' = <<it>>
            /\ n < Len(lru) =>
                 \/ n + 1 >= limits[1]
                 \/ MemOf(SubSeq(lru, 1, n + 1)) + it.size > limits[2]
<1>1. ASSUME HashInv, [HashNext]_hashVars PROVE [Keeps]_hashVars
  <2> SUFFICES ASSUME NEW it \in Item, HashInsert(it)
               PROVE  LET n == Len(lru') - 1
                      IN  /\ n < limits[1] \/ lru' = <<it>>
                          /\ MemOf(lru') <= limits[2] \/ lru' = <<it>>
                          /\ n < Len(lru) =>
                               \/ n + 1 >= limits[1]
                               \/ MemOf(SubSeq(lru, 1, n + 1)) + it.size > limits[2]
    OBVIOUS
  <2> DEFINE n == Remaining(1, it.size, limits)
             e == Evicted(n)
             kept == SubSeq(lru, 1, n)
  <2>1. /\ Agreed(Held) /\ limits \in HashLimits /\ it.size \in Nat /\ it.key \notin index
        /\ lru \in Seq(Item) /\ Len(lru) \in Nat
    BY <1>1, ItemTypes DEF HashInv, HashInsert, Agreed, Held
  <2>2. limits[1] \in Int /\ limits[2] \in Int
    BY <2>1, HashAssumption
  <2>3. /\ n \in 0..Len(lru)
        /\ n > 0 => n + 1 <= limits[1] /\ MemOf(kept) + it.size <= limits[2]
        /\ n < Len(lru) => ~(/\ n + 1 + 1 <= limits[1]
                             /\ MemOf(SubSeq(lru, 1, n + 1)) + it.size <= limits[2])
    BY <2>1, RemainingProperties
  <2>4. lru' = Stored(e, it).lru
    BY DEF HashInsert, Becomes
  <2> HIDE DEF n
  <2>5. Agreed(e) /\ e.index \subseteq index /\ e.lru = kept /\ Len(kept) = n
    BY <2>1, <2>3, EvictedAgreed
  <2> HIDE DEF e, kept
  <2>6. lru' = <<it>> \o kept /\ Len(lru') = n + 1 /\ MemOf(lru') = MemOf(kept) + it.size
    BY <2>1, <2>4, <2>5, StoredAgreed
  <2>7. n = 0 => lru' = <<it>>
    <3>1. kept \in Seq(Item)
      BY <2>5 DEF Agreed
    <3> QED
      BY <2>5, <2>6, <3>1
  <2>8. Len(lru') - 1 = n
    BY <2>3, <2>6
  <2>9. n < Len(lru) => MemOf(SubSeq(lru, 1, n + 1)) \in Nat
    <3>1. n < Len(lru) => n + 1 \in 0..Len(lru)
      BY <2>1, <2>3
    <3> QED
      BY <2>1, <3>1, Cut
  <2> QED
    BY <2>1, <2>2, <2>3, <2>6, <2>7, <2>8, <2>9
<1> QED
  BY <1>1, HashInitInv, HashNextInv, PTL DEF SetKeepsLimits, HashSpec

-----------------------------------------------------------------------------
(***************************************************************************)
(* LRU cache                                                               *)
(***************************************************************************)
\* The list s holds each key of E once, and the pairs of N put the keys in
\* the order of the list.
Listed(s, S, N, E) ==
  /\ s \in Seq(S)
  /\ \A i \in 1..Len(s) : s[i].key \in Key
  /\ \A i, j \in 1..Len(s) : s[i].key = s[j].key => i = j
  /\ \A i, j \in 1..Len(s) : i < j => <<s[i].key, s[j].key>> \in N
  /\ E = {s[i].key : i \in 1..Len(s)}

\* The list and the map of the LRU cache agree, within its size, and the list
\* is in the order of use.
LRUInv ==
  /\ Listed(order, Elem, newer, entries)
  /\ Len(order) <= MaxSize

\* What the list stores under each key.
StoreOf(s) ==
  [k \in {s[i].key : i \in DOMAIN s} |-> s[CHOOSE i \in DOMAIN s : s[i].key = k].value]

\* The lists s and t store the same under the keys of F.
SameStore(s, t, F) == \A x \in F : StoreOf(t)[x] = StoreOf(s)[x]

UsedAfter(N, k) == {r \in N : r[2] # k} \union {<<k, x>> : x \in Key \ {k}}

LEMMA StoreIsFunction ==
  ASSUME NEW s PROVE StoreOf(s) = [k \in DOMAIN StoreOf(s) |-> StoreOf(s)[k]]
BY DEF StoreOf

\* Uniqueness of the keys makes the store a function of the elements.
LEMMA StoreOfListed ==
  ASSUME NEW s, NEW S, NEW N, NEW E, Listed(s, S, N, E)
  PROVE  /\ DOMAIN StoreOf(s) = E
         /\ \A i \in 1..Len(s) : StoreOf(s)[s[i].key] = s[i].value
         /\ E \subseteq Key
<1>1. s \in Seq(S) /\ DOMAIN s = 1..Len(s)
  BY DEF Listed
<1>2. ASSUME NEW i \in 1..Len(s) PROVE StoreOf(s)[s[i].key] = s[i].value
  <2>1. (CHOOSE j \in DOMAIN s : s[j].key = s[i].key) = i
    BY <1>1 DEF Listed
  <2> QED
    BY <1>1, <2>1 DEF StoreOf
<1>3. ASSUME NEW i \in 1..Len(s) PROVE s[i].key \in Key
  BY DEF Listed
<1> QED
  BY <1>1, <1>2, <1>3 DEF StoreOf, Listed

\* Removing an element of the list, as removeElement does.
LEMMA RemoveListed ==
  ASSUME NEW s, NEW S, NEW N, NEW E, Listed(s, S, N, E), NEW i \in 1..Len(s)
  PROVE  /\ Listed(RemoveAt(s, i), S, N, E \ {s[i].key})
         /\ Len(RemoveAt(s, i)) = Len(s) - 1
         /\ SameStore(s, RemoveAt(s, i), E \ {s[i].key})
<1> DEFINE t == RemoveAt(s, i)
           F == E \ {s[i].key}
           was(j) == IF j < i THEN j ELSE j + 1
<1>1. s \in Seq(S) /\ Len(s) \in Nat /\ i \in Nat
  BY DEF Listed
<1>2. /\ t \in Seq(S)
      /\ Len(t) = Len(s) - 1
      /\ \A j \in 1..Len(t) : t[j] = s[was(j)]
  BY <1>1, RemoveAtProperties
<1> HIDE DEF t
<1>3. /\ \A j \in 1..Len(t) : was(j) \in 1..Len(s) /\ was(j) # i
      /\ \A j, k \in 1..Len(t) : (was(j) = was(k) => j = k) /\ (j < k => was(j) < was(k))
  BY <1>1, <1>2
<1>4. \A m \in 1..Len(s) : m # i => \E j \in 1..Len(t) : was(j) = m
  <2> SUFFICES ASSUME NEW m \in 1..Len(s), m # i PROVE \E j \in 1..Len(t) : was(j) = m
    OBVIOUS
  <2>1. CASE m < i
    <3>1. m \in 1..Len(t) /\ was(m) = m
      BY <1>1, <1>2, <2>1
    <3> QED
      BY <3>1
  <2>2. CASE m > i
    <3>1. m - 1 \in 1..Len(t) /\ was(m - 1) = m
      BY <1>1, <1>2, <2>2
    <3> QED
      BY <3>1
  <2> QED
    BY <1>1, <2>1, <2>2
<1> HIDE DEF was
<1>5. F = {t[j].key : j \in 1..Len(t)}
  <2>1. ASSUME NEW j \in 1..Len(t) PROVE t[j].key \in F
    BY <1>2, <1>3 DEF Listed
  <2>2. ASSUME NEW x \in F PROVE \E j \in 1..Len(t) : t[j].key = x
    <3>1. PICK m \in 1..Len(s) : s[m].key = x /\ m # i
      BY DEF Listed
    <3>2. PICK j \in 1..Len(t) : was(j) = m
      BY <1>4, <3>1
    <3> QED
      BY <1>2, <3>1, <3>2
  <2> QED
    BY <2>1, <2>2
<1>6. Listed(t, S, N, F)
  BY <1>2, <1>3, <1>5, ZenonT(40) DEF Listed
<1>7. ASSUME NEW x \in F PROVE StoreOf(t)[x] = StoreOf(s)[x]
  <2>1. PICK j \in 1..Len(t) : t[j].key = x
    BY <1>5
  <2>2. StoreOf(t)[x] = t[j].value
    BY <1>6, <2>1, StoreOfListed
  <2>3. StoreOf(s)[x] = s[was(j)].value
    BY <1>2, <1>3, <2>1, StoreOfListed
  <2> QED
    BY <1>2, <2>2, <2>3
<1> QED
  BY <1>2, <1>6, <1>7 DEF t, SameStore

\* Pushing an element with a new key, which is the one used last.
LEMMA PushListed ==
  ASSUME NEW s, NEW S, NEW N, NEW E, Listed(s, S, N, E),
         NEW e \in S, e.key \in Key, e.key \notin E
  PROVE  /\ Listed(<<e>> \o s, S, UsedAfter(N, e.key), E \union {e.key})
         /\ Len(<<e>> \o s) = Len(s) + 1
         /\ StoreOf(<<e>> \o s)[e.key] = e.value
         /\ SameStore(s, <<e>> \o s, E)
<1> DEFINE t == <<e>> \o s
           F == E \union {e.key}
           M == UsedAfter(N, e.key)
<1>1. s \in Seq(S) /\ Len(s) \in Nat
  BY DEF Listed
<1>2. /\ t \in Seq(S)
      /\ Len(t) = Len(s) + 1
      /\ t[1] = e
      /\ \A j \in 2..(Len(s) + 1) : t[j] = s[j - 1]
  BY <1>1, PushProperties
<1> HIDE DEF t
<1>3. ASSUME NEW j \in 1..Len(t), j # 1
      PROVE  j - 1 \in 1..Len(s) /\ t[j] = s[j - 1] /\ t[j].key \in E /\ t[j].key # e.key
  BY <1>1, <1>2, <1>3 DEF Listed
<1>4. ASSUME NEW m \in 1..Len(s) PROVE m + 1 \in 1..Len(t) /\ t[m + 1] = s[m]
  <2>1. m + 1 \in 2..(Len(s) + 1) /\ (m + 1) - 1 = m
    BY <1>1
  <2> QED
    BY <1>1, <1>2, <2>1
<1>5. F = {t[j].key : j \in 1..Len(t)}
  <2>1. 1 \in 1..Len(t)
    BY <1>1, <1>2
  <2>2. ASSUME NEW j \in 1..Len(t) PROVE t[j].key \in F
    BY <1>2, <1>3
  <2>3. ASSUME NEW x \in F PROVE \E j \in 1..Len(t) : t[j].key = x
    <3>1. CASE x = e.key
      BY <1>2, <2>1, <3>1
    <3>2. CASE x # e.key
      <4>1. PICK m \in 1..Len(s) : s[m].key = x
        BY <3>2 DEF Listed
      <4> QED
        BY <1>4, <4>1
    <3> QED
      BY <3>1, <3>2
  <2> QED
    BY <2>2, <2>3
<1>6. ASSUME NEW i \in 1..Len(t), NEW j \in 1..Len(t), t[i].key = t[j].key PROVE i = j
  <2>1. CASE i = 1 \/ j = 1
    BY <1>2, <1>3, <1>6, <2>1
  <2>2. CASE i # 1 /\ j # 1
    <3>1. i - 1 = j - 1
      BY <1>3, <1>6, <2>2 DEF Listed
    <3> QED
      BY <1>1, <1>2, <3>1
  <2> QED
    BY <2>1, <2>2
<1>7. ASSUME NEW i \in 1..Len(t), NEW j \in 1..Len(t), i < j
      PROVE  <<t[i].key, t[j].key>> \in M
  <2>1. j # 1 /\ j - 1 \in 1..Len(s) /\ t[j] = s[j - 1] /\ t[j].key \in E /\ t[j].key # e.key
    BY <1>1, <1>2, <1>3, <1>7
  <2>2. CASE i = 1
    <3>1. t[j].key \in Key \ {e.key}
      BY <2>1, StoreOfListed
    <3> QED
      BY <1>2, <2>2, <3>1 DEF UsedAfter
  <2>3. CASE i # 1
    <3>1. i - 1 \in 1..Len(s) /\ t[i] = s[i - 1] /\ i - 1 < j - 1
      BY <1>1, <1>2, <1>3, <1>7, <2>3
    <3>2. <<t[i].key, t[j].key>> \in N
      BY <2>1, <3>1 DEF Listed
    <3> QED
      BY <2>1, <3>2 DEF UsedAfter
  <2> QED
    BY <2>2, <2>3
<1>8. Listed(t, S, M, F)
  <2>1. \A j \in 1..Len(t) : t[j].key \in Key
    BY <1>2, <1>3 DEF Listed
  <2> QED
    BY <1>2, <1>5, <1>6, <1>7, <2>1 DEF Listed
<1>9. StoreOf(t)[e.key] = e.value
  <2>1. 1 \in 1..Len(t)
    BY <1>1, <1>2
  <2> QED
    BY <1>2, <1>8, <2>1, StoreOfListed
<1>10. ASSUME NEW x \in E PROVE StoreOf(t)[x] = StoreOf(s)[x]
  <2>1. PICK m \in 1..Len(s) : s[m].key = x
    BY DEF Listed
  <2>2. StoreOf(s)[x] = s[m].value
    BY <2>1, StoreOfListed
  <2>3. StoreOf(t)[x] = t[m + 1].value
    BY <1>4, <1>8, <2>1, StoreOfListed
  <2> QED
    BY <1>4, <2>2, <2>3
<1> QED
  BY <1>2, <1>8, <1>9, <1>10 DEF t, SameStore

\* The list has as many elements as there are keys.
LEMMA ListedSize ==
  ASSUME NEW s, NEW S, NEW N, NEW E, Listed(s, S, N, E)
  PROVE  IsFiniteSet(E) /\ Cardinality(E) = Len(s)
<1> DEFINE n == Len(s)
           f == [i \in 1..n |-> s[i].key]
<1>1. n \in Nat /\ E = {s[i].key : i \in 1..n}
  BY DEF Listed
<1>2. f \in [1..n -> E] /\ \A i, j \in 1..n : f[i] = f[j] => i = j
  BY <1>1 DEF Listed
<1>3. \A x \in E : \E i \in 1..n : f[i] = x
  BY <1>1
<1> HIDE DEF n, f
<1>4. IsFiniteSet(E) /\ Cardinality(E) = n
  BY <1>1, <1>2, <1>3, DistinctSize
<1> QED
  BY <1>4 DEF n

\* MoveToFront of an element, updated or not.
LEMMA FrontListed ==
  ASSUME NEW s, NEW S, NEW N, NEW E, Listed(s, S, N, E), NEW i \in 1..Len(s),
         NEW e \in S, e.key = s[i].key
  PROVE  /\ Listed(<<e>> \o RemoveAt(s, i), S, UsedAfter(N, e.key), E)
         /\ Len(<<e>> \o RemoveAt(s, i)) = Len(s)
         /\ StoreOf(<<e>> \o RemoveAt(s, i))[e.key] = e.value
         /\ SameStore(s, <<e>> \o RemoveAt(s, i), E \ {e.key})
<1> DEFINE r == RemoveAt(s, i)
           F == E \ {e.key}
           t == <<e>> \o r
<1>1. /\ Listed(r, S, N, F)
      /\ Len(r) = Len(s) - 1
      /\ SameStore(s, r, F)
  <2>1. /\ Listed(RemoveAt(s, i), S, N, E \ {s[i].key})
        /\ Len(RemoveAt(s, i)) = Len(s) - 1
        /\ SameStore(s, RemoveAt(s, i), E \ {s[i].key})
    BY RemoveListed
  <2> QED
    BY <2>1, Zenon
<1>2. Len(s) \in Nat /\ e.key \in Key /\ e.key \in E /\ e.key \notin F /\ F \union {e.key} = E
  BY DEF Listed
<1> HIDE DEF r, F
<1>3. /\ Listed(t, S, UsedAfter(N, e.key), F \union {e.key})
      /\ Len(t) = Len(r) + 1
      /\ StoreOf(t)[e.key] = e.value
      /\ SameStore(r, t, F)
  BY <1>1, <1>2, PushListed
<1> HIDE DEF t
<1>4. Len(t) = Len(s)
  BY <1>1, <1>2, <1>3
<1>5. SameStore(s, t, F)
  BY <1>1, <1>3 DEF SameStore
<1> QED
  BY <1>2, <1>3, <1>4, <1>5 DEF t, r, F

\* The clock changes no key and no value.
LEMMA AgedListed ==
  ASSUME NEW s, NEW N, NEW E, Listed(s, Elem, N, E),
         NEW t, t = [i \in DOMAIN s |-> [s[i] EXCEPT !.age = IF @ <= TTL THEN @ + 1 ELSE @]]
  PROVE  Listed(t, Elem, N, E) /\ Len(t) = Len(s) /\ StoreOf(t) = StoreOf(s)
<1>1. s \in Seq(Elem) /\ Len(s) \in Nat /\ DOMAIN s = 1..Len(s)
  BY DEF Listed
<1>2. ASSUME NEW i \in 1..Len(s)
      PROVE  t[i] \in Elem /\ t[i].key = s[i].key /\ t[i].value = s[i].value
  <2>1. s[i] \in Elem
    BY <1>1, ElementOfSeq
  <2>2. t[i] = [s[i] EXCEPT !.age = IF s[i].age <= TTL THEN s[i].age + 1 ELSE s[i].age]
    BY <1>1
  <2>3. ASSUME NEW r \in Elem, NEW n, n = IF r.age <= TTL THEN r.age + 1 ELSE r.age
        PROVE  /\ [r EXCEPT !.age = n] \in Elem
               /\ [r EXCEPT !.age = n].key = r.key
               /\ [r EXCEPT !.age = n].value = r.value
    <3>1. n \in 0..(TTL + 1)
      BY <2>3, LRUAssumption DEF Elem
    <3> QED
      BY <3>1 DEF Elem
  <2> QED
    BY <2>1, <2>2, <2>3
<1>3. t \in [1..Len(s) -> Elem]
  BY <1>1, <1>2
<1>4. t \in Seq(Elem) /\ Len(t) = Len(s)
  BY <1>1, <1>3, IsASeq
<1>5. E = {t[i].key : i \in 1..Len(t)}
  BY <1>2, <1>4 DEF Listed
<1>6. Listed(t, Elem, N, E)
  BY <1>2, <1>4, <1>5 DEF Listed
<1>7. ASSUME NEW x \in E PROVE StoreOf(t)[x] = StoreOf(s)[x]
  <2>1. PICK i \in 1..Len(s) : s[i].key = x
    BY DEF Listed
  <2>2. StoreOf(s)[x] = s[i].value
    BY <2>1, StoreOfListed
  <2>3. t[i].key = x /\ t[i].value = s[i].value /\ i \in 1..Len(t)
    BY <1>2, <1>4, <2>1
  <2>4. StoreOf(t)[x] = t[i].value
    BY <1>6, <2>3, StoreOfListed
  <2> QED
    BY <2>2, <2>3, <2>4
<1>8. DOMAIN StoreOf(t) = E /\ DOMAIN StoreOf(s) = E
  BY <1>6, StoreOfListed
<1>9. StoreOf(t) = [x \in E |-> StoreOf(t)[x]] /\ StoreOf(s) = [x \in E |-> StoreOf(s)[x]]
  BY <1>8, StoreIsFunction
<1> QED
  BY <1>4, <1>6, <1>7, <1>9

\* Where the list has a key of the map.
LEMMA AtListed ==
  ASSUME LRUInv, NEW k \in entries
  PROVE  At(k) \in 1..Len(order) /\ order[At(k)].key = k /\ order[At(k)] \in Elem
<1>1. order \in Seq(Elem) /\ DOMAIN order = 1..Len(order)
  BY DEF LRUInv, Listed
<1>2. \E i \in DOMAIN order : order[i].key = k
  BY <1>1 DEF LRUInv, Listed
<1>3. At(k) \in DOMAIN order /\ order[At(k)].key = k
  BY <1>2 DEF At
<1> QED
  BY <1>1, <1>3, ElementOfSeq

\* What each operation of the LRU cache leaves: the list and the map agree, and
\* the store has lost at most one entry besides the one it was asked to change.
LEMMA LRUHit ==
  ASSUME LRUInv, NEW k \in Key, Hit(k)
  PROVE  /\ LRUInv' /\ UNCHANGED entries
         /\ StoreOf(order')[k] = StoreOf(order)[k] /\ answer' = StoreOf(order)[k]
         /\ SameStore(order, order', entries \ {k})
<1> DEFINE i == At(k)
           e == order[i]
<1>1. i \in 1..Len(order) /\ e.key = k /\ e \in Elem
  BY AtListed DEF Hit
<1>2. order' = <<e>> \o RemoveAt(order, i) /\ newer' = UsedAfter(newer, k) /\ answer' = e.value
  BY DEF Hit, ToFront, Use, UsedAfter
<1>3. UNCHANGED entries
  BY DEF Hit
<1>4. Listed(order, Elem, newer, entries) /\ StoreOf(order)[k] = e.value
  BY <1>1, StoreOfListed DEF LRUInv
<1> HIDE DEF e, i
<1>5. /\ Listed(order', Elem, UsedAfter(newer, k), entries)
      /\ Len(order') = Len(order)
      /\ StoreOf(order')[k] = e.value
      /\ SameStore(order, order', entries \ {k})
  <2>1. e \in Elem /\ e.key = order[i].key /\ i \in 1..Len(order)
    BY <1>1 DEF e
  <2>2. /\ Listed(<<e>> \o RemoveAt(order, i), Elem, UsedAfter(newer, e.key), entries)
        /\ Len(<<e>> \o RemoveAt(order, i)) = Len(order)
        /\ StoreOf(<<e>> \o RemoveAt(order, i))[e.key] = e.value
        /\ SameStore(order, <<e>> \o RemoveAt(order, i), entries \ {e.key})
    BY <1>4, <2>1, FrontListed
  <2> QED
    BY <1>1, <1>2, <2>2
<1> QED
  BY <1>2, <1>3, <1>4, <1>5 DEF LRUInv

LEMMA LRUExpired ==
  ASSUME LRUInv, NEW k \in Key, Expired(k)
  PROVE  /\ LRUInv' /\ entries' = entries \ {k}
         /\ SameStore(order, order', entries \ {k})
<1>1. At(k) \in 1..Len(order) /\ order[At(k)].key = k
  BY AtListed DEF Expired
<1>2. order' = RemoveAt(order, At(k)) /\ entries' = entries \ {k} /\ UNCHANGED newer
  BY DEF Expired
<1>3. Listed(order, Elem, newer, entries) /\ Len(order) \in Nat /\ Len(order) <= MaxSize
  BY DEF LRUInv, Listed
<1>4. /\ Listed(RemoveAt(order, At(k)), Elem, newer, entries \ {order[At(k)].key})
      /\ Len(RemoveAt(order, At(k))) = Len(order) - 1
      /\ SameStore(order, RemoveAt(order, At(k)), entries \ {order[At(k)].key})
  BY <1>1, <1>3, RemoveListed
<1>5. Len(order') <= MaxSize
  BY <1>2, <1>3, <1>4, LRUAssumption
<1> QED
  BY <1>1, <1>2, <1>4, <1>5 DEF LRUInv

LEMMA LRUUpdate ==
  ASSUME LRUInv, NEW k \in Key, NEW v \in Value, Update(k, v)
  PROVE  /\ LRUInv' /\ UNCHANGED entries
         /\ StoreOf(order')[k] = v
         /\ SameStore(order, order', entries \ {k})
<1> DEFINE e == [key |-> k, value |-> v, age |-> 0]
<1>1. At(k) \in 1..Len(order) /\ order[At(k)].key = k
  BY AtListed DEF Update
<1>2. e \in Elem /\ e.key = k /\ e.value = v
  BY LRUAssumption DEF Elem
<1>3. order' = <<e>> \o RemoveAt(order, At(k)) /\ newer' = UsedAfter(newer, k) /\ UNCHANGED entries
  BY DEF Update, ToFront, Use, UsedAfter
<1>4. Listed(order, Elem, newer, entries)
  BY DEF LRUInv
<1> HIDE DEF e
<1>5. /\ Listed(order', Elem, UsedAfter(newer, k), entries)
      /\ Len(order') = Len(order)
      /\ StoreOf(order')[k] = v
      /\ SameStore(order, order', entries \ {k})
  <2> DEFINE i == At(k)
  <2>1. e.key = order[i].key /\ i \in 1..Len(order)
    BY <1>1, <1>2
  <2> HIDE DEF i
  <2>2. /\ Listed(<<e>> \o RemoveAt(order, i), Elem, UsedAfter(newer, e.key), entries)
        /\ Len(<<e>> \o RemoveAt(order, i)) = Len(order)
        /\ StoreOf(<<e>> \o RemoveAt(order, i))[e.key] = e.value
        /\ SameStore(order, <<e>> \o RemoveAt(order, i), entries \ {e.key})
    BY <1>2, <1>4, <2>1, FrontListed
  <2> QED
    BY <1>2, <1>3, <2>2 DEF i
<1> QED
  BY <1>3, <1>5 DEF LRUInv

\* Set of a new key: gone is the key of the evicted element, if there is one.
LEMMA LRUInsert ==
  ASSUME LRUInv, NEW k \in Key, NEW v \in Value, Insert(k, v)
  PROVE  /\ LRUInv'
         /\ StoreOf(order')[k] = v
         /\ k \notin entries
         /\ \E gone \in SUBSET entries :
              /\ entries' = (entries \ gone) \union {k}
              /\ SameStore(order, order', entries \ gone)
              /\ \A x \in gone : \A y \in entries \ {x} : <<y, x>> \in newer
<1> DEFINE e == [key |-> k, value |-> v, age |-> 0]
<1>1. e \in Elem /\ e.key = k /\ e.value = v
  BY LRUAssumption DEF Elem
<1>2. Listed(order, Elem, newer, entries) /\ Len(order) \in Nat /\ Len(order) <= MaxSize
  BY DEF LRUInv, Listed
<1>3. newer' = UsedAfter(newer, k) /\ k \notin entries
  BY DEF Insert, Use, UsedAfter
<1>4. CASE Len(order) >= MaxSize
  <2> DEFINE n == Len(order)
             r == RemoveAt(order, n)
             old == order[n].key
  <2>1. n \in 1..Len(order) /\ Len(order) > 0
    BY <1>2, <1>4, LRUAssumption
  <2>2. order' = <<e>> \o r /\ entries' = (entries \ {old}) \union {k}
    <3>1. order' = <<e>> \o Front(order) /\ entries' = (entries \ {Last(order).key}) \union {k}
      BY <1>4 DEF Insert
    <3>2. Front(order) = r
      BY <1>2, <2>1, FrontIsRemoveAt DEF Listed
    <3> QED
      BY <3>1, <3>2 DEF Last
  <2>3. old \in entries
    BY <1>2, <2>1 DEF Listed
  <2>4. \A y \in entries \ {old} : <<y, old>> \in newer
    <3> SUFFICES ASSUME NEW y \in entries \ {old} PROVE <<y, old>> \in newer
      OBVIOUS
    <3>1. PICK i \in 1..Len(order) : order[i].key = y
      BY <1>2 DEF Listed
    <3>2. i < n
      BY <1>2, <3>1
    <3> QED
      BY <1>2, <2>1, <3>1, <3>2 DEF Listed
  <2>5. /\ Listed(r, Elem, newer, entries \ {old})
        /\ Len(r) = Len(order) - 1
        /\ SameStore(order, r, entries \ {old})
    BY <1>2, <2>1, RemoveListed
  <2> HIDE DEF e, r, old
  <2>6. k \notin entries \ {old}
    BY <1>3
  <2>7. /\ Listed(order', Elem, UsedAfter(newer, k), (entries \ {old}) \union {k})
        /\ Len(order') = Len(r) + 1
        /\ StoreOf(order')[k] = v
        /\ SameStore(r, order', entries \ {old})
    BY <1>1, <2>2, <2>5, <2>6, PushListed
  <2>8. SameStore(order, order', entries \ {old})
    BY <2>5, <2>7 DEF SameStore
  <2>9. Len(order') <= MaxSize
    BY <1>2, <2>5, <2>7
  <2>10. LRUInv'
    BY <1>3, <2>2, <2>7, <2>9 DEF LRUInv
  <2>11. {old} \in SUBSET entries
    BY <2>3
  <2>12. \A x \in {old} : \A y \in entries \ {x} : <<y, x>> \in newer
    BY <2>4
  <2> QED
    BY <1>3, <2>2, <2>7, <2>8, <2>10, <2>11, <2>12
<1>5. CASE ~(Len(order) >= MaxSize)
  <2>1. order' = <<e>> \o order /\ entries' = entries \union {k}
    BY <1>5 DEF Insert
  <2> HIDE DEF e
  <2>2. /\ Listed(order', Elem, UsedAfter(newer, k), entries \union {k})
        /\ Len(order') = Len(order) + 1
        /\ StoreOf(order')[k] = v
        /\ SameStore(order, order', entries)
    BY <1>1, <1>2, <1>3, <2>1, PushListed
  <2>3. Len(order') <= MaxSize
    BY <1>2, <1>5, <2>2, LRUAssumption
  <2>4. LRUInv'
    BY <1>3, <2>1, <2>2, <2>3 DEF LRUInv
  <2>5. entries \ {} = entries /\ {} \in SUBSET entries
    OBVIOUS
  <2> QED
    BY <1>3, <2>1, <2>2, <2>4, <2>5
<1> QED
  BY <1>4, <1>5

LEMMA LRUTick ==
  ASSUME LRUInv, Tick
  PROVE  LRUInv' /\ UNCHANGED entries /\ StoreOf(order') = StoreOf(order)
<1>1. Listed(order, Elem, newer, entries)
  BY DEF LRUInv
<1>2. Listed(order', Elem, newer, entries) /\ Len(order') = Len(order) /\ StoreOf(order') = StoreOf(order)
  BY <1>1, AgedListed DEF Tick
<1> QED
  BY <1>2 DEF LRUInv, Tick

LEMMA LRUInitInv == Init => LRUInv
<1> SUFFICES ASSUME Init PROVE LRUInv
  OBVIOUS
<1>1. order \in Seq(Elem) /\ Len(order) = 0
  BY DEF Init
<1>2. entries = {order[i].key : i \in 1..Len(order)}
  BY <1>1 DEF Init
<1> QED
  BY <1>1, <1>2, LRUAssumption DEF LRUInv, Listed

LEMMA LRUNextInv == LRUInv /\ [Next]_vars => LRUInv'
<1> SUFFICES ASSUME LRUInv, [Next]_vars PROVE LRUInv'
  OBVIOUS
<1>1. ASSUME NEW k \in Key, Hit(k) \/ Expired(k) PROVE LRUInv'
  BY <1>1, LRUHit, LRUExpired
<1>2. ASSUME NEW k \in Key, Absent(k) PROVE LRUInv'
  BY <1>2 DEF Absent, LRUInv
<1>3. ASSUME NEW k \in Key, NEW v \in Value, Update(k, v) \/ Insert(k, v) PROVE LRUInv'
  BY <1>3, LRUUpdate, LRUInsert
<1>4. CASE Tick
  BY <1>4, LRUTick
<1>5. CASE UNCHANGED vars
  BY <1>5 DEF vars, LRUInv
<1> QED
  BY <1>1, <1>2, <1>3, <1>4, <1>5 DEF Next

LEMMA LRUInvariance == Spec => []LRUInv
  BY LRUInitInv, LRUNextInv, PTL DEF Spec

\* The entry that Set evicts (evictOldest) is the least recently used one:
\* every entry that stays was used after it, for any capacity and any run of
\* hits, expiries and updates before.
THEOREM EvictionIsByUse == Spec => EvictsLeastRecent
<1> DEFINE Recent ==
      \A k \in entries, v \in Key :
        (v \notin entries /\ v \in entries' /\ k \notin entries')
          => \A s \in entries \ {k} : <<s, k>> \in newer
<1>1. ASSUME LRUInv, [Next]_vars PROVE [Recent]_vars
  <2> SUFFICES ASSUME NEW k \in entries, NEW v \in Key, v \notin entries, v \in entries',
                      k \notin entries', NEW s \in entries \ {k}, Next
               PROVE  <<s, k>> \in newer
    BY <1>1 DEF vars
  <2>1. ASSUME NEW j \in Key, NEW w \in Value, Insert(j, w) PROVE <<s, k>> \in newer
    <3>1. PICK gone \in SUBSET entries :
            /\ entries' = (entries \ gone) \union {j}
            /\ \A x \in gone : \A y \in entries \ {x} : <<y, x>> \in newer
      BY <1>1, <2>1, LRUInsert
    <3>2. k \in gone
      BY <3>1
    <3> QED
      BY <3>1, <3>2
  <2>2. ASSUME NEW j \in Key, Hit(j) \/ Expired(j) \/ Absent(j) PROVE FALSE
    BY <2>2 DEF Hit, Expired, Absent
  <2>3. ASSUME NEW j \in Key, NEW w \in Value, Update(j, w) PROVE FALSE
    BY <2>3 DEF Update
  <2>4. CASE Tick
    BY <2>4 DEF Tick
  <2> QED
    BY <2>1, <2>2, <2>3, <2>4 DEF Next
<1> QED
  BY <1>1, LRUInvariance, PTL DEF Spec, EvictsLeastRecent

\* A step that keeps the keys of F, changes nothing under them and may add k.
LEMMA HeldAfter ==
  ASSUME LRUInv, LRUInv', NEW F, F \subseteq entries, SameStore(order, order', F)
  PROVE  /\ held = [x \in entries |-> StoreOf(order)[x]]
         /\ held' = [x \in entries' |-> StoreOf(order')[x]]
         /\ entries' = F => held' = [x \in F |-> held[x]]
<1>1. held = StoreOf(order) /\ held' = StoreOf(order')
  BY DEF held, StoreOf, At
<1>2. Listed(order, Elem, newer, entries) /\ Listed(order', Elem, newer', entries')
  BY DEF LRUInv
<1>3. DOMAIN StoreOf(order) = entries /\ DOMAIN StoreOf(order') = entries'
  BY <1>2, StoreOfListed
<1>4. /\ held = [x \in entries |-> StoreOf(order)[x]]
      /\ held' = [x \in entries' |-> StoreOf(order')[x]]
  BY <1>1, <1>3 DEF StoreOf
<1>5. ASSUME entries' = F PROVE held' = [x \in F |-> held[x]]
  BY <1>1, <1>4, <1>5 DEF SameStore
<1> QED
  BY <1>4, <1>5

\* The LRU cache behind PipelineManager implements the bounded cache: at most
\* maxSize entries, the value stored last under the key or a miss, and a Set
\* of one key changes no other.
THEOREM LRURefinesBoundedCache == Spec => ImplementsBoundedCache
<1>1. Init => Cache!Init
  BY DEF Init, Cache!Init, held
<1>2. ASSUME LRUInv, [Next]_vars, LRUInv'
      PROVE  [Cache!Next]_<<held, answer>>
  <2>1. CASE UNCHANGED vars
    BY <2>1 DEF vars, held, At
  <2>2. ASSUME NEW k \in Key, Hit(k) PROVE Cache!Get(k)
    <3>1. /\ UNCHANGED entries /\ answer' = StoreOf(order)[k]
          /\ StoreOf(order')[k] = StoreOf(order)[k] /\ k \in entries
          /\ SameStore(order, order', entries \ {k})
      BY <1>2, <2>2, LRUHit DEF Hit
    <3>2. SameStore(order, order', entries)
      BY <3>1 DEF SameStore
    <3>3. /\ held = [x \in entries |-> StoreOf(order)[x]]
          /\ held' = [x \in entries |-> held[x]]
      BY <1>2, <3>1, <3>2, HeldAfter
    <3> QED
      BY <3>1, <3>3 DEF Cache!Get
  <2>3. ASSUME NEW k \in Key, Expired(k) PROVE Cache!Get(k)
    <3>1. /\ entries' = entries \ {k} /\ answer' = Miss
          /\ SameStore(order, order', entries \ {k})
      BY <1>2, <2>3, LRUExpired DEF Expired
    <3>2. /\ held = [x \in entries |-> StoreOf(order)[x]]
          /\ held' = [x \in entries \ {k} |-> held[x]]
      BY <1>2, <3>1, HeldAfter
    <3>3. held' = Cache!Drop({k})
      BY <3>2 DEF Cache!Drop, Cache!Restrict
    <3>4. {k} \in SUBSET {k}
      OBVIOUS
    <3> QED
      BY <3>1, <3>3, <3>4 DEF Cache!Get
  <2>4. ASSUME NEW k \in Key, Absent(k) PROVE Cache!Get(k)
    <3>1. SameStore(order, order', entries) /\ UNCHANGED entries /\ answer' = Miss
      BY <2>4 DEF Absent, SameStore
    <3>2. /\ held = [x \in entries |-> StoreOf(order)[x]]
          /\ held' = [x \in entries |-> held[x]]
      BY <1>2, <3>1, HeldAfter
    <3>3. held' = Cache!Drop({})
      BY <3>2 DEF Cache!Drop, Cache!Restrict
    <3>4. {} \in SUBSET {k}
      OBVIOUS
    <3> QED
      BY <3>1, <3>3, <3>4 DEF Cache!Get
  <2>5. ASSUME NEW k \in Key, NEW v \in Value, NEW gone \in SUBSET entries,
               entries' = (entries \ gone) \union {k}, StoreOf(order')[k] = v,
               SameStore(order, order', entries \ (gone \union {k})), UNCHANGED answer
        PROVE  Cache!Put(k, v)
    <3>1. /\ held = [x \in entries |-> StoreOf(order)[x]]
          /\ held' = [x \in entries' |-> StoreOf(order')[x]]
      <4> DEFINE F == entries \ (gone \union {k})
      <4>1. F \subseteq entries /\ SameStore(order, order', F)
        BY <2>5
      <4> HIDE DEF F
      <4> QED
        BY <1>2, <4>1, HeldAfter
    <3>2. held' = [x \in (DOMAIN held \ gone) \union {k} |-> IF x = k THEN v ELSE held[x]]
      BY <2>5, <3>1 DEF SameStore
    <3>3. \E G \in SUBSET (DOMAIN held) :
            held' = [x \in (DOMAIN held \ G) \union {k} |-> IF x = k THEN v ELSE held[x]]
      <4>1. gone \in SUBSET (DOMAIN held)
        BY <3>1
      <4> QED
        BY <3>2, <4>1, Zenon
    <3>4. Cardinality(entries') = Len(order') /\ Len(order') <= MaxSize
      BY <1>2, ListedSize DEF LRUInv
    <3>5. Cache!Cardinality(DOMAIN held') <= MaxSize
      <4>1. DOMAIN held' = entries'
        BY <3>1
      <4> QED
        BY <3>4, <4>1 DEF Cardinality, Cache!Cardinality
    <3> QED
      BY <2>5, <3>3, <3>5 DEF Cache!Put
  <2>6. ASSUME NEW k \in Key, NEW v \in Value, Update(k, v) PROVE Cache!Put(k, v)
    <3>1. /\ UNCHANGED <<entries, answer>> /\ StoreOf(order')[k] = v /\ k \in entries
          /\ SameStore(order, order', entries \ {k})
      BY <1>2, <2>6, LRUUpdate DEF Update
    <3>2. entries' = (entries \ {}) \union {k} /\ {} \union {k} = {k} /\ {} \in SUBSET entries
      BY <3>1
    <3> QED
      BY <2>5, <3>1, <3>2
  <2>7. ASSUME NEW k \in Key, NEW v \in Value, Insert(k, v) PROVE Cache!Put(k, v)
    <3>1. PICK gone \in SUBSET entries :
            /\ entries' = (entries \ gone) \union {k}
            /\ SameStore(order, order', entries \ gone)
      BY <1>2, <2>7, LRUInsert
    <3>2. StoreOf(order')[k] = v /\ k \notin entries /\ UNCHANGED answer
      BY <1>2, <2>7, LRUInsert DEF Insert
    <3>3. SameStore(order, order', entries \ (gone \union {k}))
      BY <3>1, <3>2 DEF SameStore
    <3> QED
      BY <2>5, <3>1, <3>2, <3>3
  <2>8. CASE Tick
    <3>1. StoreOf(order') = StoreOf(order) /\ UNCHANGED answer
      BY <1>2, <2>8, LRUTick DEF Tick
    <3>2. held = StoreOf(order) /\ held' = StoreOf(order')
      BY DEF held, StoreOf, At
    <3> QED
      BY <3>1, <3>2
  <2> QED
    BY <1>2, <2>1, <2>2, <2>3, <2>4, <2>6, <2>7, <2>8 DEF Next, Cache!Next
<1> QED
  BY <1>1, <1>2, LRUInvariance, PTL DEF Spec, Cache!Spec, ImplementsBoundedCache

-----------------------------------------------------------------------------
(***************************************************************************)
(* Lists of keys, each once                                                *)
(***************************************************************************)
Distinct(s, E) ==
  /\ s \in Seq(Key)
  /\ \A i, j \in 1..Len(s) : s[i] = s[j] => i = j
  /\ E = ToSet(s)

\* What ToSet means for a sequence.
LEMMA ToSetOfSeq ==
  ASSUME NEW S, NEW s \in Seq(S)
  PROVE  ToSet(s) = {s[i] : i \in 1..Len(s)} /\ ToSet(s) \subseteq S
<1>1. DOMAIN s = 1..Len(s)
  OBVIOUS
<1>2. \A i \in 1..Len(s) : s[i] \in S
  BY ElementOfSeq
<1> QED
  BY <1>1, <1>2 DEF ToSet

LEMMA DistinctCardinality ==
  ASSUME NEW s, NEW E, Distinct(s, E)
  PROVE  IsFiniteSet(E) /\ Cardinality(E) = Len(s)
<1>1. s \in Seq(Key) /\ Len(s) \in Nat /\ E = {s[i] : i \in 1..Len(s)}
  BY ToSetOfSeq DEF Distinct
<1>2. s \in [1..Len(s) -> E]
  BY <1>1
<1>3. \A i, j \in 1..Len(s) : s[i] = s[j] => i = j
  BY DEF Distinct
<1>4. \A x \in E : \E i \in 1..Len(s) : s[i] = x
  BY <1>1
<1> QED
  BY <1>1, <1>2, <1>3, <1>4, DistinctSize

LEMMA RemoveDistinct ==
  ASSUME NEW s, NEW E, Distinct(s, E), NEW i \in 1..Len(s)
  PROVE  Distinct(RemoveAt(s, i), E \ {s[i]}) /\ Len(RemoveAt(s, i)) = Len(s) - 1
<1> DEFINE t == RemoveAt(s, i)
           was(j) == IF j < i THEN j ELSE j + 1
<1>1. s \in Seq(Key) /\ Len(s) \in Nat /\ i \in Nat /\ E = {s[j] : j \in 1..Len(s)}
  BY ToSetOfSeq DEF Distinct
<1>2. /\ t \in Seq(Key)
      /\ Len(t) = Len(s) - 1
      /\ \A j \in 1..Len(t) : t[j] = s[was(j)]
  BY <1>1, RemoveAtProperties
<1> HIDE DEF t
<1>3. /\ \A j \in 1..Len(t) : was(j) \in 1..Len(s) /\ was(j) # i
      /\ \A j, k \in 1..Len(t) : was(j) = was(k) => j = k
  BY <1>1, <1>2
<1>4. ASSUME NEW m \in 1..Len(s), m # i PROVE \E j \in 1..Len(t) : was(j) = m
  <2>1. CASE m < i
    <3>1. m \in 1..Len(t) /\ was(m) = m
      BY <1>1, <1>2, <2>1
    <3> QED
      BY <3>1
  <2>2. CASE m > i
    <3>1. m - 1 \in 1..Len(t) /\ was(m - 1) = m
      BY <1>1, <1>2, <2>2
    <3> QED
      BY <3>1
  <2> QED
    BY <1>1, <1>4, <2>1, <2>2
<1> HIDE DEF was
<1>5. E \ {s[i]} = {t[j] : j \in 1..Len(t)}
  <2>1. ASSUME NEW j \in 1..Len(t) PROVE t[j] \in E \ {s[i]}
    BY <1>1, <1>2, <1>3 DEF Distinct
  <2>2. ASSUME NEW x \in E \ {s[i]} PROVE \E j \in 1..Len(t) : t[j] = x
    <3>1. PICK m \in 1..Len(s) : s[m] = x /\ m # i
      BY <1>1
    <3>2. PICK j \in 1..Len(t) : was(j) = m
      BY <1>4, <3>1
    <3> QED
      BY <1>2, <3>1, <3>2
  <2> QED
    BY <2>1, <2>2
<1>6. \A j, k \in 1..Len(t) : t[j] = t[k] => j = k
  BY <1>2, <1>3 DEF Distinct
<1>7. Distinct(t, E \ {s[i]})
  BY <1>2, <1>5, <1>6, ToSetOfSeq DEF Distinct
<1> QED
  BY <1>2, <1>7 DEF t

LEMMA PushDistinct ==
  ASSUME NEW s, NEW E, Distinct(s, E), NEW k \in Key, k \notin E
  PROVE  Distinct(<<k>> \o s, E \union {k}) /\ Len(<<k>> \o s) = Len(s) + 1
<1> DEFINE t == <<k>> \o s
<1>1. s \in Seq(Key) /\ Len(s) \in Nat /\ E = {s[j] : j \in 1..Len(s)}
  BY ToSetOfSeq DEF Distinct
<1>2. /\ t \in Seq(Key)
      /\ Len(t) = Len(s) + 1
      /\ t[1] = k
      /\ \A j \in 2..(Len(s) + 1) : t[j] = s[j - 1]
  BY <1>1, PushProperties
<1> HIDE DEF t
<1>3. ASSUME NEW j \in 1..Len(t), j # 1
      PROVE  j - 1 \in 1..Len(s) /\ t[j] = s[j - 1] /\ t[j] \in E
  BY <1>1, <1>2, <1>3
<1>4. ASSUME NEW m \in 1..Len(s) PROVE m + 1 \in 1..Len(t) /\ t[m + 1] = s[m]
  <2>1. m + 1 \in 2..(Len(s) + 1) /\ (m + 1) - 1 = m
    BY <1>1
  <2> QED
    BY <1>1, <1>2, <2>1
<1>5. E \union {k} = {t[j] : j \in 1..Len(t)}
  <2>1. 1 \in 1..Len(t)
    BY <1>1, <1>2
  <2>2. ASSUME NEW j \in 1..Len(t) PROVE t[j] \in E \union {k}
    BY <1>2, <1>3
  <2>3. ASSUME NEW x \in E \union {k} PROVE \E j \in 1..Len(t) : t[j] = x
    <3>1. CASE x = k
      BY <1>2, <2>1, <3>1
    <3>2. CASE x # k
      <4>1. PICK m \in 1..Len(s) : s[m] = x
        BY <1>1, <3>2
      <4> QED
        BY <1>4, <4>1
    <3> QED
      BY <3>1, <3>2
  <2> QED
    BY <2>2, <2>3
<1>6. ASSUME NEW i \in 1..Len(t), NEW j \in 1..Len(t), t[i] = t[j] PROVE i = j
  <2>1. CASE i = 1 \/ j = 1
    BY <1>2, <1>3, <1>6, <2>1
  <2>2. CASE i # 1 /\ j # 1
    <3>1. i - 1 = j - 1
      BY <1>3, <1>6, <2>2 DEF Distinct
    <3> QED
      BY <1>1, <1>2, <3>1
  <2> QED
    BY <2>1, <2>2
<1>7. Distinct(t, E \union {k})
  BY <1>2, <1>5, <1>6, ToSetOfSeq DEF Distinct
<1> QED
  BY <1>2, <1>7 DEF t

\* Moving a key to the front keeps the list's keys.
LEMMA FrontDistinct ==
  ASSUME NEW s, NEW E, Distinct(s, E), NEW i \in 1..Len(s)
  PROVE  /\ Distinct(<<s[i]>> \o RemoveAt(s, i), E)
         /\ Len(<<s[i]>> \o RemoveAt(s, i)) = Len(s)
<1> DEFINE k == s[i]
           r == RemoveAt(s, i)
<1>1. s \in Seq(Key) /\ Len(s) \in Nat /\ E = {s[j] : j \in 1..Len(s)}
  BY ToSetOfSeq DEF Distinct
<1>2. Distinct(r, E \ {s[i]}) /\ Len(r) = Len(s) - 1
  BY RemoveDistinct
<1>3. k \in Key /\ (E \ {k}) \union {k} = E
  BY <1>1, ElementOfSeq
<1>4. Distinct(r, E \ {k})
  BY <1>2
<1> HIDE DEF r, k
<1>5. Distinct(<<k>> \o r, (E \ {k}) \union {k}) /\ Len(<<k>> \o r) = Len(r) + 1
  BY <1>3, <1>4, PushDistinct
<1> DEFINE t == <<k>> \o r
<1>6. Distinct(t, E) /\ Len(t) = Len(r) + 1
  BY <1>3, <1>5, Zenon
<1> HIDE DEF t
<1>7. Len(t) = Len(s)
  BY <1>1, <1>2, <1>6
<1> QED
  BY <1>6, <1>7 DEF k, r, t

\* A prefix keeps some of the keys.
LEMMA PrefixDistinct ==
  ASSUME NEW s, NEW E, Distinct(s, E), NEW m \in 0..Len(s)
  PROVE  /\ Distinct(SubSeq(s, 1, m), ToSet(SubSeq(s, 1, m)))
         /\ ToSet(SubSeq(s, 1, m)) \subseteq E
         /\ Len(SubSeq(s, 1, m)) = m
<1> DEFINE t == SubSeq(s, 1, m)
<1>1. s \in Seq(Key) /\ Len(s) \in Nat /\ E = {s[j] : j \in 1..Len(s)}
  BY ToSetOfSeq DEF Distinct
<1>2. t \in Seq(Key) /\ Len(t) = m /\ \A j \in 1..m : t[j] = s[j]
  BY <1>1
<1> HIDE DEF t
<1>3. ToSet(t) = {t[j] : j \in 1..m}
  BY <1>2, ToSetOfSeq
<1>4. 1..m \subseteq 1..Len(s)
  BY <1>1
<1>5. ToSet(t) \subseteq E
  BY <1>1, <1>2, <1>3, <1>4
<1>6. Distinct(t, ToSet(t))
  BY <1>2, <1>4 DEF Distinct
<1> QED
  BY <1>2, <1>5, <1>6 DEF t

-----------------------------------------------------------------------------
(***************************************************************************)
(* Token estimator                                                         *)
(***************************************************************************)
Busy == {"lookup", "promote", "compute", "store"}

\* The list has the texts of the map, each once, a cached count is the codec's
\* for its text, and so is the count of a caller that found or made one.
TokenInv ==
  /\ Distinct(recent, DOMAIN items)
  /\ Len(recent) <= MaxTexts
  /\ items = [t \in DOMAIN items |-> items[t]]
  /\ \A t \in DOMAIN items : items[t] = Exact(t)
  /\ at \in [Caller -> Busy \union {"idle", "done"}]
  /\ text \in [Caller -> Key \union {Miss}]
  /\ count = [p \in Caller |-> count[p]]
  /\ \A p \in Caller : at[p] \in Busy => text[p] \in Key
  /\ \A p \in Caller : at[p] \in {"promote", "store"} => count[p] = Exact(text[p])

\* The part about the cache, and the part about the callers.
TokenCacheInv(r, c) ==
  /\ Distinct(r, DOMAIN c)
  /\ Len(r) <= MaxTexts
  /\ c = [t \in DOMAIN c |-> c[t]]
  /\ \A t \in DOMAIN c : c[t] = Exact(t)

LEMMA TokenInitInv == TokenInit => TokenInv
<1> SUFFICES ASSUME TokenInit PROVE TokenInv
  OBVIOUS
<1>1. recent \in Seq(Key) /\ Len(recent) = 0 /\ DOMAIN items = {}
  BY DEF TokenInit
<1>2. ToSet(recent) = {}
  BY DEF TokenInit, ToSet
<1>3. Distinct(recent, DOMAIN items)
  BY <1>1, <1>2 DEF Distinct
<1>4. items = [t \in DOMAIN items |-> items[t]]
  BY DEF TokenInit
<1> QED
  BY <1>1, <1>3, <1>4, TokenAssumption DEF TokenInit, TokenInv, Busy

\* Promotion moves a text of the map to the front.
LEMMA PromotedKeeps ==
  ASSUME TokenInv, NEW t \in DOMAIN items
  PROVE  Distinct(Promoted(t), DOMAIN items) /\ Len(Promoted(t)) = Len(recent)
<1>1. Distinct(recent, DOMAIN items)
  BY DEF TokenInv
<1> DEFINE i == CHOOSE i \in DOMAIN recent : recent[i] = t
<1>2. recent \in Seq(Key) /\ DOMAIN recent = 1..Len(recent) /\ t \in ToSet(recent)
  BY <1>1 DEF Distinct
<1>3. i \in 1..Len(recent) /\ recent[i] = t
  BY <1>2 DEF ToSet
<1>4. Promoted(t) = <<t>> \o RemoveAt(recent, i)
  BY DEF Promoted
<1> HIDE DEF i
<1> QED
  BY <1>1, <1>3, <1>4, FrontDistinct, ZenonT(40)

\* set of a text: in place, or after the eviction of a quarter.
LEMMA TokenStoreKeeps ==
  ASSUME TokenInv, NEW p \in Caller, TokenStore(p)
  PROVE  TokenCacheInv(recent', items')
<1> DEFINE t == text[p]
           rest == IF Len(recent) >= MaxTexts THEN Survivors ELSE recent
<1>1. t \in Key /\ count[p] = Exact(t)
  BY DEF TokenStore, TokenInv, Busy
<1>2. CASE t \in DOMAIN items
  <2>1. items' = [items EXCEPT ![t] = count[p]] /\ recent' = Promoted(t)
    BY <1>2 DEF TokenStore
  <2>2. /\ DOMAIN items' = DOMAIN items
        /\ items' = [x \in DOMAIN items' |-> items'[x]]
        /\ \A x \in DOMAIN items' : items'[x] = Exact(x)
    BY <1>1, <2>1 DEF TokenInv
  <2>3. Distinct(recent', DOMAIN items') /\ Len(recent') <= MaxTexts
    BY <1>2, <2>1, <2>2, PromotedKeeps DEF TokenInv
  <2> QED
    BY <2>2, <2>3 DEF TokenCacheInv
<1>3. CASE t \notin DOMAIN items
  <2> DEFINE D == DOMAIN items \ (ToSet(recent) \ ToSet(rest))
  <2>1. /\ recent' = <<t>> \o rest
        /\ items' = [x \in D \union {t} |-> IF x = t THEN count[p] ELSE items[x]]
    BY <1>3 DEF TokenStore
  <2>2. Len(recent) \in Nat /\ DOMAIN items = ToSet(recent) /\ Distinct(recent, DOMAIN items)
    BY DEF TokenInv, Distinct
  <2>3. /\ Distinct(rest, ToSet(rest))
        /\ ToSet(rest) \subseteq DOMAIN items
        /\ Len(rest) < MaxTexts
    <3>1. CASE Len(recent) >= MaxTexts
      <4> DEFINE m == IF Len(recent) > Evictions THEN Len(recent) - Evictions ELSE 0
      <4>1. Evictions \in Nat /\ Evictions >= 1
        BY TokenAssumption DEF Evictions
      <4>2. m \in 0..Len(recent) /\ m < MaxTexts
        BY <2>2, <3>1, <4>1, TokenAssumption DEF TokenInv
      <4>3. rest = SubSeq(recent, 1, m)
        BY <3>1 DEF Survivors
      <4> HIDE DEF m
      <4> QED
        BY <2>2, <4>2, <4>3, PrefixDistinct, ZenonT(40)
    <3>2. CASE ~(Len(recent) >= MaxTexts)
      BY <2>2, <3>2, TokenAssumption
    <3> QED
      BY <3>1, <3>2
  <2>4. D = ToSet(rest)
    BY <2>2, <2>3
  <2> HIDE DEF rest, D, t
  <2>5. t \notin D /\ D \subseteq DOMAIN items
    BY <1>3, <2>3, <2>4
  <2>6. Distinct(recent', D \union {t}) /\ Len(recent') = Len(rest) + 1
    BY <1>1, <2>1, <2>3, <2>4, <2>5, PushDistinct
  <2>7. Len(recent') <= MaxTexts
    <3>1. Len(rest) \in Nat
      BY <2>3 DEF Distinct
    <3> QED
      BY <2>3, <2>6, <3>1, TokenAssumption
  <2>8. /\ DOMAIN items' = D \union {t}
        /\ items' = [x \in DOMAIN items' |-> items'[x]]
        /\ \A x \in DOMAIN items' : items'[x] = Exact(x)
    BY <1>1, <2>1, <2>5 DEF TokenInv
  <2> QED
    BY <2>6, <2>7, <2>8 DEF TokenCacheInv
<1> QED
  BY <1>2, <1>3

LEMMA TokenNextInv == TokenInv /\ [TokenNext]_tokenVars => TokenInv'
<1> SUFFICES ASSUME TokenInv, [TokenNext]_tokenVars PROVE TokenInv'
  OBVIOUS
<1>0. TokenCacheInv(recent, items)
  BY DEF TokenInv, TokenCacheInv
<1>1. CASE TokenLoad
  BY <1>1 DEF TokenLoad, TokenInv
<1>2. ASSUME NEW p \in Caller, NEW t \in Key, Estimate(p, t) PROVE TokenInv'
  BY <1>2 DEF Estimate, TokenInv, Go, Busy
<1>3. ASSUME NEW p \in Caller, TokenLookup(p) PROVE TokenInv'
  BY <1>3 DEF TokenLookup, TokenInv, Go, Busy
<1>4. ASSUME NEW p \in Caller, TokenPromote(p) PROVE TokenInv'
  <2>1. TokenCacheInv(recent', items)
    BY <1>0, <1>4, PromotedKeeps DEF TokenPromote, TokenCacheInv
  <2> QED
    BY <1>4, <2>1 DEF TokenPromote, TokenInv, TokenCacheInv, Go, Busy
<1>5. ASSUME NEW p \in Caller, TokenCompute(p) PROVE TokenInv'
  BY <1>5 DEF TokenCompute, TokenInv, Go, Busy
<1>6. ASSUME NEW p \in Caller, TokenStore(p) PROVE TokenInv'
  <2>1. TokenCacheInv(recent', items')
    BY <1>6, TokenStoreKeeps
  <2>2. UNCHANGED <<codec, text, count>> /\ at' = [at EXCEPT ![p] = "done"]
    BY <1>6 DEF TokenStore, Go
  <2> QED
    BY <2>1, <2>2 DEF TokenInv, TokenCacheInv, Busy
<1>7. ASSUME NEW p \in Caller, TokenReturn(p) PROVE TokenInv'
  BY <1>7 DEF TokenReturn, TokenInv, Go, Busy
<1>8. CASE UNCHANGED tokenVars
  BY <1>8 DEF tokenVars, TokenInv
<1> QED
  BY <1>1, <1>2, <1>3, <1>4, <1>5, <1>6, <1>7, <1>8 DEF TokenNext

\* However many callers interleave their lookups, promotions, stores and
\* evictions (tokenCache.get, set, evictLRU), the map and the list agree,
\* within max, and every cached count is the codec's for its own text.
THEOREM TokenCacheStaysExact == TokenSpec => []TokenCacheIsExact
<1>1. TokenInv => TokenCacheIsExact
  <2> SUFFICES ASSUME TokenInv PROVE TokenCacheIsExact
    OBVIOUS
  <2>1. DOMAIN items = ToSet(recent) /\ Distinct(recent, ToSet(recent))
    BY DEF TokenInv, Distinct
  <2>2. Cardinality(ToSet(recent)) = Len(recent)
    BY <2>1, DistinctCardinality
  <2> QED
    BY <2>1, <2>2 DEF TokenInv, TokenCacheIsExact
<1> QED
  BY <1>1, TokenInitInv, TokenNextInv, PTL DEF TokenSpec

-----------------------------------------------------------------------------
(***************************************************************************)
(* Multi-layer cache                                                       *)
(***************************************************************************)
LayerElem == [key : Key, value : Value \union {Nil}]

\* The order of the LRU layer decides nothing here: any pair is in Pairs.
Pairs == Key \X Key

\* What the LRU layer may hold under k: the value set last, or nil for none.
Right(tr, k, v) == v = tr[k] \/ (tr[k] = Miss /\ v = Nil)

\* The three layers, each against what was set last.
LRUOk(s, E, tr) ==
  /\ Listed(s, LayerElem, Pairs, E)
  /\ Len(s) <= LayerSize
  /\ \A k \in E : Right(tr, k, StoreOf(s)[k])

LFUOk(f, tr) ==
  /\ f = [k \in DOMAIN f |-> f[k]]
  /\ DOMAIN f \subseteq Key
  /\ IsFiniteSet(DOMAIN f)
  /\ \A k \in DOMAIN f : f[k] \in [value : Value, uses : Nat] /\ f[k].value = tr[k]

FIFOOk(f, q, tr) ==
  /\ f = [k \in DOMAIN f |-> f[k]]
  /\ Distinct(q, DOMAIN f)
  /\ Len(q) <= LayerSize
  /\ \A k \in DOMAIN f : f[k] = tr[k]

LayerInv ==
  /\ truth \in [Key -> Value \union {Miss}]
  /\ LRUOk(lruLayer, LRUKeys, truth)
  /\ LFUOk(lfuLayer, truth)
  /\ emptyKey = Nil => Cardinality(DOMAIN lfuLayer) <= LayerSize
  /\ FIFOOk(fifoItems, fifoOrder, truth)

LEMMA ListedKeys ==
  ASSUME NEW s, NEW S, NEW N, NEW E, Listed(s, S, N, E)
  PROVE  E = {s[i].key : i \in DOMAIN s}
<1>1. DOMAIN s = 1..Len(s)
  BY DEF Listed
<1> QED
  BY <1>1 DEF Listed

LEMMA PairsListed ==
  ASSUME NEW s, NEW S, NEW E, NEW k \in Key, Listed(s, S, UsedAfter(Pairs, k), E)
  PROVE  Listed(s, S, Pairs, E)
  BY DEF Listed, UsedAfter, Pairs

\* An element moved to the front, with the value that is now right.
LEMMA LayerFront ==
  ASSUME NEW s, NEW E, NEW tr, LRUOk(s, E, tr), NEW i \in 1..Len(s),
         NEW e \in LayerElem, e.key = s[i].key,
         NEW tr2, Right(tr2, e.key, e.value), \A x \in Key \ {e.key} : tr2[x] = tr[x]
  PROVE  LRUOk(<<e>> \o RemoveAt(s, i), E, tr2)
<1> DEFINE t == <<e>> \o RemoveAt(s, i)
<1>1. Listed(s, LayerElem, Pairs, E) /\ e.key \in Key /\ Len(s) <= LayerSize
  BY DEF LRUOk, LayerElem
<1>2. /\ Listed(t, LayerElem, UsedAfter(Pairs, e.key), E)
      /\ Len(t) = Len(s)
      /\ StoreOf(t)[e.key] = e.value
      /\ SameStore(s, t, E \ {e.key})
  BY <1>1, FrontListed
<1> HIDE DEF t
<1>3. Listed(t, LayerElem, Pairs, E)
  BY <1>1, <1>2, PairsListed
<1>4. E \subseteq Key
  BY <1>1, StoreOfListed
<1>5. \A x \in E : Right(tr2, x, StoreOf(t)[x])
  BY <1>2, <1>4 DEF LRUOk, Right, SameStore
<1> QED
  BY <1>1, <1>2, <1>3, <1>5 DEF t, LRUOk

\* An element pushed, with room for it.
LEMMA LayerPush ==
  ASSUME NEW s, NEW E, NEW tr, LRUOk(s, E, tr), Len(s) < LayerSize,
         NEW e \in LayerElem, e.key \notin E,
         NEW tr2, Right(tr2, e.key, e.value), \A x \in Key \ {e.key} : tr2[x] = tr[x]
  PROVE  LRUOk(<<e>> \o s, E \union {e.key}, tr2)
<1> DEFINE t == <<e>> \o s
<1>1. Listed(s, LayerElem, Pairs, E) /\ e.key \in Key
  BY DEF LRUOk, LayerElem
<1>2. /\ Listed(t, LayerElem, UsedAfter(Pairs, e.key), E \union {e.key})
      /\ Len(t) = Len(s) + 1
      /\ StoreOf(t)[e.key] = e.value
      /\ SameStore(s, t, E)
  BY <1>1, PushListed
<1> HIDE DEF t
<1>3. Listed(t, LayerElem, Pairs, E \union {e.key})
  BY <1>1, <1>2, PairsListed
<1>4. E \subseteq Key /\ Len(s) \in Nat
  BY <1>1, StoreOfListed DEF Listed
<1>5. \A x \in E \union {e.key} : Right(tr2, x, StoreOf(t)[x])
  BY <1>2, <1>4 DEF LRUOk, Right, SameStore
<1>6. Len(t) <= LayerSize
  BY <1>2, <1>4, LayerAssumption
<1> QED
  BY <1>3, <1>5, <1>6 DEF t, LRUOk

\* An element removed.
LEMMA LayerRemove ==
  ASSUME NEW s, NEW E, NEW tr, LRUOk(s, E, tr), NEW i \in 1..Len(s)
  PROVE  /\ LRUOk(RemoveAt(s, i), E \ {s[i].key}, tr)
         /\ Len(RemoveAt(s, i)) < LayerSize
<1> DEFINE t == RemoveAt(s, i)
           F == E \ {s[i].key}
<1>1. Listed(s, LayerElem, Pairs, E) /\ Len(s) \in Nat /\ Len(s) <= LayerSize
  BY DEF LRUOk, Listed
<1>2. Listed(t, LayerElem, Pairs, F) /\ Len(t) = Len(s) - 1 /\ SameStore(s, t, F)
  BY <1>1, RemoveListed
<1> HIDE DEF t
<1>3. Len(t) < LayerSize /\ Len(t) <= LayerSize
  BY <1>1, <1>2, LayerAssumption
<1>4. \A x \in F : Right(tr, x, StoreOf(t)[x])
  BY <1>2 DEF LRUOk, Right, SameStore
<1> HIDE DEF F
<1>5. LRUOk(t, F, tr)
  BY <1>2, <1>3, <1>4 DEF LRUOk
<1> QED
  BY <1>3, <1>5 DEF t, F

\* Where the LRU layer has a key.
LEMMA LRUAtListed ==
  ASSUME LayerInv, NEW k \in LRUKeys
  PROVE  /\ LRUAt(k) \in 1..Len(lruLayer)
         /\ lruLayer[LRUAt(k)].key = k
         /\ lruLayer[LRUAt(k)] \in LayerElem
         /\ Right(truth, k, LRUValue(k))
<1>1. Listed(lruLayer, LayerElem, Pairs, LRUKeys)
  BY DEF LayerInv, LRUOk
<1>2. lruLayer \in Seq(LayerElem) /\ DOMAIN lruLayer = 1..Len(lruLayer)
  BY <1>1 DEF Listed
<1>3. LRUAt(k) \in DOMAIN lruLayer /\ lruLayer[LRUAt(k)].key = k
  BY DEF LRUAt, LRUKeys
<1>4. LRUValue(k) = StoreOf(lruLayer)[k]
  BY <1>1, <1>2, <1>3, StoreOfListed DEF LRUValue
<1>5. Right(truth, k, LRUValue(k))
  BY <1>4 DEF LayerInv, LRUOk
<1> QED
  BY <1>2, <1>3, <1>5, ElementOfSeq

LEMMA LRUKeysOk ==
  ASSUME NEW E, NEW tr, LRUOk(lruLayer', E, tr)
  PROVE  LRUOk(lruLayer', LRUKeys', tr)
<1>1. E = {lruLayer'[i].key : i \in DOMAIN lruLayer'}
  BY ListedKeys DEF LRUOk
<1> QED
  BY <1>1 DEF LRUKeys

\* lru.Set, of a value or of nil: it moves, evicts or pushes.
LEMMA LRUSetOk ==
  ASSUME LayerInv, NEW k \in Key, NEW v \in Value \union {Nil}, LRUSet(k, v),
         NEW tr, Right(tr, k, v), \A x \in Key \ {k} : tr[x] = truth[x]
  PROVE  LRUOk(lruLayer', LRUKeys', tr)
<1> DEFINE e == [key |-> k, value |-> v]
           n == Len(lruLayer)
<1>1. e \in LayerElem /\ e.key = k /\ e.value = v
  BY DEF LayerElem
<1>2. LRUOk(lruLayer, LRUKeys, truth) /\ n \in Nat /\ n <= LayerSize /\ lruLayer \in Seq(LayerElem)
  BY DEF LayerInv, LRUOk, Listed
<1>3. CASE k \in LRUKeys
  <2> DEFINE i == LRUAt(k)
  <2>1. i \in 1..Len(lruLayer) /\ e.key = lruLayer[i].key
    BY <1>1, <1>3, LRUAtListed
  <2>2. lruLayer' = <<e>> \o RemoveAt(lruLayer, i)
    BY <1>3 DEF LRUSet, LRUDrop
  <2> HIDE DEF e, i
  <2>3. LRUOk(lruLayer', LRUKeys, tr)
    BY <1>1, <1>2, <2>1, <2>2, LayerFront
  <2> QED
    BY <2>3, LRUKeysOk
<1>4. CASE k \notin LRUKeys /\ n >= LayerSize
  <2> DEFINE r == RemoveAt(lruLayer, n)
             F == LRUKeys \ {lruLayer[n].key}
  <2>1. n \in 1..Len(lruLayer) /\ Len(lruLayer) > 0
    BY <1>2, <1>4, LayerAssumption
  <2>2. Front(lruLayer) = r
    BY <1>2, <2>1, FrontIsRemoveAt
  <2>3. lruLayer' = <<e>> \o r
    BY <1>4, <2>2 DEF LRUSet
  <2>4. LRUOk(r, F, truth) /\ Len(r) < LayerSize
    BY <1>2, <2>1, LayerRemove
  <2>5. e.key \notin F
    BY <1>1, <1>4
  <2> HIDE DEF e, r, F
  <2>6. LRUOk(lruLayer', F \union {e.key}, tr)
    BY <1>1, <2>3, <2>4, <2>5, LayerPush
  <2> QED
    BY <2>6, LRUKeysOk
<1>5. CASE k \notin LRUKeys /\ ~(n >= LayerSize)
  <2>1. lruLayer' = <<e>> \o lruLayer
    BY <1>5 DEF LRUSet
  <2>2. Len(lruLayer) < LayerSize /\ e.key \notin LRUKeys
    BY <1>1, <1>2, <1>5, LayerAssumption
  <2> HIDE DEF e
  <2>3. LRUOk(lruLayer', LRUKeys \union {e.key}, tr)
    BY <1>1, <1>2, <2>1, <2>2, LayerPush
  <2> QED
    BY <2>3, LRUKeysOk
<1> QED
  BY <1>3, <1>4, <1>5

\* A lookup moves a live element to the front or removes an expired one.
LEMMA LRUGetOk ==
  ASSUME LayerInv, NEW k \in Key, GetFromLRU(k) \/ (NotInLRU(k) /\ LRUPassed(k))
  PROVE  LRUOk(lruLayer', LRUKeys', truth)
<1>1. LRUOk(lruLayer, LRUKeys, truth)
  BY DEF LayerInv
<1>2. CASE k \in LRUKeys
  <2> DEFINE i == LRUAt(k)
             e == [key |-> k, value |-> LRUValue(k)]
  <2>1. i \in 1..Len(lruLayer) /\ lruLayer[i].key = k /\ Right(truth, k, LRUValue(k))
    BY <1>2, LRUAtListed
  <2>2. e \in LayerElem /\ e.key = k /\ e.value = LRUValue(k)
    <3>1. lruLayer[i] \in LayerElem
      BY <1>2, LRUAtListed
    <3> QED
      BY <3>1 DEF LayerElem, LRUValue
  <2>3. lruLayer' = <<e>> \o RemoveAt(lruLayer, i) \/ lruLayer' = RemoveAt(lruLayer, i)
    BY <1>2 DEF GetFromLRU, NotInLRU, LRUPassed, LRUDrop
  <2> HIDE DEF e, i
  <2>4. CASE lruLayer' = <<e>> \o RemoveAt(lruLayer, i)
    <3>1. LRUOk(lruLayer', LRUKeys, truth)
      BY <1>1, <2>1, <2>2, <2>4, LayerFront
    <3> QED
      BY <3>1, LRUKeysOk
  <2>5. CASE lruLayer' = RemoveAt(lruLayer, i)
    <3>1. LRUOk(lruLayer', LRUKeys \ {lruLayer[i].key}, truth)
      BY <1>1, <2>1, <2>5, LayerRemove
    <3> QED
      BY <3>1, LRUKeysOk
  <2> QED
    BY <2>3, <2>4, <2>5
<1>3. CASE k \notin LRUKeys
  <2>1. lruLayer' = lruLayer
    BY <1>3 DEF GetFromLRU, LRUPassed, LRUDrop
  <2> QED
    BY <1>1, <2>1, LRUKeysOk
<1> QED
  BY <1>2, <1>3

\* lfu.Set.
LEMMA LFUSetOk ==
  ASSUME LayerInv, NEW k \in Key, NEW v \in Value, LFUSet(k, v),
         NEW tr, tr[k] = v, \A x \in Key \ {k} : tr[x] = truth[x]
  PROVE  /\ LFUOk(lfuLayer', tr)
         /\ emptyKey = Nil => Cardinality(DOMAIN lfuLayer') <= LayerSize
<1> DEFINE R == [value : Value, uses : Nat]
           D == DOMAIN lfuLayer
<1>1. /\ D \subseteq Key /\ IsFiniteSet(D)
      /\ emptyKey = Nil => Cardinality(D) <= LayerSize
      /\ \A x \in D : lfuLayer[x] \in R /\ lfuLayer[x].value = truth[x]
      /\ lfuLayer = [x \in D |-> lfuLayer[x]]
  BY DEF LayerInv, LFUOk
<1>2. CASE k \in D
  <2> DEFINE u == IF lfuLayer[k].uses < MaxUses THEN lfuLayer[k].uses + 1 ELSE lfuLayer[k].uses
  <2>1. lfuLayer' = [lfuLayer EXCEPT ![k] = [value |-> v, uses |-> u]]
    BY <1>2 DEF LFUSet
  <2>2. u \in Nat
    <3>1. lfuLayer[k].uses \in Nat
      BY <1>1, <1>2
    <3> QED
      BY <3>1
  <2> HIDE DEF u
  <2>3. [value |-> v, uses |-> u] \in R
    BY <2>2
  <2>4. /\ DOMAIN lfuLayer' = D
        /\ lfuLayer' = [x \in DOMAIN lfuLayer' |-> lfuLayer'[x]]
        /\ \A x \in D : lfuLayer'[x] \in R /\ lfuLayer'[x].value = tr[x]
    BY <1>1, <2>1, <2>3
  <2> QED
    BY <1>1, <2>4 DEF LFUOk
<1>3. CASE k \notin D
  <2>1. PICK E \in SUBSET LeastUsed :
          /\ Cardinality(E) = IF Cardinality(D) >= LayerSize THEN 1 ELSE 0
          /\ lfuLayer' = [x \in (D \ (E \ {emptyKey})) \union {k} |->
                            IF x = k THEN [value |-> v, uses |-> 1] ELSE lfuLayer[x]]
    BY <1>3 DEF LFUSet
  <2> DEFINE G == E \ {emptyKey}
  <2>2. G \subseteq D /\ (emptyKey = Nil => G = E)
    BY <1>1, LayerAssumption DEF LeastUsed
  <2>3. [value |-> v, uses |-> 1] \in R
    OBVIOUS
  <2>4. /\ DOMAIN lfuLayer' = (D \ G) \union {k}
        /\ lfuLayer' = [x \in DOMAIN lfuLayer' |-> lfuLayer'[x]]
        /\ \A x \in DOMAIN lfuLayer' : lfuLayer'[x] \in R /\ lfuLayer'[x].value = tr[x]
    BY <1>1, <2>1, <2>2, <2>3
  <2> HIDE DEF D, G
  <2>5. /\ IsFiniteSet(G) /\ Cardinality(G) \in Nat /\ Cardinality(D) \in Nat
        /\ D \intersect G = G
    BY <1>1, <2>2, FS_Subset, FS_CardinalityType
  <2>6. IsFiniteSet(D \ G) /\ Cardinality(D \ G) = Cardinality(D) - Cardinality(G)
    BY <1>1, <2>5, FS_Difference, ZenonT(40)
  <2>7. /\ IsFiniteSet((D \ G) \union {k})
        /\ Cardinality((D \ G) \union {k}) <= Cardinality(D \ G) + 1
    BY <2>6, AddSize
  <2>8. Cardinality((D \ G) \union {k}) \in Nat
    BY <2>7, FS_CardinalityType
  <2>9. emptyKey = Nil => Cardinality((D \ G) \union {k}) <= LayerSize
    <3> SUFFICES ASSUME emptyKey = Nil PROVE Cardinality((D \ G) \union {k}) <= LayerSize
      OBVIOUS
    <3>1. Cardinality(G) = (IF Cardinality(D) >= LayerSize THEN 1 ELSE 0) /\ Cardinality(D) <= LayerSize
      BY <1>1, <2>1, <2>2
    <3> QED
      BY <2>5, <2>6, <2>7, <2>8, <3>1, LayerAssumption
  <2>10. DOMAIN lfuLayer' \subseteq Key
    BY <1>1, <2>4
  <2> QED
    BY <2>4, <2>7, <2>9, <2>10 DEF LFUOk
<1> QED
  BY <1>2, <1>3

\* The head leaves the queue.
LEMMA TailDistinct ==
  ASSUME NEW s, NEW E, Distinct(s, E), Len(s) > 0
  PROVE  /\ Head(s) \in E
         /\ Distinct(Tail(s), E \ {Head(s)})
         /\ Len(Tail(s)) = Len(s) - 1
<1> DEFINE t == Tail(s)
           h == Head(s)
<1>1. s \in Seq(Key) /\ Len(s) \in Nat /\ E = {s[j] : j \in 1..Len(s)} /\ s # << >>
  BY ToSetOfSeq DEF Distinct
<1>2. /\ t \in Seq(Key) /\ Len(t) = Len(s) - 1 /\ h = s[1]
      /\ \A j \in 1..Len(t) : t[j] = s[j + 1]
  BY <1>1, HeadTailProperties
<1> HIDE DEF t, h
<1>3. 1 \in 1..Len(s)
  BY <1>1
<1>4. ASSUME NEW j \in 1..Len(t) PROVE j + 1 \in 1..Len(s) /\ j + 1 # 1
  BY <1>1, <1>2
<1>5. E \ {h} = {t[j] : j \in 1..Len(t)}
  <2>1. ASSUME NEW j \in 1..Len(t) PROVE t[j] \in E \ {h}
    <3>1. s[j + 1] # s[1]
      BY <1>3, <1>4 DEF Distinct
    <3> QED
      BY <1>1, <1>2, <1>4, <3>1
  <2>2. ASSUME NEW x \in E \ {h} PROVE \E j \in 1..Len(t) : t[j] = x
    <3>1. PICK m \in 1..Len(s) : s[m] = x /\ m # 1
      BY <1>1, <1>2
    <3>2. m - 1 \in 1..Len(t) /\ (m - 1) + 1 = m
      BY <1>1, <1>2, <3>1
    <3> QED
      BY <1>2, <3>1, <3>2
  <2> QED
    BY <2>1, <2>2
<1>6. ASSUME NEW i \in 1..Len(t), NEW j \in 1..Len(t), t[i] = t[j] PROVE i = j
  <2>1. i + 1 = j + 1
    BY <1>2, <1>4, <1>6 DEF Distinct
  <2> QED
    BY <1>2, <2>1
<1>7. Distinct(t, E \ {h})
  BY <1>2, <1>5, <1>6, ToSetOfSeq DEF Distinct
<1> QED
  BY <1>1, <1>2, <1>3, <1>7 DEF t, h

\* A new key joins the queue.
LEMMA AppendDistinct ==
  ASSUME NEW s, NEW E, Distinct(s, E), NEW k \in Key, k \notin E
  PROVE  Distinct(Append(s, k), E \union {k}) /\ Len(Append(s, k)) = Len(s) + 1
<1> DEFINE t == Append(s, k)
<1>1. s \in Seq(Key) /\ Len(s) \in Nat /\ E = {s[j] : j \in 1..Len(s)}
  BY ToSetOfSeq DEF Distinct
<1>2. /\ t \in Seq(Key) /\ Len(t) = Len(s) + 1 /\ t[Len(s) + 1] = k
      /\ \A j \in 1..Len(s) : t[j] = s[j]
  BY <1>1, AppendProperties
<1> HIDE DEF t
<1>3. /\ Len(s) + 1 \in 1..Len(t)
      /\ \A j \in 1..Len(t) : j = Len(s) + 1 \/ j \in 1..Len(s)
      /\ \A j \in 1..Len(s) : j \in 1..Len(t)
  BY <1>1, <1>2
<1>4. E \union {k} = {t[j] : j \in 1..Len(t)}
  <2>1. ASSUME NEW j \in 1..Len(t) PROVE t[j] \in E \union {k}
    BY <1>1, <1>2, <1>3
  <2>2. ASSUME NEW x \in E \union {k} PROVE \E j \in 1..Len(t) : t[j] = x
    <3>1. CASE x = k
      BY <1>2, <1>3, <3>1
    <3>2. CASE x # k
      <4>1. PICK m \in 1..Len(s) : s[m] = x
        BY <1>1, <3>2
      <4> QED
        BY <1>2, <1>3, <4>1
    <3> QED
      BY <3>1, <3>2
  <2> QED
    BY <2>1, <2>2
<1>5. \A i, j \in 1..Len(t) : t[i] = t[j] => i = j
  BY <1>1, <1>2, <1>3 DEF Distinct
<1>6. Distinct(t, E \union {k})
  BY <1>2, <1>4, <1>5, ToSetOfSeq DEF Distinct
<1> QED
  BY <1>2, <1>6 DEF t

\* fifo.Set.
LEMMA FIFOSetOk ==
  ASSUME LayerInv, NEW k \in Key, NEW v \in Value, FIFOSet(k, v),
         NEW tr, tr[k] = v, \A x \in Key \ {k} : tr[x] = truth[x]
  PROVE  FIFOOk(fifoItems', fifoOrder', tr)
<1> DEFINE D == DOMAIN fifoItems
           full == k \notin D /\ Cardinality(D) >= LayerSize
           out == IF full THEN {Head(fifoOrder)} ELSE {}
           left == IF full THEN Tail(fifoOrder) ELSE fifoOrder
<1>1. /\ Distinct(fifoOrder, D) /\ Len(fifoOrder) \in Nat /\ Len(fifoOrder) <= LayerSize
      /\ \A x \in D : fifoItems[x] = truth[x]
      /\ fifoItems = [x \in D |-> fifoItems[x]]
  BY DEF LayerInv, FIFOOk, Distinct
<1>2. /\ fifoItems' = [x \in (D \ out) \union {k} |-> IF x = k THEN v ELSE fifoItems[x]]
      /\ fifoOrder' = IF k \in D THEN left ELSE Append(left, k)
  BY DEF FIFOSet
<1>3. D \subseteq Key /\ Cardinality(D) = Len(fifoOrder)
  BY <1>1, ToSetOfSeq, DistinctCardinality DEF Distinct
<1>4. /\ DOMAIN fifoItems' = (D \ out) \union {k}
      /\ fifoItems' = [x \in DOMAIN fifoItems' |-> fifoItems'[x]]
      /\ \A x \in DOMAIN fifoItems' : fifoItems'[x] = tr[x]
  BY <1>1, <1>2, <1>3
<1>5. CASE k \in D
  <2>1. fifoOrder' = fifoOrder /\ (D \ out) \union {k} = D
    BY <1>2, <1>5
  <2> QED
    BY <1>1, <1>4, <2>1 DEF FIFOOk
<1>6. CASE k \notin D
  <2>1. Distinct(left, D \ out) /\ Len(left) \in Nat /\ Len(left) < LayerSize
    <3>1. CASE full
      <4>1. Len(fifoOrder) > 0
        BY <1>1, <1>3, <3>1, LayerAssumption
      <4>2. Distinct(Tail(fifoOrder), D \ {Head(fifoOrder)}) /\ Len(Tail(fifoOrder)) = Len(fifoOrder) - 1
        BY <1>1, <4>1, TailDistinct
      <4>3. left = Tail(fifoOrder) /\ out = {Head(fifoOrder)}
        BY <3>1
      <4> HIDE DEF left, out
      <4>4. Distinct(left, D \ out) /\ Len(left) = Len(fifoOrder) - 1
        BY <4>2, <4>3
      <4> QED
        BY <1>1, <4>1, <4>4, LayerAssumption
    <3>2. CASE ~full
      <4>1. left = fifoOrder /\ D \ out = D
        BY <3>2
      <4>2. Len(fifoOrder) < LayerSize
        BY <1>1, <1>3, <1>6, <3>2, LayerAssumption
      <4> QED
        BY <1>1, <4>1, <4>2
    <3> QED
      BY <3>1, <3>2
  <2>2. k \notin D \ out /\ fifoOrder' = Append(left, k)
    BY <1>2, <1>6
  <2> HIDE DEF left, out, full
  <2>3. Distinct(fifoOrder', (D \ out) \union {k}) /\ Len(fifoOrder') = Len(left) + 1
    BY <2>1, <2>2, AppendDistinct
  <2>4. Len(fifoOrder') <= LayerSize
    BY <2>1, <2>3, LayerAssumption
  <2> QED
    BY <1>4, <2>3, <2>4 DEF FIFOOk
<1> QED
  BY <1>5, <1>6

\* fifo.Delete.
LEMMA FIFODeleteOk ==
  ASSUME LayerInv, NEW k \in Key, FIFODelete(k),
         NEW tr, \A x \in Key \ {k} : tr[x] = truth[x]
  PROVE  FIFOOk(fifoItems', fifoOrder', tr)
<1> DEFINE D == DOMAIN fifoItems
<1>1. /\ Distinct(fifoOrder, D) /\ Len(fifoOrder) \in Nat /\ Len(fifoOrder) <= LayerSize
      /\ \A x \in D : fifoItems[x] = truth[x]
      /\ fifoOrder \in Seq(Key) /\ DOMAIN fifoOrder = 1..Len(fifoOrder)
  BY DEF LayerInv, FIFOOk, Distinct
<1>2. D = {fifoOrder[j] : j \in 1..Len(fifoOrder)} /\ D \subseteq Key
  BY <1>1, ToSetOfSeq DEF Distinct
<1>3. /\ DOMAIN fifoItems' = D \ {k}
      /\ fifoItems' = [x \in DOMAIN fifoItems' |-> fifoItems'[x]]
      /\ \A x \in DOMAIN fifoItems' : fifoItems'[x] = tr[x]
  BY <1>1, <1>2 DEF FIFODelete, Restrict
<1>4. CASE FIFOPlaces(k) = {}
  <2>1. fifoOrder' = fifoOrder /\ k \notin D
    BY <1>1, <1>2, <1>4 DEF FIFODelete, FIFOPlaces
  <2>2. D \ {k} = D
    BY <2>1
  <2> QED
    BY <1>1, <1>3, <2>1, <2>2 DEF FIFOOk
<1>5. CASE FIFOPlaces(k) # {}
  <2> DEFINE i == CHOOSE i \in FIFOPlaces(k) : \A j \in FIFOPlaces(k) : i <= j
  <2>1. fifoOrder' = RemoveAt(fifoOrder, i)
    BY <1>5 DEF FIFODelete
  <2>2. PICK m \in FIFOPlaces(k) : \A j \in FIFOPlaces(k) : j = m
    BY <1>1, <1>5 DEF FIFOPlaces, Distinct
  <2>3. m \in 1..Len(fifoOrder) /\ fifoOrder[m] = k
    BY <1>1 DEF FIFOPlaces
  <2>4. i = m
    <3>1. \A j \in FIFOPlaces(k) : m <= j
      BY <2>2, <2>3
    <3> QED
      BY <2>2, <3>1
  <2> HIDE DEF i
  <2>5. Distinct(fifoOrder', D \ {k}) /\ Len(fifoOrder') = Len(fifoOrder) - 1
    BY <1>1, <2>1, <2>3, <2>4, RemoveDistinct
  <2>6. Len(fifoOrder') <= LayerSize
    BY <1>1, <2>5, LayerAssumption
  <2> QED
    BY <1>3, <2>5, <2>6 DEF FIFOOk
<1> QED
  BY <1>4, <1>5

\* lfu.Delete.
LEMMA LFUDeleteOk ==
  ASSUME LayerInv, NEW k \in Key, lfuLayer' = Restrict(lfuLayer, DOMAIN lfuLayer \ {k}),
         NEW tr, \A x \in Key \ {k} : tr[x] = truth[x]
  PROVE  /\ LFUOk(lfuLayer', tr)
         /\ emptyKey = Nil => Cardinality(DOMAIN lfuLayer') <= LayerSize
<1> DEFINE D == DOMAIN lfuLayer
           F == D \ {k}
<1>1. /\ D \subseteq Key /\ IsFiniteSet(D)
      /\ emptyKey = Nil => Cardinality(D) <= LayerSize
      /\ \A x \in D : lfuLayer[x] \in [value : Value, uses : Nat] /\ lfuLayer[x].value = truth[x]
  BY DEF LayerInv, LFUOk
<1>2. /\ DOMAIN lfuLayer' = F
      /\ lfuLayer' = [x \in DOMAIN lfuLayer' |-> lfuLayer'[x]]
      /\ \A x \in DOMAIN lfuLayer' :
           lfuLayer'[x] \in [value : Value, uses : Nat] /\ lfuLayer'[x].value = tr[x]
  BY <1>1 DEF Restrict
<1>3. F \subseteq D /\ F \subseteq Key
  BY <1>1
<1> HIDE DEF D, F
<1>4. IsFiniteSet(F) /\ Cardinality(F) <= Cardinality(D)
  BY <1>1, <1>3, FS_Subset
<1>5. Cardinality(F) \in Nat /\ Cardinality(D) \in Nat
  BY <1>1, <1>4, FS_CardinalityType
<1>6. emptyKey = Nil => Cardinality(F) <= LayerSize
  BY <1>1, <1>4, <1>5, LayerAssumption
<1> QED
  BY <1>2, <1>3, <1>4, <1>6 DEF LFUOk

LEMMA LayerInitInv == LayerInit => LayerInv
<1> SUFFICES ASSUME LayerInit PROVE LayerInv
  OBVIOUS
<1>1. LRUOk(lruLayer, LRUKeys, truth)
  <2>1. lruLayer \in Seq(LayerElem) /\ Len(lruLayer) = 0 /\ LRUKeys = {}
    BY DEF LayerInit, LRUKeys
  <2> QED
    BY <2>1, LayerAssumption DEF LRUOk, Listed
<1>2. LFUOk(lfuLayer, truth)
  <2>1. DOMAIN lfuLayer = {} /\ lfuLayer = [k \in DOMAIN lfuLayer |-> lfuLayer[k]]
    BY DEF LayerInit
  <2>2. IsFiniteSet({}) /\ Cardinality({}) = 0
    BY FS_EmptySet
  <2> QED
    BY <2>1, <2>2, LayerAssumption DEF LFUOk
<1>3. FIFOOk(fifoItems, fifoOrder, truth)
  <2>1. DOMAIN fifoItems = {} /\ fifoItems = [k \in DOMAIN fifoItems |-> fifoItems[k]]
    BY DEF LayerInit
  <2>2. fifoOrder \in Seq(Key) /\ Len(fifoOrder) = 0 /\ ToSet(fifoOrder) = {}
    BY DEF LayerInit, ToSet
  <2> QED
    BY <2>1, <2>2, LayerAssumption DEF FIFOOk, Distinct
<1>4. Cardinality(DOMAIN lfuLayer) <= LayerSize
  BY FS_EmptySet, LayerAssumption DEF LayerInit
<1> QED
  BY <1>1, <1>2, <1>3, <1>4 DEF LayerInv, LayerInit

LEMMA LayerNextInv == LayerInv /\ [LayerNext]_layerVars => LayerInv'
<1> SUFFICES ASSUME LayerInv, [LayerNext]_layerVars PROVE LayerInv'
  OBVIOUS
<1>1. ASSUME NEW k \in Key, GetFromLRU(k) PROVE LayerInv'
  <2>1. LRUOk(lruLayer', LRUKeys', truth)
    BY <1>1, LRUGetOk
  <2> QED
    BY <1>1, <2>1 DEF GetFromLRU, LayerInv
<1>2. ASSUME NEW k \in Key, GetFromLFU(k) PROVE LayerInv'
  <2>1. LRUOk(lruLayer', LRUKeys', truth)
    BY <1>2, LRUGetOk DEF GetFromLFU
  <2>2. LFUOk(lfuLayer', truth)
    <3> DEFINE u == IF lfuLayer[k].uses < MaxUses THEN lfuLayer[k].uses + 1
                    ELSE lfuLayer[k].uses
    <3>1. CASE lfuLayer' = lfuLayer
      BY <3>1 DEF LayerInv
    <3>2. CASE lfuLayer' = [lfuLayer EXCEPT ![k].uses = u]
      <4>1. /\ k \in DOMAIN lfuLayer
            /\ lfuLayer[k] \in [value : Value, uses : Nat]
        BY <1>2 DEF GetFromLFU, LayerInv, LFUOk
      <4>2. u \in Nat
        <5>1. lfuLayer[k].uses \in Nat
          BY <4>1
        <5> QED
          BY <5>1
      <4> HIDE DEF u
      <4>3. /\ [lfuLayer[k] EXCEPT !.uses = u] \in [value : Value, uses : Nat]
            /\ [lfuLayer[k] EXCEPT !.uses = u].value = lfuLayer[k].value
        BY <4>1, <4>2
      <4>4. /\ DOMAIN lfuLayer' = DOMAIN lfuLayer
            /\ lfuLayer'[k] = [lfuLayer[k] EXCEPT !.uses = u]
            /\ \A x \in DOMAIN lfuLayer : x # k => lfuLayer'[x] = lfuLayer[x]
            /\ lfuLayer' = [x \in DOMAIN lfuLayer' |-> lfuLayer'[x]]
        BY <3>2, <4>1 DEF LayerInv, LFUOk
      <4>5. \A x \in DOMAIN lfuLayer' :
              lfuLayer'[x] \in [value : Value, uses : Nat] /\ lfuLayer'[x].value = truth[x]
        BY <4>3, <4>4 DEF LayerInv, LFUOk
      <4> QED
        BY <4>4, <4>5 DEF LayerInv, LFUOk
    <3> QED
      BY <1>2, <3>1, <3>2 DEF GetFromLFU
  <2>3. DOMAIN lfuLayer' = DOMAIN lfuLayer
    BY <1>2 DEF GetFromLFU
  <2> QED
    BY <1>2, <2>1, <2>2, <2>3 DEF GetFromLFU, LayerInv
<1>3. ASSUME NEW k \in Key, GetFromFIFO(k) PROVE LayerInv'
  <2>1. LRUOk(lruLayer', LRUKeys', truth)
    BY <1>3, LRUGetOk DEF GetFromFIFO
  <2> QED
    BY <1>3, <2>1 DEF GetFromFIFO, LayerInv
<1>4. ASSUME NEW k \in Key, NEW v \in Value, SetString(k, v) PROVE LayerInv'
  <2>1. /\ truth' = [truth EXCEPT ![k] = v] /\ LRUSet(k, v) /\ LFUSet(k, v) /\ FIFOSet(k, v)
        /\ UNCHANGED emptyKey
    BY <1>4 DEF SetString
  <2>2. /\ truth' \in [Key -> Value \union {Miss}] /\ truth'[k] = v
        /\ \A x \in Key \ {k} : truth'[x] = truth[x]
    BY <2>1 DEF LayerInv
  <2>3. Right(truth', k, v)
    BY <2>2 DEF Right
  <2>4. LRUOk(lruLayer', LRUKeys', truth')
    BY <2>1, <2>2, <2>3, LRUSetOk
  <2>5. LFUOk(lfuLayer', truth') /\ (emptyKey = Nil => Cardinality(DOMAIN lfuLayer') <= LayerSize)
    <3>1. PICK tr : tr = truth'
      OBVIOUS
    <3>2. tr[k] = v /\ \A x \in Key \ {k} : tr[x] = truth[x]
      BY <2>2, <3>1
    <3>3. LFUOk(lfuLayer', tr) /\ (emptyKey = Nil => Cardinality(DOMAIN lfuLayer') <= LayerSize)
      BY <2>1, <3>2, LFUSetOk
    <3> QED
      BY <3>1, <3>3
  <2>6. FIFOOk(fifoItems', fifoOrder', truth')
    BY <2>1, <2>2, FIFOSetOk
  <2> QED
    BY <2>1, <2>2, <2>4, <2>5, <2>6 DEF LayerInv
<1>5. ASSUME NEW k \in Key, LayerDelete(k) PROVE LayerInv'
  <2>1. /\ truth' = [truth EXCEPT ![k] = Miss] /\ LRUSet(k, Nil) /\ FIFODelete(k)
        /\ lfuLayer' = Restrict(lfuLayer, DOMAIN lfuLayer \ {k}) /\ UNCHANGED emptyKey
    BY <1>5 DEF LayerDelete
  <2>2. /\ truth' \in [Key -> Value \union {Miss}] /\ truth'[k] = Miss
        /\ \A x \in Key \ {k} : truth'[x] = truth[x]
    BY <2>1 DEF LayerInv
  <2>3. Right(truth', k, Nil) /\ Nil \in Value \union {Nil}
    BY <2>2 DEF Right
  <2>4. LRUOk(lruLayer', LRUKeys', truth')
    BY <2>1, <2>2, <2>3, LRUSetOk
  <2>5. LFUOk(lfuLayer', truth') /\ (emptyKey = Nil => Cardinality(DOMAIN lfuLayer') <= LayerSize)
    BY <2>1, <2>2, LFUDeleteOk
  <2>6. FIFOOk(fifoItems', fifoOrder', truth')
    BY <2>1, <2>2, FIFODeleteOk
  <2> QED
    BY <2>1, <2>2, <2>4, <2>5, <2>6 DEF LayerInv
<1>6. ASSUME NEW k \in Key, LayerExpire(k) PROVE LayerInv'
  BY <1>6 DEF LayerExpire, LayerInv, LRUKeys
<1>7. CASE UNCHANGED layerVars
  BY <1>7 DEF layerVars, LayerInv, LRUKeys
<1> QED
  BY <1>1, <1>2, <1>3, <1>4, <1>5, <1>6, <1>7 DEF LayerNext

\* Whatever the three layers have evicted, expired or been told to delete
\* (GetString, SetString, Delete), whichever of them still has a key has the
\* value set last, and the queue of the FIFO layer is its map.
THEOREM LayersStayInAgreement == LayerSpec => []LayersAgree
<1>1. LayerInv => LayersAgree
  <2> SUFFICES ASSUME LayerInv PROVE LayersAgree
    OBVIOUS
  <2>1. ASSUME NEW k \in Key, k \in LRUKeys
        PROVE  LRUValue(k) \in {truth[k]} \union (IF truth[k] = Miss THEN {Nil} ELSE {})
    BY <2>1, LRUAtListed DEF Right
  <2>2. ASSUME NEW k \in Key, k \in DOMAIN lfuLayer PROVE lfuLayer[k].value = truth[k]
    BY <2>2 DEF LayerInv, LFUOk
  <2>3. ASSUME NEW k \in Key, k \in DOMAIN fifoItems PROVE fifoItems[k] = truth[k]
    BY <2>3 DEF LayerInv, FIFOOk
  <2>4. QueueMatchesMap
    <3>1. Distinct(fifoOrder, DOMAIN fifoItems)
      BY DEF LayerInv, FIFOOk
    <3>2. Cardinality(DOMAIN fifoItems) = Len(fifoOrder)
      BY <3>1, DistinctCardinality
    <3> QED
      BY <3>1, <3>2 DEF QueueMatchesMap, Distinct, LayerInv, LRUOk, LFUOk, FIFOOk
  <2> QED
    BY <2>1, <2>2, <2>3, <2>4 DEF LayersAgree
<1> QED
  BY <1>1, LayerInitInv, LayerNextInv, PTL DEF LayerSpec

-----------------------------------------------------------------------------
(***************************************************************************)
(* Context-read store, with one process                                    *)
(***************************************************************************)
OneProcess == \A p, q \in Process : p = q

Output == [kind : {"none", "error", "full", "delta"}, from : Content \union {NoContent},
           to : Content \union {NoContent}, cut : BOOLEAN]
Snap == [key : Path, content : Content]
RenderKey == Path \X {"full", "delta"} \X Content \X BOOLEAN

Rendering == [key : RenderKey, output : Output]
Stores == [state : {"whole", "empty", "garbled"}, snaps : Seq(Snap), renders : Seq(Rendering)]

Saving == {"open", "write", "rename"}
Places == {"idle", "lookup", "apply", "render", "answered"} \union Saving

SnapOf(j) == [key |-> j.path, content |-> j.content]

\* The history once a read of path was saved.
SeenWith(path, content) == Append(Dropped(seen, path), [key |-> path, content |-> content])

ReadTypes ==
  /\ buildPc \in [Process -> Places]
  /\ job \in [Process -> Job \union {NoJob}]
  /\ toSave \in [Process -> Stores]
  /\ fd \in [Process -> 0..3]
  /\ after \in [Process -> {"idle", "render", "answered"}]
  /\ shown \in [Process -> Output]
  /\ memo \in [Process -> Seq(Rendering)]

\* The names of the two files, and what they refer to.
DiskInv ==
  /\ dir \in [store : 0..3, tmp : 0..3]
  /\ inode \in [Inode -> Stores]
  /\ dir.store # 0 => dir.store # dir.tmp /\ inode[dir.store].state = "whole"

\* While a process saves, what it saves is a whole store; the temporary file
\* is empty when it writes, and is what it saved when it renames.
SavingInv(p) ==
  /\ buildPc[p] # "write" => fd[p] = 0
  /\ buildPc[p] = "write" =>
       dir.tmp # 0 /\ fd[p] = dir.tmp /\ inode[dir.tmp] = Broken("empty")
  /\ buildPc[p] = "rename" => dir.tmp # 0 /\ inode[dir.tmp] = toSave[p]
  /\ buildPc[p] \in Saving => toSave[p].state = "whole" /\ after[p] # "idle"

\* What it is asked, and which snapshots it is about to save.
AnswerInv(p) ==
  /\ buildPc[p] # "idle" => job[p] \in Job
  /\ buildPc[p] \in Saving =>
       AreLast(toSave[p].snaps, IF after[p] = "render" THEN SeenWith(job[p].path, job[p].content)
                                                      ELSE seen)

\* What was saved, each path once, and the snapshots of it there are.
SeenInv ==
  /\ seen \in Seq(Snap) /\ DistinctKeys(seen)
  /\ AreLast(Loaded.snaps, seen)

ReadInv ==
  DiskInv /\ ReadTypes /\ SeenInv /\ \A p \in Process : SavingInv(p) /\ AnswerInv(p)

LEMMA StoreTypes ==
  /\ NewStore \in Stores /\ NewStore.state = "whole"
  /\ Broken("empty") \in Stores /\ Broken("garbled") \in Stores
  /\ Size(Broken("empty")) = 0 /\ Broken("empty").state = "empty"
  /\ \A st \in Stores : Size(st) \in Nat
<1>1. << >> \in Seq(Snap) /\ << >> \in Seq(Rendering) /\ Len(<< >>) = 0
  OBVIOUS
<1>2. NewStore \in Stores /\ NewStore.state = "whole" /\ NewStore.snaps = << >> /\ NewStore.renders = << >>
  BY <1>1 DEF Stores, NewStore, Whole
<1>3. ASSUME NEW x \in {"empty", "garbled"}
      PROVE  Broken(x) \in Stores /\ Broken(x).state = x
             /\ Broken(x).snaps = << >> /\ Broken(x).renders = << >>
  BY <1>2 DEF Stores, Broken
<1>4. ASSUME NEW st \in Stores PROVE Size(st) \in Nat
  <2>1. st.snaps \in Seq(Snap) /\ st.renders \in Seq(Rendering)
    BY DEF Stores
  <2>2. ASSUME NEW a \in Nat, NEW b \in Nat, Size(st) = a + b PROVE Size(st) \in Nat
    BY <2>2
  <2>3. Len(st.snaps) \in Nat /\ Len(st.renders) \in Nat
    BY <2>1, LenProperties
  <2>4. Size(st) = Len(st.snaps) + Len(st.renders)
    BY DEF Size
  <2> QED
    BY <2>2, <2>3, <2>4
<1>5. Size(Broken("empty")) = 0
  <2>1. Broken("empty").snaps = << >> /\ Broken("empty").renders = << >>
    BY <1>3
  <2>2. Size(Broken("empty")) = Len(<< >>) + Len(<< >>)
    BY <2>1, Zenon DEF Size
  <2>3. Len(<< >>) + Len(<< >>) = 0
    OBVIOUS
  <2> QED
    BY <2>2, <2>3
<1> QED
  BY <1>2, <1>3, <1>4, <1>5

\* The store always loads where the disk is as DiskInv says.
LEMMA LoadedType ==
  ASSUME DiskInv
  PROVE  Loaded \in Stores /\ Loaded.state = "whole" /\ LoadOK
<1>1. CASE dir.store = 0
  BY <1>1, StoreTypes DEF Loaded, LoadOK
<1>2. CASE dir.store # 0
  <2>1. dir.store \in Inode
    BY <1>2 DEF DiskInv, Inode
  <2> QED
    BY <1>2, <2>1 DEF DiskInv, Loaded, LoadOK
<1> QED
  BY <1>1, <1>2

\* Dropped removes one entry of the key, if there is one.
LEMMA DroppedShape ==
  ASSUME NEW S, NEW es \in Seq(S), NEW key
  PROVE  \/ /\ Dropped(es, key) = es
            /\ \A i \in 1..Len(es) : es[i].key # key
         \/ \E j \in 1..Len(es) :
              /\ es[j].key = key
              /\ Dropped(es, key) \in Seq(S)
              /\ Len(Dropped(es, key)) = Len(es) - 1
              /\ \A i \in 1..(Len(es) - 1) :
                   Dropped(es, key)[i] = es[IF i < j THEN i ELSE i + 1]
<1> DEFINE places == {i \in DOMAIN es : es[i].key = key}
<1>1. DOMAIN es = 1..Len(es)
  OBVIOUS
<1>2. CASE places = {}
  BY <1>1, <1>2 DEF Dropped
<1>3. CASE places # {}
  <2> DEFINE j == CHOOSE i \in places : TRUE
  <2>1. j \in 1..Len(es) /\ es[j].key = key
    BY <1>1, <1>3
  <2>2. Dropped(es, key) = RemoveAt(es, j)
    BY <1>3 DEF Dropped
  <2> HIDE DEF j
  <2> QED
    BY <2>1, <2>2, RemoveAtProperties, ZenonT(30)
<1> QED
  BY <1>2, <1>3

LEMMA DroppedType ==
  ASSUME NEW S, NEW es \in Seq(S), NEW key
  PROVE  Dropped(es, key) \in Seq(S)
  BY DroppedShape

\* Pruning leaves the end of the list.
LEMMA PruneShape ==
  ASSUME NEW S, NEW a \in Seq(S), Len(a) >= 1, NEW max \in Nat \ {0}
  PROVE  LET m == IF Len(a) < max THEN Len(a) ELSE max
         IN  /\ prune(a, max) \in Seq(S)
             /\ Len(prune(a, max)) = m
             /\ \A i \in 1..m : prune(a, max)[i] = a[Len(a) - m + i]
<1> DEFINE n == Len(a)
           m == IF n < max THEN n ELSE max
           t == SubSeq(a, n - m + 1, n)
<1>1. n \in Nat /\ m \in 1..n
  BY LenProperties
<1>2. prune(a, max) = t
  BY DEF prune
<1> HIDE DEF m
<1>3. \A i \in (n - m + 1)..n : a[i] \in S
  BY <1>1, ElementOfSeq
<1> HIDE DEF n
<1>4. n - m + 1 \in Int /\ n \in Int /\ n - m + 1 <= n /\ n - (n - m + 1) + 1 = m
  BY <1>1
<1>5. t \in Seq(S) /\ Len(t) = m /\ \A i \in 1..m : t[i] = a[(n - m + 1) + i - 1]
  BY <1>3, <1>4, SubSeqProperties
<1>6. \A i \in 1..m : (n - m + 1) + i - 1 = n - m + i
  BY <1>1
<1> HIDE DEF t
<1> QED
  BY <1>2, <1>5, <1>6 DEF m, n

\* The history after a save has each path once.
LEMMA SeenWithType ==
  ASSUME NEW path \in Path, NEW content \in Content, seen \in Seq(Snap), DistinctKeys(seen)
  PROVE  SeenWith(path, content) \in Seq(Snap) /\ DistinctKeys(SeenWith(path, content))
<1> DEFINE d == Dropped(seen, path)
           x == [key |-> path, content |-> content]
<1>1. d \in Seq(Snap) /\ x \in Snap
  BY DroppedType DEF Snap
<1>2. /\ \A i \in 1..Len(d) : d[i].key # path
      /\ \A i, l \in 1..Len(d) : d[i].key = d[l].key => i = l
  <2>1. CASE d = seen /\ \A i \in 1..Len(seen) : seen[i].key # path
    BY <2>1 DEF DistinctKeys
  <2>2. CASE \E j \in 1..Len(seen) :
               /\ seen[j].key = path
               /\ Len(d) = Len(seen) - 1
               /\ \A i \in 1..(Len(seen) - 1) : d[i] = seen[IF i < j THEN i ELSE i + 1]
    <3>1. PICK j \in 1..Len(seen) :
               /\ seen[j].key = path
               /\ Len(d) = Len(seen) - 1
               /\ \A i \in 1..(Len(seen) - 1) : d[i] = seen[IF i < j THEN i ELSE i + 1]
      BY <2>2
    <3>2. Len(seen) \in Nat
      BY LenProperties
    <3> DEFINE place(i) == IF i < j THEN i ELSE i + 1
    <3>3. ASSUME NEW i \in 1..Len(d)
          PROVE  place(i) \in 1..Len(seen) /\ place(i) # j /\ d[i] = seen[place(i)]
      BY <3>1, <3>2
    <3>4. ASSUME NEW i \in 1..Len(d), NEW l \in 1..Len(d), place(i) = place(l) PROVE i = l
      BY <3>1, <3>2, <3>4
    <3> HIDE DEF place
    <3>5. ASSUME NEW i \in 1..Len(d) PROVE d[i].key # path
      BY <3>1, <3>3 DEF DistinctKeys
    <3>6. ASSUME NEW i \in 1..Len(d), NEW l \in 1..Len(d), d[i].key = d[l].key PROVE i = l
      <4>1. place(i) = place(l)
        BY <3>3, <3>6 DEF DistinctKeys
      <4> QED
        BY <3>4, <4>1
    <3> QED
      BY <3>5, <3>6
  <2> HIDE DEF d
  <2> QED
    BY <2>1, <2>2, DroppedShape DEF d
<1>3. SeenWith(path, content) = Append(d, x)
  BY DEF SeenWith
<1>4. x.key = path
  OBVIOUS
<1> HIDE DEF d, x
<1>5. /\ Append(d, x) \in Seq(Snap) /\ Len(Append(d, x)) = Len(d) + 1 /\ Len(d) \in Nat
      /\ \A i \in 1..Len(d) : Append(d, x)[i] = d[i]
      /\ Append(d, x)[Len(d) + 1] = x
  BY <1>1, AppendProperties, LenProperties
<1>6. ASSUME NEW i \in 1..(Len(d) + 1), NEW l \in 1..(Len(d) + 1),
             Append(d, x)[i].key = Append(d, x)[l].key
      PROVE  i = l
  <2>1. CASE i \in 1..Len(d) /\ l \in 1..Len(d)
    BY <1>2, <1>5, <1>6, <2>1
  <2>2. CASE i = Len(d) + 1 /\ l \in 1..Len(d)
    BY <1>2, <1>4, <1>5, <1>6, <2>2
  <2>3. CASE i \in 1..Len(d) /\ l = Len(d) + 1
    BY <1>2, <1>4, <1>5, <1>6, <2>3
  <2>4. (i \in 1..Len(d) \/ i = Len(d) + 1) /\ (l \in 1..Len(d) \/ l = Len(d) + 1)
    BY <1>5
  <2> QED
    BY <2>1, <2>2, <2>3, <2>4
<1> QED
  BY <1>3, <1>5, <1>6 DEF DistinctKeys

\* Put after any history leaves the snapshots of what was saved last.
LEMMA PutIsLast ==
  ASSUME NEW st \in Stores, NEW path \in Path, NEW content \in Content,
         seen \in Seq(Snap), DistinctKeys(seen), AreLast(st.snaps, seen)
  PROVE  /\ Put(st, path, content) \in Stores
         /\ Put(st, path, content).state = st.state
         /\ AreLast(Put(st, path, content).snaps, SeenWith(path, content))
<1> DEFINE M == MaxSnapshots
           T(e) == [key |-> e.key, content |-> trimContent(e.content)]
           r == st.snaps
           k == Len(r)
           n == Len(seen)
           x == [key |-> path, content |-> content]
           tx == [key |-> path, content |-> trimContent(content)]
           dr == Dropped(r, path)
           ds == Dropped(seen, path)
           ar == Append(dr, tx)
           as == Append(ds, x)
           pr == prune(ar, M)
<1>1. /\ r \in Seq(Snap) /\ k \in Nat /\ n \in Nat /\ M \in Nat /\ M > 0 /\ DOMAIN r = 1..k
      /\ dr \in Seq(Snap) /\ ds \in Seq(Snap)
  BY DroppedType, ReadAssumption, LenProperties DEF Stores
<1>2. x \in Snap /\ tx \in Snap /\ T(x) = tx
  BY ReadAssumption DEF Snap, trimContent
<1>3. /\ k <= M /\ k <= n /\ (k < n => k = M)
      /\ \A i \in 1..k : r[i] = T(seen[n - k + i]) /\ r[i].key = seen[n - k + i].key
  <2>1. /\ k <= M /\ n - k >= 0 /\ (n - k > 0 => k = M)
        /\ \A i \in DOMAIN r : r[i] = T(seen[n - k + i])
    BY DEF AreLast
  <2>2. \A i : T(seen[n - k + i]).key = seen[n - k + i].key
    OBVIOUS
  <2> HIDE DEF M, T, k, n, r
  <2>3. k <= n /\ (k < n => k = M)
    BY <1>1, <2>1
  <2>4. ASSUME NEW i \in 1..k PROVE r[i] = T(seen[n - k + i]) /\ r[i].key = seen[n - k + i].key
    <3>1. i \in DOMAIN r
      BY <1>1
    <3>2. r[i] = T(seen[n - k + i])
      BY <2>1, <3>1
    <3> QED
      BY <2>2, <3>2
  <2> QED
    BY <2>1, <2>3, <2>4
<1>4. /\ ar \in Seq(Snap) /\ Len(ar) = Len(dr) + 1
      /\ \A i \in 1..Len(dr) : ar[i] = dr[i]
      /\ ar[Len(dr) + 1] = tx
  BY <1>1, <1>2, AppendProperties
<1>5. /\ as \in Seq(Snap) /\ Len(as) = Len(ds) + 1
      /\ \A i \in 1..Len(ds) : as[i] = ds[i]
      /\ as[Len(ds) + 1] = x
  BY <1>1, <1>2, AppendProperties
<1>6. Len(dr) \in Nat /\ Len(ds) \in Nat
  BY <1>1, LenProperties
<1>7. \/ dr = r /\ \A i \in 1..k : r[i].key # path
      \/ \E j \in 1..k : /\ r[j].key = path /\ Len(dr) = k - 1
                         /\ \A i \in 1..(k - 1) : dr[i] = r[IF i < j THEN i ELSE i + 1]
  <2> HIDE DEF r
  <2>1. r \in Seq(Snap)
    BY <1>1
  <2> QED
    BY <2>1, DroppedShape
<1>8. \/ ds = seen /\ \A i \in 1..n : seen[i].key # path
      \/ \E j \in 1..n : /\ seen[j].key = path /\ Len(ds) = n - 1
                         /\ \A i \in 1..(n - 1) : ds[i] = seen[IF i < j THEN i ELSE i + 1]
  BY DroppedShape
<1>9. Put(st, path, content) = [st EXCEPT !.snaps = pr] /\ SeenWith(path, content) = as
  BY DEF Put, SeenWith
<1>10. \A i, j \in 1..n : seen[i].key = seen[j].key => i = j
  BY DEF DistinctKeys
<1> DEFINE m == IF Len(ar) < M THEN Len(ar) ELSE M
<1>11. pr \in Seq(Snap) /\ Len(pr) = m /\ \A i \in 1..m : pr[i] = ar[Len(ar) - m + i]
  <2> HIDE DEF ar, M
  <2>1. Len(ar) >= 1
    BY <1>4, <1>6
  <2> QED
    <3> HIDE DEF dr, tx
    <3>1. ar \in Seq(Snap) /\ M \in Nat \ {0}
      BY <1>1, <1>4
    <3> QED
      BY <2>1, <3>1, PruneShape
<1> HIDE DEF M, T, r, k, n, x, tx, dr, ds, ar, as, pr
\* What is left of the snapshots is the end of what is left of seen, but for
\* an entry that is pruned.
<1> DEFINE Aligned ==
             /\ Len(ds) >= Len(dr)
             /\ \A i \in 1..Len(dr) :
                  i >= Len(dr) - m + 2 => dr[i] = T(ds[Len(ds) - Len(dr) + i])
             /\ Len(ds) > Len(dr) => Len(dr) + 1 >= M
             /\ Len(dr) <= M
<1>12. Aligned
  <2>1. CASE ds = seen /\ \A i \in 1..n : seen[i].key # path
    <3>1. \A i \in 1..k : n - k + i \in 1..n
      BY <1>1, <1>3
    <3>2. dr = r
      BY <1>3, <1>7, <2>1, <3>1
    <3>3. Len(dr) = k /\ Len(ds) = n
      BY <2>1, <3>2 DEF k, n
    <3> QED
      BY <1>1, <1>3, <2>1, <3>2, <3>3
  <2>2. ASSUME NEW j \in 1..n, seen[j].key = path, Len(ds) = n - 1,
               \A i \in 1..(n - 1) : ds[i] = seen[IF i < j THEN i ELSE i + 1]
        PROVE  Aligned
    <3>1. CASE dr = r /\ \A i \in 1..k : r[i].key # path
      <4>1. Len(dr) = k
        BY <3>1 DEF k
      <4>2. j <= n - k
        <5>1. ASSUME ~(j <= n - k) PROVE FALSE
          <6>1. j - (n - k) \in 1..k /\ n - k + (j - (n - k)) = j
            BY <1>1, <1>3, <2>2, <5>1
          <6>2. r[j - (n - k)].key = seen[j].key
            BY <1>3, <6>1
          <6> QED
            BY <2>2, <3>1, <6>1, <6>2
        <5> QED
          BY <5>1
      <4>3. k < n /\ k = M
        BY <1>1, <1>3, <2>2, <4>2
      <4>4. m = M
        BY <1>1, <1>4, <4>1, <4>3
      <4>5. ASSUME NEW i \in 1..k, i >= 2 PROVE r[i] = T(ds[n - 1 - k + i])
        <5>1. n - 1 - k + i \in 1..(n - 1) /\ ~(n - 1 - k + i < j) /\ (n - 1 - k + i) + 1 = n - k + i
          BY <1>1, <1>3, <2>2, <4>2, <4>5
        <5>2. ds[n - 1 - k + i] = seen[n - k + i]
          BY <2>2, <5>1
        <5> QED
          BY <1>3, <5>2
      <4>6. k - m + 2 = 2
        BY <1>1, <4>3, <4>4
      <4> QED
        BY <1>1, <2>2, <3>1, <4>1, <4>3, <4>5, <4>6
    <3>2. ASSUME NEW l \in 1..k, r[l].key = path, Len(dr) = k - 1,
                 \A i \in 1..(k - 1) : dr[i] = r[IF i < l THEN i ELSE i + 1]
          PROVE  Aligned
      <4>1. n - k + l \in 1..n
        BY <1>1, <1>3, <3>2
      <4>2. n - k + l = j
        BY <1>3, <1>10, <2>2, <3>2, <4>1
      <4>3. ASSUME NEW i \in 1..(k - 1) PROVE dr[i] = T(ds[n - 1 - (k - 1) + i])
        <5> DEFINE q == IF i < l THEN i ELSE i + 1
        <5>1. /\ q \in 1..k /\ n - k + i \in 1..(n - 1)
              /\ n - k + q = (IF n - k + i < j THEN n - k + i ELSE n - k + i + 1)
              /\ n - 1 - (k - 1) + i = n - k + i
          BY <1>1, <1>3, <3>2, <4>2
        <5>2. dr[i] = r[q] /\ ds[n - k + i] = seen[n - k + q]
          BY <2>2, <3>2, <5>1
        <5> HIDE DEF q
        <5> QED
          BY <1>3, <5>1, <5>2
      <4> QED
        BY <1>1, <1>3, <2>2, <3>2, <4>3
    <3> QED
      BY <1>7, <3>1, <3>2
  <2> QED
    BY <1>8, <2>1, <2>2
<1>13. m \in Nat /\ m >= 1 /\ m <= M /\ m <= Len(dr) + 1
  BY <1>1, <1>4, <1>6
<1>14. Len(as) - m >= 0 /\ (Len(as) - m > 0 => m = M)
  BY <1>1, <1>4, <1>5, <1>6, <1>12
<1>15. ASSUME NEW i \in 1..m PROVE pr[i] = T(as[Len(as) - m + i])
  <2>1. pr[i] = ar[Len(ar) - m + i]
    BY <1>11
  <2> HIDE DEF m
  <2>2. CASE i = m
    <3>1. Len(ar) - m + i = Len(dr) + 1 /\ Len(as) - m + i = Len(ds) + 1
      BY <1>4, <1>5, <1>6, <1>13, <2>2
    <3> QED
      BY <1>2, <1>4, <1>5, <2>1, <3>1
  <2>3. CASE i < m
    <3> DEFINE q == Len(dr) + 1 - m + i
    <3>1. /\ q \in 1..Len(dr) /\ q >= Len(dr) - m + 2 /\ Len(ar) - m + i = q
          /\ Len(as) - m + i = Len(ds) - Len(dr) + q
          /\ Len(ds) - Len(dr) + q \in 1..Len(ds)
      BY <1>4, <1>5, <1>6, <1>12, <1>13, <2>3
    <3> HIDE DEF q
    <3>2. ar[q] = dr[q] /\ as[Len(ds) - Len(dr) + q] = ds[Len(ds) - Len(dr) + q]
      BY <1>4, <1>5, <3>1
    <3> QED
      BY <1>12, <2>1, <3>1, <3>2
  <2>4. i = m \/ i < m
    BY <1>13
  <2> QED
    BY <2>2, <2>3, <2>4
<1>16. AreLast(pr, as)
  <2>1. DOMAIN pr = 1..m /\ Len(pr) = m
    BY <1>11
  <2> HIDE DEF m
  <2> QED
    BY <1>13, <1>14, <1>15, <2>1 DEF AreLast, T, M
<1>17. [st EXCEPT !.snaps = pr] \in Stores /\ [st EXCEPT !.snaps = pr].state = st.state
       /\ [st EXCEPT !.snaps = pr].snaps = pr
  BY <1>11 DEF Stores
<1> QED
  BY <1>9, <1>16, <1>17

LEMMA KeptType ==
  ASSUME NEW es \in Seq(Rendering), NEW e \in Rendering, NEW key, NEW max \in Nat \ {0}
  PROVE  prune(Append(Dropped(es, key), e), max) \in Seq(Rendering)
<1> DEFINE d == Dropped(es, key)
           a == Append(d, e)
<1>1. d \in Seq(Rendering)
  BY DroppedType
<1> HIDE DEF d
<1>2. a \in Seq(Rendering) /\ Len(a) = Len(d) + 1 /\ Len(d) \in Nat
  BY <1>1, AppendProperties, LenProperties
<1> HIDE DEF a
<1>3. Len(a) >= 1
  BY <1>2
<1>4. prune(a, max) \in Seq(Rendering)
  BY <1>2, <1>3, PruneShape
<1> QED
  BY <1>4 DEF a, d

LEMMA PutRenderType ==
  ASSUME NEW st \in Stores, NEW key \in RenderKey, NEW out \in Output
  PROVE  /\ PutRender(st, key, out) \in Stores
         /\ PutRender(st, key, out).state = st.state
         /\ PutRender(st, key, out).snaps = st.snaps
<1> DEFINE q == prune(Append(Dropped(st.renders, key), [key |-> key, output |-> out]), MaxRenders)
<1>1. [key |-> key, output |-> out] \in Rendering /\ st.renders \in Seq(Rendering)
  BY DEF Rendering, Stores
<1>2. q \in Seq(Rendering)
  BY <1>1, KeptType, ReadAssumption
<1>3. PutRender(st, key, out) = [st EXCEPT !.renders = q]
  BY DEF PutRender
<1> HIDE DEF q
<1> QED
  BY <1>2, <1>3 DEF Stores

LEMMA SnapshotType ==
  ASSUME NEW st \in Stores, NEW path
  PROVE  SnapshotOf(st, path) \in Content \union {NoContent}
<1>1. st.snaps \in Seq(Snap)
  BY DEF Stores
<1>2. ASSUME NEW e \in Found(st.snaps, path) PROVE e.content \in Content
  <2>1. PICK i \in DOMAIN st.snaps : e = st.snaps[i]
    BY DEF Found, Range
  <2>2. e \in Snap
    BY <1>1, <2>1
  <2> QED
    BY <2>2 DEF Snap
<1> QED
  BY <1>2 DEF SnapshotOf

\* A step of the only process.
LEMMA OnlyProcess ==
  ASSUME OneProcess, NEW p \in Process,
         DiskInv', ReadTypes', SeenInv', SavingInv(p)', AnswerInv(p)'
  PROVE  ReadInv'
<1>1. \A q \in Process : q = p
  BY DEF OneProcess
<1>2. \A q \in Process : SavingInv(q)' /\ AnswerInv(q)'
  BY <1>1
<1> QED
  BY <1>2 DEF ReadInv

\* A step that leaves the disk alone.
LEMMA DiskStays ==
  ASSUME ReadInv, UNCHANGED diskVars
  PROVE  /\ DiskInv' /\ SeenInv' /\ Loaded' = Loaded
         /\ \A path, content : SeenWith(path, content)' = SeenWith(path', content')
  BY DEF ReadInv, DiskInv, SeenInv, diskVars, Loaded, SeenWith, DistinctKeys

\* What a job is, and what a process without one holds.
LEMMA JobTypes ==
  /\ NotShown \in Output /\ Failed \in Output /\ NoJob \in Job \union {NoJob}
  /\ \A j \in Job : /\ j.path \in Path /\ j.content \in Content /\ j.save \in BOOLEAN
                     /\ j.mode \in {"full", "delta"}
                     /\ cacheKey(j) \in RenderKey
<1>1. NotShown \in Output /\ Failed \in Output /\ NoJob \in Job \union {NoJob}
  BY DEF NotShown, Failed, Output
<1>2. ASSUME NEW j \in Job
      PROVE  /\ j.path \in Path /\ j.content \in Content /\ j.save \in BOOLEAN
             /\ j.mode \in {"full", "delta"}
  BY DEF Job
<1>3. ASSUME NEW j \in Job PROVE cacheKey(j) \in RenderKey
  BY <1>2 DEF cacheKey, RenderKey
<1> QED
  BY <1>1, <1>2, <1>3

\* What renderCache holds after a Set.
LEMMA RememberType ==
  ASSUME NEW p \in Process, NEW key \in RenderKey, NEW out \in Output, Remember(p, key, out),
         memo \in [Process -> Seq(Rendering)]
  PROVE  memo' \in [Process -> Seq(Rendering)]
<1> DEFINE q == prune(Append(Dropped(memo[p], key), [key |-> key, output |-> out]), MaxMemo)
<1>1. [key |-> key, output |-> out] \in Rendering /\ memo[p] \in Seq(Rendering)
  BY DEF Rendering
<1>2. q \in Seq(Rendering)
  BY <1>1, KeptType, ReadAssumption
<1>3. memo' = [memo EXCEPT ![p] = q]
  BY DEF Remember
<1> HIDE DEF q
<1> QED
  BY <1>2, <1>3

LEMMA ReadInitInv == ReadInit => ReadInv
<1> SUFFICES ASSUME ReadInit PROVE ReadInv
  OBVIOUS
<1>1. DiskInv
  BY StoreTypes DEF ReadInit, DiskInv
<1>2. ReadTypes
  BY StoreTypes, JobTypes DEF ReadInit, ReadTypes, Places
<1>3. ASSUME NEW p \in Process PROVE SavingInv(p) /\ AnswerInv(p)
  BY DEF ReadInit, SavingInv, AnswerInv, Saving
<1>4. SeenInv
  <2>1. seen = << >> /\ Loaded.snaps = << >> /\ Len(<< >>) = 0 /\ << >> \in Seq(Snap)
    BY DEF ReadInit, Loaded, NewStore, Whole
  <2>2. AreLast(<< >>, << >>)
    BY <2>1, ReadAssumption DEF AreLast
  <2>3. DistinctKeys(<< >>)
    BY DEF DistinctKeys
  <2> QED
    BY <2>1, <2>2, <2>3 DEF SeenInv
<1> QED
  BY <1>1, <1>2, <1>3, <1>4 DEF ReadInv

\* A call that ends, or a process that is killed, wherever it is.
LEMMA EndedInv ==
  ASSUME OneProcess, ReadInv, NEW p \in Process, Ended(p), UNCHANGED diskVars,
         memo' \in [Process -> Seq(Rendering)]
  PROVE  ReadInv'
<1>1. DiskInv' /\ SeenInv'
  BY DiskStays
<1>2. ReadTypes'
  <2>1. ReadTypes /\ NewStore \in Stores /\ NotShown \in Output
    BY StoreTypes, JobTypes DEF ReadInv
  <2>2. buildPc' \in [Process -> Places] /\ after' \in [Process -> {"idle", "render", "answered"}]
    BY <2>1 DEF ReadTypes, Ended, Places
  <2> QED
    BY <2>1, <2>2 DEF ReadTypes, Ended
<1>3. buildPc'[p] = "idle" /\ fd'[p] = 0
  BY DEF ReadInv, ReadTypes, Ended
<1>4. SavingInv(p)'
  BY <1>3 DEF SavingInv, Saving
<1>5. AnswerInv(p)'
  BY <1>3 DEF AnswerInv, Saving
<1> QED
  BY <1>1, <1>2, <1>4, <1>5, OnlyProcess

LEMMA BeginInv ==
  ASSUME OneProcess, ReadInv, NEW p \in Process, Begin(p)
  PROVE  ReadInv'
<1>1. PICK j \in Job : job' = [job EXCEPT ![p] = j]
  BY DEF Begin
<1>2. /\ UNCHANGED diskVars /\ UNCHANGED <<toSave, fd, after, shown, memo>>
      /\ buildPc' = [buildPc EXCEPT ![p] = "lookup"]
  BY DEF Begin, Goto
<1>3. buildPc'[p] = "lookup" /\ job'[p] = j
  BY <1>1, <1>2 DEF ReadInv, ReadTypes
<1>4. DiskInv' /\ SeenInv'
  BY <1>2, DiskStays
<1>5. ReadTypes'
  BY <1>1, <1>2 DEF ReadInv, ReadTypes, Places
<1>6. SavingInv(p)'
  BY <1>2, <1>3 DEF ReadInv, SavingInv, Saving, Begin
<1>7. AnswerInv(p)'
  BY <1>1, <1>3 DEF AnswerInv, Saving
<1> QED
  BY <1>4, <1>5, <1>6, <1>7, OnlyProcess

\* A rendered result found in renderCache or in the store.
LEMMA LookupInv ==
  ASSUME OneProcess, ReadInv, NEW p \in Process, Recall(p) \/ Lookup(p)
  PROVE  ReadInv'
<1> DEFINE key == cacheKey(job[p])
<1>1. memo[p] \in Seq(Rendering) /\ Loaded.renders \in Seq(Rendering)
  BY LoadedType DEF ReadInv, ReadTypes, Stores
<1>2. PICK e \in Found(memo[p], key) \union Found(Loaded.renders, key) : Answer(p, e.output)
  BY DEF Recall, Lookup, Persisted
<1>3. e \in Rendering
  <2>1. CASE e \in Found(memo[p], key)
    <3>1. PICK i \in DOMAIN memo[p] : e = memo[p][i]
      BY <2>1 DEF Found, Range
    <3> QED
      BY <1>1, <3>1
  <2>2. CASE e \in Found(Loaded.renders, key)
    <3>1. PICK i \in DOMAIN Loaded.renders : e = Loaded.renders[i]
      BY <2>2 DEF Found, Range
    <3> QED
      BY <1>1, <3>1
  <2> QED
    BY <2>1, <2>2
<1>4. e.output \in Output
  BY <1>3 DEF Rendering
<1>5. /\ buildPc[p] = "lookup" /\ UNCHANGED diskVars /\ UNCHANGED <<job, toSave, fd, after>>
      /\ shown' = [shown EXCEPT ![p] = e.output]
      /\ buildPc' = [buildPc EXCEPT ![p] = "answered"]
  BY <1>2 DEF Recall, Lookup, Answer, Goto
<1>6. job[p] \in Job
  BY <1>5 DEF ReadInv, AnswerInv
<1>7. memo' \in [Process -> Seq(Rendering)]
  BY <1>2, <1>4, <1>6, JobTypes, RememberType DEF Answer, ReadInv, ReadTypes
<1>8. DiskInv' /\ SeenInv'
  BY <1>5, DiskStays
<1>9. ReadTypes'
  BY <1>4, <1>5, <1>7 DEF ReadInv, ReadTypes, Places
<1>10. buildPc'[p] = "answered"
  BY <1>5 DEF ReadInv, ReadTypes
<1>11. SavingInv(p)' /\ AnswerInv(p)'
  BY <1>5, <1>6, <1>10 DEF ReadInv, SavingInv, AnswerInv, Saving
<1> QED
  BY <1>8, <1>9, <1>11, OnlyProcess

LEMMA LookupFailsInv ==
  ASSUME OneProcess, ReadInv, NEW p \in Process, LookupFails(p)
  PROVE  ReadInv'
<1>1. /\ buildPc[p] = "lookup" /\ UNCHANGED diskVars /\ UNCHANGED <<job, toSave, fd, after, shown>>
      /\ buildPc' = [buildPc EXCEPT ![p] = "apply"]
      /\ memo' = [memo EXCEPT ![p] = Dropped(memo[p], cacheKey(job[p]))]
  BY DEF LookupFails, Goto
<1>2. Dropped(memo[p], cacheKey(job[p])) \in Seq(Rendering)
  BY DroppedType DEF ReadInv, ReadTypes
<1>3. DiskInv' /\ SeenInv'
  BY <1>1, DiskStays
<1>4. ReadTypes'
  BY <1>1, <1>2 DEF ReadInv, ReadTypes, Places
<1>5. buildPc'[p] = "apply"
  BY <1>1 DEF ReadInv, ReadTypes
<1>6. SavingInv(p)' /\ AnswerInv(p)'
  BY <1>1, <1>5 DEF ReadInv, SavingInv, AnswerInv, Saving
<1> QED
  BY <1>3, <1>4, <1>6, OnlyProcess

LEMMA ApplyFullInv ==
  ASSUME OneProcess, ReadInv, NEW p \in Process, ApplyFull(p)
  PROVE  ReadInv'
<1> DEFINE out == [NotShown EXCEPT !.kind = "full", !.to = job[p].content]
<1>1. /\ UNCHANGED diskVars /\ UNCHANGED <<job, toSave, fd, after, memo>> /\ buildPc[p] = "apply"
      /\ shown' = [shown EXCEPT ![p] = out] /\ buildPc' = [buildPc EXCEPT ![p] = "render"]
  BY DEF ApplyFull, Goto
<1>2. DiskInv' /\ SeenInv'
  BY <1>1, DiskStays
<1>3. job[p] \in Job
  BY <1>1 DEF ReadInv, AnswerInv
<1>4. out \in Output
  BY <1>3, JobTypes DEF Output, NotShown
<1> HIDE DEF out
<1>5. buildPc'[p] = "render"
  BY <1>1 DEF ReadInv, ReadTypes
<1>6. ReadTypes'
  BY <1>1, <1>4 DEF ReadInv, ReadTypes, Places
<1>7. SavingInv(p)' /\ AnswerInv(p)'
  BY <1>1, <1>3, <1>5 DEF ReadInv, SavingInv, AnswerInv, Saving
<1> QED
  BY <1>2, <1>6, <1>7, OnlyProcess

LEMMA ApplyDeltaInv ==
  ASSUME OneProcess, ReadInv, NEW p \in Process, ApplyDelta(p)
  PROVE  ReadInv'
<1> DEFINE out == [kind |-> "delta", from |-> SnapshotOf(Loaded, job[p].path),
                   to |-> job[p].content, cut |-> FALSE]
           st == Put(Loaded, job[p].path, job[p].content)
<1>1. LoadOK /\ Loaded \in Stores /\ Loaded.state = "whole"
  BY LoadedType DEF ReadInv
<1>2. /\ UNCHANGED diskVars /\ UNCHANGED <<job, fd, memo, seen>> /\ buildPc[p] = "apply"
      /\ shown' = [shown EXCEPT ![p] = out]
  BY <1>1 DEF ApplyDelta, diskVars
<1>3. DiskInv' /\ SeenInv'
  BY <1>2, DiskStays
<1>4. job[p] \in Job
  BY <1>2 DEF ReadInv, AnswerInv
<1>5. job[p].path \in Path /\ job[p].content \in Content /\ job[p].save \in BOOLEAN
  BY <1>4, JobTypes
<1>6. out \in Output
  BY <1>1, <1>5, SnapshotType DEF Output
<1>7. /\ st \in Stores /\ st.state = "whole"
      /\ AreLast(st.snaps, SeenWith(job[p].path, job[p].content))
  BY <1>1, <1>5, PutIsLast DEF ReadInv, SeenInv
<1>8. fd[p] = 0
  BY <1>2 DEF ReadInv, SavingInv
<1>9. CASE job[p].save = TRUE
  <2>1. /\ toSave' = [toSave EXCEPT ![p] = st] /\ after' = [after EXCEPT ![p] = "render"]
        /\ buildPc' = [buildPc EXCEPT ![p] = "open"]
    BY <1>1, <1>9 DEF ApplyDelta, Goto
  <2> HIDE DEF out, st
  <2>2. buildPc'[p] = "open" /\ toSave'[p] = st /\ after'[p] = "render"
    BY <1>2, <2>1 DEF ReadInv, ReadTypes
  <2>3. ReadTypes'
    BY <1>2, <1>6, <1>7, <2>1 DEF ReadInv, ReadTypes, Places, Saving
  <2>4. SavingInv(p)'
    BY <1>2, <1>7, <1>8, <2>2 DEF SavingInv
  <2>5. AnswerInv(p)'
    BY <1>2, <1>4, <1>7, <2>2 DEF AnswerInv, SeenWith
  <2> QED
    BY <1>3, <2>3, <2>4, <2>5, OnlyProcess
<1>10. CASE job[p].save = FALSE
  <2>1. UNCHANGED <<toSave, after>> /\ buildPc' = [buildPc EXCEPT ![p] = "render"]
    BY <1>1, <1>10 DEF ApplyDelta, Goto
  <2> HIDE DEF out, st
  <2>2. buildPc'[p] = "render"
    BY <1>2, <2>1 DEF ReadInv, ReadTypes
  <2>3. ReadTypes'
    BY <1>2, <1>6, <2>1 DEF ReadInv, ReadTypes, Places
  <2>4. SavingInv(p)'
    BY <1>2, <1>8, <2>2 DEF SavingInv, Saving
  <2>5. AnswerInv(p)'
    BY <1>2, <1>4, <2>2 DEF AnswerInv, Saving
  <2> QED
    BY <1>3, <2>3, <2>4, <2>5, OnlyProcess
<1> QED
  BY <1>5, <1>9, <1>10

LEMMA RenderInv ==
  ASSUME OneProcess, ReadInv, NEW p \in Process, Render(p)
  PROVE  ReadInv'
<1>1. LoadOK /\ Loaded \in Stores /\ Loaded.state = "whole"
  BY LoadedType DEF ReadInv
<1>2. PICK out \in trimOutput(shown[p]) :
        toSave' = [toSave EXCEPT ![p] = PutRender(Loaded, cacheKey(job[p]), out)]
  BY <1>1 DEF Render
<1> DEFINE st == PutRender(Loaded, cacheKey(job[p]), out)
<1>3. /\ UNCHANGED diskVars /\ UNCHANGED <<job, fd, shown, seen>> /\ buildPc[p] = "render"
      /\ toSave' = [toSave EXCEPT ![p] = st] /\ after' = [after EXCEPT ![p] = "answered"]
      /\ buildPc' = [buildPc EXCEPT ![p] = "open"]
      /\ Remember(p, cacheKey(job[p]), shown[p])
  BY <1>1, <1>2 DEF Render, Goto, diskVars
<1>4. DiskInv' /\ SeenInv'
  BY <1>3, DiskStays
<1>5. job[p] \in Job /\ cacheKey(job[p]) \in RenderKey /\ shown[p] \in Output
  BY <1>3, JobTypes DEF ReadInv, AnswerInv, ReadTypes
<1>6. out \in Output
  BY <1>5 DEF trimOutput, Output
<1>7. st \in Stores /\ st.state = "whole" /\ st.snaps = Loaded.snaps
  BY <1>1, <1>5, <1>6, PutRenderType
<1>8. AreLast(st.snaps, seen)
  BY <1>7 DEF ReadInv, SeenInv
<1>9. memo' \in [Process -> Seq(Rendering)]
  BY <1>3, <1>5, RememberType DEF ReadInv, ReadTypes
<1> HIDE DEF st
<1>10. buildPc'[p] = "open" /\ toSave'[p] = st /\ after'[p] = "answered" /\ fd'[p] = 0
  BY <1>3 DEF ReadInv, ReadTypes, SavingInv
<1>11. ReadTypes'
  BY <1>3, <1>7, <1>9 DEF ReadInv, ReadTypes, Places, Saving
<1>12. SavingInv(p)'
  BY <1>7, <1>10 DEF SavingInv
<1>13. AnswerInv(p)'
  BY <1>3, <1>5, <1>8, <1>10 DEF AnswerInv
<1> QED
  BY <1>4, <1>11, <1>12, <1>13, OnlyProcess

\* Opening the temporary file leaves the store's own inode alone.
LEMMA OpenTmpInv ==
  ASSUME OneProcess, ReadInv, NEW p \in Process, OpenTmp(p)
  PROVE  ReadInv'
<1> DEFINE i == IF dir.tmp # 0 THEN dir.tmp ELSE CHOOSE i \in Free : \A k \in Free : i <= k
<1>1. /\ buildPc[p] = "open" /\ UNCHANGED <<job, toSave, after, shown, memo, seen>>
      /\ dir' = [dir EXCEPT !.tmp = i] /\ inode' = [inode EXCEPT ![i] = Broken("empty")]
      /\ fd' = [fd EXCEPT ![p] = i] /\ buildPc' = [buildPc EXCEPT ![p] = "write"]
  BY DEF OpenTmp, Truncate, Goto
<1>2. fd[p] = 0
  BY <1>1 DEF ReadInv, SavingInv
<1>3. i \in Inode /\ i # dir.store
  <2>1. CASE dir.tmp # 0
    BY <2>1 DEF ReadInv, DiskInv, Inode
  <2>2. CASE dir.tmp = 0
    <3>1. \A q \in Process : fd[q] = 0
      BY <1>2 DEF OneProcess
    <3>2. Free = Inode \ {dir.store}
      BY <1>2, <2>2, <3>1 DEF Free, Inode
    <3>3. \E k \in Free : \A l \in Free : k <= l
      <4>1. CASE dir.store = 1
        <5>1. Free = {2, 3}
          BY <3>2, <4>1 DEF Inode
        <5> QED
          BY <5>1
      <4>2. CASE dir.store # 1
        <5>1. 1 \in Free /\ \A l \in Free : l \in Inode
          BY <3>2, <4>2 DEF Inode
        <5> QED
          BY <5>1 DEF Inode
      <4> QED
        BY <4>1, <4>2
    <3>4. i \in Free
      BY <2>2, <3>3
    <3> QED
      BY <3>2, <3>4
  <2> QED
    BY <2>1, <2>2
<1> HIDE DEF i
<1>4. i # 0 /\ i \in 0..3
  BY <1>3 DEF Inode
<1>5. /\ buildPc'[p] = "write" /\ fd'[p] = i /\ dir'.tmp = i /\ dir'.store = dir.store
      /\ inode'[i] = Broken("empty")
  BY <1>1, <1>3 DEF ReadInv, ReadTypes, DiskInv
<1>6. DiskInv'
  <2>1. dir' \in [store : 0..3, tmp : 0..3]
    BY <1>1, <1>4 DEF ReadInv, DiskInv
  <2>2. inode' \in [Inode -> Stores]
    BY <1>1, StoreTypes DEF ReadInv, DiskInv
  <2>3. dir.store # 0 => inode'[dir.store] = inode[dir.store]
    BY <1>1, <1>3 DEF ReadInv, DiskInv
  <2> QED
    BY <1>3, <1>5, <2>1, <2>2, <2>3 DEF ReadInv, DiskInv
<1>7. ReadTypes'
  BY <1>1, <1>4 DEF ReadInv, ReadTypes, Places, Saving
<1>8. SavingInv(p)'
  BY <1>1, <1>4, <1>5 DEF ReadInv, SavingInv, Saving
<1>9. AnswerInv(p)'
  BY <1>1, <1>5 DEF ReadInv, AnswerInv, Saving, SeenWith
<1>10. Loaded' = Loaded
  BY <1>1, <1>3, <1>5 DEF ReadInv, DiskInv, Loaded
<1>11. SeenInv'
  BY <1>1, <1>10 DEF ReadInv, SeenInv, DistinctKeys
<1> QED
  BY <1>6, <1>7, <1>8, <1>9, <1>11, OnlyProcess

\* The file was empty, so what is written is what it holds.
LEMMA WriteTmpInv ==
  ASSUME OneProcess, ReadInv, NEW p \in Process, WriteTmp(p)
  PROVE  ReadInv'
<1>1. /\ buildPc[p] = "write" /\ UNCHANGED <<dir, job, toSave, after, shown, memo, seen>>
      /\ fd' = [fd EXCEPT ![p] = 0] /\ buildPc' = [buildPc EXCEPT ![p] = "rename"]
  BY DEF WriteTmp, Goto
<1>2. dir.tmp # 0 /\ fd[p] = dir.tmp /\ inode[dir.tmp] = Broken("empty")
  BY <1>1 DEF ReadInv, SavingInv
<1>3. dir.tmp \in Inode /\ dir.tmp # dir.store
  BY <1>2 DEF ReadInv, DiskInv, Inode
<1>4. toSave[p] \in Stores
  BY DEF ReadInv, ReadTypes
<1>5. ~(Broken("empty").state = "garbled" \/ Size(Broken("empty")) > Size(toSave[p]))
  <2>1. Size(toSave[p]) \in Nat /\ Size(Broken("empty")) = 0 /\ Broken("empty").state = "empty"
    BY <1>4, StoreTypes
  <2>2. ASSUME NEW m \in Nat PROVE ~(0 > m)
    OBVIOUS
  <2> QED
    BY <2>1, <2>2
<1>6. inode' = [inode EXCEPT ![dir.tmp] = toSave[p]]
  BY <1>2, <1>5 DEF WriteTmp
<1>7. buildPc'[p] = "rename" /\ fd'[p] = 0 /\ inode'[dir.tmp] = toSave[p]
  BY <1>1, <1>3, <1>6 DEF ReadInv, ReadTypes, DiskInv
<1>8. DiskInv'
  <2>1. inode' \in [Inode -> Stores]
    BY <1>4, <1>6 DEF ReadInv, DiskInv
  <2>2. dir.store # 0 => inode'[dir.store] = inode[dir.store]
    BY <1>3, <1>6 DEF ReadInv, DiskInv
  <2> QED
    BY <1>1, <2>1, <2>2 DEF ReadInv, DiskInv
<1>9. ReadTypes'
  BY <1>1 DEF ReadInv, ReadTypes, Places, Saving
<1>10. SavingInv(p)'
  BY <1>1, <1>2, <1>7 DEF ReadInv, SavingInv, Saving
<1>11. AnswerInv(p)'
  BY <1>1, <1>7 DEF ReadInv, AnswerInv, Saving, SeenWith
<1>12. Loaded' = Loaded
  BY <1>1, <1>3, <1>6 DEF ReadInv, DiskInv, Loaded
<1>13. SeenInv'
  BY <1>1, <1>12 DEF ReadInv, SeenInv, DistinctKeys
<1> QED
  BY <1>8, <1>9, <1>10, <1>11, <1>13, OnlyProcess

\* The store's name moves to a whole store, the one that was saved.
LEMMA RenameInv ==
  ASSUME OneProcess, ReadInv, NEW p \in Process, Rename(p)
  PROVE  ReadInv'
<1>1. buildPc[p] = "rename" /\ UNCHANGED <<job, toSave, fd, after, memo>>
  BY DEF Rename
<1>2. /\ dir.tmp # 0 /\ inode[dir.tmp] = toSave[p] /\ fd[p] = 0
      /\ toSave[p].state = "whole" /\ after[p] \in {"render", "answered"}
  BY <1>1 DEF ReadInv, ReadTypes, SavingInv, Saving
<1>3. /\ dir' = [store |-> dir.tmp, tmp |-> 0]
      /\ inode' = [i \in Inode |->
                     IF i \in {dir.tmp} \union {fd[q] : q \in Process} THEN inode[i]
                                                                     ELSE Broken("empty")]
      /\ buildPc' = [buildPc EXCEPT ![p] = after[p]] /\ shown' = shown
      /\ seen' = IF after[p] = "render" THEN SeenWith(job[p].path, job[p].content) ELSE seen
  BY <1>2 DEF Rename, Goto, SeenWith
<1>4. dir.tmp \in Inode /\ dir.tmp \in 0..3
  BY <1>2 DEF ReadInv, DiskInv, Inode
<1>5. dir'.store = dir.tmp /\ dir'.tmp = 0 /\ dir' \in [store : 0..3, tmp : 0..3]
  BY <1>3, <1>4
<1>6. inode'[dir.tmp] = toSave[p] /\ inode' \in [Inode -> Stores]
  BY <1>2, <1>3, <1>4, StoreTypes DEF ReadInv, DiskInv
<1>7. DiskInv'
  BY <1>2, <1>5, <1>6 DEF DiskInv
<1>8. ReadTypes'
  BY <1>1, <1>2, <1>3 DEF ReadInv, ReadTypes, Places
<1>9. buildPc'[p] = after[p]
  BY <1>3 DEF ReadInv, ReadTypes
<1>10. SavingInv(p)'
  BY <1>1, <1>2, <1>9 DEF SavingInv, Saving
<1>11. Loaded' = toSave[p]
  BY <1>2, <1>5, <1>6 DEF Loaded
<1>12. AnswerInv(p)'
  BY <1>1, <1>2, <1>9 DEF ReadInv, AnswerInv, Saving
<1>13. SeenInv'
  <2>1. AreLast(toSave[p].snaps, seen')
    BY <1>1, <1>3 DEF ReadInv, AnswerInv, Saving
  <2>2. job[p].path \in Path /\ job[p].content \in Content
    BY <1>1, JobTypes DEF ReadInv, AnswerInv
  <2>3. seen \in Seq(Snap) /\ DistinctKeys(seen)
    BY DEF ReadInv, SeenInv
  <2>4. seen' \in Seq(Snap) /\ DistinctKeys(seen')
    BY <1>3, <2>2, <2>3, SeenWithType
  <2> QED
    BY <1>11, <2>1, <2>4 DEF SeenInv, DistinctKeys
<1> QED
  BY <1>7, <1>8, <1>10, <1>12, <1>13, OnlyProcess

LEMMA ReadNextInv == OneProcess => (ReadInv /\ [ReadNext]_readVars => ReadInv')
<1> SUFFICES ASSUME OneProcess, ReadInv, [ReadNext]_readVars PROVE ReadInv'
  OBVIOUS
<1>0. memo \in [Process -> Seq(Rendering)] /\ << >> \in Seq(Rendering)
  BY DEF ReadInv, ReadTypes
<1>1. ASSUME NEW p \in Process, Build(p) PROVE ReadInv'
  BY <1>0, <1>1, BeginInv, LookupInv, LookupFailsInv, ApplyFullInv, ApplyDeltaInv, RenderInv, OpenTmpInv,
     WriteTmpInv, RenameInv, EndedInv DEF Build, Reply
<1>2. ASSUME NEW p \in Process, Crash(p) PROVE ReadInv'
  <2>1. memo' \in [Process -> Seq(Rendering)]
    BY <1>0, <1>2 DEF Crash
  <2> QED
    BY <1>2, <2>1, EndedInv DEF Crash
<1>3. CASE UNCHANGED readVars
  <2>1. UNCHANGED <<dir, inode, seen, memo, buildPc, job, toSave, fd, after, shown>>
    BY <1>3 DEF readVars, diskVars, processVars
  <2>2. DiskInv' /\ ReadTypes'
    BY <2>1 DEF ReadInv, DiskInv, ReadTypes
  <2>3. ASSUME NEW p \in Process PROVE SavingInv(p)' /\ AnswerInv(p)'
    BY <2>1 DEF ReadInv, SavingInv, AnswerInv, SeenWith
  <2>4. SeenInv'
    BY <2>1 DEF ReadInv, SeenInv, Loaded, DistinctKeys
  <2> QED
    BY <2>2, <2>3, <2>4 DEF ReadInv
<1> QED
  BY <1>1, <1>2, <1>3 DEF ReadNext

\* With one tokman process, which may be killed between any two steps of Save,
\* the store's file is missing or a whole store: the temporary file that a
\* killed Save leaves is emptied before it is written and renamed (Save, Load).
THEOREM SavesAreAtomic == OneProcess => (ReadSpec => []StoreAlwaysLoads)
<1> SUFFICES ASSUME OneProcess PROVE ReadSpec => []StoreAlwaysLoads
  OBVIOUS
<1>1. ReadInv => StoreAlwaysLoads
  BY LoadedType DEF ReadInv, StoreAlwaysLoads
<1>2. ReadInv /\ [ReadNext]_readVars => ReadInv'
  BY ReadNextInv
<1> QED
  BY <1>1, <1>2, ReadInitInv, PTL DEF ReadSpec

\* With one tokman process, killed or not, the store holds a snapshot of each
\* of the paths saved last, with what was read of it then, up to the limit on
\* contents: no Save brings back an older content or an older path (Put,
\* trimContent, prune, Save).
THEOREM SnapshotsStayCurrent == OneProcess => (ReadSpec => []SnapshotsAreCurrent)
<1> SUFFICES ASSUME OneProcess PROVE ReadSpec => []SnapshotsAreCurrent
  OBVIOUS
<1>1. ReadInv => SnapshotsAreCurrent
  BY DEF ReadInv, SeenInv, SnapshotsAreCurrent
<1>2. ReadInv /\ [ReadNext]_readVars => ReadInv'
  BY ReadNextInv
<1> QED
  BY <1>1, <1>2, ReadInitInv, PTL DEF ReadSpec
=============================================================================
