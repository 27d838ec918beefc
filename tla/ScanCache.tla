----------------------------- MODULE ScanCache -----------------------------
(***************************************************************************)
(* The three caches that keep a plain map and, when it is full, scan it    *)
(* for the entry with the oldest stamp:                                    *)
(*   "fingerprint"  internal/cache/fingerprint.go, creation time and TTL   *)
(*   "compression"  internal/filter/manager.go, creation time              *)
(*   "file"         internal/filecache/cache.go, time of last access       *)
(* The scan is a loop over the map in no particular order, under the lock: *)
(* one step per entry, while the clock runs on. The fingerprint cache      *)
(* looks an entry up under the read lock and judges its age after          *)
(* releasing it, so a lookup is two steps there.                           *)
(***************************************************************************)
EXTENDS CacheTypes, Naturals, FiniteSets, Functions

CONSTANTS
  MaxEntries,  \* maxEntries, maxSize
  EntryTTL,    \* fc.ttl in ticks
  MaxClock,    \* bound on the clock
  NoEntry      \* no lookup or no scan is in progress, oldestKey is ""

Stamped == [value : Value, stamp : Nat]
OldestSoFar == [key : Key, stamp : Nat]
Scans == [key : Key, value : Value, stamp : Nat, todo : SUBSET Key,
          oldest : OldestSoFar \union {NoEntry}]

ASSUME ScanAssumption ==
  /\ MaxEntries \in Nat \ {0}
  /\ EntryTTL \in Nat
  /\ MaxClock \in Nat
  /\ NoEntry \notin Stamped \union OldestSoFar \union Scans

VARIABLES
  flavour,  \* which of the three
  table,    \* the map: from some keys to [value, stamp]
  clock,    \* time.Now()
  found,    \* the entry GetByFingerprint took from the map
  reply,    \* what the last lookup answered
  scan      \* the Set that holds the lock to evict, and how far its loop is

scanVars == <<flavour, table, clock, found, reply, scan>>

Flavours == {"fingerprint", "compression", "file"}

ScanInit ==
  /\ flavour \in Flavours
  /\ table = << >>
  /\ clock = 0
  /\ found = NoEntry
  /\ reply = Miss
  /\ scan = NoEntry

-----------------------------------------------------------------------------
Unlocked == scan = NoEntry
Without(K) == Restrict(table, DOMAIN table \ K)

\* GetByFingerprint, up to RUnlock.
FingerprintLookup(k) ==
  /\ Unlocked
  /\ flavour = "fingerprint"
  /\ found = NoEntry
  /\ k \in DOMAIN table
  /\ found' = table[k]
  /\ UNCHANGED <<flavour, table, clock, reply, scan>>

\* The rest of GetByFingerprint: an expired entry is no hit, and stays.
FingerprintAnswer ==
  /\ found # NoEntry
  /\ reply' = IF clock < found.stamp + EntryTTL THEN found.value ELSE Miss
  /\ found' = NoEntry
  /\ UNCHANGED <<flavour, table, clock, scan>>

\* Get of the other two, under the lock; FileCache stamps the entry.
MapGet(k) ==
  /\ Unlocked
  /\ flavour # "fingerprint"
  /\ k \in DOMAIN table
  /\ reply' = table[k].value
  /\ table' = IF flavour = "file" THEN [table EXCEPT ![k].stamp = clock] ELSE table
  /\ UNCHANGED <<flavour, clock, found, scan>>

\* Get of a key the map does not have.
MapMiss(k) ==
  /\ Unlocked
  /\ k \notin DOMAIN table
  /\ found = NoEntry
  /\ reply' = Miss
  /\ UNCHANGED <<flavour, table, clock, found, scan>>

\* The map without K, and with v under k; the entry of CompressionCache was
\* stamped by the caller, the others are stamped as they are stored.
Store(K, k, v, t) ==
  table' = [x \in (DOMAIN table \ K) \union {k} |->
              IF x = k THEN [value |-> v, stamp |-> IF flavour = "compression" THEN t ELSE clock]
                       ELSE table[x]]

BeginScan(k, v, t) ==
  scan' = [key |-> k, value |-> v, stamp |-> t, todo |-> DOMAIN table, oldest |-> NoEntry]

\* Mutant: the cache is full only beyond its limit.
ScanSetLate(k, v, t) ==
  /\ Unlocked
  /\ IF Cardinality(DOMAIN table) > MaxEntries
       THEN BeginScan(k, v, t) /\ UNCHANGED table
       ELSE Store({}, k, v, t) /\ UNCHANGED scan
  /\ UNCHANGED <<flavour, clock, found, reply>>

\* Set takes the lock.  A full cache evicts, whether or not the key is present.
\* t is when the caller made the entry, for CompressionCache.
ScanSet(k, v, t) ==
  /\ Unlocked
  /\ IF Cardinality(DOMAIN table) >= MaxEntries
       THEN BeginScan(k, v, t) /\ UNCHANGED table
       ELSE Store({}, k, v, t) /\ UNCHANGED scan
  /\ UNCHANGED <<flavour, clock, found, reply>>

\* Mutant: After for Before.
ScanVisitNewest(k) ==
  /\ ~Unlocked
  /\ k \in scan.todo
  /\ scan' = [scan EXCEPT !.todo = scan.todo \ {k},
                !.oldest = IF scan.oldest = NoEntry \/ table[k].stamp > scan.oldest.stamp
                             THEN [key |-> k, stamp |-> table[k].stamp] ELSE scan.oldest]
  /\ UNCHANGED <<flavour, table, clock, found, reply>>

\* evictOldest and evict, the body of the loop for one entry of the map:
\* oldestKey and oldestTime, as one record.
ScanVisit(k) ==
  /\ ~Unlocked
  /\ k \in scan.todo
  /\ scan' = [scan EXCEPT !.todo = scan.todo \ {k},
                !.oldest = IF scan.oldest = NoEntry \/ table[k].stamp < scan.oldest.stamp
                             THEN [key |-> k, stamp |-> table[k].stamp] ELSE scan.oldest]
  /\ UNCHANGED <<flavour, table, clock, found, reply>>

\* After the loop: delete oldestKey, store, and give the lock back.
ScanEvict ==
  /\ ~Unlocked
  /\ scan.todo = {}
  /\ Store(IF scan.oldest = NoEntry THEN {} ELSE {scan.oldest.key},
           scan.key, scan.value, scan.stamp)
  /\ scan' = NoEntry
  /\ UNCHANGED <<flavour, clock, found, reply>>

\* Prune of the fingerprint cache: only what is past its time; at that very
\* instant an entry is neither answered nor pruned.
ScanPrune ==
  /\ Unlocked
  /\ flavour = "fingerprint"
  /\ table' = Without({k \in DOMAIN table : clock > table[k].stamp + EntryTTL})
  /\ UNCHANGED <<flavour, clock, found, reply, scan>>

\* CompressionCache has no Clear.
ScanClear ==
  /\ Unlocked
  /\ flavour # "compression"
  /\ table' = << >>
  /\ UNCHANGED <<flavour, clock, found, reply, scan>>

ScanTick ==
  /\ clock < MaxClock
  /\ clock' = clock + 1
  /\ UNCHANGED <<flavour, table, found, reply, scan>>

ScanNext ==
  \/ \E k \in Key : FingerprintLookup(k) \/ MapGet(k) \/ MapMiss(k) \/ ScanVisit(k)
  \/ FingerprintAnswer
  \/ \E k \in Key, v \in Value, t \in (IF flavour = "compression" THEN 0..clock ELSE {clock}) :
       ScanSet(k, v, t)
  \/ ScanEvict \/ ScanPrune \/ ScanClear \/ ScanTick

ScanSpec == ScanInit /\ [][ScanNext]_scanVars

-----------------------------------------------------------------------------
\* Whatever a full cache drops to store an entry is no younger than any entry
\* that stays, although the loop over the map compares one entry at a time, in
\* any order (evictOldest, evict). Younger is by the creation stamp for two of
\* the caches, by the last access for FileCache, whose Get renews it.
EvictsOldestStamp ==
  [][scan # NoEntry /\ scan' = NoEntry =>
       \A gone \in DOMAIN table \ DOMAIN table' :
         \A k \in DOMAIN table' \ {scan.key} : table[gone].stamp <= table[k].stamp]_scanVars

\* What a caller sees: an entry in its hands from the moment it was looked up,
\* which the fingerprint cache may yet judge expired and take back.
shownStore == [k \in DOMAIN table |-> table[k].value]
shownAnswer == IF found # NoEntry THEN found.value ELSE reply

ScanStore == INSTANCE BoundedCache WITH
  Capacity <- MaxEntries,
  store    <- shownStore,
  answer   <- shownAnswer

\* The three scan caches implement the bounded cache: never more than
\* maxEntries, and an answer is the value stored last under the key, in the
\* fingerprint cache too, which gives it after other requests have replaced,
\* evicted or pruned the entry.
ScanImplementsBoundedCache == ScanStore!Spec

=============================================================================
