----------------------------- MODULE HashCache -----------------------------
(***************************************************************************)
(* internal/mcp/cache.go: the cache of the MCP context server, bounded in  *)
(* entries and in memory.  Every method holds c.mu for its whole body, so  *)
(* each is one action; GetOrCompute is a Get and, later, a Set.  The map,  *)
(* the list and the memory count are kept apart, as in the code.           *)
(***************************************************************************)
EXTENDS CacheTypes, Integers, FiniteSets, Lists, Functions

CONSTANTS
  File,        \* file paths
  NoFile,      \* the empty path, which no pattern matches
  Sizes,       \* len(Content) + len(FilePath) + 256
  HashLimits   \* pairs <<maxSize, maxMemory>> of NewHashCache and Resize

ASSUME HashAssumption ==
  /\ Sizes \subseteq Nat \ {0}
  /\ HashLimits \subseteq Int \X Int
  /\ NoFile \in File

VARIABLES
  index,   \* the keys of c.entries
  lru,     \* c.lru, front first
  mem,     \* c.currentMem
  limits   \* <<c.maxSize, c.maxMemory>>

hashVars == <<index, lru, mem, limits>>

Item == [key : Key, file : File, size : Sizes]

\* NewHashCache replaces a limit that is not positive; Resize takes any.
HashInit ==
  /\ index = {}
  /\ lru = << >>
  /\ mem = 0
  /\ limits \in {l \in HashLimits : l[1] > 0 /\ l[2] > 0}

-----------------------------------------------------------------------------
KeysOf(s) == {s[i].key : i \in DOMAIN s}
MemOf(s) == SumFunctionOnSet([i \in DOMAIN s |-> s[i].size], DOMAIN s)
Place(s, k) == CHOOSE i \in DOMAIN s : s[i].key = k
Fronted(s, it) == <<it>> \o RemoveAt(s, Place(s, it.key))

\* The loop around evictLRU: entries leave from the back while those that are
\* left, with `count` more of `size` bytes, are beyond the limits l.  How many
\* stay:
Remaining(count, size, l) ==
  LET Over(n) == \/ n + count > l[1]
                 \/ mem - MemOf(SubSeq(lru, n + 1, Len(lru))) + size > l[2]
      left[n \in 0..Len(lru)] == IF n > 0 /\ Over(n) THEN left[n - 1] ELSE n
  IN  left[Len(lru)]

\* The map, the list and the count, which every method changes together.
Held == [index |-> index, lru |-> lru, mem |-> mem]
Becomes(c) == index' = c.index /\ lru' = c.lru /\ mem' = c.mem

\* The cache once the back of the list was evicted down to n entries.
Evicted(n) ==
  LET gone == SubSeq(lru, n + 1, Len(lru))
  IN  [index |-> index \ KeysOf(gone), lru |-> SubSeq(lru, 1, n), mem |-> mem - MemOf(gone)]

\* The cache c once an entry was put in front, in place of the one of its key.
Stored(c, it) ==
  IF it.key \in c.index
    THEN [index |-> c.index, lru |-> Fronted(c.lru, it),
          mem |-> c.mem - c.lru[Place(c.lru, it.key)].size + it.size]
    ELSE [index |-> c.index \union {it.key}, lru |-> <<it>> \o c.lru, mem |-> c.mem + it.size]

\* Get and Touch of an entry; a miss changes nothing but statistics.
HashGet(k) ==
  /\ k \in index
  /\ lru' = Fronted(lru, lru[Place(lru, k)])
  /\ UNCHANGED <<index, mem, limits>>

\* Mutant: the new size is added without taking the old one off.
HashUpdateAdds(it) ==
  /\ it.key \in index
  /\ mem' = mem + it.size
  /\ lru' = Fronted(lru, it)
  /\ UNCHANGED <<index, limits>>

\* Set of a key already present: in place, without a look at the limits.
HashUpdate(it) ==
  /\ it.key \in index
  /\ Becomes(Stored(Held, it))
  /\ UNCHANGED limits

\* Mutant: one eviction where the code loops.
HashInsertOnce(it) ==
  /\ it.key \notin index
  /\ LET over == Len(lru) > 0 /\ (Len(lru) >= limits[1] \/ mem + it.size > limits[2])
     IN  Becomes(Stored(Evicted(IF over THEN Len(lru) - 1 ELSE Len(lru)), it))
  /\ UNCHANGED limits

\* Set of a new key: evict from the back until it fits or nothing is left.
HashInsert(it) ==
  /\ it.key \notin index
  /\ Becomes(Stored(Evicted(Remaining(1, it.size, limits)), it))
  /\ UNCHANGED limits

\* Remove the entries of K, as Delete and InvalidateByPattern do.
HashRemove(K) ==
  /\ index' = index \ K
  /\ lru' = Selected(lru, {it \in Item : it.key \notin K})
  /\ mem' = mem - MemOf(Selected(lru, {it \in Item : it.key \in K}))
  /\ UNCHANGED limits

HashDelete(k) == k \in index /\ HashRemove({k})

\* A pattern matches some of the non-empty paths.
HashInvalidate(F) ==
  HashRemove({it.key : it \in {x \in Range(lru) : x.file \in F}})

HashClear ==
  /\ index' = {}
  /\ lru' = << >>
  /\ mem' = 0
  /\ UNCHANGED limits

\* BatchSet: room is made for the whole batch, counting keys already present
\* once more, and a batch beyond the limits is stored all the same.
HashBatchSet(b) ==
  LET c[i \in 0..Len(b)] ==
        IF i = 0 THEN Evicted(Remaining(Len(b), MemOf(b), limits)) ELSE Stored(c[i - 1], b[i])
  IN  Becomes(c[Len(b)]) /\ UNCHANGED limits

\* Resize: evict down to the new limits.
HashResize(l) == limits' = l /\ Becomes(Evicted(Remaining(0, 0, l)))

HashNext ==
  \/ \E k \in Key : HashGet(k) \/ HashDelete(k)
  \/ \E it \in Item : HashUpdate(it) \/ HashInsert(it)
  \/ \E a, b \in Item : HashBatchSet(<<a, b>>)
  \/ \E F \in SUBSET (File \ {NoFile}) : HashInvalidate(F)
  \/ \E l \in HashLimits : HashResize(l)
  \/ HashClear

HashSpec == HashInit /\ [][HashNext]_hashVars

-----------------------------------------------------------------------------
\* Storing a new key takes the cache back within both limits, also when
\* updates in place or a batch had taken it beyond them, unless the entry
\* alone is beyond them; and the entry evicted last had to go.  Both hold of
\* what the entries really take, so the count that is kept beside them cannot
\* drift over updates, batches, invalidations and resizes (Set, evictLRU).
SetKeepsLimits ==
  [][\A it \in Item : Len(lru') > 0 /\ lru'[1] = it /\ HashInsert(it) =>
       LET n == Len(lru') - 1
       IN  /\ n < limits[1] \/ lru' = <<it>>
           /\ MemOf(lru') <= limits[2] \/ lru' = <<it>>
           /\ n < Len(lru) =>
                \/ n + 1 >= limits[1]
                \/ MemOf(SubSeq(lru, 1, n + 1)) + it.size > limits[2]]_hashVars
=============================================================================
