----------------------------- MODULE TokenCache -----------------------------
(***************************************************************************)
(* internal/core/estimator.go: EstimateTokens by concurrent callers, with  *)
(* the BPE codec loaded in the background and tokenCache in front of it.   *)
(* The codec and the heuristic are external: what matters of a count is    *)
(* which of them made it.  A lookup reads under the read lock and promotes *)
(* under the write lock, so other callers may run in between.              *)
(***************************************************************************)
EXTENDS CacheTypes, Naturals, FiniteSets, SequencesExt

CONSTANTS
  Caller,   \* goroutines
  MaxTexts  \* c.max

ASSUME TokenAssumption == MaxTexts \in Nat \ {0}

VARIABLES
  codec,    \* "loading", "ready" (bpeReady) or "failed" (bpeErr)
  items,    \* the keys of c.items, each with the count stored for it
  recent,   \* c.ll, front first
  at,       \* at[p]: where caller p is
  text,     \* text[p]: the text it measures
  count     \* count[p]: the count it will return

tokenVars == <<codec, items, recent, at, text, count>>

\* A count is known by its origin: made by the codec for a text, or by the
\* heuristic (len + 3) / 4.
Exact(t) == <<"codec", t>>
Rough(t) == <<"heuristic", t>>

TokenInit ==
  /\ codec = "loading"
  /\ items = << >>
  /\ recent = << >>
  /\ at = [p \in Caller |-> "idle"]
  /\ text = [p \in Caller |-> Miss]
  /\ count = [p \in Caller |-> Miss]

-----------------------------------------------------------------------------
Go(p, where) == at' = [at EXCEPT ![p] = where]

\* c.ll.MoveToFront of the element of t.
Promoted(t) == <<t>> \o RemoveAt(recent, CHOOSE i \in DOMAIN recent : recent[i] = t)

\* The goroutine of WarmupBPETokenizer: bpeOnce runs once, and bpeReady is
\* set only after the tokenizer is in place.
TokenLoad ==
  /\ codec = "loading"
  /\ codec' \in {"ready", "failed"}
  /\ UNCHANGED <<items, recent, at, text, count>>

\* EstimateTokens reads bpeReady and takes the heuristic or asks the codec.
Estimate(p, t) ==
  /\ at[p] = "idle"
  /\ text' = [text EXCEPT ![p] = t]
  /\ IF codec = "ready"
       THEN /\ Go(p, "lookup")
            /\ count' = [count EXCEPT ![p] = Miss]
       ELSE /\ Go(p, "done")
            /\ count' = [count EXCEPT ![p] = Rough(t)]
  /\ UNCHANGED <<codec, items, recent>>

\* get, up to RUnlock.
TokenLookup(p) ==
  /\ at[p] = "lookup"
  /\ IF text[p] \in DOMAIN items
       THEN /\ Go(p, "promote")
            /\ count' = [count EXCEPT ![p] = items[text[p]]]
       ELSE /\ Go(p, "compute")
            /\ UNCHANGED count
  /\ UNCHANGED <<codec, items, recent, text>>

\* Mutant: promotion trusts the lookup made before the lock was released.
PromoteStale(p) ==
  /\ at[p] = "promote"
  /\ recent' = <<text[p]>> \o Remove(recent, text[p])
  /\ Go(p, "done")
  /\ UNCHANGED <<codec, items, text, count>>

\* The rest of get: promote the entry if it is still there.
TokenPromote(p) ==
  /\ at[p] = "promote"
  /\ recent' = IF text[p] \in DOMAIN items THEN Promoted(text[p]) ELSE recent
  /\ Go(p, "done")
  /\ UNCHANGED <<codec, items, text, count>>

\* Mutant: the heuristic count of a failed encoding is cached too.
ComputeCachesFallback(p) ==
  /\ at[p] = "compute"
  /\ Go(p, "store")
  /\ \/ count' = [count EXCEPT ![p] = Exact(text[p])]
     \/ count' = [count EXCEPT ![p] = Rough(text[p])]
  /\ UNCHANGED <<codec, items, recent, text>>

\* codec.Count: an error is answered with the heuristic and not cached.
TokenCompute(p) ==
  /\ at[p] = "compute"
  /\ \/ Go(p, "store") /\ count' = [count EXCEPT ![p] = Exact(text[p])]
     \/ Go(p, "done") /\ count' = [count EXCEPT ![p] = Rough(text[p])]
  /\ UNCHANGED <<codec, items, recent, text>>

\* evictLRU: a quarter of the cache, but at least one entry.
Evictions == IF MaxTexts \div 4 < 1 THEN 1 ELSE MaxTexts \div 4
Survivors == SubSeq(recent, 1, IF Len(recent) > Evictions THEN Len(recent) - Evictions ELSE 0)

\* Mutant: a text that another caller stored meanwhile is pushed again.
StoreAlways(p) ==
  /\ at[p] = "store"
  /\ LET rest == IF Len(recent) >= MaxTexts THEN Survivors ELSE recent
     IN  /\ recent' = <<text[p]>> \o rest
         /\ items' = [t \in ToSet(rest) \union {text[p]} |->
                        IF t = text[p] THEN count[p] ELSE items[t]]
  /\ Go(p, "done")
  /\ UNCHANGED <<codec, text, count>>

\* set: update in place, or evict and push.
TokenStore(p) ==
  /\ at[p] = "store"
  /\ LET t    == text[p]
         rest == IF Len(recent) >= MaxTexts THEN Survivors ELSE recent
     IN  IF t \in DOMAIN items
           THEN /\ items' = [items EXCEPT ![t] = count[p]]
                /\ recent' = Promoted(t)
           ELSE /\ recent' = <<t>> \o rest
                /\ items' = [x \in (DOMAIN items \ (ToSet(recent) \ ToSet(rest))) \union {t} |->
                               IF x = t THEN count[p] ELSE items[x]]
  /\ Go(p, "done")
  /\ UNCHANGED <<codec, text, count>>

TokenReturn(p) ==
  /\ at[p] = "done"
  /\ Go(p, "idle")
  /\ text' = [text EXCEPT ![p] = Miss]
  /\ count' = [count EXCEPT ![p] = Miss]
  /\ UNCHANGED <<codec, items, recent>>

TokenNext ==
  \/ TokenLoad
  \/ \E p \in Caller : \/ \E t \in Key : Estimate(p, t)
                       \/ TokenLookup(p) \/ TokenPromote(p) \/ TokenCompute(p)
                       \/ TokenStore(p) \/ TokenReturn(p)

TokenSpec == TokenInit /\ [][TokenNext]_tokenVars

-----------------------------------------------------------------------------
\* However lookups, promotions and evictions of several callers interleave,
\* the map and the list hold the same texts, each once and no more than max;
\* and a cached count is the codec's for that very text, and so is the count
\* of a caller that found it: neither another text's nor a fallback (get, set,
\* Count).
TokenCacheIsExact ==
  /\ DOMAIN items = ToSet(recent)
  /\ Cardinality(ToSet(recent)) = Len(recent)
  /\ Len(recent) <= MaxTexts
  /\ \A t \in DOMAIN items : items[t] = Exact(t)
  /\ \A p \in Caller : at[p] \in {"promote", "store"} => count[p] = Exact(text[p])
=============================================================================
