--------------------------- MODULE SessionTracker ---------------------------
(***************************************************************************)
(* internal/filter/session.go: layer 10, which counts how often a segment  *)
(* of text came by and replaces it by a marker from the third time on.     *)
(* One coordinator, and so one tracker, serves all requests of the proxies *)
(* (proxy.go, api_proxy.go); f.mu is held for one segment at a time, so    *)
(* the segments of concurrent Apply calls interleave.                      *)
(*                                                                         *)
(* A segment is the hash of its normalised content, and whether it is      *)
(* longer than 100 bytes: two segments that differ in white space have one *)
(* hash and may differ in that.  How a text is cut is left to its caller.  *)
(***************************************************************************)
EXTENDS Naturals, FiniteSets, Sequences

CONSTANTS
  Hash,           \* normalised contents of segments
  Applier,        \* goroutines in Apply
  MaxEntries,     \* f.maxEntries
  MaxSegments,    \* bound: segments of one text
  MaxSessions     \* bound: calls of Apply

ASSUME SessionAssumption == {MaxEntries, MaxSegments, MaxSessions} \subseteq Nat \ {0}

VARIABLES
  seen,        \* f.seenHashes: the count of each hash that is tracked
  segments,    \* segments[a]: what Apply of a has still to process
  sessions,     \* calls of Apply so far
  full,        \* history: full[h] segments h were passed on since Clear
  collapsed    \* history: collapsed[h] segments h became a marker since

sessionVars == <<seen, segments, sessions, full, collapsed>>

Segment == [hash : Hash, long : BOOLEAN]

NoHashes == [h \in {} |-> 0]

SessionInit ==
  /\ seen = NoHashes
  /\ segments = [a \in Applier |-> << >>]
  /\ sessions = 0
  /\ full = [h \in Hash |-> 0]
  /\ collapsed = [h \in Hash |-> 0]

\* Apply of a text of at least 50 bytes; a shorter one is returned unseen.
SessionApply(a) ==
  /\ segments[a] = << >>
  /\ sessions < MaxSessions
  /\ sessions' = sessions + 1
  /\ \E n \in 1..MaxSegments : \E s \in [1..n -> Segment] :
       segments' = [segments EXCEPT ![a] = s]
  /\ UNCHANGED <<seen, full, collapsed>>

\* Mutant: the second occurrence is taken for the third.
CollapsesEarly(s, count) == count >= 2 /\ s.long

\* Whether a segment that came by for the count-th time becomes a marker.
Collapses(s, count) == count >= 3 /\ s.long

\* f.seenHashes with an entry for a new hash.
WithEntry(h) == [g \in DOMAIN seen \union {h} |-> IF g = h THEN 1 ELSE seen[g]]

\* Mutant: only segments long enough for a marker are counted again.
TrackedUntilSecond(s) ==
  IF s.hash \in DOMAIN seen
    THEN [seen EXCEPT ![s.hash] = IF s.long THEN @ + 1 ELSE @]
    ELSE IF Cardinality(DOMAIN seen) < MaxEntries THEN WithEntry(s.hash) ELSE seen

\* f.seenHashes with one more s; a full table takes no new hash.
Tracked(s) ==
  IF s.hash \in DOMAIN seen
    THEN [seen EXCEPT ![s.hash] = @ + 1]
    ELSE IF Cardinality(DOMAIN seen) < MaxEntries THEN WithEntry(s.hash) ELSE seen

processSegment(a) ==
  /\ segments[a] # << >>
  /\ LET s == Head(segments[a])
     IN  /\ seen' = Tracked(s)
         /\ IF s.hash \in DOMAIN seen /\ Collapses(s, seen'[s.hash])
              THEN /\ collapsed' = [collapsed EXCEPT ![s.hash] = @ + 1]
                   /\ UNCHANGED full
              ELSE /\ full' = [full EXCEPT ![s.hash] = @ + 1]
                   /\ UNCHANGED collapsed
  /\ segments' = [segments EXCEPT ![a] = Tail(@)]
  /\ UNCHANGED sessions

SessionClear ==
  /\ seen' = NoHashes
  /\ full' = [h \in Hash |-> 0]
  /\ collapsed' = [h \in Hash |-> 0]
  /\ UNCHANGED <<segments, sessions>>

SessionNext ==
  \/ \E a \in Applier : SessionApply(a) \/ processSegment(a)
  \/ SessionClear

SessionSpec == SessionInit /\ [][SessionNext]_sessionVars

-----------------------------------------------------------------------------
\* Whatever the interleaving of calls, the limit of the table and the moment
\* of a Clear, a marker stands for content that this layer passed on in full
\* at least twice since, the count it shows is exact, and content is left
\* uncounted only because the table is full (processSegment, Clear).
MarkerWasShown ==
  \A h \in Hash :
    /\ collapsed[h] > 0 => full[h] >= 2
    /\ h \in DOMAIN seen => seen[h] = full[h] + collapsed[h]
    /\ h \notin DOMAIN seen /\ full[h] + collapsed[h] > 0 =>
         Cardinality(DOMAIN seen) = MaxEntries
=============================================================================
