------------------------------ MODULE MetaToken ------------------------------
(***************************************************************************)
(* internal/filter/meta_token.go, layer 15: MetaTokenFilter.Apply replaces *)
(* a run of words that comes again later in the text by a marker, and the  *)
(* table of the filter, which outlives the call, says what each marker     *)
(* stands for.  A marker carries the hash of its words and their number:   *)
(* here the words themselves, the hash taken to be injective.  Texts that  *)
(* contain markers already are left out.                                   *)
(***************************************************************************)
EXTENDS Integers, SequencesExt, Functions, FiniteSetsExt

CONSTANTS
  Word,
  MaxWords,    \* bound on the length of a text
  MaxApplies,  \* bound on the calls of one filter
  WindowSize, MinPattern,
  MetaLimits   \* values of MaxMetaTokens, 0 for no limit

ASSUME MetaAssumption ==
  /\ MaxWords \in Nat /\ MaxApplies \in Nat
  /\ MinPattern \in Nat \ {0} /\ WindowSize \in Nat
  /\ MetaLimits \subseteq Nat

VARIABLES
  metaPc,      \* "idle", "compress" or "done"
  metaLimit,   \* config.MaxMetaTokens
  metaTokens,  \* the table: from patterns to the number of times used
  words,       \* the text
  nextWord,    \* i
  compressed,  \* result
  metaCount, metaSaved,
  applies, totalSaved  \* history: the calls and what they reported

metaCallVars == <<words, nextWord, compressed, metaCount, metaSaved>>
metaVars == <<metaPc, metaLimit, metaTokens, metaCallVars, applies, totalSaved>>

Plain(w) == [marker |-> FALSE, words |-> <<w>>]
Marker(p) == [marker |-> TRUE, words |-> p]
AsItems(s) == [j \in DOMAIN s |-> Plain(s[j])]
From(s, n) == SubSeq(s, n, Len(s))

MetaInit ==
  /\ metaPc = "idle" /\ metaLimit \in MetaLimits
  /\ metaTokens = << >>
  /\ words = << >> /\ nextWord = 1 /\ compressed = << >>
  /\ metaCount = 0 /\ metaSaved = 0
  /\ applies = 0 /\ totalSaved = 0

-----------------------------------------------------------------------------
\* Apply: a text shorter than a pattern is answered as it is.
MetaApply(t) ==
  /\ metaPc = "idle" /\ applies < MaxApplies
  /\ applies' = applies + 1
  /\ words' = t /\ nextWord' = 1 /\ metaCount' = 0 /\ metaSaved' = 0
  /\ IF Len(t) < MinPattern
       THEN metaPc' = "done" /\ compressed' = AsItems(t)
       ELSE metaPc' = "compress" /\ compressed' = << >>
  /\ UNCHANGED <<metaLimit, metaTokens, totalSaved>>

\* The n words from position k, and whether they come again from position m
\* on (findPattern).
Pattern(k, n) == SubSeq(words, k, k + n - 1)
findPattern(p, m) == \E k \in m..(Len(words) - Len(p) + 1) : Pattern(k, Len(p)) = p

\* The lengths for which the pattern at nextWord comes again behind itself.
Repeated ==
  { n \in MinPattern..WindowSize :
      /\ nextWord + n - 1 <= Len(words)
      /\ findPattern(Pattern(nextWord, n), nextWord + n) }

\* The table once pattern p was used once more.
Counted(p) ==
  [q \in DOMAIN metaTokens \union {p} |->
     IF q \in DOMAIN metaTokens THEN metaTokens[q] + (IF q = p THEN 1 ELSE 0) ELSE 1]

LimitReached == metaLimit > 0 /\ metaCount >= metaLimit
Compressing == metaPc = "compress" /\ nextWord <= Len(words)

\* Mutant: compression goes on one word too far.
ReplaceOverruns ==
  /\ Compressing /\ ~LimitReached /\ Repeated # {}
  /\ LET p == Pattern(nextWord, Max(Repeated))
     IN  /\ compressed' = Append(compressed, Marker(p))
         /\ metaTokens' = Counted(p)
         /\ metaSaved' = metaSaved + Len(p) - 1
         /\ nextWord' = nextWord + Len(p) + 1
  /\ metaCount' = metaCount + 1
  /\ UNCHANGED <<metaPc, metaLimit, words, applies, totalSaved>>

\* The longest such pattern is replaced by its marker and counted.
Replace ==
  /\ Compressing /\ ~LimitReached /\ Repeated # {}
  /\ LET p == Pattern(nextWord, Max(Repeated))
     IN  /\ compressed' = Append(compressed, Marker(p))
         /\ metaTokens' = Counted(p)
         /\ metaSaved' = metaSaved + Len(p) - 1
         /\ nextWord' = nextWord + Len(p)
  /\ metaCount' = metaCount + 1
  /\ UNCHANGED <<metaPc, metaLimit, words, applies, totalSaved>>

\* No pattern here: the word is copied.
CopyWord ==
  /\ Compressing /\ ~LimitReached /\ Repeated = {}
  /\ compressed' = Append(compressed, Plain(words[nextWord]))
  /\ nextWord' = nextWord + 1
  /\ UNCHANGED <<metaPc, metaLimit, metaTokens, words, metaCount, metaSaved, applies, totalSaved>>

\* "Max meta-tokens reached, just copy remaining".
CopyRest ==
  /\ Compressing /\ LimitReached
  /\ compressed' = compressed \o AsItems(From(words, nextWord))
  /\ nextWord' = Len(words) + 1
  /\ UNCHANGED <<metaPc, metaLimit, metaTokens, words, metaCount, metaSaved, applies, totalSaved>>

CompressEnds ==
  /\ metaPc = "compress" /\ nextWord > Len(words)
  /\ metaPc' = "done"
  /\ totalSaved' = totalSaved + metaSaved
  /\ UNCHANGED <<metaLimit, metaTokens, metaCallVars, applies>>

MetaReturn ==
  /\ metaPc = "done"
  /\ metaPc' = "idle"
  /\ words' = << >> /\ nextWord' = 1 /\ compressed' = << >>
  /\ metaCount' = 0 /\ metaSaved' = 0
  /\ UNCHANGED <<metaLimit, metaTokens, applies, totalSaved>>

\* The bound on the calls is reached.
MetaSpent == metaPc = "idle" /\ applies = MaxApplies /\ UNCHANGED metaVars

MetaNext ==
  \/ \E t \in SeqOf(Word, MaxWords) : MetaApply(t)
  \/ Replace \/ CopyWord \/ CopyRest \/ CompressEnds \/ MetaReturn \/ MetaSpent

MetaSpec == MetaInit /\ [][MetaNext]_metaVars

-----------------------------------------------------------------------------
\* Decompress: every marker of the table is replaced by what it stands for.
Decompress(c) ==
  FlattenSeq([j \in DOMAIN c |->
                IF ~c[j].marker \/ c[j].words \in DOMAIN metaTokens
                  THEN c[j].words ELSE <<c[j]>>])

\* Stats: what the uses of every marker of the table saved.
Stats ==
  SumFunctionOnSet([p \in DOMAIN metaTokens |-> metaTokens[p] * (Len(p) - 1)], DOMAIN metaTokens)

\* "ZERO semantic loss - trivially reversible": expanding the markers gives
\* the text back, whatever patterns overlap and wherever the limit cuts in;
\* what the call reports saved is the difference in words; and Stats, which
\* only sees the table, adds up to what all the calls reported.
Lossless ==
  metaPc = "done" =>
    /\ Decompress(compressed) = words
    /\ metaSaved = Len(words) - Len(compressed)
    /\ totalSaved = Stats
=============================================================================
