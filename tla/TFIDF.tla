-------------------------------- MODULE TFIDF --------------------------------
(***************************************************************************)
(* internal/filter/tfidf_filter.go, layer 0: TFIDFFilter.Apply keeps the   *)
(* sentences of a text that score high, and at least 30 % of them.  A line *)
(* is the sequence of its sentences, << >> for a blank one, and a sentence *)
(* taken alone is a sequence of one: the filter compares them as strings.  *)
(* The score of a string is whatever computeTFIDF makes of it.             *)
(***************************************************************************)
EXTENDS Integers, Lists, FiniteSetsExt

CONSTANTS
  TextLines,     \* the lines a text is made of
  MaxLines,      \* bound on their number
  MinSentences,
  Scores,        \* of a string
  Thresholds,    \* config.Threshold, larger when the mode is aggressive
  SmallSaving    \* a saving below it, in sentences, is not worth it

ASSUME TFIDFAssumption ==
  /\ MaxLines \in Nat /\ MinSentences \in Nat \ {0}
  /\ Scores \subseteq Nat /\ Thresholds \subseteq Nat /\ SmallSaving \in Nat

VARIABLES
  tfPc,       \* "split", "keep", "addBack", "rebuild" or "done"
  lines,      \* the input
  score,      \* of each string that may be a unit
  structural, \* the strings isStructural keeps
  threshold,
  units,      \* sentences, in the code
  kept,       \* the strings kept, a sequence
  removed,    \* indices of the units that may be added back
  output      \* the lines returned

tfVars == <<tfPc, lines, score, structural, threshold, units, kept, removed, output>>

Blank == << >>
Written(ls) == Selected(ls, ToSet(ls) \ {Blank})
Alone(ls) == LET all == FlattenSeq(ls) IN [j \in DOMAIN all |-> <<all[j]>>]
Sentences(ls) == Len(FlattenSeq(ls))

TFInit ==
  /\ tfPc = "split"
  /\ lines \in SeqOf(TextLines, MaxLines)
  /\ score \in [ToSet(Written(lines)) \union ToSet(Alone(lines)) -> Scores]
  /\ structural \in {{}} \union {{u} : u \in DOMAIN score}
  /\ threshold \in Thresholds
  /\ units = << >> /\ kept = << >> /\ removed = {} /\ output = << >>

-----------------------------------------------------------------------------
\* splitSentences: the lines that are not blank, or, when they are few and the
\* sentences enough, the sentences.
splitSentences ==
  IF Len(Written(lines)) < MinSentences /\ Sentences(lines) >= MinSentences
    THEN Alone(lines) ELSE Written(lines)

\* Too few units: the input is returned.
Split ==
  /\ tfPc = "split"
  /\ units' = splitSentences
  /\ IF Len(units') < MinSentences
       THEN tfPc' = "done" /\ output' = lines
       ELSE tfPc' = "keep" /\ UNCHANGED output
  /\ UNCHANGED <<lines, score, structural, threshold, kept, removed>>

Worth(u) == score[u] >= threshold \/ u \in structural

\* "Keep sentences above threshold"; those whose text is not among the kept
\* may be added back.
KeepWorthy ==
  /\ tfPc = "keep"
  /\ kept' = Selected(units, {u \in ToSet(units) : Worth(u)})
  /\ removed' = {j \in DOMAIN units : ~Worth(units[j])}
  /\ tfPc' = "addBack"
  /\ UNCHANGED <<lines, score, structural, threshold, units, output>>

\* 30 % of n, rounded up.
Share(n) == (3 * n + 9) \div 10

\* Mutant: the first sentences are added back, whatever they score.
AddBackFirst ==
  /\ tfPc = "addBack" /\ Len(kept) < Share(Len(units)) /\ removed # {}
  /\ kept' = Append(kept, units[Min(removed)])
  /\ removed' = removed \ {Min(removed)}
  /\ UNCHANGED <<tfPc, lines, score, structural, threshold, units, output>>

\* "Safety": while too few are kept, the best of the others is added back.
AddBack ==
  /\ tfPc = "addBack" /\ Len(kept) < Share(Len(units)) /\ removed # {}
  /\ \E j \in removed :
       /\ \A k \in removed : score[units[k]] <= score[units[j]]
       /\ kept' = Append(kept, units[j])
       /\ removed' = removed \ {j}
  /\ UNCHANGED <<tfPc, lines, score, structural, threshold, units, output>>

EnoughKept ==
  /\ tfPc = "addBack" /\ (Len(kept) >= Share(Len(units)) \/ removed = {})
  /\ tfPc' = "rebuild"
  /\ UNCHANGED <<lines, score, structural, threshold, units, kept, removed, output>>

\* reconstructInOrder: the lines whose text is among the kept, and the blank
\* ones; a small saving is not worth it.
reconstructInOrder ==
  /\ tfPc = "rebuild"
  /\ LET rebuilt == Selected(lines, ToSet(kept) \union {Blank})
     IN  output' = IF Sentences(lines) - Sentences(rebuilt) < SmallSaving THEN lines ELSE rebuilt
  /\ tfPc' = "done"
  /\ UNCHANGED <<lines, score, structural, threshold, units, kept, removed>>

TFDone == tfPc = "done" /\ UNCHANGED tfVars

TFNext ==
  Split \/ KeepWorthy \/ AddBack \/ EnoughKept \/ reconstructInOrder \/ TFDone

TFSpec == TFInit /\ [][TFNext]_tfVars

-----------------------------------------------------------------------------
\* When the units are lines, enough of them are returned, every one that is
\* worth it is among them, and none that is left out scores higher than one
\* that was added back, also when the same line stands in the text twice
\* (Apply compares lines by their text).
LinesAreKept ==
  tfPc = "done" /\ units = Written(lines) =>
    LET shown == ToSet(output)
    IN  /\ Len(Written(output)) >= Share(Len(units))
        /\ \A j \in DOMAIN units : Worth(units[j]) => units[j] \in shown
        /\ \A j, k \in DOMAIN units :
             units[j] \notin shown /\ units[k] \in shown =>
               score[units[j]] <= score[units[k]] \/ units[k] \in structural

\* "Safety: keep at least 30% of sentences", whatever the units are: so many
\* of them can be found in the output.
ShareIsReturned ==
  tfPc = "done" =>
    Share(Len(units)) <=
      Cardinality({j \in DOMAIN units :
                     \E l \in ToSet(output) : ToSet(units[j]) \subseteq ToSet(l)})
=============================================================================
