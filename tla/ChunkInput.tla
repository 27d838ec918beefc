----------------------------- MODULE ChunkInput -----------------------------
(***************************************************************************)
(* internal/filter/manager.go, chunkInput: an input of more than maxTokens *)
(* is cut at line ends, greedily, into chunks of at most maxTokens.        *)
(* A text is a sequence of lines; LineTokens is EstimateTokens of a line.  *)
(***************************************************************************)
EXTENDS Naturals, SequencesExt

CONSTANTS
  Line,       \* the lines a text is made of
  LineTokens  \* [Line -> Nat]

ASSUME LineTokensAssumption == LineTokens \in [Line -> Nat]

\* EstimateTokens of a text, taken to be additive over its lines.
TextTokens(text) ==
  LET sum[i \in 0..Len(text)] == IF i = 0 THEN 0 ELSE sum[i - 1] + LineTokens[text[i]]
  IN  sum[Len(text)]

\* One iteration of the loop over lines.
AddLine(acc, l, maxTokens) ==
  IF acc.tokens + LineTokens[l] > maxTokens /\ acc.current # << >>
    THEN [chunks  |-> Append(acc.chunks, acc.current),
          current |-> <<l>>,
          tokens  |-> LineTokens[l]]
    ELSE [acc EXCEPT !.current = Append(@, l),
                     !.tokens  = @ + LineTokens[l]]

chunkInput(text, maxTokens) ==
  IF TextTokens(text) <= maxTokens
    THEN <<text>>
    ELSE LET start == [chunks |-> << >>, current |-> << >>, tokens |-> 0]
             loop[i \in 0..Len(text)] ==
               IF i = 0 THEN start ELSE AddLine(loop[i - 1], text[i], maxTokens)
             end == loop[Len(text)]
         IN  IF end.current = << >> THEN end.chunks
                                    ELSE Append(end.chunks, end.current)
=============================================================================
