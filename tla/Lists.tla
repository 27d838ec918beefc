------------------------------- MODULE Lists -------------------------------
(***************************************************************************)
(* The loop that copies the elements of a slice that pass a test, which    *)
(* several parts of the program write out.                                 *)
(***************************************************************************)
EXTENDS SequencesExt

\* The elements of s that are in S, in their order.
Selected(s, S) == FlattenSeq([i \in DOMAIN s |-> IF s[i] \in S THEN <<s[i]>> ELSE << >>])
=============================================================================
