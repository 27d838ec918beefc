------------------------- MODULE MCParallelPipeline -------------------------
EXTENDS ParallelPipeline

\* The shape of Process: layers one after the other, two groups of layers side
\* by side, and the layers at the end, which no early exit follows.
Group(p, g, l) == [parallel |-> p, gate |-> g, layers |-> l]
FourGroups == <<
  Group(FALSE, TRUE, <<"tfidf">>),
  Group(TRUE, TRUE, <<"goal", "ast", "contrastive">>),
  Group(TRUE, TRUE, <<"compaction", "attribution">>),
  Group(FALSE, FALSE, <<"budget">>) >>

\* A layer may report that its text has grown.
SomeReports == {-1, 2}
=============================================================================
