------------------------------ MODULE MCTFIDF ------------------------------
EXTENDS TFIDF

\* A blank line, lines of one sentence and one of two.
SomeTextLines == {<< >>, <<"p">>, <<"q">>, <<"p", "q">>}
=============================================================================
