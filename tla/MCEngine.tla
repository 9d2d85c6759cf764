------------------------------ MODULE MCEngine ------------------------------
EXTENDS Engine

\* Data files at the start: new ones, or written by hand as those of the tests are, with
\* a gap and, unlike those, out of order.
NewOrOld == {<<>>, <<3, 1>>}
NewOnly == {<<>>}
=============================================================================
