----------------------------- MODULE MCDataFile -----------------------------
EXTENDS DataFile

\* Joined digits of these stay below or exceed MaxId; the values need each escape, and
\* one ends in the character read_line drops.
MCIds == {2, 12}
MCValues == {<<>>, <<"a", "\r">>, <<"\\">>, <<"|", "\n">>}
=============================================================================
