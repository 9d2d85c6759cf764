----------------------------- MODULE MCSession -----------------------------
EXTENDS SessionGrammar

Sentences ==
    {<<"INSERT", "INTO", "identifier", "VALUES", "(", "string", ")">>,
     <<"INSERT", "INTO", "identifier", "(", "identifier", ",", "identifier", ")",
       "VALUES", "(", "string", ",", "number", ")">>,
     <<"SELECT", "*", "FROM", "identifier">>,
     <<"SELECT", "identifier", ",", "identifier", "FROM", "identifier",
       "WHERE", "identifier", "=", "number">>}

Pairs ==
    {first \o separator \o second :
        first \in Sentences, second \in Sentences, separator \in {<<>>, <<";">>}}

Without(script, p) == SubSeq(script, 1, p - 1) \o SubSeq(script, p + 1, Len(script))
Inserted(script, p, kind) ==
    SubSeq(script, 1, p - 1) \o <<kind>> \o SubSeq(script, p, Len(script))

\* The scripts one token away from one of these: lost, added or another one.
Edited(scripts) ==
    {Without(script, p) : <<script, p>> \in
        {<<script, p>> \in scripts \X (1..25) : p <= Len(script)}}
    \cup
    UNION {{Inserted(script, p, kind) : kind \in Kinds} : <<script, p>> \in
        {<<script, p>> \in scripts \X (1..25) : p <= Len(script) + 1}}
    \cup
    UNION {{[script EXCEPT ![p] = kind] : kind \in Kinds} : <<script, p>> \in
        {<<script, p>> \in scripts \X (1..25) : p <= Len(script)}}

\* Cut short anywhere.
Cut(scripts) ==
    {SubSeq(script, 1, n) : <<script, n>> \in
        {<<script, n>> \in scripts \X (1..25) : n <= Len(script)}}

OneEdit == Sentences \cup Pairs \cup Edited(Sentences \cup Pairs) \cup Cut(Pairs)
           \cup {<<>>, <<";">>, <<";", ";">>}
=============================================================================
