------------------------------ MODULE MCQuery ------------------------------
EXTENDS Query, SequencesExt

MCInserts ==
    {[columns |-> list, values |-> values, where |-> <<>>] :
        list \in {<<>>, <<"a">>, <<"z">>, <<"b", "a">>, <<"a", "a">>, <<"id", "a">>},
        values \in {<<"x">>, <<"x", "1">>, <<"2", "x">>, <<"x", "1", "1">>}}

MCSelects ==
    {[columns |-> list, values |-> <<>>, where |-> where] :
        list \in {<<>>, <<"id">>, <<"z">>, <<"b", "a", "b">>},
        where \in {<<>>, <<"a", "1">>, <<"a", "x">>, <<"z", "x">>} \cup ({"id"} \X {"1", "2", "01", "x"})}

MCIdText == [id \in 1..MaxId |-> ToString(id)]

\* The id column first, between, last, or absent; data files new, or with a gap, so that
\* one more row uses the last id up.
MCFilesBefore ==
    {<<<<"id", "a", "b">>, <<>>>>, <<<<"a", "id", "b">>, <<>>>>, <<<<"a", "b", "id">>, <<>>>>,
     <<<<"a", "b">>, <<>>>>, <<<<"b", "id", "a">>, <<<<"1", "2", "x">>>>>>}
=============================================================================
