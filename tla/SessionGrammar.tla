--------------------------- MODULE SessionGrammar ---------------------------
(***************************************************************************)
(* The language of the scripts, written down as the sentences it has, and  *)
(* what Session does with a script in terms of it: which scripts run to    *)
(* the end, which statements are executed, and with which parts.           *)
(***************************************************************************)
EXTENDS Session

\* A literal is a string or a number.
Word(kind) == IF kind \in {"string", "number"} THEN "literal" ELSE kind

List(word, n) == [k \in 1..(2 * n - 1) |-> IF k % 2 = 1 THEN word ELSE ","]

InsertForm(columns, values) ==
    <<"INSERT", "INTO", "identifier">>
    \o (IF columns = 0 THEN <<>> ELSE <<"(">> \o List("identifier", columns) \o <<")">>)
    \o <<"VALUES", "(">> \o List("literal", values) \o <<")">>

SelectForm(columns, where) ==
    <<"SELECT">> \o (IF columns = 0 THEN <<"*">> ELSE List("identifier", columns))
    \o <<"FROM", "identifier">>
    \o (IF where THEN <<"WHERE", "identifier", "=", "literal">> ELSE <<>>)

Forms ==
    LET most == Cardinality({p \in DOMAIN tokens : tokens[p] = ","}) + 1 IN
    {InsertForm(columns, values) : columns \in 0..most, values \in 1..most}
        \cup {SelectForm(columns, where) : columns \in 0..most, where \in BOOLEAN}

IsStatement(first, last) ==
    \E form \in Forms :
        /\ Len(form) = last - first + 1
        /\ \A k \in DOMAIN form : Word(tokens[first + k - 1]) = form[k]

\* From which places the rest of the script is a sequence of statements, each with or
\* without a semicolon, and of empty statements.
Sentence ==
    LET from[p \in 1..Len(tokens)] ==
            \/ tokens[p] = "EOF"
            \/ tokens[p] = ";" /\ from[p + 1]
            \/ /\ tokens[p] \in {"INSERT", "SELECT"}
               /\ \E last \in p..(Len(tokens) - 1) : IsStatement(p, last) /\ from[last + 1]
    IN from[1] /\ \E p \in DOMAIN tokens : tokens[p] \notin {";", "EOF"}

-----------------------------------------------------------------------------
(* How a statement is spelled: its words, each with the token it stands at *)
(* or 0 for a word that the statement does not keep.                       *)

Fixed(words) == [k \in DOMAIN words |-> <<words[k], 0>>]

SpelledList(word, items) ==
    [k \in 1..(2 * Len(items) - 1) |->
        IF k % 2 = 1 THEN <<word, items[(k + 1) \div 2]>> ELSE <<",", 0>>]

Spelling(s) ==
    IF s.type = "insert"
    THEN Fixed(<<"INSERT", "INTO">>) \o <<<<"identifier", s.table>>>>
         \o (IF s.columns = <<>> THEN <<>>
             ELSE Fixed(<<"(">>) \o SpelledList("identifier", s.columns) \o Fixed(<<")">>))
         \o Fixed(<<"VALUES", "(">>) \o SpelledList("literal", s.values) \o Fixed(<<")">>)
    ELSE Fixed(<<"SELECT">>)
         \o (IF s.all THEN Fixed(<<"*">>) ELSE SpelledList("identifier", s.columns))
         \o Fixed(<<"FROM">>) \o <<<<"identifier", s.table>>>>
         \o (IF s.where_column = 0 THEN <<>>
             ELSE <<<<"WHERE", 0>>, <<"identifier", s.where_column>>,
                    <<"=", 0>>, <<"literal", s.where_value>>>>)

FirstToken(s) ==
    LET at == CHOOSE k \in DOMAIN Spelling(s) : Spelling(s)[k][2] = s.table
    IN s.table - at + 1

LastToken(s) == FirstToken(s) + Len(Spelling(s)) - 1

IsSpelled(s) ==
    \A k \in DOMAIN Spelling(s) :
        LET place == FirstToken(s) + k - 1 IN
        /\ place \in DOMAIN tokens
        /\ Word(tokens[place]) = Spelling(s)[k][1]
        /\ Spelling(s)[k][2] \in {0, place}

OnlySemicolons(first, last) == \A p \in first..last : tokens[p] = ";"

-----------------------------------------------------------------------------
\* A script of which no statement fails runs to its end exactly if it is a sentence of
\* the language and holds a statement (parse_next_statement, the loops of main).
AcceptsTheLanguage ==
    pc = "ended" /\ failures = 0 /\ status \in {"OK", "PARSE_ERROR"}
        => (status = "OK" <=> Sentence)

\* The executed statements are the ones written, each with the parts written at its own
\* place, in their order, none skipped and none twice, also when the session ends with
\* an error (the cursor that main and the parser share).
ExecutesWhatIsWritten ==
    /\ \A n \in DOMAIN executed :
          /\ IsSpelled(executed[n])
          /\ OnlySemicolons(IF n = 1 THEN 1 ELSE LastToken(executed[n - 1]) + 1,
                            FirstToken(executed[n]) - 1)
    /\ pc = "ended" /\ status = "OK" =>
          OnlySemicolons(LastToken(executed[Len(executed)]) + 1, Len(tokens) - 1)

\* Every session ends: each turn of main's loop takes at least one token.
Terminates == <>(pc = "ended")
=============================================================================
