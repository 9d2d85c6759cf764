------------------------------- MODULE MCText -------------------------------
(* Small alphabets: a character of each class a reader tells apart.          *)
EXTENDS Text

MCLetters == {"i", "x"}
MCDigits == {"1"}
MCSpaces == {" "}
MCSymbols == {";"}
MCKeywords == {<<"i">>}
MCSchemaSpaces == {" ", "\n", "\r"}

MCAlphabet == [
    lexer  |-> {"i", "x", "1", ".", "-", "'", " ", ";", "?"},
    schema |-> {"a", "b", " ", "\n", "\r"},
    rows   |-> {"a", "n", "\\", "|", "\n", "\r"},
    id     |-> {"0", "1", "5", "6", "9", "a"}]

MCMaxLength == [lexer |-> 5, schema |-> 6, rows |-> 5, id |-> 4]
=============================================================================
