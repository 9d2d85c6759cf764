------------------------------- MODULE Lexer -------------------------------
(***************************************************************************)
(* tokenize_sql (src/lexer.c): a script, a sequence of characters, becomes *)
(* the array of its tokens, or nothing when some character cannot be read. *)
(* A token carries, beside its kind and value, the places of its first and *)
(* last character, which the code does not keep; they serve the properties.*)
(***************************************************************************)
EXTENDS Integers, Sequences, SequencesExt, FiniteSets

CONSTANTS Letters,   \* the letters and "_" of isalpha
          Digits, Spaces, Symbols,
          Keywords   \* the words of keyword_type in every spelling

Quote == "'"
Dot == "."
Minus == "-"

\* sql[i], where a string ends in a character of its own.
At(text, i) == IF i \in DOMAIN text THEN text[i] ELSE "end"

\* The first place from i on whose character is not in chars.
RunEnd(text, i, chars) ==
    CHOOSE j \in i..(Len(text) + 1) :
        At(text, j) \notin chars /\ \A k \in i..(j - 1) : text[k] \in chars

WordEnd(text, i) == RunEnd(text, i, Letters \cup Digits)

NumberEnd_NoDigitNeeded(text, i) ==
    LET whole == RunEnd(text, IF text[i] = Minus THEN i + 1 ELSE i, Digits)
    IN IF At(text, whole) # Dot THEN whole ELSE RunEnd(text, whole + 1, Digits)

\* One dot at most, and a digit must follow it; 0 is an invalid number.
NumberEnd(text, i) ==
    LET whole == RunEnd(text, IF text[i] = Minus THEN i + 1 ELSE i, Digits)
    IN IF At(text, whole) # Dot THEN whole
       ELSE IF At(text, whole + 1) \in Digits THEN RunEnd(text, whole + 1, Digits)
       ELSE 0

\* Two quotes stand for one inside a string; 0 is a string that is not closed.
StringEnd(text, i) ==
    LET closes[j \in (i + 1)..(Len(text) + 2)] ==
            IF j > Len(text) THEN 0
            ELSE IF text[j] # Quote THEN closes[j + 1]
            ELSE IF At(text, j + 1) = Quote THEN closes[j + 2]
            ELSE j + 1
    IN closes[i + 1]

StringValue_KeepsBoth(text, i, end) == SubSeq(text, i + 1, end - 2)

StringValue(text, i, end) ==
    LET value[j \in (i + 1)..end] ==
            IF j >= end - 1 THEN <<>>
            ELSE <<text[j]>> \o value[IF text[j] = Quote THEN j + 2 ELSE j + 1]
    IN value[i + 1]

\* The place after the token that starts at i, 0 when there is none.
TokenEnd(text, i) ==
    CASE text[i] \in Letters -> WordEnd(text, i)
      [] text[i] \in Digits -> NumberEnd(text, i)
      [] text[i] = Minus -> IF At(text, i + 1) \in Digits THEN NumberEnd(text, i) ELSE 0
      [] text[i] = Quote -> StringEnd(text, i)
      [] OTHER -> IF text[i] \in Symbols THEN i + 1 ELSE 0

KindOf(text, i, end) ==
    CASE text[i] \in Letters -> IF SubSeq(text, i, end - 1) \in Keywords
                                THEN "keyword" ELSE "identifier"
      [] text[i] \in Digits \cup {Minus} -> "number"
      [] text[i] = Quote -> "string"
      [] OTHER -> "symbol"

TokenAt(text, i) ==
    LET end == TokenEnd(text, i)
        kind == KindOf(text, i, end)
    IN [kind |-> kind, first |-> i, last |-> end - 1,
        value |-> IF kind = "string" THEN StringValue(text, i, end)
                  ELSE SubSeq(text, i, end - 1)]

EofToken(text) == [kind |-> "eof", first |-> Len(text) + 1, last |-> Len(text), value |-> <<>>]

\* An array of tokens always has its end token; an error frees them all.
LexError == <<>>

Tokenize(text) ==
    LET from[i \in 1..(Len(text) + 1)] ==
            IF i > Len(text) THEN <<EofToken(text)>>
            ELSE IF text[i] \in Spaces THEN from[i + 1]
            ELSE IF TokenEnd(text, i) = 0 THEN LexError
            ELSE LET rest == from[TokenEnd(text, i)]
                 IN IF rest = LexError THEN LexError ELSE <<TokenAt(text, i)>> \o rest
    IN from[1]

\* What the parser sees of the tokens.
Read(text) == [k \in DOMAIN Tokenize(text) |->
                  [kind |-> Tokenize(text)[k].kind, value |-> Tokenize(text)[k].value]]

-----------------------------------------------------------------------------
(* What a lexeme is, said without scanning.                                *)

Count(s, char) == Cardinality({i \in DOMAIN s : s[i] = char})

IsWord(s) == s # <<>> /\ s[1] \in Letters /\ ToSet(s) \subseteq Letters \cup Digits

\* Digits with at most one dot between two of them, and perhaps a minus before them.
IsNumber(s) ==
    \E body \in {s} \cup (IF s # <<>> /\ s[1] = Minus THEN {Tail(s)} ELSE {}) :
        /\ body # <<>> /\ ToSet(body) \subseteq Digits \cup {Dot}
        /\ body[1] \in Digits /\ Last(body) \in Digits /\ Count(body, Dot) <= 1

\* Quotes at both ends, and between them only pairs of quotes.
IsString(s) ==
    /\ Len(s) >= 2 /\ s[1] = Quote /\ Last(s) = Quote
    /\ LET inside == SubSeq(s, 2, Len(s) - 1)
       IN \A i, j \in DOMAIN inside :
             /\ i <= j /\ \A k \in i..j : inside[k] = Quote
             /\ At(inside, i - 1) # Quote /\ At(inside, j + 1) # Quote
             => (j - i) % 2 = 1

IsLexeme(s) ==
    \/ IsWord(s) \/ IsNumber(s) \/ IsString(s)
    \/ Len(s) = 1 /\ s[1] \in Symbols

\* The places where a lexeme that starts at i can end.
LexemeEnds(text, i) == {j \in i..Len(text) : IsLexeme(SubSeq(text, i, j))}

\* The text is spaces and lexemes, each the longest at its place.
IsReadable(text) ==
    LET from[i \in 1..(Len(text) + 1)] ==
            \/ i > Len(text)
            \/ text[i] \in Spaces /\ from[i + 1]
            \/ \E j \in LexemeEnds(text, i) :
                  from[j + 1] /\ \A k \in LexemeEnds(text, i) : k <= j
    IN from[1]

\* The tokens cover all but spaces, and each is the longest lexeme at its place.
IsMaximalMunch(text) ==
    LET tokens == Front(Tokenize(text))
        covered == UNION {tokens[k].first..tokens[k].last : k \in DOMAIN tokens}
    IN /\ \A i \in DOMAIN text \ covered : text[i] \in Spaces
       /\ \A k \in DOMAIN tokens :
             /\ k > 1 => tokens[k - 1].last < tokens[k].first
             /\ tokens[k].last \in LexemeEnds(text, tokens[k].first)
             /\ \A j \in LexemeEnds(text, tokens[k].first) : j <= tokens[k].last

\* A value written as a string literal, as a script must write it.
Quoted(value) ==
    <<Quote>> \o FlattenSeq([i \in DOMAIN value |->
        IF value[i] = Quote THEN <<Quote, Quote>> ELSE <<value[i]>>]) \o <<Quote>>
=============================================================================
