-------------------------------- MODULE Text --------------------------------
(***************************************************************************)
(* Every short text, grown one character at a time, given to each of the   *)
(* readers of the program: as a script to the lexer, as a schema file, as  *)
(* values and as a data file to the row codec, and as the text of an id.   *)
(***************************************************************************)
EXTENDS RowCodec, FiniteSets

CONSTANTS Letters, Digits, Spaces, Symbols, Keywords,   \* as in Lexer
          SchemaSpaces,                                 \* Spaces of Schema
          Alphabet,    \* the characters each reader is given
          MaxLength    \* bounds the text of each reader

\* Characters, none of which is the mark of an error.
ASSUME AlphabetAssumption == "malformed" \notin Alphabet["rows"]

\* isspace holds for a carriage return.
ASSUME SchemaSpacesAssumption == "\r" \in SchemaSpaces

VARIABLES reader, text

L == INSTANCE Lexer
S == INSTANCE Schema WITH Spaces <- SchemaSpaces

\* isalpha, isdigit and isspace share no character; none of theirs and no symbol is a
\* quote, a dot, a minus or the end of the string.
ASSUME ClassesAssumption ==
    /\ Letters \cap Digits = {} /\ (Letters \cup Digits) \cap Spaces = {}
    /\ Symbols \cap (Letters \cup Digits \cup Spaces) = {}
    /\ {L!Quote, L!Dot, L!Minus, "end"} \cap (Letters \cup Digits \cup Spaces \cup Symbols) = {}

TextInit == reader \in DOMAIN Alphabet /\ text = <<>>

Grow ==
    /\ Len(text) < MaxLength[reader]
    /\ \E char \in Alphabet[reader] : text' = Append(text, char)
    /\ UNCHANGED reader

TextSpec == TextInit /\ [][Grow]_<<reader, text>>

Before(cut) == SubSeq(text, 1, cut)
Behind(cut) == SubSeq(text, cut + 1, Len(text))

\* A script is refused exactly if taking the longest lexeme at each place, as lexemes are
\* described without scanning, comes to a character that starts none; otherwise its
\* tokens are those lexemes (tokenize_sql).
LexerReadsLexemes ==
    reader = "lexer" =>
        IF L!Tokenize(text) = L!LexError THEN ~L!IsReadable(text)
        ELSE L!IsReadable(text) /\ L!IsMaximalMunch(text)

\* Every value can be written as one string literal that is read as that value, quotes
\* included (tokenize_string).
QuotingRoundTrips ==
    reader = "lexer" =>
        LET tokens == L!Read(L!Quoted(text))
        IN Len(tokens) = 2 /\ tokens[1] = [kind |-> "string", value |-> text]

\* A schema is loaded exactly when its file names a column and none twice, and then with
\* those columns, each of which is found at its own place (load_table_schema,
\* schema_find_column_index).
SchemaReadsNames ==
    reader = "schema" =>
        LET columns == S!Columns(text) IN
        /\ columns # S!NoSchema => /\ ToSet(columns) = S!Names(text)
                                   /\ \A i \in DOMAIN columns : S!FindColumn(columns, columns[i]) = i
        /\ columns = S!NoSchema <=>
              \/ S!Names(text) = {}
              \/ Cardinality(S!NamePlaces(text)) > Cardinality(S!Names(text))

\* A row of any two values is one line, and is read back as it was, except that a
\* carriage return at the end of the last value is lost (escape_field, read_line).
RowsRoundTrip ==
    reader = "rows" =>
        \A cut \in 0..Len(text) :
            LET row == <<Before(cut), Behind(cut)>>
                line == Line(row)
            IN /\ \A i \in DOMAIN line : line[i] = Newline <=> i = Len(line)
               /\ RowAtOffset(line, 1, 2) = <<row[1], WithoutReturn(row[2])>>

\* A line is refused exactly for a bad escape, and otherwise it is the one line that the
\* values read from it are written as: no two lines hold one row (split_escaped_row).
LinesAreCanonical ==
    reader = "rows" /\ Newline \notin ToSet(text) =>
        IF Split(text) = MalformedRow THEN HasBadEscape(text)
        ELSE ~HasBadEscape(text) /\ Line(Split(text)) = Append(text, Newline)

\* In any file, however its lines came to be, a scan gives a row of the schema's columns
\* for every line before the first malformed one, with an offset that leads to the same
\* row (scan_table_rows_with_offsets, read_row_at_offset, normalize_field_count).
ScanFindsEveryLine ==
    reader = "rows" =>
        LET starts == {i \in DOMAIN text : i = 1 \/ text[i - 1] = Newline}
            bad == {i \in starts : HasBadEscape(ReadLine(text, i))}
            found == Scan(text, 2)
        IN /\ found.ok <=> bad = {}
           /\ {found.rows[n].offset : n \in DOMAIN found.rows}
                = {i \in starts : \A j \in bad : i < j}
           /\ \A n \in DOMAIN found.rows :
                 /\ Len(found.rows[n].row) = 2
                 /\ RowAtOffset(text, found.rows[n].offset, 2) = found.rows[n].row
                 /\ n > 1 => found.rows[n - 1].offset < found.rows[n].offset

\* The text of an id is accepted exactly if it spells a number from 1 to UINT64_MAX
\* without leading zeros, and then it is that number: nothing wraps
\* (parse_canonical_positive_uint64).
IdsAreExact ==
    reader = "id" =>
        ParseId(text) =
            IF /\ text # <<>> /\ ToSet(text) \subseteq DOMAIN DigitOf /\ text[1] # "0"
               /\ Spelled(text) <= MaxId
            THEN Spelled(text) ELSE 0
=============================================================================
