------------------------------ MODULE RowCodec ------------------------------
(***************************************************************************)
(* How a row becomes a line of the data file and a line becomes a row      *)
(* (src/storage.c), and how the text of an id becomes a number             *)
(* (src/runtime.c).  A file, a line and a value are sequences of           *)
(* characters; a place in a file counts from 1.                            *)
(***************************************************************************)
EXTENDS Integers, Sequences, SequencesExt

CONSTANT MaxId   \* UINT64_MAX

ASSUME MaxIdAssumption == MaxId \in Nat

Backslash == "\\"
Bar == "|"
Newline == "\n"
Return == "\r"

\* What unescape_field and split_escaped_row return on an error: no value has this
\* "character".
MalformedValue == <<"malformed">>
MalformedRow == <<MalformedValue>>

Escaped_NotBackslash(char) ==
    CASE char = Bar -> <<Backslash, Bar>>
      [] char = Newline -> <<Backslash, "n">>
      [] OTHER -> <<char>>

Escaped(char) ==
    CASE char = Backslash -> <<Backslash, Backslash>>
      [] char = Bar -> <<Backslash, Bar>>
      [] char = Newline -> <<Backslash, "n">>
      [] OTHER -> <<char>>

Escape(value) == FlattenSeq([i \in DOMAIN value |-> Escaped(value[i])])

IsEscape_Any(char) == TRUE

IsEscape(char) == char \in {Backslash, Bar, "n"}

\* unescape_field: half an escape, or another letter behind a backslash, is an error.
Unescape(field) ==
    LET value[i \in 1..(Len(field) + 2)] ==
            IF i > Len(field) THEN <<>>
            ELSE LET escape == field[i] = Backslash
                     char == IF escape /\ i < Len(field) THEN field[i + 1] ELSE field[i]
                     rest == value[IF escape THEN i + 2 ELSE i + 1]
                 IN IF \/ rest = MalformedValue
                       \/ escape /\ (i = Len(field) \/ ~IsEscape(char))
                    THEN MalformedValue
                    ELSE <<IF escape /\ char = "n" THEN Newline ELSE char>> \o rest
    IN value[1]

\* split_escaped_row: one step for each character, with what it has collected so far.
SplitStart == [fields |-> <<>>, raw |-> <<>>, escape_pending |-> FALSE]

EndsField(state) ==
    [state EXCEPT !.fields = Append(@, Unescape(state.raw)), !.raw = <<>>]

SplitStep(state, char) ==
    IF char = Bar /\ ~state.escape_pending THEN EndsField(state)
    ELSE [state EXCEPT !.raw = Append(@, char),
                       !.escape_pending = (char = Backslash /\ ~state.escape_pending)]

SplitRun(start, line) ==
    LET state[i \in 0..Len(line)] ==
            IF i = 0 THEN start ELSE SplitStep(state[i - 1], line[i])
    IN state[Len(line)]

Split(line) ==
    LET state == SplitRun(SplitStart, line)
        fields == EndsField(state).fields
    IN IF state.escape_pending \/ MalformedValue \in ToSet(fields)
       THEN MalformedRow ELSE fields

Normalize_CutsOnly(fields, column_count) ==
    SubSeq(fields, 1, IF column_count < Len(fields) THEN column_count ELSE Len(fields))

\* normalize_field_count: missing fields are empty, surplus ones dropped.
Normalize(fields, column_count) ==
    [i \in 1..column_count |-> IF i \in DOMAIN fields THEN fields[i] ELSE <<>>]

ParseLine(line, column_count) ==
    IF Split(line) = MalformedRow THEN MalformedRow ELSE Normalize(Split(line), column_count)

\* What append_row_to_table_with_offset writes, from its own offset on.
Line(row) ==
    FlattenSeq([i \in DOMAIN row |->
        IF i = 1 THEN Escape(row[i]) ELSE <<Bar>> \o Escape(row[i])]) \o <<Newline>>

-----------------------------------------------------------------------------
\* The place of the newline that ends the line at offset, or the end of the file.
LineEnd(file, offset) ==
    CHOOSE i \in offset..(Len(file) + 1) :
        /\ i <= Len(file) => file[i] = Newline
        /\ \A j \in offset..(i - 1) : file[j] # Newline

WithoutReturn(line) ==
    IF line # <<>> /\ Last(line) = Return THEN Front(line) ELSE line

\* read_line at a place inside the file.
ReadLine(file, offset) == WithoutReturn(SubSeq(file, offset, LineEnd(file, offset) - 1))

NextLine_PastReturn(file, offset) == LineEnd(file, offset) + 2

NextLine(file, offset) == LineEnd(file, offset) + 1

\* scan_table_rows_with_offsets: the rows in order, each with its offset, until a line
\* cannot be read.
Scan(file, column_count) ==
    LET from[offset \in 1..(Len(file) + 3)] ==
            IF offset > Len(file) THEN [rows |-> <<>>, ok |-> TRUE]
            ELSE LET row == ParseLine(ReadLine(file, offset), column_count)
                     rest == from[NextLine(file, offset)]
                 IN IF row = MalformedRow THEN [rows |-> <<>>, ok |-> FALSE]
                    ELSE [rest EXCEPT !.rows = <<[offset |-> offset, row |-> row]>> \o @]
    IN from[1]

\* read_row_at_offset, which needs a line to read.
RowAtOffset(file, offset, column_count) ==
    IF offset > Len(file) THEN MalformedRow ELSE ParseLine(ReadLine(file, offset), column_count)

-----------------------------------------------------------------------------
\* parse_canonical_positive_uint64; 0 when the text is not such a number.  The test
\* against MaxId comes before the step that could exceed it.
Numerals == <<"0", "1", "2", "3", "4", "5", "6", "7", "8", "9">>

DigitOf == [char \in ToSet(Numerals) |-> (CHOOSE n \in 1..10 : Numerals[n] = char) - 1]

FitsAfter_Late(value, digit) == value <= MaxId \div 10

FitsAfter(value, digit) == value <= (MaxId - digit) \div 10

NoId == [value |-> 0, refused |-> TRUE]

IdStep(state, char) ==
    IF state.refused \/ char \notin DOMAIN DigitOf \/ ~FitsAfter(state.value, DigitOf[char])
    THEN NoId
    ELSE [state EXCEPT !.value = (@ * 10 + DigitOf[char]) % (MaxId + 1)]

ParseId(text) ==
    LET state[i \in 0..Len(text)] ==
            IF i = 0 THEN [value |-> 0, refused |-> FALSE] ELSE IdStep(state[i - 1], text[i])
    IN IF text = <<>> \/ text[1] = "0" THEN 0 ELSE state[Len(text)].value

\* The number a text of digits spells, without a limit.
Spelled(text) ==
    LET value[i \in 0..Len(text)] ==
            IF i = 0 THEN 0 ELSE value[i - 1] * 10 + DigitOf[text[i]]
    IN value[Len(text)]
-----------------------------------------------------------------------------
\* A backslash escapes the character behind it unless it is itself escaped.
Escapes(line, i) ==
    /\ line[i] = Backslash
    /\ \E n \in 0..(i - 1) :
          /\ n % 2 = 0 /\ \A j \in (i - n)..(i - 1) : line[j] = Backslash
          /\ n = i - 1 \/ line[i - n - 1] # Backslash

\* What append_row_to_table_with_offset never writes.
HasBadEscape(line) ==
    \E i \in DOMAIN line :
        Escapes(line, i) /\ (i = Len(line) \/ line[i + 1] \notin {Backslash, Bar, "n"})
=============================================================================
