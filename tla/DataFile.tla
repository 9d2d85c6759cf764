------------------------------ MODULE DataFile ------------------------------
(***************************************************************************)
(* The data file of one table as the characters it holds (src/storage.c):  *)
(* appends that write a whole row, or tear and leave part of one, and what *)
(* the readers of RowCodec then find.  Engine knows the same file only as  *)
(* a sequence of pieces; here the two readings are compared.               *)
(* The table has an id column and one other.                               *)
(***************************************************************************)
EXTENDS RowCodec, FiniteSets

CONSTANTS Ids, Values,  \* what rows are made of: numbers and sequences of characters
          MaxAppends    \* bounds the appends

ASSUME RowsAssumption ==
    /\ Ids \subseteq 1..MaxId
    /\ \A value \in Values : value \in Seq(ToSet(value)) /\ "malformed" \notin ToSet(value)

VARIABLES file,      \* the characters
          appended   \* what was appended: offset, row, and how much of the row

vars == <<file, appended>>

Init == file = <<>> /\ appended = <<>>

\* snprintf of the generated id.
IdText(id) ==
    LET digits[n \in 0..id] == IF n = 0 THEN <<>> ELSE Append(digits[n \div 10], Numerals[1 + (n % 10)])
    IN digits[id]

RowOf(id, value) == <<IdText(id), value>>

\* fseek to the end, ftell.
EndOfFile == Len(file) + 1

Writes(row, line, cut) ==
    /\ file' = file \o line
    /\ appended' = Append(appended, [offset |-> EndOfFile, row |-> row, line |-> line, cut |-> cut])

\* append_row_to_table_with_offset ("ab+").
AppendRow ==
    /\ Len(appended) < MaxAppends
    /\ \E id \in Ids, value \in Values :
          Writes(RowOf(id, value), Line(RowOf(id, value)), FALSE)

\* A write fails or the process dies after some of the characters.
AppendTorn ==
    /\ Len(appended) < MaxAppends
    /\ \E id \in Ids, value \in Values :
          LET line == Line(RowOf(id, value))
          IN \E written \in 1..(Len(line) - 1) :
                Writes(RowOf(id, value), SubSeq(line, 1, written), TRUE)

Next == AppendRow \/ AppendTorn

Spec == Init /\ [][Next]_vars

-----------------------------------------------------------------------------
\* A row as it can be read back.
Readable(row) == <<row[1], WithoutReturn(row[2])>>

StartsLine(i) == i = 1 \/ ~appended[i - 1].cut

\* Every whole row is read back at the offset its append was given, whatever was torn
\* before it and whatever came after (append_row_to_table_with_offset against
\* read_row_at_offset).
OffsetsLeadToRows ==
    \A i \in DOMAIN appended :
        ~appended[i].cut =>
            RowAtOffset(file, appended[i].offset, 2) = Readable(appended[i].row)

\* A torn append spoils its own line and nothing else: a scan that reaches the end finds
\* one line for each append that does not continue a torn one, at its offset, and the
\* whole rows among them as they were (scan_table_rows_with_offsets).
TearsSpoilOneLine ==
    LET found == Scan(file, 2)
        lines == {i \in DOMAIN appended : StartsLine(i)}
    IN found.ok =>
          /\ {found.rows[n].offset : n \in DOMAIN found.rows} = {appended[i].offset : i \in lines}
          /\ \A i \in lines : ~appended[i].cut =>
                [offset |-> appended[i].offset, row |-> Readable(appended[i].row)]
                    \in {found.rows[n] : n \in DOMAIN found.rows}

\* The piece of Engine an append leaves.
PieceOf(append) ==
    LET digits == append.row[1]
        written == Len(append.line)
    IN CASE ~append.cut -> [id |-> Spelled(digits), cut |-> "no"]
         [] append.cut /\ written <= Len(digits) ->
              [id |-> Spelled(append.line), cut |-> "id"]
         [] append.cut /\ written > Len(digits) ->
              [id |-> Spelled(digits),
               cut |-> IF Escapes(append.line, written) THEN "escape" ELSE "line"]

Pieces == [i \in DOMAIN appended |-> PieceOf(appended[i])]

Abstract == INSTANCE Engine WITH
    file <- Pieces, Procs <- {}, StoredBefore <- {}, CanCrash <- TRUE,
    MaxTorn <- MaxAppends, MaxFailures <- 0, MaxPieces <- MaxAppends,
    pc <- <<>>, loaded <- <<>>, index <- <<>>, next_id <- <<>>, row_offset <- <<>>,
    session <- <<>>, acked <- {}, reply <- <<>>, torn <- 0, failures <- 0

\* What Engine reads of its pieces is what the characters say: where lines start, which
\* are malformed, and which id a row has at any offset an index may hold, also where the
\* digits of two rows run together (read_line, split_escaped_row, parse_stored_id_value).
EngineReadsTheFile ==
    /\ Abstract!LineStarts = {i \in DOMAIN appended : StartsLine(i)}
    /\ Abstract!FileReadable <=> Scan(file, 2).ok
    /\ \A i \in DOMAIN appended :
          LET row == RowAtOffset(file, appended[i].offset, 2) IN
          /\ Abstract!MalformedAt(i) <=> row = MalformedRow
          /\ row # MalformedRow => ParseId(row[1]) = Abstract!IdAt(i)
=============================================================================
