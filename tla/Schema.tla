------------------------------- MODULE Schema -------------------------------
(***************************************************************************)
(* load_table_schema (src/schema.c): the text of a schema file becomes the *)
(* names of the columns, one for each line that is not blank.              *)
(***************************************************************************)
EXTENDS Integers, Sequences, SequencesExt, FiniteSets

CONSTANT Spaces   \* the characters of isspace, "\n" and "\r" among them

Codec == INSTANCE RowCodec WITH MaxId <- 1

\* trim_in_place.
Trim(name) ==
    LET kept == {i \in DOMAIN name : name[i] \notin Spaces}
    IN IF kept = {} THEN <<>>
       ELSE SubSeq(name, CHOOSE i \in kept : \A j \in kept : i <= j,
                         CHOOSE i \in kept : \A j \in kept : i >= j)

\* A schema that cannot be loaded has no column.
NoSchema == <<>>

AddColumn_Twice(loaded, name) ==
    IF name = <<>> THEN loaded ELSE [loaded EXCEPT !.columns = Append(@, name)]

\* One line of the file; the first repeated name ends the load.
AddColumn(loaded, name) ==
    IF loaded.duplicate \/ name = <<>> THEN loaded
    ELSE IF Contains(loaded.columns, name) THEN [loaded EXCEPT !.duplicate = TRUE]
    ELSE [loaded EXCEPT !.columns = Append(@, name)]

\* read_line is written twice in the program; both are the same.
Lines(file) ==
    LET from[offset \in 1..(Len(file) + 2)] ==
            IF offset > Len(file) THEN <<>>
            ELSE <<Codec!ReadLine(file, offset)>> \o from[Codec!LineEnd(file, offset) + 1]
    IN from[1]

NothingLoaded == [columns |-> <<>>, duplicate |-> FALSE]

\* The loop over the lines.
Load(lines) ==
    LET loaded[i \in 0..Len(lines)] ==
            IF i = 0 THEN NothingLoaded ELSE AddColumn(loaded[i - 1], Trim(lines[i]))
    IN loaded[Len(lines)]

Columns(file) ==
    LET loaded == Load(Lines(file))
    IN IF loaded.duplicate THEN NoSchema ELSE loaded.columns

\* schema_find_column_index, from 1; 0 is "not found".
FindColumn(columns, name) ==
    IF ~Contains(columns, name) THEN 0
    ELSE CHOOSE i \in DOMAIN columns :
            columns[i] = name /\ \A j \in 1..(i - 1) : columns[j] # name

-----------------------------------------------------------------------------
(* What a schema file says, by the places of its lines.                    *)

\* The first and last place of each stretch of text without a newline.
Stretches(file) ==
    {s \in (1..Len(file)) \X (1..Len(file)) :
        /\ s[1] <= s[2] /\ \A k \in s[1]..s[2] : file[k] # Codec!Newline
        /\ s[1] = 1 \/ file[s[1] - 1] = Codec!Newline
        /\ s[2] = Len(file) \/ file[s[2] + 1] = Codec!Newline}

\* The first and last place of each name: all else in its stretch is spaces.
NamePlaces(file) ==
    {p \in (1..Len(file)) \X (1..Len(file)) :
        /\ p[1] <= p[2] /\ file[p[1]] \notin Spaces /\ file[p[2]] \notin Spaces
        /\ \E s \in Stretches(file) :
              /\ s[1] <= p[1] /\ p[2] <= s[2]
              /\ \A k \in (s[1]..s[2]) \ (p[1]..p[2]) : file[k] \in Spaces}

Names(file) == {SubSeq(file, place[1], place[2]) : place \in NamePlaces(file)}
=============================================================================
