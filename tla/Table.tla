------------------------------- MODULE Table -------------------------------
(***************************************************************************)
(* What INSERT and SELECT promise of a table: a list of rows, each of them *)
(* a function from the names of the columns to values.  Nothing is said of *)
(* files, offsets, indexes or the places of columns.                       *)
(***************************************************************************)
EXTENDS Integers, Sequences, SequencesExt, FiniteSets

CONSTANTS Inserts, Selects,   \* the statements
          IdTexts,            \* the texts an id can have
          Before              \* the tables there may be at the start

VARIABLES columns,   \* the names of the columns, in the order of the schema
          table,     \* the rows
          reply

Answer(stmt, status, rows) == [stmt |-> stmt, status |-> status, rows |-> rows]
NoStatement == [columns |-> <<>>, values |-> <<>>, where |-> <<>>]

Names == {columns[i] : i \in DOMAIN columns}
HasId == "id" \in Names

\* A statement without a list gives values to all columns but the id.
Given(stmt) ==
    IF stmt.columns # <<>> THEN stmt.columns
    ELSE IF HasId THEN RemoveAt(columns, CHOOSE i \in DOMAIN columns : columns[i] = "id")
    ELSE columns

Distinct(list) == \A i, j \in DOMAIN list : list[i] = list[j] => i = j

IsInsertable(stmt) ==
    /\ Len(stmt.values) = Len(Given(stmt))
    /\ Distinct(Given(stmt))
    /\ \A i \in DOMAIN Given(stmt) : Given(stmt)[i] \in Names \ {"id"}

\* Columns that get no value are empty.
RowOf(stmt, id) ==
    [name \in Names |->
        IF name = "id" THEN id
        ELSE IF \E i \in DOMAIN Given(stmt) : Given(stmt)[i] = name
        THEN stmt.values[CHOOSE i \in DOMAIN Given(stmt) : Given(stmt)[i] = name]
        ELSE ""]

\* The where clause of a statement is empty or a column and a value.
IsSelectable(stmt) ==
    /\ \A i \in DOMAIN stmt.columns : stmt.columns[i] \in Names
    /\ stmt.where # <<>> => stmt.where[1] \in Names

IsMeant(stmt, row) == stmt.where = <<>> \/ row[stmt.where[1]] = stmt.where[2]

Shown(stmt, row) ==
    LET names == IF stmt.columns = <<>> THEN columns ELSE stmt.columns
    IN [i \in DOMAIN names |-> row[names[i]]]

\* In the order of the table.
Selected(stmt) ==
    LET from[n \in 0..Len(table)] ==
            IF n = 0 THEN <<>>
            ELSE IF IsMeant(stmt, table[n])
            THEN Append(from[n - 1], Shown(stmt, table[n])) ELSE from[n - 1]
    IN from[Len(table)]

Init ==
    /\ <<columns, table>> \in Before
    /\ reply = Answer(NoStatement, "OK", <<>>)

\* A new row gets an id no other row has.
Insert ==
    \E stmt \in Inserts, id \in IF HasId THEN IdTexts ELSE {""} :
        /\ reply' = Answer(stmt, "OK", <<IF HasId THEN <<id>> ELSE <<>>>>)
        /\ IsInsertable(stmt)
        /\ HasId => \A n \in DOMAIN table : table[n]["id"] # id
        /\ table' = Append(table, RowOf(stmt, id))
        /\ UNCHANGED columns

Select ==
    \E stmt \in Selects :
        /\ reply'.stmt = stmt /\ IsSelectable(stmt)
        /\ reply' = Answer(stmt, "OK", Selected(stmt))
        /\ UNCHANGED <<columns, table>>

\* A statement that names the wrong columns must be refused, one that runs out of ids
\* or of memory may be; a refused statement changes nothing.
Refuse ==
    \E stmt \in Inserts \cup Selects, error \in {"EXEC_ERROR", "INDEX_ERROR"} :
        /\ reply' = Answer(stmt, error, <<>>)
        /\ UNCHANGED <<columns, table>>

Next == Insert \/ Select \/ Refuse

Spec == Init /\ [][Next]_<<columns, table, reply>>
=============================================================================
