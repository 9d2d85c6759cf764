------------------------------- MODULE Query -------------------------------
(***************************************************************************)
(* execute_insert and execute_select (src/executor.c) on one table: the    *)
(* checks of the columns, the row built from a statement, the choice       *)
(* between the id index and the full scan, WHERE and the projection.       *)
(* Rows are here what RowCodec reads them as: sequences of values in the   *)
(* order of the schema; an offset is the place of a row.  No append fails  *)
(* once it has written, and no allocation of the index; Engine has these.  *)
(***************************************************************************)
EXTENDS Integers, Sequences, FiniteSets

CONSTANTS Inserts, Selects,  \* the statements scripts may hold
          FilesBefore,       \* pairs of a schema and the rows of its data file
          MaxId,             \* UINT64_MAX
          IdText,            \* how the program spells each id
          MaxRows            \* bounds the data file

\* parse_next_statement: lists of texts, and a where clause of a column and a value.
ASSUME StatementsAssumption ==
    \A stmt \in Inserts \cup Selects :
        /\ stmt.columns \in Seq(STRING) /\ stmt.values \in Seq(STRING)
        /\ stmt.where # <<>> => stmt.where \in STRING \X STRING

\* load_table_schema accepts no name twice; rows are read with a value for each column.
ASSUME FilesAssumption ==
    \A start \in FilesBefore :
        /\ start[1] \in Seq(STRING)
        /\ \A i, j \in DOMAIN start[1] : start[1][i] = start[1][j] => i = j
        /\ start[2] \in Seq([DOMAIN start[1] -> STRING])

\* "%" PRIu64: no two ids are spelled alike.
ASSUME IdTextAssumption ==
    /\ MaxId \in Nat \ {0} /\ IdText \in [1..MaxId -> STRING]
    /\ \A a, b \in 1..MaxId : IdText[a] = IdText[b] => a = b

VARIABLES columns,            \* TableSchema.columns
          file,               \* the rows of the data file
          loaded,             \* whether the process has the table's runtime
          index, next_id,     \* TableRuntime.id_index and next_id
          reply               \* the last result or error

runtime == <<loaded, index, next_id>>
vars == <<columns, file, runtime, reply>>

Answer(stmt, status, rows) == [stmt |-> stmt, status |-> status, rows |-> rows]
NoStatement == [columns |-> <<>>, values |-> <<>>, where |-> <<>>]

\* schema_find_column_index, from 1; 0 is "not found".
FindColumn(name) ==
    IF \E i \in DOMAIN columns : columns[i] = name
    THEN CHOOSE i \in DOMAIN columns : columns[i] = name ELSE 0

IdColumn == FindColumn("id")

\* parse_canonical_positive_uint64, as RowCodec has it digit by digit.
ParseId(text) ==
    IF \E id \in 1..MaxId : text = IdText[id]
    THEN CHOOSE id \in 1..MaxId : text = IdText[id] ELSE 0

IdAt(offset) == ParseId(file[offset][IdColumn])

-----------------------------------------------------------------------------
(* get_or_load_table_runtime and build_id_index_for_table.                 *)

StoredIds == {IdAt(i) : i \in DOMAIN file}

Loadable ==
    IdColumn # 0 =>
        /\ 0 \notin StoredIds /\ MaxId \notin StoredIds
        /\ Cardinality(StoredIds) = Len(file)

Load ==
    /\ ~loaded /\ Loadable
    /\ loaded' = TRUE
    /\ index' = IF IdColumn = 0 THEN <<>>
                ELSE [k \in StoredIds |-> CHOOSE i \in DOMAIN file : IdAt(i) = k]
    /\ next_id' = IF IdColumn = 0 THEN 0
                  ELSE 1 + (CHOOSE m \in StoredIds \cup {0} : \A k \in StoredIds : k <= m)
    /\ UNCHANGED <<columns, file, reply>>

LoadFails(stmt) ==
    /\ ~loaded /\ ~Loadable
    /\ reply' = Answer(stmt, "INDEX_ERROR", <<>>)
    /\ UNCHANGED <<columns, file, runtime>>

\* The process ends and forgets the table; with an error, after it has printed it.
Ends == loaded' = FALSE /\ index' = <<>> /\ next_id' = 0

Exit == loaded /\ Ends /\ UNCHANGED <<columns, file, reply>>

-----------------------------------------------------------------------------
(* INSERT.                                                                 *)

Distinct(list) == \A i, j \in DOMAIN list : list[i] = list[j] => i = j

\* The checks of build_insert_row_existing_behavior.
PlainInsertAllowed(stmt) ==
    IF stmt.columns = <<>> THEN Len(stmt.values) = Len(columns)
    ELSE /\ Len(stmt.columns) = Len(stmt.values)
         /\ \A i \in DOMAIN stmt.columns : FindColumn(stmt.columns[i]) # 0
         /\ Distinct(stmt.columns)

AutoIdInsertAllowed_IdToo(stmt) ==
    IF stmt.columns = <<>> THEN Len(stmt.values) = Len(columns) - 1
    ELSE /\ Len(stmt.columns) = Len(stmt.values)
         /\ \A i \in DOMAIN stmt.columns : FindColumn(stmt.columns[i]) # 0
         /\ Distinct(stmt.columns)

\* validate_insert_columns_for_auto_id.
AutoIdInsertAllowed(stmt) ==
    IF stmt.columns = <<>> THEN Len(stmt.values) = Len(columns) - 1
    ELSE /\ Len(stmt.columns) = Len(stmt.values)
         /\ \A i \in DOMAIN stmt.columns : FindColumn(stmt.columns[i]) \notin {0, IdColumn}
         /\ Distinct(stmt.columns)

\* The value a statement with a list of columns gives the i-th column.
NamedValue(stmt, i) ==
    LET given == {n \in DOMAIN stmt.columns : FindColumn(stmt.columns[n]) = i}
    IN IF given = {} THEN "" ELSE stmt.values[CHOOSE n \in given : TRUE]

PlainRow(stmt) ==
    [i \in DOMAIN columns |->
        IF stmt.columns = <<>> THEN stmt.values[i] ELSE NamedValue(stmt, i)]

RowWithId_IdFirst(stmt, id) ==
    [i \in DOMAIN columns |->
        IF i = IdColumn THEN IdText[id]
        ELSE IF stmt.columns = <<>> THEN stmt.values[IF i = 1 THEN 1 ELSE i - 1]
        ELSE NamedValue(stmt, i)]

\* build_insert_row_with_generated_id: the values fill the columns but for the id.
RowWithId(stmt, id) ==
    [i \in DOMAIN columns |->
        IF i = IdColumn THEN IdText[id]
        ELSE IF stmt.columns = <<>> THEN stmt.values[IF i < IdColumn THEN i ELSE i - 1]
        ELSE NamedValue(stmt, i)]

InsertRefused(stmt) ==
    /\ loaded
    /\ IF IdColumn = 0 THEN ~PlainInsertAllowed(stmt)
       ELSE ~AutoIdInsertAllowed(stmt) \/ next_id = 0
    /\ reply' = Answer(stmt, "EXEC_ERROR", <<>>)
    /\ Ends
    /\ UNCHANGED <<columns, file>>

PlainInsert(stmt) ==
    /\ loaded /\ IdColumn = 0 /\ PlainInsertAllowed(stmt) /\ Len(file) < MaxRows
    /\ file' = Append(file, PlainRow(stmt))
    /\ reply' = Answer(stmt, "OK", <<<<>>>>)
    /\ UNCHANGED <<columns, runtime>>

AutoIdInsert(stmt) ==
    /\ loaded /\ IdColumn # 0 /\ AutoIdInsertAllowed(stmt) /\ next_id # 0 /\ Len(file) < MaxRows
    /\ file' = Append(file, RowWithId(stmt, next_id))
    /\ index' = [k \in DOMAIN index \cup {next_id} |->
                   IF k = next_id THEN Len(file) + 1 ELSE index[k]]
    /\ next_id' = (next_id + 1) % (MaxId + 1)
    /\ reply' = Answer(stmt, "OK", <<<<IdText[next_id]>>>>)
    /\ UNCHANGED <<columns, loaded>>

-----------------------------------------------------------------------------
(* SELECT.                                                                 *)

\* validate_select_columns.
SelectAllowed(stmt) ==
    /\ \A i \in DOMAIN stmt.columns : FindColumn(stmt.columns[i]) # 0
    /\ stmt.where # <<>> => FindColumn(stmt.where[1]) # 0

CanUseIndex_AnyColumn(stmt) ==
    IdColumn # 0 /\ stmt.where # <<>> /\ ParseId(stmt.where[2]) # 0

\* can_use_id_index.
CanUseIndex(stmt) ==
    IdColumn # 0 /\ stmt.where # <<>> /\ stmt.where[1] = "id" /\ ParseId(stmt.where[2]) # 0

\* row_matches_where_clause.
Matches(stmt, where_column, row) == stmt.where = <<>> \/ row[where_column] = stmt.where[2]

\* project_single_row.
Project(stmt, row) ==
    IF stmt.columns = <<>> THEN row
    ELSE [i \in DOMAIN stmt.columns |-> row[FindColumn(stmt.columns[i])]]

\* execute_select_with_id_index.
IndexAnswer(stmt) ==
    LET id == ParseId(stmt.where[2])
    IN IF id \in DOMAIN index /\ Matches(stmt, IdColumn, file[index[id]])
       THEN <<Project(stmt, file[index[id]])>> ELSE <<>>

\* execute_select_with_full_scan: select_full_scan_callback takes the rows in turn.
ScanAnswer(stmt) ==
    LET where_column == IF stmt.where = <<>> THEN 0 ELSE FindColumn(stmt.where[1])
        found[n \in 0..Len(file)] ==
            IF n = 0 THEN <<>>
            ELSE IF Matches(stmt, where_column, file[n])
            THEN Append(found[n - 1], Project(stmt, file[n])) ELSE found[n - 1]
    IN found[Len(file)]

SelectRefused(stmt) ==
    /\ loaded /\ ~SelectAllowed(stmt)
    /\ reply' = Answer(stmt, "EXEC_ERROR", <<>>)
    /\ Ends
    /\ UNCHANGED <<columns, file>>

SelectByIndex(stmt) ==
    /\ loaded /\ SelectAllowed(stmt) /\ CanUseIndex(stmt)
    /\ reply' = Answer(stmt, "OK", IndexAnswer(stmt))
    /\ UNCHANGED <<columns, file, runtime>>

SelectByScan(stmt) ==
    /\ loaded /\ SelectAllowed(stmt) /\ ~CanUseIndex(stmt)
    /\ reply' = Answer(stmt, "OK", ScanAnswer(stmt))
    /\ UNCHANGED <<columns, file, runtime>>

\* An allocation or a read fails: the partial result is freed, the error ends the process.
StatementFails(stmt) ==
    /\ loaded
    /\ reply' = Answer(stmt, "EXEC_ERROR", <<>>)
    /\ Ends
    /\ UNCHANGED <<columns, file>>

Init ==
    /\ \E start \in FilesBefore : columns = start[1] /\ file = start[2]
    /\ loaded = FALSE /\ index = <<>> /\ next_id = 0
    /\ reply = Answer(NoStatement, "OK", <<>>)

Next ==
    \/ Load \/ Exit
    \/ \E stmt \in Inserts : InsertRefused(stmt) \/ PlainInsert(stmt) \/ AutoIdInsert(stmt)
    \/ \E stmt \in Selects : SelectRefused(stmt) \/ SelectByIndex(stmt) \/ SelectByScan(stmt)
    \/ \E stmt \in Inserts \cup Selects : StatementFails(stmt) \/ LoadFails(stmt)

Spec == Init /\ [][Next]_vars
-----------------------------------------------------------------------------
AsFunction(names, row) ==
    [name \in {names[i] : i \in DOMAIN names} |-> row[CHOOSE i \in DOMAIN names : names[i] = name]]

AsTable(names, rows) == [n \in DOMAIN rows |-> AsFunction(names, rows[n])]

Promise == INSTANCE Table WITH
    table <- AsTable(columns, file),
    IdTexts <- {IdText[id] : id \in 1..MaxId},
    Before <- {<<start[1], AsTable(start[1], start[2])>> : start \in FilesBefore}

\* Every INSERT adds the row its column names say, with an id of its own, and every
\* SELECT answers from those rows in their order, wherever the id column stands and
\* through whichever path (build_insert_row_*, project_single_row, row_matches_*).  A row
\* is what the file gives back: the carriage return that read_line takes off the end of a
\* last value is not in it (RowCodec).
ImplementsTable == Promise!Spec

\* A statement is refused for its columns exactly when the table has no such columns,
\* some are named twice, the number of values is wrong or the id is given.
RefusalsAreRight ==
    loaded =>
        /\ \A stmt \in Inserts :
              Promise!IsInsertable(stmt) <=>
                  IF IdColumn = 0 THEN PlainInsertAllowed(stmt) ELSE AutoIdInsertAllowed(stmt)
        /\ \A stmt \in Selects : Promise!IsSelectable(stmt) <=> SelectAllowed(stmt)

\* Where the id index may answer it answers as the full scan would, also for ids that
\* are not stored or not spelled as the program spells them (can_use_id_index).
PathsAgree ==
    loaded =>
        \A stmt \in Selects :
            SelectAllowed(stmt) /\ CanUseIndex(stmt) => IndexAnswer(stmt) = ScanAnswer(stmt)
=============================================================================
