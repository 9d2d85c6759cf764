------------------------------- MODULE Engine -------------------------------
(***************************************************************************)
(* The engine on one table with an id column: processes (src/main.c) that  *)
(* run INSERT and SELECT statements (src/executor.c) over the table's data *)
(* file (src/storage.c) and the runtime each process keeps of it: the id   *)
(* index and next_id (src/runtime.c).  The first error ends a process.     *)
(* The index is the map of IndexMap, which BPTree is checked to implement. *)
(*                                                                         *)
(* The data file is the sequence of the pieces appended to it; an offset   *)
(* is the place of a piece.  A piece is a whole row, or what a failing or  *)
(* crashing append leaves of one: cut inside the "id", somewhere later in  *)
(* the "line", or in the middle of an "escape".  A cut piece has no        *)
(* newline, so the next piece continues its line.  The id column is the    *)
(* first one; of the other values only their being whole is kept.          *)
(***************************************************************************)
EXTENDS Integers, Sequences, FiniteSets

CONSTANTS Procs,         \* the processes
          MaxId,         \* UINT64_MAX
          StoredBefore,  \* the ids the data file may hold at the start, in its order
          CanCrash,      \* TRUE iff a process may die between two steps
          MaxTorn,       \* bounds the appends that leave part of a row
          MaxFailures,   \* bounds the failing allocations of the index
          MaxPieces      \* bounds the data file

ASSUME MaxIdAssumption == MaxId \in Nat \ {0}
ASSUME StoredBeforeAssumption ==
    \A ids \in StoredBefore :
        ids \in Seq(1..MaxId) /\ \A m, n \in DOMAIN ids : ids[m] = ids[n] => m = n
ASSUME BoundsAssumption ==
    CanCrash \in BOOLEAN /\ MaxTorn \in Nat /\ MaxFailures \in Nat /\ MaxPieces \in Nat

VARIABLES file,             \* the data file: a sequence of pieces
          pc,               \* where each process is
          loaded,           \* whether it has the table's runtime in its cache
          index, next_id,   \* TableRuntime.id_index and next_id
          row_offset,       \* the offset its running INSERT was given
          session,          \* the ids it has inserted since it started
          acked,            \* every id some process reported as inserted
          reply,            \* the last answer any process printed
          torn, failures    \* how many appends tore, and allocations failed

runtime == <<loaded, index, next_id>>
bounds == <<torn, failures>>
vars == <<file, pc, runtime, row_offset, session, acked, reply, bounds>>

EmptyIndex == <<>>
WholeRow(id) == [id |-> id, cut |-> "no"]
Reply(op, id, status, found) ==
    [op |-> op, id |-> id, status |-> status, found |-> found]

Init ==
    /\ \E ids \in StoredBefore : file = [i \in 1..Len(ids) |-> WholeRow(ids[i])]
    /\ pc = [p \in Procs |-> "down"]
    /\ loaded = [p \in Procs |-> FALSE]
    /\ index = [p \in Procs |-> EmptyIndex]
    /\ next_id = [p \in Procs |-> 0]
    /\ row_offset = [p \in Procs |-> 0]
    /\ session = [p \in Procs |-> {}]
    /\ acked = {} /\ reply = Reply("none", 0, "OK", {})
    /\ torn = 0 /\ failures = 0

-----------------------------------------------------------------------------
(* Reading the data file: read_line, parse_line_into_row.                  *)

LineStarts == {i \in DOMAIN file : i = 1 \/ file[i - 1].cut = "no"}

\* The power of ten the digits of n need in front of them.
Shift(n) ==
    LET power[m \in 0..n] == IF m < 10 THEN 10 ELSE 10 * power[m \div 10]
    IN power[n]

\* The digits of two ids in a row; parse_canonical_positive_uint64 refuses what
\* exceeds UINT64_MAX, which 0 stands for.
Joined(front, back) ==
    LET value == front * Shift(back) + back
    IN IF back = 0 \/ value > MaxId THEN 0 ELSE value

\* What the first digits of n spell, one, several or all of them.
FirstDigits(n) == ({n} \cup {n \div Shift(m) : m \in 1..n}) \ {0}

\* The id of the row read_line and parse_stored_id_value find at an offset.
IdAt(offset) ==
    LET id[i \in DOMAIN file] ==
            IF file[i].cut = "id" /\ i < Len(file) THEN Joined(file[i].id, id[i + 1])
            ELSE file[i].id
    IN IF file[offset].cut = "id" THEN id[offset] ELSE file[offset].id

MalformedAt_LastOnly(offset) ==
    /\ file[Len(file)].cut = "escape"
    /\ \A i \in offset..Len(file) : file[i].cut # "no"

\* split_escaped_row refuses a line with half an escape, whether the line ends there or
\* goes on with the digits of another row.
MalformedAt(offset) ==
    \E i \in offset..Len(file) :
        file[i].cut = "escape" /\ \A j \in offset..i : file[j].cut # "no"

RowAt(offset) == [id |-> IdAt(offset), whole |-> file[offset].cut = "no"]

StoredRows == {RowAt(i) : i \in LineStarts}
StoredIds == {IdAt(i) : i \in LineStarts}
FileReadable == \A i \in LineStarts : ~MalformedAt(i)

\* build_id_index_for_table accepts the file.
Loadable ==
    /\ FileReadable
    /\ \A i \in LineStarts : IdAt(i) # 0 /\ IdAt(i) # MaxId
    /\ \A i, j \in LineStarts : IdAt(i) = IdAt(j) => i = j

LoadedIndex == [k \in StoredIds |-> CHOOSE i \in LineStarts : IdAt(i) = k]

LoadedNextId_Count == Cardinality(StoredIds) + 1

LoadedNextId ==
    IF StoredIds = {} THEN 1
    ELSE 1 + (CHOOSE m \in StoredIds : \A k \in StoredIds : k <= m)

-----------------------------------------------------------------------------
\* free_execution_context: the process forgets everything.
Ends(p) ==
    /\ pc' = [pc EXCEPT ![p] = "down"]
    /\ loaded' = [loaded EXCEPT ![p] = FALSE]
    /\ index' = [index EXCEPT ![p] = EmptyIndex]
    /\ next_id' = [next_id EXCEPT ![p] = 0]
    /\ row_offset' = [row_offset EXCEPT ![p] = 0]
    /\ session' = [session EXCEPT ![p] = {}]

\* main prints the error of a statement and ends the process.
EndsWithError(p, op, id, status) ==
    /\ reply' = Reply(op, id, status, {})
    /\ UNCHANGED acked
    /\ Ends(p)

\* An allocation of the index fails.
OutOfMemory == failures < MaxFailures /\ failures' = failures + 1

Ready(p) == pc[p] = "idle" /\ loaded[p]

Start(p) ==
    /\ pc[p] = "down"
    /\ pc' = [pc EXCEPT ![p] = "idle"]
    /\ UNCHANGED <<file, runtime, row_offset, session, acked, reply, bounds>>

\* The script has ended.
Exit(p) ==
    /\ pc[p] = "idle"
    /\ Ends(p)
    /\ UNCHANGED <<file, acked, reply, bounds>>

Crash(p) ==
    /\ CanCrash /\ pc[p] \in {"append", "index"}
    /\ Ends(p)
    /\ UNCHANGED <<file, acked, reply, bounds>>

\* get_or_load_table_runtime on the first statement that names the table.
Load(p) ==
    /\ pc[p] = "idle" /\ ~loaded[p] /\ Loadable
    /\ loaded' = [loaded EXCEPT ![p] = TRUE]
    /\ index' = [index EXCEPT ![p] = LoadedIndex]
    /\ next_id' = [next_id EXCEPT ![p] = LoadedNextId]
    /\ UNCHANGED <<file, pc, row_offset, session, acked, reply, bounds>>

LoadFails(p) ==
    /\ pc[p] = "idle" /\ ~loaded[p]
    /\ \/ ~Loadable /\ UNCHANGED failures
       \/ file # <<>> /\ OutOfMemory
    /\ EndsWithError(p, "load", 0, "INDEX_ERROR")
    /\ UNCHANGED <<file, torn>>

\* A statement the parser or the column checks of the executor refuse.
Reject(p) ==
    /\ pc[p] = "idle"
    /\ EndsWithError(p, "reject", 0, "EXEC_ERROR")
    /\ UNCHANGED <<file, bounds>>

-----------------------------------------------------------------------------
(* execute_insert.                                                         *)

InsertOverflow(p) ==
    /\ Ready(p) /\ next_id[p] = 0
    /\ EndsWithError(p, "insert", 0, "EXEC_ERROR")
    /\ UNCHANGED <<file, bounds>>

EndOfFile_NoSeek == 1

\* append_row_to_table_with_offset: fseek to the end, ftell ...
EndOfFile == Len(file) + 1

InsertOpen_NoOverflowCheck(p) ==
    /\ Ready(p) /\ Len(file) < MaxPieces
    /\ row_offset' = [row_offset EXCEPT ![p] = EndOfFile]
    /\ pc' = [pc EXCEPT ![p] = "append"]
    /\ UNCHANGED <<file, runtime, session, acked, reply, bounds>>

InsertOpen(p) ==
    /\ Ready(p) /\ next_id[p] # 0 /\ Len(file) < MaxPieces
    /\ row_offset' = [row_offset EXCEPT ![p] = EndOfFile]
    /\ pc' = [pc EXCEPT ![p] = "append"]
    /\ UNCHANGED <<file, runtime, session, acked, reply, bounds>>

InsertAppend_AtOffset(p) ==
    /\ pc[p] = "append"
    /\ file' = [i \in DOMAIN file \cup {row_offset[p]} |->
                   IF i = row_offset[p] THEN WholeRow(next_id[p]) ELSE file[i]]
    /\ pc' = [pc EXCEPT ![p] = "index"]
    /\ UNCHANGED <<runtime, row_offset, session, acked, reply, bounds>>

\* ... and the row goes to wherever the file then ends (mode "ab+").
InsertAppend(p) ==
    /\ pc[p] = "append"
    /\ file' = Append(file, WholeRow(next_id[p]))
    /\ pc' = [pc EXCEPT ![p] = "index"]
    /\ UNCHANGED <<runtime, row_offset, session, acked, reply, bounds>>

AppendFails_Ignored(p) ==
    /\ pc[p] = "append"
    /\ pc' = [pc EXCEPT ![p] = "index"]
    /\ UNCHANGED <<file, runtime, row_offset, session, acked, reply, bounds>>

\* Nothing could be written.
AppendFails(p) ==
    /\ pc[p] = "append"
    /\ EndsWithError(p, "insert", next_id[p], "STORAGE_ERROR")
    /\ UNCHANGED <<file, bounds>>

\* All of the row was written, and then fclose failed: the row stays, the call reports an
\* error.
AppendUnconfirmed(p) ==
    /\ pc[p] = "append"
    /\ file' = Append(file, WholeRow(next_id[p]))
    /\ EndsWithError(p, "insert", next_id[p], "STORAGE_ERROR")
    /\ UNCHANGED bounds

\* Part of the row was written: the call reports it, unless the process died.
AppendTorn(p) ==
    /\ pc[p] = "append" /\ torn < MaxTorn /\ torn' = torn + 1
    /\ \/ \E cut \in {"line", "escape"} :
             file' = Append(file, [id |-> next_id[p], cut |-> cut])
       \/ \E front \in FirstDigits(next_id[p]) :
             file' = Append(file, [id |-> front, cut |-> "id"])
    /\ \/ EndsWithError(p, "insert", next_id[p], "STORAGE_ERROR")
       \/ CanCrash /\ Ends(p) /\ UNCHANGED <<acked, reply>>
    /\ UNCHANGED failures

\* bptree_insert, then next_id += 1 in uint64_t.
InsertIndex(p) ==
    /\ pc[p] = "index" /\ next_id[p] \notin DOMAIN index[p]
    /\ index' = [index EXCEPT ![p] =
          [k \in DOMAIN @ \cup {next_id[p]} |->
              IF k = next_id[p] THEN row_offset[p] ELSE @[k]]]
    /\ next_id' = [next_id EXCEPT ![p] = (@ + 1) % (MaxId + 1)]
    /\ session' = [session EXCEPT ![p] = @ \cup {next_id[p]}]
    /\ acked' = acked \cup {next_id[p]}
    /\ reply' = Reply("insert", next_id[p], "OK", {})
    /\ pc' = [pc EXCEPT ![p] = "idle"]
    /\ row_offset' = [row_offset EXCEPT ![p] = 0]
    /\ UNCHANGED <<file, loaded, bounds>>

\* The index refuses the id; the row stays in the file.
InsertIndexFails(p) ==
    /\ pc[p] = "index"
    /\ IF next_id[p] \in DOMAIN index[p] THEN UNCHANGED failures ELSE OutOfMemory
    /\ EndsWithError(p, "insert", next_id[p], "INDEX_ERROR")
    /\ UNCHANGED <<file, torn>>

-----------------------------------------------------------------------------
(* execute_select.                                                         *)

\* execute_select_with_id_index: the row the index leads to, if it is the right one.
IndexAnswer(p, k) ==
    IF k \in DOMAIN index[p] /\ IdAt(index[p][k]) = k THEN {RowAt(index[p][k])} ELSE {}

ScanAnswer(k) == {row \in StoredRows : row.id = k}

SelectById(p, k) ==
    /\ Ready(p)
    /\ k \in DOMAIN index[p] => ~MalformedAt(index[p][k])
    /\ reply' = Reply("select", k, "OK", {row.id : row \in IndexAnswer(p, k)})
    /\ UNCHANGED <<file, pc, runtime, row_offset, session, acked, bounds>>

SelectAll(p) ==
    /\ Ready(p) /\ FileReadable
    /\ reply' = Reply("scan", 0, "OK", StoredIds)
    /\ UNCHANGED <<file, pc, runtime, row_offset, session, acked, bounds>>

\* A line that cannot be parsed ends the statement, and so the process.
SelectFails(p) ==
    /\ Ready(p) /\ ~FileReadable
    /\ EndsWithError(p, "select", 0, "STORAGE_ERROR")
    /\ UNCHANGED <<file, bounds>>

Next ==
    \E p \in Procs :
        \/ Start(p) \/ Exit(p) \/ Crash(p)
        \/ Load(p) \/ LoadFails(p) \/ Reject(p)
        \/ InsertOverflow(p) \/ InsertOpen(p) \/ InsertAppend(p)
        \/ AppendFails(p) \/ AppendUnconfirmed(p) \/ AppendTorn(p)
        \/ InsertIndex(p) \/ InsertIndexFails(p)
        \/ \E k \in 1..MaxId : SelectById(p, k)
        \/ SelectAll(p) \/ SelectFails(p)

Spec == Init /\ [][Next]_vars
-----------------------------------------------------------------------------
\* With one process at a time, what a process keeps of the table between statements is
\* what a new process would build from the file, unless the last id is used up
\* (execute_insert against build_id_index_for_table).
RestartRestores ==
    \A p \in Procs : Ready(p) =>
        /\ index[p] = LoadedIndex
        /\ next_id[p] = LoadedNextId % (MaxId + 1)
        /\ Loadable \/ MaxId \in StoredIds

\* As long as no append tears, a row reported as inserted is in the file, whole and on a
\* line of its own, also after failing appends and crashes and in other processes
\* (append_row_to_table_with_offset).
AckedRowsStay == \A k \in acked : [id |-> k, whole |-> TRUE] \in StoredRows

\* The file never repeats or reuses an id: a new row's id exceeds every id stored, up
\* to the last one, after which INSERT is refused (next_id, its wrap to 0).
IdsGrow ==
    [][Len(file') > Len(file) => \A k \in StoredIds : k < file'[Len(file')].id]_vars

\* A row a process inserted can be read back whole through its index for as long as the
\* process lives, also behind a torn line (row_offset, read_row_at_offset).
OwnRowsReadable ==
    \A p \in Procs : Ready(p) =>
        \A k \in session[p] : IndexAnswer(p, k) = {[id |-> k, whole |-> TRUE]}

\* Once an entry of an index leads to a whole row it does so until the process ends,
\* whatever other processes append or leave half written (mode "ab+").
IndexEntriesStay ==
    [][\A p \in Procs : loaded[p] /\ loaded'[p] =>
          \A k \in DOMAIN index[p] :
              RowAt(index[p][k]) = [id |-> k, whole |-> TRUE]
                  => RowAt(index[p][k])' = [id |-> k, whole |-> TRUE]]_vars

\* A row whose INSERT has not answered is not promised yet.
Unanswered == {next_id[p] : p \in {q \in Procs : pc[q] = "index"}}

Promise == INSTANCE IdTable WITH
    rows <- StoredIds \ Unanswered,
    StoredBefore <- {{ids[i] : i \in DOMAIN ids} : ids \in StoredBefore}

\* One process at a time is the table the documents describe, across crashes between
\* steps, appends that fail before or after the row is written, failing allocations and
\* restarts (execute_statement).
ImplementsIdTable == Promise!Spec

-----------------------------------------------------------------------------
(* What the documents say and the code does not keep.                      *)

\* docs/workOrder.md:953: a SELECT through the index answers as the full scan does.
IndexAgreesWithScan ==
    \A p \in Procs : Ready(p) => \A k \in 1..MaxId : IndexAnswer(p, k) = ScanAnswer(k)
=============================================================================
