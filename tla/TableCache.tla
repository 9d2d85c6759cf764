----------------------------- MODULE TableCache -----------------------------
(***************************************************************************)
(* The runtimes of several tables in one process: ExecutionContext and     *)
(* get_or_load_table_runtime (src/runtime.c), with the memory they own and *)
(* the pointer to a runtime that a statement of src/executor.c works with. *)
(*                                                                         *)
(* A runtime is a struct inside the array ctx->tables.  Growing the array  *)
(* may move it; the address of the array is a number, 0 is NULL.  Of the   *)
(* files of a table only the kind of its schema and how many rows it has   *)
(* are kept; the rows of a table with an id column are 1, 2, ...           *)
(* The nodes of an index are one block.  An insertion given up above a     *)
(* leaf it has split takes some of them out of the reach of the root, with *)
(* the greater keys: they are a second block, which no one can free.       *)
(***************************************************************************)
EXTENDS Integers, Sequences, FiniteSets

CONSTANTS Tables,      \* the names statements may use
          RowsBefore,  \* how many rows a data file may hold at the start
          MaxRows,     \* bounds the rows of a table
          MaxFailures  \* bounds the failing allocations and files

ASSUME RowsBeforeAssumption == RowsBefore \subseteq Nat /\ 0 \in RowsBefore
ASSUME BoundsAssumption == MaxRows \in Nat /\ MaxFailures \in Nat

VARIABLES schema, rows,      \* the files: the kind of each schema, the number of rows
          tables, capacity,  \* ctx->tables[0 .. table_count), table_capacity
          home,              \* the address of ctx->tables
          loading,           \* the TableRuntime get_or_load_table_runtime builds
          call,              \* the statement that runs
          table,             \* its TableRuntime pointer: an array and a slot
          pc, status,
          heap, bad_free,    \* the allocated blocks, and whether one was freed twice
          failures

files == <<schema, rows>>
cache == <<tables, capacity, home>>
memory == <<heap, bad_free>>
vars == <<files, cache, loading, call, table, pc, status, memory, failures>>

NoCall == [op |-> "none", name |-> "none"]
NoPointer == [home |-> 0, slot |-> 0]
EmptyRuntime == [name |-> "none", has_id |-> FALSE, next_id |-> 0, keys |-> {}]

\* The blocks a runtime owns; an empty tree has no node.
NameOf(runtime) == {<<"name", runtime.name>>}
SchemaOf(runtime) == {<<"schema", runtime.name>>}
IndexOf(runtime) == IF runtime.keys = {} THEN {} ELSE {<<"index", runtime.name>>}
Owned(runtime) == NameOf(runtime) \cup SchemaOf(runtime) \cup IndexOf(runtime)

\* What a split that was given up has cut off the index of a table.
CutOff(name) == <<"cut off", name>>

ArrayAt(address) == IF address = 0 THEN {} ELSE {<<"tables", address>>}

\* All that free_execution_context frees.
CacheBlocks == ArrayAt(home) \cup UNION {Owned(tables[i]) : i \in DOMAIN tables}

Frees(blocks) ==
    /\ heap' = heap \ blocks
    /\ bad_free' = (bad_free \/ ~(blocks \subseteq heap))

Allocates(blocks) == heap' = heap \cup blocks /\ UNCHANGED bad_free

Fault == failures < MaxFailures /\ failures' = failures + 1

Init ==
    /\ schema \in [Tables -> {"missing", "with_id", "without_id"}]
    /\ rows \in [Tables -> RowsBefore] /\ \A t \in Tables : schema[t] = "missing" => rows[t] = 0
    /\ tables = <<>> /\ capacity = 0 /\ home = 0
    /\ loading = EmptyRuntime /\ call = NoCall /\ table = NoPointer
    /\ pc = "idle" /\ status = "OK"
    /\ heap = {} /\ bad_free = FALSE /\ failures = 0

-----------------------------------------------------------------------------
(* get_or_load_table_runtime.                                              *)

Call(op, t) ==
    /\ pc = "idle"
    /\ call' = [op |-> op, name |-> t]
    /\ pc' = "lookup"
    /\ UNCHANGED <<files, cache, loading, table, status, memory, failures>>

LoadFails_ClosesCache(blocks, error) ==
    /\ Frees(blocks \cup CacheBlocks)
    /\ tables' = <<>> /\ capacity' = 0 /\ home' = 0
    /\ loading' = EmptyRuntime
    /\ status' = error /\ pc' = "failed"
    /\ UNCHANGED <<files, call, table>>

\* The load is given up: what it has built is freed, and the error ends the session.
LoadFails(blocks, error) ==
    /\ Frees(blocks)
    /\ loading' = EmptyRuntime
    /\ status' = error /\ pc' = "failed"
    /\ UNCHANGED <<files, cache, call, table>>

Cached(t) == {i \in DOMAIN tables : tables[i].name = t}

Found ==
    /\ pc = "lookup" /\ Cached(call.name) # {}
    /\ table' = [home |-> home,
                 slot |-> CHOOSE i \in Cached(call.name) : \A j \in Cached(call.name) : i <= j]
    /\ pc' = "use"
    /\ UNCHANGED <<files, cache, loading, call, status, memory, failures>>

NotFound ==
    /\ pc = "lookup" /\ Cached(call.name) = {}
    /\ \/ /\ loading' = [EmptyRuntime EXCEPT !.name = call.name]
          /\ Allocates(NameOf(loading'))
          /\ pc' = "schema"
          /\ UNCHANGED <<files, cache, call, table, status, failures>>
       \/ Fault /\ LoadFails({}, "EXEC_ERROR")

\* load_table_schema frees its own parts when it fails.
LoadSchema ==
    /\ pc = "schema"
    /\ \/ /\ schema[call.name] # "missing"
          /\ loading' = [loading EXCEPT !.has_id = (schema[call.name] = "with_id")]
          /\ Allocates(SchemaOf(loading))
          /\ pc' = "file"
          /\ UNCHANGED <<files, cache, call, table, status, failures>>
       \/ /\ IF schema[call.name] = "missing" THEN UNCHANGED failures ELSE Fault
          /\ LoadFails(NameOf(loading), "SCHEMA_ERROR")

EnsureDataFile ==
    /\ pc = "file"
    /\ \/ pc' = "index"
          /\ UNCHANGED <<files, cache, loading, call, table, status, memory, failures>>
       \/ Fault /\ LoadFails(NameOf(loading) \cup SchemaOf(loading), "STORAGE_ERROR")

StoredKeys == IF loading.has_id THEN 1..rows[call.name] ELSE {}

BuildIndex ==
    /\ pc = "index"
    /\ loading' = [loading EXCEPT !.keys = StoredKeys,
                       !.next_id = IF loading.has_id THEN Cardinality(StoredKeys) + 1 ELSE 0]
    /\ Allocates(IndexOf(loading'))
    /\ pc' = "publish"
    /\ UNCHANGED <<files, cache, call, table, status, failures>>

\* The scan stops at one of the rows, in the middle of its insertion or before it, or
\* the ids are used up behind the last one.
BuildFails ==
    /\ pc = "index" /\ loading.has_id /\ Fault
    /\ \E built \in 0..rows[call.name] :
          /\ loading' = [loading EXCEPT !.keys = 1..built]
          /\ \/ Allocates(IndexOf(loading'))
             \/ /\ built \in 1..(rows[call.name] - 1)
                /\ Allocates(IndexOf(loading') \cup {CutOff(loading.name)})
    /\ pc' = "unbuilt"
    /\ UNCHANGED <<files, cache, call, table, status>>

DestroyIndex_KeepsRoot ==
    /\ pc = "unbuilt"
    /\ Frees(IndexOf(loading))
    /\ pc' = "unloaded"
    /\ UNCHANGED <<files, cache, loading, call, table, status, failures>>

\* build_id_index_for_table destroys the tree it could not finish ...
DestroyIndex ==
    /\ pc = "unbuilt"
    /\ Frees(IndexOf(loading))
    /\ loading' = [loading EXCEPT !.keys = {}]
    /\ pc' = "unloaded"
    /\ UNCHANGED <<files, cache, call, table, status, failures>>

\* ... and its caller destroys it once more with the rest of the runtime.
Unload ==
    /\ pc = "unloaded"
    /\ LoadFails(Owned(loading), "INDEX_ERROR")
    /\ UNCHANGED failures

\* realloc gives the array a new place or leaves it where it is.
Realloc(new_home) ==
    /\ heap' = (heap \ ArrayAt(home)) \cup ArrayAt(new_home)
    /\ bad_free' = (bad_free \/ ~(ArrayAt(home) \subseteq heap))

Published_BeforeGrowth(new_home) == [home |-> home, slot |-> Len(tables) + 1]

\* The pointer is taken from the array after it has grown.
Published(new_home) == [home |-> new_home, slot |-> Len(tables) + 1]

\* The runtime moves into the array, which now owns its parts.
Publish(new_home, new_capacity) ==
    /\ tables' = Append(tables, loading)
    /\ capacity' = new_capacity /\ home' = new_home
    /\ table' = Published(new_home)
    /\ loading' = EmptyRuntime
    /\ pc' = "use"
    /\ UNCHANGED <<files, call, status, failures>>

PublishInPlace_PastEnd ==
    /\ pc = "publish" /\ capacity # 0
    /\ Publish(home, capacity)
    /\ UNCHANGED memory

PublishInPlace ==
    /\ pc = "publish" /\ Len(tables) # capacity
    /\ Publish(home, capacity)
    /\ UNCHANGED memory

PublishGrown ==
    /\ pc = "publish" /\ Len(tables) = capacity
    /\ \E new_home \in {home, home + 1} \ {0} :
          /\ Realloc(new_home)
          /\ Publish(new_home, IF capacity = 0 THEN 4 ELSE 2 * capacity)

GrowthFails ==
    /\ pc = "publish" /\ Len(tables) = capacity
    /\ Fault /\ LoadFails(Owned(loading), "EXEC_ERROR")

-----------------------------------------------------------------------------
(* execute_insert and execute_select with the runtime they were given.     *)

Target == tables[table.slot]

Returns ==
    /\ pc' = "idle" /\ call' = NoCall /\ table' = NoPointer

StatementFails(error) ==
    /\ status' = error /\ pc' = "failed"
    /\ UNCHANGED <<files, capacity, home, loading, call, table>>

\* Statements the column checks refuse, and SELECT or append errors. What a failed append
\* has left in a file no statement of this process reads any more.
Refused ==
    /\ pc = "use"
    /\ \E error \in {"EXEC_ERROR", "STORAGE_ERROR"} : StatementFails(error)
    /\ UNCHANGED <<tables, memory, failures>>

Select ==
    /\ pc = "use" /\ call.op = "select"
    /\ Returns
    /\ UNCHANGED <<files, cache, loading, status, memory, failures>>

InsertRow ==
    /\ pc = "use" /\ call.op = "insert" /\ rows[call.name] < MaxRows
    /\ rows' = [rows EXCEPT ![call.name] = @ + 1]
    /\ IF Target.has_id THEN pc' = "insert" /\ UNCHANGED <<call, table>> ELSE Returns
    /\ UNCHANGED <<schema, cache, loading, status, memory, failures>>

InsertIndex_LastTable ==
    /\ pc = "insert"
    /\ tables' = [tables EXCEPT ![Len(tables)].keys = @ \cup {Target.next_id},
                                ![Len(tables)].next_id = @ + 1]
    /\ Allocates({<<"index", tables[Len(tables)].name>>})
    /\ Returns
    /\ UNCHANGED <<files, capacity, home, loading, status, failures>>

\* bptree_insert and next_id += 1, through the pointer.
InsertIndex ==
    /\ pc = "insert"
    /\ tables' = [tables EXCEPT ![table.slot].keys = @ \cup {Target.next_id},
                                ![table.slot].next_id = @ + 1]
    /\ Allocates({<<"index", Target.name>>})
    /\ Returns
    /\ UNCHANGED <<files, capacity, home, loading, status, failures>>

\* The index has no room for the row, and may lose a part on the way.
InsertIndexFails ==
    /\ pc = "insert" /\ Fault
    /\ \/ UNCHANGED <<tables, memory>>
       \/ \E last \in Target.keys :
             /\ tables' = [tables EXCEPT ![table.slot].keys = {k \in @ : k <= last}]
             /\ Allocates({CutOff(Target.name)})
    /\ StatementFails("INDEX_ERROR")

\* free_execution_context, at the end of the script or after an error.
Close ==
    /\ pc \in {"idle", "failed"}
    /\ Frees(CacheBlocks)
    /\ tables' = <<>> /\ capacity' = 0 /\ home' = 0
    /\ call' = NoCall /\ table' = NoPointer
    /\ pc' = "ended"
    /\ UNCHANGED <<files, loading, status, failures>>

Ended == pc = "ended" /\ UNCHANGED vars

Next ==
    \/ \E op \in {"insert", "select"}, t \in Tables : Call(op, t)
    \/ Found \/ NotFound \/ LoadSchema \/ EnsureDataFile
    \/ BuildIndex \/ BuildFails \/ DestroyIndex \/ Unload
    \/ PublishInPlace \/ PublishGrown \/ GrowthFails
    \/ Refused \/ Select \/ InsertRow \/ InsertIndex \/ InsertIndexFails
    \/ Close \/ Ended

Spec == Init /\ [][Next]_vars
-----------------------------------------------------------------------------
\* The pointer a statement works with leads to the runtime of its table in the array as
\* it is now, also after the load of that runtime has moved the array (out_table).
PointerIsFresh ==
    table # NoPointer =>
        /\ table.home = home /\ table.slot \in DOMAIN tables
        /\ tables[table.slot].name = call.name

\* A table has at most one runtime, so that no second next_id hands out its ids, and
\* the array has room for all of them (the search by name, the growth by doubling).
OneRuntimePerTable ==
    /\ \A i, j \in DOMAIN tables : tables[i].name = tables[j].name => i = j
    /\ Len(tables) <= capacity

\* Between statements every cached runtime stands for its own file, however statements
\* on several tables and growth of the array alternate (TableRuntime.next_id).
RuntimesMatchFiles ==
    pc = "idle" =>
        \A i \in DOMAIN tables :
            LET t == tables[i].name IN
            /\ tables[i].has_id = (schema[t] = "with_id")
            /\ tables[i].has_id => /\ tables[i].keys = 1..rows[t]
                                   /\ tables[i].next_id = rows[t] + 1

\* Nothing is freed twice, though a failing index build has its tree destroyed twice and
\* the runtime is copied into the array together with its pointers. Between statements
\* exactly the runtimes in the cache own memory. At the end nothing is allocated, whichever
\* step failed, but for what a given-up split has cut off one index: no child array leads
\* there (get_or_load_table_runtime, free_execution_context, insert_into_parent).
FreedExactlyOnce ==
    /\ ~bad_free
    /\ pc = "idle" => heap = CacheBlocks
    /\ pc = "ended" =>
          \/ heap = {}
          \/ status = "INDEX_ERROR" /\ \E t \in Tables : heap = {CutOff(t)}

\* A cached runtime stays in its slot until the session ends, and only an INSERT into
\* its table changes it, which adds to its keys unless it fails and ends the session
\* (ctx->tables[ctx->table_count] = table).
CachedRuntimesStay ==
    [][pc' # "ended" =>
          \A i \in DOMAIN tables :
              /\ i \in DOMAIN tables'
              /\ tables'[i] = tables[i]
                 \/ /\ call = [op |-> "insert", name |-> tables[i].name]
                    /\ pc' = "failed" \/ tables[i].keys \subseteq tables'[i].keys]_vars
=============================================================================
