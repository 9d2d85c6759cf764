-------------------------- MODULE TableCacheProofs --------------------------
(***************************************************************************)
(* What the runtimes of a process owe their statements, for every set of   *)
(* tables, any number of rows and any pattern of failures: the pointer a   *)
(* statement works with is good, a table has one runtime, the runtimes     *)
(* stand for the files, and each block is freed once.                      *)
(***************************************************************************)
EXTENDS TableCache, SequenceTheorems, FiniteSetTheorems, TLAPS

Runtimes == [name : Tables, has_id : BOOLEAN, next_id : Nat, keys : SUBSET Nat]
Loading == {"schema", "file", "index", "unbuilt", "unloaded", "publish"}
Working == {"use", "insert"}

TypeOK ==
    /\ schema \in [Tables -> {"missing", "with_id", "without_id"}]
    /\ rows \in [Tables -> Nat]
    /\ tables \in Seq(Runtimes) /\ capacity \in Nat /\ home \in Nat
    /\ pc \in Loading => loading \in Runtimes
    /\ pc \in Loading \cup Working \cup {"lookup"} =>
          call \in [op : {"insert", "select"}, name : Tables]

\* The pointer leads to the runtime of the table in the array as it is now.
Good ==
    /\ table.home = home /\ table.slot \in DOMAIN tables
    /\ tables[table.slot].name = call.name

PointerOK ==
    /\ pc \in Working => Good
    /\ pc = "failed" => Good \/ table = NoPointer
    /\ pc \notin Working \cup {"failed"} => table = NoPointer
    /\ pc = "insert" => call.op = "insert" /\ Target.has_id

\* A runtime is loaded for a table that has none.
NamesOK ==
    /\ OneRuntimePerTable
    /\ pc \in Loading =>
          loading.name = call.name /\ \A i \in DOMAIN tables : tables[i].name # call.name

CacheInv == TypeOK /\ PointerOK /\ NamesOK

-----------------------------------------------------------------------------
LEMMA ArrayGrows ==
  ASSUME tables \in Seq(Runtimes), loading \in Runtimes
  PROVE  LET longer == Append(tables, loading)
         IN /\ longer \in Seq(Runtimes) /\ Len(tables) \in Nat /\ Len(longer) = Len(tables) + 1
            /\ DOMAIN tables = 1..Len(tables) /\ DOMAIN longer = 1..(Len(tables) + 1)
            /\ \A i \in DOMAIN tables : longer[i] = tables[i] /\ i # Len(tables) + 1
            /\ longer[Len(tables) + 1] = loading
            /\ DOMAIN longer = DOMAIN tables \cup {Len(tables) + 1}
<1>1. Append(tables, loading) \in Seq(Runtimes)
  BY AppendProperties
<1>2. Len(tables) \in Nat /\ DOMAIN tables = 1..Len(tables)
  BY LenProperties
<1>3. /\ Len(Append(tables, loading)) = Len(tables) + 1
      /\ \A i \in 1..Len(tables) : Append(tables, loading)[i] = tables[i]
      /\ Append(tables, loading)[Len(tables) + 1] = loading
  BY AppendProperties
<1>4. DOMAIN Append(tables, loading) = 1..(Len(tables) + 1)
  BY <1>1, <1>3, LenProperties
<1>5. /\ \A i \in 1..Len(tables) : i # Len(tables) + 1
      /\ 1..(Len(tables) + 1) = 1..Len(tables) \cup {Len(tables) + 1}
  <2> DEFINE n == Len(tables)
  <2>1. n \in Nat
    BY <1>2
  <2> HIDE DEF n
  <2>2. (\A i \in 1..n : i # n + 1) /\ 1..(n + 1) = 1..n \cup {n + 1}
    BY <2>1
  <2> QED BY <2>2 DEF n
<1> QED BY <1>1, <1>2, <1>3, <1>4, <1>5

LEMMA StoredCount ==
  ASSUME NEW n \in Nat
  PROVE  1..n \in SUBSET Nat /\ Cardinality(1..n) = n
BY FS_Interval

LEMMA CacheStart == Init => CacheInv
<1> SUFFICES ASSUME Init PROVE CacheInv
  OBVIOUS
<1>1. tables = <<>> /\ tables \in Seq(Runtimes) /\ DOMAIN tables = {} /\ Len(tables) = 0
  BY EmptySeq DEF Init
<1>2. capacity = 0 /\ home = 0 /\ table = NoPointer /\ pc = "idle"
  BY DEF Init
<1>3. /\ schema \in [Tables -> {"missing", "with_id", "without_id"}]
      /\ rows \in [Tables -> Nat]
  BY RowsBeforeAssumption DEF Init
<1>4. TypeOK
  BY <1>1, <1>2, <1>3 DEF TypeOK, Loading, Working
<1>5. PointerOK
  BY <1>2 DEF PointerOK, Working
<1>6. NamesOK
  BY <1>1, <1>2 DEF NamesOK, OneRuntimePerTable, Loading
<1> QED BY <1>4, <1>5, <1>6 DEF CacheInv

-----------------------------------------------------------------------------
\* A step that leaves the runtimes alone.
LEMMA CacheUntouched ==
  ASSUME CacheInv, UNCHANGED <<schema, cache, call>>, rows' \in [Tables -> Nat],
         pc' \in Loading => loading' \in Runtimes /\ loading'.name = call.name
                            /\ \A i \in DOMAIN tables : tables[i].name # call.name,
         pc' \in Loading \cup Working \cup {"lookup"} =>
            call \in [op : {"insert", "select"}, name : Tables],
         PointerOK'
  PROVE  CacheInv'
<1>1. UNCHANGED <<tables, capacity, home>>
  BY DEF cache
<1> QED BY <1>1 DEF CacheInv, TypeOK, NamesOK, OneRuntimePerTable

\* A load that is given up leaves no pointer.
LEMMA LoadFailureKeepsCache ==
  ASSUME CacheInv, pc \in Loading \cup {"lookup"}, NEW blocks, NEW error,
         LoadFails(blocks, error)
  PROVE  CacheInv'
<1>1. UNCHANGED <<schema, rows, cache, call, table>> /\ pc' = "failed"
  BY DEF LoadFails, files
<1>2. table = NoPointer
  BY DEF CacheInv, PointerOK, Working, Loading
<1>3. PointerOK'
  BY <1>1, <1>2 DEF PointerOK, Working
<1>4. rows' \in [Tables -> Nat]
  BY <1>1 DEF CacheInv, TypeOK
<1> QED BY <1>1, <1>3, <1>4, CacheUntouched DEF Loading, Working

\* Publishing a runtime: the array gains a slot, which the pointer leads to.
LEMMA PublishKeepsCache ==
  ASSUME CacheInv, pc = "publish", NEW new_home \in Nat, NEW new_capacity \in Nat,
         Publish(new_home, new_capacity), Len(tables) + 1 <= new_capacity
  PROVE  CacheInv'
<1>1. /\ tables' = Append(tables, loading) /\ capacity' = new_capacity /\ home' = new_home
      /\ table' = [home |-> new_home, slot |-> Len(tables) + 1]
      /\ pc' = "use" /\ UNCHANGED <<schema, rows, call>>
  BY DEF Publish, Published, files
<1>2. /\ tables \in Seq(Runtimes) /\ loading \in Runtimes /\ loading.name = call.name
      /\ \A i \in DOMAIN tables : tables[i].name # call.name
      /\ call \in [op : {"insert", "select"}, name : Tables]
  BY DEF CacheInv, TypeOK, NamesOK, Loading
<1>3. /\ tables' \in Seq(Runtimes) /\ Len(tables') = Len(tables) + 1
      /\ \A i \in DOMAIN tables : tables'[i] = tables[i] /\ i # Len(tables) + 1
      /\ tables'[Len(tables) + 1] = loading
      /\ DOMAIN tables' = DOMAIN tables \cup {Len(tables) + 1}
  BY <1>1, <1>2, ArrayGrows
<1>4. TypeOK'
  BY <1>1, <1>2, <1>3 DEF CacheInv, TypeOK, Loading, Working
<1>5. PointerOK'
  BY <1>1, <1>2, <1>3 DEF PointerOK, Good, Working
<1>6. NamesOK'
  BY <1>1, <1>2, <1>3 DEF CacheInv, NamesOK, OneRuntimePerTable, Loading
<1> QED BY <1>4, <1>5, <1>6 DEF CacheInv

\* InsertIndex changes the runtime the pointer leads to, and keeps its name.
LEMMA IndexedRuntime ==
  ASSUME CacheInv, InsertIndex
  PROVE  /\ tables' \in Seq(Runtimes) /\ DOMAIN tables' = DOMAIN tables /\ Len(tables') = Len(tables)
         /\ table.slot \in DOMAIN tables /\ Target \in Runtimes /\ Target.name = call.name
         /\ Target.has_id /\ call.op = "insert"
         /\ tables'[table.slot] = [Target EXCEPT !.keys = @ \cup {Target.next_id},
                                                 !.next_id = @ + 1]
         /\ \A i \in DOMAIN tables : i # table.slot => tables'[i] = tables[i]
<1>1. /\ tables \in Seq(Runtimes) /\ table.slot \in DOMAIN tables /\ Target.name = call.name
      /\ Target.has_id /\ call.op = "insert"
  BY DEF InsertIndex, CacheInv, TypeOK, PointerOK, Good, Working, Target
<1>2. DOMAIN tables = 1..Len(tables) /\ Len(tables) \in Nat
  BY <1>1, LenProperties
<1>3. Target \in Runtimes
  BY <1>1, <1>2, ElementOfSeq DEF Target
<1> DEFINE new == [Target EXCEPT !.keys = @ \cup {Target.next_id}, !.next_id = @ + 1]
<1>4. new \in Runtimes
  <2>1. /\ Target.next_id \in Nat /\ Target.next_id + 1 \in Nat
        /\ Target.keys \cup {Target.next_id} \in SUBSET Nat
    BY <1>3 DEF Runtimes
  <2> QED BY <1>3, <2>1 DEF Runtimes
<1>5. tables' = [tables EXCEPT ![table.slot] = new]
  BY DEF InsertIndex, Target
<1> HIDE DEF new
<1>6. tables' \in Seq(Runtimes) /\ Len(tables') = Len(tables)
  BY <1>1, <1>2, <1>4, <1>5, ExceptSeq
<1>7. /\ DOMAIN tables' = DOMAIN tables /\ tables'[table.slot] = new
      /\ \A i \in DOMAIN tables : i # table.slot => tables'[i] = tables[i]
  BY <1>1, <1>5
<1> QED BY <1>1, <1>3, <1>6, <1>7 DEF new

\* The runtime a failing INSERT has cut the greater keys off keeps its place and its name.
LEMMA CutRuntime ==
  ASSUME CacheInv, pc = "insert", NEW last \in Target.keys,
         tables' = [tables EXCEPT ![table.slot].keys = {k \in @ : k <= last}]
  PROVE  /\ tables' \in Seq(Runtimes) /\ DOMAIN tables' = DOMAIN tables /\ Len(tables') = Len(tables)
         /\ table.slot \in DOMAIN tables /\ Target.name \in Tables
         /\ call = [op |-> "insert", name |-> tables[table.slot].name]
         /\ \A i \in DOMAIN tables : i # table.slot => tables'[i] = tables[i]
         /\ \A i \in DOMAIN tables : tables'[i].name = tables[i].name
         /\ \A i \in DOMAIN tables : Owned(tables'[i]) = Owned(tables[i])
<1>1. /\ tables \in Seq(Runtimes) /\ table.slot \in DOMAIN tables
      /\ call = [op |-> "insert", name |-> tables[table.slot].name]
  <2>1. call \in [op : {"insert", "select"}, name : Tables]
    BY DEF CacheInv, TypeOK, Working
  <2>2. call.op = "insert" /\ call.name = tables[table.slot].name
    BY DEF CacheInv, PointerOK, Good, Working
  <2> QED BY <2>1, <2>2 DEF CacheInv, TypeOK, PointerOK, Good, Working
<1>2. DOMAIN tables = 1..Len(tables) /\ Len(tables) \in Nat
  BY <1>1, LenProperties
<1>3. Target \in Runtimes
  BY <1>1, <1>2, ElementOfSeq DEF Target
<1> DEFINE kept == {k \in Target.keys : k <= last}
           new == [Target EXCEPT !.keys = kept]
<1>4. kept \in SUBSET Nat /\ last \in kept
  BY <1>3 DEF Runtimes
<1>5. tables' = [tables EXCEPT ![table.slot] = new]
  BY DEF Target
<1> HIDE DEF kept
<1>6. new \in Runtimes /\ new.name = Target.name /\ new.keys # {} /\ Target.keys # {}
  BY <1>3, <1>4 DEF Runtimes
<1> HIDE DEF new
<1>7. tables' \in Seq(Runtimes) /\ Len(tables') = Len(tables)
  BY <1>1, <1>2, <1>5, <1>6, ExceptSeq
<1>8. /\ DOMAIN tables' = DOMAIN tables /\ tables'[table.slot] = new
      /\ \A i \in DOMAIN tables : i # table.slot => tables'[i] = tables[i]
  BY <1>1, <1>5
<1>9. new.name = tables[table.slot].name /\ Owned(new) = Owned(tables[table.slot])
  BY <1>6 DEF Target, Owned, NameOf, SchemaOf, IndexOf
<1>10. \A i \in DOMAIN tables : tables'[i].name = tables[i].name /\ Owned(tables'[i]) = Owned(tables[i])
  BY <1>8, <1>9
<1>11. Target.name \in Tables
  BY <1>3 DEF Runtimes
<1> QED BY <1>1, <1>7, <1>8, <1>10, <1>11

LEMMA CacheStep == CacheInv /\ [Next]_vars => CacheInv'
<1> SUFFICES ASSUME CacheInv, [Next]_vars PROVE CacheInv'
  OBVIOUS
<1>1. /\ schema \in [Tables -> {"missing", "with_id", "without_id"}] /\ rows \in [Tables -> Nat]
      /\ tables \in Seq(Runtimes) /\ capacity \in Nat /\ home \in Nat
      /\ Len(tables) \in Nat /\ Len(tables) <= capacity
  BY LenProperties DEF CacheInv, TypeOK, NamesOK, OneRuntimePerTable
<1>2. ASSUME NEW op \in {"insert", "select"}, NEW t \in Tables, Call(op, t) PROVE CacheInv'
  <2>1. /\ UNCHANGED <<schema, rows, cache, table>> /\ pc = "idle" /\ pc' = "lookup"
        /\ call' = [op |-> op, name |-> t]
    BY <1>2 DEF Call, files
  <2>2. UNCHANGED <<tables, capacity, home>>
    BY <2>1 DEF cache
  <2>3. table' = NoPointer
    BY <2>1 DEF CacheInv, PointerOK, Working
  <2>4. TypeOK'
    BY <1>1, <2>1, <2>2 DEF TypeOK, Loading, Working
  <2>5. PointerOK'
    BY <2>1, <2>3 DEF PointerOK, Working
  <2>6. NamesOK'
    BY <2>1, <2>2 DEF CacheInv, NamesOK, OneRuntimePerTable, Loading
  <2> QED BY <2>4, <2>5, <2>6 DEF CacheInv
<1>3. CASE Found
  <2>1. /\ UNCHANGED <<schema, rows, cache, call>> /\ pc = "lookup" /\ pc' = "use"
        /\ Cached(call.name) # {} /\ table'.home = home
        /\ table'.slot = CHOOSE i \in Cached(call.name) : \A j \in Cached(call.name) : i <= j
    BY <1>3 DEF Found, files
  <2>2. Cached(call.name) \in SUBSET Nat /\ Cached(call.name) \subseteq DOMAIN tables
    BY <1>1, LenProperties DEF Cached
  <2>3. table'.slot \in Cached(call.name)
    <3>1. PICK i \in Cached(call.name) : TRUE
      BY <2>1
    <3>2. \A j, k \in Cached(call.name) : j = k
      BY DEF Cached, CacheInv, NamesOK, OneRuntimePerTable
    <3>3. \A j \in Cached(call.name) : i <= j
      BY <2>2, <3>2
    <3> QED BY <2>1, <3>3
  <2>4. PointerOK'
    BY <2>1, <2>3 DEF PointerOK, Good, Working, Cached, cache
  <2>5. call \in [op : {"insert", "select"}, name : Tables]
    BY <2>1 DEF CacheInv, TypeOK
  <2> QED BY <1>1, <2>1, <2>4, <2>5, CacheUntouched DEF Loading
<1>4. CASE NotFound
  <2>1. CASE LoadFails({}, "EXEC_ERROR")
    BY <1>4, <2>1, LoadFailureKeepsCache DEF NotFound
  <2>2. CASE ~LoadFails({}, "EXEC_ERROR")
    <3>1. /\ UNCHANGED <<schema, rows, cache, call, table>> /\ pc = "lookup" /\ pc' = "schema"
          /\ loading' = [EmptyRuntime EXCEPT !.name = call.name] /\ Cached(call.name) = {}
      BY <1>4, <2>2 DEF NotFound, files
    <3>2. call \in [op : {"insert", "select"}, name : Tables] /\ call.name \in Tables
      BY <3>1 DEF CacheInv, TypeOK
    <3>3. loading' \in Runtimes /\ loading'.name = call.name
      BY <3>1, <3>2 DEF EmptyRuntime, Runtimes
    <3>4. \A i \in DOMAIN tables : tables[i].name # call.name
      BY <3>1 DEF Cached
    <3>5. PointerOK'
      BY <3>1 DEF CacheInv, PointerOK, Working
    <3> QED BY <1>1, <3>1, <3>2, <3>3, <3>4, <3>5, CacheUntouched
  <2> QED BY <2>1, <2>2
<1>5. CASE LoadSchema \/ EnsureDataFile \/ BuildIndex \/ BuildFails \/ DestroyIndex \/ Unload
  <2>1. CASE \E blocks, error : LoadFails(blocks, error)
    BY <1>5, <2>1, LoadFailureKeepsCache
    DEF LoadSchema, EnsureDataFile, BuildIndex, BuildFails, DestroyIndex, Unload, Loading
  <2>2. CASE ~\E blocks, error : LoadFails(blocks, error)
    <3>1. /\ UNCHANGED <<schema, rows, cache, call, table>>
          /\ pc \in Loading /\ pc' \in Loading
      BY <1>5, <2>2
      DEF LoadSchema, EnsureDataFile, BuildIndex, BuildFails, DestroyIndex, Unload, files, Loading
    <3>2. /\ loading \in Runtimes /\ loading.name = call.name
          /\ \A i \in DOMAIN tables : tables[i].name # call.name
          /\ call \in [op : {"insert", "select"}, name : Tables] /\ call.name \in Tables
      BY <3>1 DEF CacheInv, TypeOK, NamesOK
    <3>3. loading' \in Runtimes /\ loading'.name = call.name
      <4>1. CASE LoadSchema
        BY <2>2, <3>2, <4>1 DEF LoadSchema, Runtimes
      <4>2. CASE EnsureDataFile
        BY <2>2, <3>2, <4>2 DEF EnsureDataFile
      <4>3. CASE BuildIndex
        <5>1. loading' = [loading EXCEPT !.keys = StoredKeys,
                !.next_id = IF loading.has_id THEN Cardinality(StoredKeys) + 1 ELSE 0]
          BY <2>2, <4>3 DEF BuildIndex
        <5>2. rows[call.name] \in Nat
          BY <1>1, <3>2
        <5>3. StoredKeys \in SUBSET Nat /\ Cardinality(StoredKeys) \in Nat
          BY <5>2, StoredCount, FS_EmptySet DEF StoredKeys
        <5> DEFINE next == IF loading.has_id THEN Cardinality(StoredKeys) + 1 ELSE 0
        <5>4. next \in Nat
          BY <5>3
        <5> HIDE DEF next
        <5>5. loading' = [loading EXCEPT !.keys = StoredKeys, !.next_id = next]
          BY <5>1 DEF next
        <5> QED BY <3>2, <5>3, <5>4, <5>5 DEF Runtimes
      <4>4. CASE BuildFails
        <5>1. PICK built \in 0..rows[call.name] : loading' = [loading EXCEPT !.keys = 1..built]
          BY <4>4 DEF BuildFails
        <5>2. rows[call.name] \in Nat
          BY <1>1, <3>2
        <5>3. 1..built \in SUBSET Nat
          BY <5>2
        <5> QED BY <3>2, <5>1, <5>3 DEF Runtimes
      <4>5. CASE DestroyIndex
        BY <3>2, <4>5 DEF DestroyIndex, Runtimes
      <4>6. CASE Unload
        BY <2>2, <4>6 DEF Unload
      <4> QED BY <1>5, <4>1, <4>2, <4>3, <4>4, <4>5, <4>6
    <3>4. PointerOK'
      BY <3>1 DEF CacheInv, PointerOK, Working, Loading
    <3> QED BY <1>1, <3>1, <3>2, <3>3, <3>4, CacheUntouched
  <2> QED BY <2>1, <2>2
<1>6. CASE PublishInPlace
  BY <1>1, <1>6, PublishKeepsCache DEF PublishInPlace
<1>7. CASE PublishGrown
  <2>1. PICK new_home \in {home, home + 1} \ {0} :
           Publish(new_home, IF capacity = 0 THEN 4 ELSE 2 * capacity)
    BY <1>7 DEF PublishGrown
  <2> DEFINE new_capacity == IF capacity = 0 THEN 4 ELSE 2 * capacity
  <2>2. new_home \in Nat /\ new_capacity \in Nat /\ Len(tables) + 1 <= new_capacity
    BY <1>1, <1>7 DEF PublishGrown
  <2>3. pc = "publish" /\ Publish(new_home, new_capacity)
    BY <1>7, <2>1 DEF PublishGrown
  <2> HIDE DEF new_capacity
  <2> QED BY <2>2, <2>3, PublishKeepsCache
<1>8. CASE GrowthFails
  BY <1>8, LoadFailureKeepsCache DEF GrowthFails, Loading
<1>9. CASE Refused \/ InsertIndexFails
  <2>1. /\ UNCHANGED <<schema, rows, capacity, home, call, table>>
        /\ pc \in Working /\ pc' = "failed"
    BY <1>9 DEF Refused, InsertIndexFails, StatementFails, files, Working
  <2>2. CASE UNCHANGED tables
    <3>1. PointerOK'
      BY <2>1, <2>2 DEF CacheInv, PointerOK, Good, Working
    <3> QED BY <1>1, <2>1, <2>2, <3>1, CacheUntouched DEF Loading, Working, cache
  <2>3. CASE tables' # tables
    <3>1. PICK last \in Target.keys :
             tables' = [tables EXCEPT ![table.slot].keys = {k \in @ : k <= last}]
      BY <1>9, <2>3 DEF Refused, InsertIndexFails
    <3>2. pc = "insert"
      BY <1>9, <2>3 DEF Refused, InsertIndexFails
    <3>3. /\ tables' \in Seq(Runtimes) /\ DOMAIN tables' = DOMAIN tables
          /\ Len(tables') = Len(tables)
          /\ \A i \in DOMAIN tables : tables'[i].name = tables[i].name
      BY <3>1, <3>2, CutRuntime
    <3>4. TypeOK'
      BY <1>1, <2>1, <3>3 DEF TypeOK, Loading, Working
    <3>5. PointerOK' /\ NamesOK'
      BY <2>1, <3>3 DEF CacheInv, PointerOK, Good, NamesOK, OneRuntimePerTable, Working, Loading
    <3> QED BY <3>4, <3>5 DEF CacheInv
  <2> QED BY <2>2, <2>3
<1>10. CASE Select
  <2>1. /\ UNCHANGED <<schema, rows, cache>> /\ pc' = "idle" /\ table' = NoPointer
    BY <1>10 DEF Select, Returns, files
  <2>2. UNCHANGED <<tables, capacity, home>>
    BY <2>1 DEF cache
  <2>3. TypeOK'
    BY <1>1, <2>1, <2>2 DEF TypeOK, Loading, Working
  <2>4. PointerOK' /\ NamesOK'
    BY <2>1, <2>2 DEF CacheInv, PointerOK, NamesOK, OneRuntimePerTable, Working, Loading
  <2> QED BY <2>3, <2>4 DEF CacheInv
<1>11. CASE InsertRow
  <2>1. /\ UNCHANGED <<schema, cache>> /\ pc = "use" /\ call.op = "insert"
        /\ rows' = [rows EXCEPT ![call.name] = @ + 1]
        /\ \/ Target.has_id /\ pc' = "insert" /\ UNCHANGED <<call, table>>
           \/ pc' = "idle" /\ table' = NoPointer
    BY <1>11 DEF InsertRow, Returns
  <2>2. UNCHANGED <<tables, capacity, home>>
    BY <2>1 DEF cache
  <2>3. call \in [op : {"insert", "select"}, name : Tables] /\ call.name \in Tables
    BY <2>1 DEF CacheInv, TypeOK, Working
  <2>4. rows' \in [Tables -> Nat]
    BY <1>1, <2>1, <2>3
  <2>5. TypeOK'
    BY <1>1, <2>1, <2>2, <2>3, <2>4 DEF TypeOK, Loading, Working
  <2>6. PointerOK' /\ NamesOK'
    BY <2>1, <2>2
    DEF CacheInv, PointerOK, Good, Target, NamesOK, OneRuntimePerTable, Working, Loading
  <2> QED BY <2>5, <2>6 DEF CacheInv
<1>12. CASE InsertIndex
  <2>1. /\ UNCHANGED <<schema, rows, capacity, home>> /\ pc' = "idle" /\ table' = NoPointer
    BY <1>12 DEF InsertIndex, Returns, files
  <2>2. tables' \in Seq(Runtimes) /\ DOMAIN tables' = DOMAIN tables /\ Len(tables') = Len(tables)
    BY <1>12, IndexedRuntime
  <2>3. \A i \in DOMAIN tables : tables'[i].name = tables[i].name
    <3>1. tables'[table.slot].name = tables[table.slot].name
      BY <1>12, IndexedRuntime DEF Runtimes, Target
    <3> QED BY <1>12, <3>1, IndexedRuntime
  <2>4. TypeOK'
    BY <1>1, <2>1, <2>2 DEF TypeOK, Loading, Working
  <2>5. PointerOK' /\ NamesOK'
    BY <2>1, <2>2, <2>3 DEF CacheInv, PointerOK, NamesOK, OneRuntimePerTable, Working, Loading
  <2> QED BY <2>4, <2>5 DEF CacheInv
<1>13. CASE Close
  <2>1. /\ UNCHANGED <<schema, rows>> /\ pc' = "ended" /\ table' = NoPointer
        /\ tables' = <<>> /\ capacity' = 0 /\ home' = 0
    BY <1>13 DEF Close, files
  <2>2. tables' \in Seq(Runtimes) /\ DOMAIN tables' = {} /\ Len(tables') = 0
    BY <2>1, EmptySeq
  <2>3. TypeOK'
    BY <1>1, <2>1, <2>2 DEF TypeOK, Loading, Working
  <2>4. PointerOK' /\ NamesOK'
    BY <2>1, <2>2 DEF PointerOK, NamesOK, OneRuntimePerTable, Working, Loading
  <2> QED BY <2>3, <2>4 DEF CacheInv
<1>14. CASE Ended \/ UNCHANGED vars
  <2>1. UNCHANGED <<schema, rows, tables, capacity, home, loading, call, table, pc>>
    BY <1>14 DEF Ended, vars, files, cache
  <2> QED BY <2>1 DEF CacheInv, TypeOK, PointerOK, Good, Target, NamesOK, OneRuntimePerTable
<1> QED BY <1>2, <1>3, <1>4, <1>5, <1>6, <1>7, <1>8, <1>9, <1>10, <1>11, <1>12, <1>13,
           <1>14 DEF Next

THEOREM CacheInvariant == Spec => []CacheInv
BY CacheStart, CacheStep, PTL DEF Spec

\* The pointer get_or_load_table_runtime hands out is good for as long as the statement
\* works with it, though loading may move the array.
THEOREM PointerStaysFresh == Spec => []PointerIsFresh
<1>1. CacheInv => PointerIsFresh
  BY DEF CacheInv, PointerOK, Good, PointerIsFresh
<1> QED BY <1>1, CacheInvariant, PTL

\* No table ever gets a second runtime, and the array always has room.
THEOREM NoSecondRuntime == Spec => []OneRuntimePerTable
<1>1. CacheInv => OneRuntimePerTable
  BY DEF CacheInv, NamesOK
<1> QED BY <1>1, CacheInvariant, PTL

\* A cached runtime stays where it is and is changed by INSERTs into its table alone.
THEOREM RuntimesStay == Spec => CachedRuntimesStay
<1> DEFINE Stays ==
             \A i \in DOMAIN tables :
                 /\ i \in DOMAIN tables'
                 /\ tables'[i] = tables[i]
                    \/ /\ call = [op |-> "insert", name |-> tables[i].name]
                       /\ pc' = "failed" \/ tables[i].keys \subseteq tables'[i].keys
<1>1. CacheInv /\ [Next]_vars => (pc' # "ended" => Stays)
  <2> SUFFICES ASSUME CacheInv, [Next]_vars, pc' # "ended" PROVE Stays
    OBVIOUS
  <2>1. CASE UNCHANGED tables
    BY <2>1
  <2>2. CASE PublishInPlace \/ PublishGrown
    <3>1. tables' = Append(tables, loading) /\ pc = "publish"
      BY <2>2 DEF PublishInPlace, PublishGrown, Publish
    <3>2. tables \in Seq(Runtimes) /\ loading \in Runtimes
      BY <3>1 DEF CacheInv, TypeOK, Loading
    <3>3. \A i \in DOMAIN tables : i \in DOMAIN tables' /\ tables'[i] = tables[i]
      BY <3>1, <3>2, ArrayGrows
    <3> QED BY <3>3
  <2>3. CASE InsertIndex
    <3>1. /\ table.slot \in DOMAIN tables /\ DOMAIN tables' = DOMAIN tables
          /\ \A i \in DOMAIN tables : i # table.slot => tables'[i] = tables[i]
      BY <2>3, IndexedRuntime
    <3>2. call = [op |-> "insert", name |-> tables[table.slot].name]
      <4>1. pc = "insert"
        BY <2>3 DEF InsertIndex
      <4>2. call \in [op : {"insert", "select"}, name : Tables]
        BY <4>1 DEF CacheInv, TypeOK, Working
      <4>3. call.op = "insert" /\ call.name = tables[table.slot].name
        BY <2>3, IndexedRuntime DEF Target
      <4> QED BY <4>2, <4>3
    <3>3. tables[table.slot].keys \subseteq tables'[table.slot].keys
      BY <2>3, IndexedRuntime DEF Runtimes, Target
    <3> QED BY <3>1, <3>2, <3>3
  <2>4. CASE InsertIndexFails /\ tables' # tables
    <3>1. pc = "insert" /\ pc' = "failed"
      BY <2>4 DEF InsertIndexFails, StatementFails
    <3>2. PICK last \in Target.keys :
             tables' = [tables EXCEPT ![table.slot].keys = {k \in @ : k <= last}]
      BY <2>4 DEF InsertIndexFails
    <3>3. /\ call = [op |-> "insert", name |-> tables[table.slot].name]
          /\ table.slot \in DOMAIN tables /\ DOMAIN tables' = DOMAIN tables
          /\ \A i \in DOMAIN tables : i # table.slot => tables'[i] = tables[i]
      BY <3>1, <3>2, CutRuntime
    <3> QED BY <3>1, <3>3
  <2>5. CASE Next /\ ~(PublishInPlace \/ PublishGrown \/ InsertIndex \/ InsertIndexFails)
    <3>1. UNCHANGED tables
      BY <2>5 DEF Next, Call, Found, NotFound, LoadSchema, EnsureDataFile, BuildIndex, BuildFails,
                  DestroyIndex, Unload, GrowthFails, Refused, Select, InsertRow, Close, Ended,
                  vars, cache, LoadFails, StatementFails
    <3> QED BY <2>1, <3>1
  <2>6. CASE UNCHANGED vars
    BY <2>1, <2>6 DEF vars, cache
  <2> QED BY <2>1, <2>2, <2>3, <2>4, <2>5, <2>6
<1>2. CacheInv /\ [Next]_vars => [pc' # "ended" => Stays]_vars
  BY <1>1
<1> QED BY <1>2, CacheInvariant, PTL DEF Spec, CachedRuntimesStay

-----------------------------------------------------------------------------
(* The memory.                                                             *)

\* What the cached runtimes own.
CachedParts == UNION {Owned(tables[i]) : i \in DOMAIN tables}

LEMMA PartsOfCache ==
  /\ CacheBlocks = ArrayAt(home) \cup CachedParts
  /\ \A b : b \in CachedParts <=> \E i \in DOMAIN tables : b \in Owned(tables[i])
  /\ CacheBlocks' = ArrayAt(home') \cup CachedParts'
  /\ \A b : b \in CachedParts' <=> \E i \in DOMAIN tables' : b \in Owned(tables'[i])
<1>1. CacheBlocks = ArrayAt(home) \cup CachedParts
  BY DEF CacheBlocks, CachedParts
<1>2. \A b : b \in CachedParts <=> \E i \in DOMAIN tables : b \in Owned(tables[i])
  BY DEF CachedParts
<1>3. CacheBlocks' = ArrayAt(home') \cup CachedParts'
  BY DEF CacheBlocks, CachedParts, ArrayAt, Owned, NameOf, SchemaOf, IndexOf
<1>4. \A b : b \in CachedParts' <=> \E i \in DOMAIN tables' : b \in Owned(tables'[i])
  BY DEF CachedParts, Owned, NameOf, SchemaOf, IndexOf
<1> QED BY <1>1, <1>2, <1>3, <1>4

\* What the load that runs has built so far.
BeingLoaded ==
    IF pc = "schema" THEN NameOf(loading)
    ELSE IF pc \in {"file", "index"} THEN NameOf(loading) \cup SchemaOf(loading)
    ELSE IF pc \in {"unbuilt", "unloaded", "publish"} THEN Owned(loading)
    ELSE {}

\* No one owns what a given-up split has cut off. Only one insertion can be given up: its
\* error ends the session.
CutOffs == {CutOff(t) : t \in Tables}
GivingUp ==
    \/ pc \in {"unbuilt", "unloaded"}
    \/ pc \in {"failed", "ended"} /\ status = "INDEX_ERROR"

HeapOf(cut) ==
    /\ heap = CacheBlocks \cup BeingLoaded \cup cut
    /\ cut # {} => GivingUp /\ \E t \in Tables : cut = {CutOff(t)}

HeapOK ==
    /\ \E cut \in SUBSET CutOffs : HeapOf(cut)
    /\ ~bad_free
    /\ pc = "unloaded" => loading.keys = {}
    /\ pc = "ended" => home = 0 /\ tables = <<>>

\* The blocks of a runtime that is loaded are not those of the cache.
LEMMA LoadedApart ==
  ASSUME NamesOK, pc \in Loading
  PROVE  CacheBlocks \cap BeingLoaded = {} /\ BeingLoaded \subseteq Owned(loading)
<1>1. BeingLoaded \subseteq Owned(loading)
  BY DEF BeingLoaded, Owned
<1>2. ASSUME NEW b \in Owned(loading) PROVE b \notin CacheBlocks
  <2>1. b[2] = call.name /\ b[1] \in {"name", "schema", "index"}
    BY DEF Owned, NameOf, SchemaOf, IndexOf, NamesOK
  <2>2. b \notin ArrayAt(home)
    BY <2>1 DEF ArrayAt
  <2>3. ASSUME NEW i \in DOMAIN tables PROVE b \notin Owned(tables[i])
    BY <2>1 DEF Owned, NameOf, SchemaOf, IndexOf, NamesOK
  <2> QED BY <2>2, <2>3 DEF CacheBlocks
<1> QED BY <1>1, <1>2

\* What is cut off belongs neither to the cache nor to the load.
LEMMA CutApart ==
  ASSUME NEW cut \in SUBSET CutOffs
  PROVE  cut \cap CacheBlocks = {} /\ cut \cap BeingLoaded = {}
<1> SUFFICES ASSUME NEW b \in cut PROVE b \notin CacheBlocks /\ b \notin BeingLoaded
  OBVIOUS
<1>1. PICK t \in Tables : b = <<"cut off", t>>
  BY DEF CutOffs, CutOff
<1>2. ASSUME NEW runtime
      PROVE  b \notin NameOf(runtime) /\ b \notin SchemaOf(runtime) /\ b \notin IndexOf(runtime)
  BY <1>1 DEF NameOf, SchemaOf, IndexOf
<1>3. b \notin CacheBlocks
  <2>1. b \notin ArrayAt(home)
    BY <1>1 DEF ArrayAt
  <2>2. \A i \in DOMAIN tables : b \notin Owned(tables[i])
    BY <1>2 DEF Owned
  <2> QED BY <2>1, <2>2 DEF CacheBlocks
<1>4. b \notin BeingLoaded
  BY <1>2 DEF BeingLoaded, Owned
<1> QED BY <1>3, <1>4

LEMMA LoadFailureFreesLoad ==
  ASSUME NamesOK, HeapOK, pc \in Loading \cup {"lookup"}, NEW error,
         LoadFails(BeingLoaded, error),
         error = "INDEX_ERROR" \/ pc \notin {"unbuilt", "unloaded"}
  PROVE  HeapOK'
<1>1. PICK cut \in SUBSET CutOffs : HeapOf(cut)
  BY DEF HeapOK
<1>2. /\ ~bad_free /\ heap' = heap \ BeingLoaded
      /\ bad_free' = (bad_free \/ ~(BeingLoaded \subseteq heap))
      /\ pc' = "failed" /\ status' = error /\ UNCHANGED <<tables, home>>
  BY DEF HeapOK, LoadFails, Frees, cache
<1>3. CacheBlocks \cap BeingLoaded = {}
  BY LoadedApart DEF BeingLoaded, Loading
<1>4. cut \cap BeingLoaded = {}
  BY CutApart
<1>5. CacheBlocks' = CacheBlocks /\ BeingLoaded' = {}
  BY <1>2 DEF CacheBlocks, BeingLoaded
<1>6. cut # {} => GivingUp' /\ \E t \in Tables : cut = {CutOff(t)}
  BY <1>1, <1>2 DEF HeapOf, GivingUp, Loading
<1>7. HeapOf(cut)'
  BY <1>1, <1>2, <1>3, <1>4, <1>5, <1>6 DEF HeapOf
<1>8. ~bad_free'
  BY <1>1, <1>2 DEF HeapOf
<1> QED BY <1>2, <1>7, <1>8 DEF HeapOK

\* A published runtime hands its blocks over to the cache.
LEMMA PublishedBlocks ==
  ASSUME CacheInv, pc = "publish", NEW new_home, NEW new_capacity,
         Publish(new_home, new_capacity)
  PROVE  /\ CacheBlocks' = ArrayAt(new_home) \cup CachedParts \cup Owned(loading)
         /\ BeingLoaded' = {} /\ pc' = "use"
<1>1. tables' = Append(tables, loading) /\ home' = new_home /\ pc' = "use"
  BY DEF Publish
<1>2. tables \in Seq(Runtimes) /\ loading \in Runtimes
  BY DEF CacheInv, TypeOK, Loading
<1>3. /\ DOMAIN tables' = DOMAIN tables \cup {Len(tables) + 1}
      /\ tables'[Len(tables) + 1] = loading
      /\ \A i \in DOMAIN tables : tables'[i] = tables[i]
  BY <1>1, <1>2, ArrayGrows
<1>4. CachedParts' = CachedParts \cup Owned(loading)
  <2>1. \A b : (\E i \in DOMAIN tables' : b \in Owned(tables'[i]))
                 <=> b \in Owned(loading) \/ \E i \in DOMAIN tables : b \in Owned(tables[i])
    BY <1>3
  <2> QED BY <2>1, PartsOfCache
<1>5. BeingLoaded' = {}
  BY <1>1 DEF BeingLoaded
<1> QED BY <1>1, <1>4, <1>5, PartsOfCache

LEMMA HeapStart == Init => HeapOK
<1> SUFFICES ASSUME Init PROVE HeapOK
  OBVIOUS
<1>1. DOMAIN tables = {} /\ home = 0 /\ pc = "idle" /\ heap = {} /\ ~bad_free
  BY EmptySeq DEF Init
<1>2. HeapOf({})
  BY <1>1 DEF HeapOf, CacheBlocks, BeingLoaded, ArrayAt
<1> QED BY <1>1, <1>2 DEF HeapOK

LEMMA CacheHeapStep == CacheInv /\ HeapOK /\ [Next]_vars => HeapOK'
<1> SUFFICES ASSUME CacheInv, HeapOK, [Next]_vars PROVE HeapOK'
  OBVIOUS
<1>0. PICK cut \in SUBSET CutOffs : HeapOf(cut)
  BY DEF HeapOK
<1>1. /\ NamesOK /\ ~bad_free
      /\ pc \notin {"unbuilt", "unloaded", "failed", "ended"} => heap = CacheBlocks \cup BeingLoaded
  BY <1>0 DEF CacheInv, HeapOK, HeapOf, GivingUp
<1>2. UNCHANGED <<tables, home>> => CacheBlocks' = CacheBlocks
  BY DEF CacheBlocks
<1>3. ASSUME heap' = CacheBlocks' \cup BeingLoaded', ~bad_free', pc' \notin {"unloaded", "ended"}
      PROVE  HeapOK'
  <2>1. HeapOf({})'
    BY <1>3 DEF HeapOf
  <2> QED BY <1>3, <2>1 DEF HeapOK
<1>4. CASE (\E op \in {"insert", "select"}, t \in Tables : Call(op, t))
           \/ Found \/ Refused \/ Select \/ InsertRow
           \/ (InsertIndexFails /\ UNCHANGED <<tables, memory>>)
  <2>1. UNCHANGED <<tables, home, heap, bad_free>>
    BY <1>4 DEF Call, Found, Refused, Select, InsertRow, InsertIndexFails, StatementFails, cache,
                memory
  <2>2. /\ pc \in {"idle", "lookup", "use", "insert"}
        /\ pc' \in {"idle", "lookup", "use", "insert", "failed"}
    BY <1>4 DEF Call, Found, Refused, Select, InsertRow, InsertIndexFails, StatementFails, Returns
  <2>3. BeingLoaded = {} /\ BeingLoaded' = {}
    BY <2>2 DEF BeingLoaded
  <2> QED BY <1>1, <1>2, <1>3, <2>1, <2>2, <2>3
<1>5. CASE NotFound
  <2>1. pc = "lookup" /\ BeingLoaded = {}
    BY <1>5 DEF NotFound, BeingLoaded
  <2>2. CASE LoadFails({}, "EXEC_ERROR")
    BY <1>1, <2>1, <2>2, LoadFailureFreesLoad
  <2>3. CASE ~LoadFails({}, "EXEC_ERROR")
    <3>1. /\ heap' = heap \cup NameOf(loading') /\ ~bad_free' /\ pc' = "schema"
          /\ UNCHANGED <<tables, home>>
      BY <1>1, <1>5, <2>3 DEF NotFound, Allocates, cache
    <3>2. BeingLoaded' = NameOf(loading')
      BY <3>1 DEF BeingLoaded, NameOf
    <3> QED BY <1>1, <1>2, <1>3, <2>1, <3>1, <3>2
  <2> QED BY <2>2, <2>3
<1>6. CASE LoadSchema
  <2>1. pc = "schema" /\ BeingLoaded = NameOf(loading)
    BY <1>6 DEF LoadSchema, BeingLoaded
  <2>2. CASE LoadFails(NameOf(loading), "SCHEMA_ERROR")
    BY <1>1, <2>1, <2>2, LoadFailureFreesLoad DEF Loading
  <2>3. CASE ~LoadFails(NameOf(loading), "SCHEMA_ERROR")
    <3>1. /\ heap' = heap \cup SchemaOf(loading) /\ ~bad_free' /\ pc' = "file"
          /\ UNCHANGED <<tables, home>>
          /\ loading' = [loading EXCEPT !.has_id = (schema[call.name] = "with_id")]
      BY <1>1, <1>6, <2>3 DEF LoadSchema, Allocates, cache
    <3>2. loading \in Runtimes
      BY <2>1 DEF CacheInv, TypeOK, Loading
    <3>3. loading'.name = loading.name
      BY <3>1, <3>2 DEF Runtimes
    <3>4. BeingLoaded' = NameOf(loading) \cup SchemaOf(loading)
      BY <3>1, <3>3 DEF BeingLoaded, NameOf, SchemaOf
    <3> QED BY <1>1, <1>2, <1>3, <2>1, <3>1, <3>4
  <2> QED BY <2>2, <2>3
<1>7. CASE EnsureDataFile
  <2>1. pc = "file" /\ BeingLoaded = NameOf(loading) \cup SchemaOf(loading)
    BY <1>7 DEF EnsureDataFile, BeingLoaded
  <2>2. CASE \E error : LoadFails(BeingLoaded, error)
    BY <1>1, <2>1, <2>2, LoadFailureFreesLoad DEF Loading
  <2>3. CASE ~\E error : LoadFails(BeingLoaded, error)
    <3>1. UNCHANGED <<tables, home, loading, heap, bad_free>> /\ pc' = "index"
      BY <1>7, <2>1, <2>3 DEF EnsureDataFile, cache, memory
    <3>2. BeingLoaded' = BeingLoaded
      BY <2>1, <3>1 DEF BeingLoaded
    <3> QED BY <1>1, <1>2, <1>3, <2>1, <3>1, <3>2
  <2> QED BY <2>2, <2>3
<1>8. CASE BuildIndex
  <2>1. pc = "index" /\ BeingLoaded = NameOf(loading) \cup SchemaOf(loading)
    BY <1>8 DEF BuildIndex, BeingLoaded
  <2>2. /\ heap' = heap \cup IndexOf(loading') /\ ~bad_free' /\ pc' = "publish"
        /\ UNCHANGED <<tables, home>>
        /\ loading' = [loading EXCEPT !.keys = StoredKeys,
              !.next_id = IF loading.has_id THEN Cardinality(StoredKeys) + 1 ELSE 0]
    BY <1>1, <1>8 DEF BuildIndex, Allocates, cache
  <2>3. loading \in Runtimes
    BY <2>1 DEF CacheInv, TypeOK, Loading
  <2>4. loading'.name = loading.name
    BY <2>2, <2>3 DEF Runtimes
  <2>5. BeingLoaded' = NameOf(loading) \cup SchemaOf(loading) \cup IndexOf(loading')
    BY <2>2, <2>4 DEF BeingLoaded, Owned, NameOf, SchemaOf, IndexOf
  <2> QED BY <1>1, <1>2, <1>3, <2>1, <2>2, <2>5
<1>15. CASE BuildFails
  <2>1. pc = "index" /\ BeingLoaded = NameOf(loading) \cup SchemaOf(loading)
    BY <1>15 DEF BuildFails, BeingLoaded
  <2>2. PICK built \in 0..rows[call.name] :
           /\ loading' = [loading EXCEPT !.keys = 1..built]
           /\ \/ Allocates(IndexOf(loading'))
              \/ Allocates(IndexOf(loading') \cup {CutOff(loading.name)})
    BY <1>15 DEF BuildFails
  <2>3. pc' = "unbuilt" /\ ~bad_free' /\ UNCHANGED <<tables, home>>
    BY <1>1, <1>15, <2>2 DEF BuildFails, Allocates, cache
  <2>4. loading \in Runtimes
    BY <2>1 DEF CacheInv, TypeOK, Loading
  <2>5. loading'.name = loading.name /\ loading.name \in Tables
    BY <2>2, <2>4 DEF Runtimes
  <2>6. BeingLoaded' = NameOf(loading) \cup SchemaOf(loading) \cup IndexOf(loading')
    BY <2>3, <2>5 DEF BeingLoaded, Owned, NameOf, SchemaOf, IndexOf
  <2>7. CASE Allocates(IndexOf(loading'))
    BY <1>1, <1>2, <1>3, <2>1, <2>3, <2>6, <2>7 DEF Allocates
  <2>8. CASE Allocates(IndexOf(loading') \cup {CutOff(loading.name)})
    <3>1. PICK t \in Tables : t = loading.name
      BY <2>5
    <3>2. heap' = CacheBlocks' \cup BeingLoaded' \cup {CutOff(t)}
      BY <1>1, <1>2, <2>1, <2>3, <2>6, <2>8, <3>1 DEF Allocates
    <3>3. HeapOf({CutOff(t)})'
      BY <2>3, <3>2 DEF HeapOf, GivingUp
    <3>4. {CutOff(t)} \in SUBSET CutOffs
      BY DEF CutOffs
    <3> QED BY <2>3, <3>3, <3>4 DEF HeapOK
  <2> QED BY <2>2, <2>7, <2>8
<1>16. CASE DestroyIndex
  <2>1. /\ pc = "unbuilt" /\ pc' = "unloaded" /\ heap' = heap \ IndexOf(loading)
        /\ bad_free' = (bad_free \/ ~(IndexOf(loading) \subseteq heap))
        /\ loading' = [loading EXCEPT !.keys = {}]
        /\ UNCHANGED <<tables, home>>
    BY <1>16 DEF DestroyIndex, Frees, cache
  <2>2. BeingLoaded = NameOf(loading) \cup SchemaOf(loading) \cup IndexOf(loading)
    BY <2>1 DEF BeingLoaded, Owned
  <2>3. loading \in Runtimes
    BY <2>1 DEF CacheInv, TypeOK, Loading
  <2>4. loading'.name = loading.name /\ loading'.keys = {}
    BY <2>1, <2>3 DEF Runtimes
  <2>5. BeingLoaded' = NameOf(loading) \cup SchemaOf(loading)
    BY <2>1, <2>4 DEF BeingLoaded, Owned, NameOf, SchemaOf, IndexOf
  <2>6. CacheBlocks \cap BeingLoaded = {} /\ cut \cap BeingLoaded = {}
    BY <1>1, <2>1, LoadedApart, CutApart DEF Loading
  <2>7. IndexOf(loading) \cap (NameOf(loading) \cup SchemaOf(loading)) = {}
    BY DEF IndexOf, NameOf, SchemaOf
  <2>8. HeapOf(cut)'
    <3>1. heap' = CacheBlocks' \cup BeingLoaded' \cup cut
      BY <1>0, <1>2, <2>1, <2>2, <2>5, <2>6, <2>7 DEF HeapOf
    <3> QED BY <1>0, <2>1, <3>1 DEF HeapOf, GivingUp
  <2>9. ~bad_free'
    BY <1>0, <1>1, <2>1, <2>2 DEF HeapOf
  <2> QED BY <2>1, <2>4, <2>8, <2>9 DEF HeapOK
<1>17. CASE Unload
  <2>1. pc = "unloaded" /\ BeingLoaded = Owned(loading)
    BY <1>17 DEF Unload, BeingLoaded
  <2> QED BY <1>1, <1>17, <2>1, LoadFailureFreesLoad DEF Unload, Loading
<1>18. CASE InsertIndexFails /\ ~UNCHANGED <<tables, memory>>
  <2>1. PICK last \in Target.keys :
           /\ tables' = [tables EXCEPT ![table.slot].keys = {k \in @ : k <= last}]
           /\ Allocates({CutOff(Target.name)})
    BY <1>18 DEF InsertIndexFails
  <2>2. pc = "insert" /\ pc' = "failed" /\ status' = "INDEX_ERROR" /\ UNCHANGED home
    BY <1>18 DEF InsertIndexFails, StatementFails
  <2>3. /\ DOMAIN tables' = DOMAIN tables /\ Target.name \in Tables
        /\ \A i \in DOMAIN tables : Owned(tables'[i]) = Owned(tables[i])
    BY <2>1, <2>2, CutRuntime
  <2>4. CacheBlocks' = CacheBlocks
    <3>1. \A b : b \in CachedParts' <=> b \in CachedParts
      BY <2>3, PartsOfCache
    <3>2. CachedParts' = CachedParts
      BY <3>1
    <3> QED BY <2>2, <3>2, PartsOfCache
  <2>5. BeingLoaded = {} /\ BeingLoaded' = {}
    BY <2>2 DEF BeingLoaded
  <2>6. PICK t \in Tables : t = Target.name
    BY <2>3
  <2>7. heap' = CacheBlocks' \cup BeingLoaded' \cup {CutOff(t)} /\ ~bad_free'
    BY <1>1, <2>1, <2>2, <2>4, <2>5, <2>6 DEF Allocates
  <2>8. HeapOf({CutOff(t)})'
    BY <2>2, <2>7 DEF HeapOf, GivingUp
  <2>9. {CutOff(t)} \in SUBSET CutOffs
    BY DEF CutOffs
  <2> QED BY <2>2, <2>7, <2>8, <2>9 DEF HeapOK
<1>9. CASE PublishInPlace
  <2>1. /\ pc = "publish" /\ Publish(home, capacity) /\ UNCHANGED <<heap, bad_free>>
    BY <1>9 DEF PublishInPlace, memory
  <2>2. BeingLoaded = Owned(loading)
    BY <2>1 DEF BeingLoaded
  <2>3. /\ CacheBlocks' = ArrayAt(home) \cup CachedParts \cup Owned(loading)
        /\ BeingLoaded' = {} /\ pc' = "use"
    BY <2>1, PublishedBlocks
  <2>4. CacheBlocks' = CacheBlocks \cup Owned(loading)
    BY <2>3, PartsOfCache
  <2> QED BY <1>1, <1>3, <2>1, <2>2, <2>3, <2>4
<1>10. CASE PublishGrown
  <2>1. PICK new_home \in {home, home + 1} \ {0} :
           /\ Realloc(new_home)
           /\ Publish(new_home, IF capacity = 0 THEN 4 ELSE 2 * capacity)
    BY <1>10 DEF PublishGrown
  <2>2. pc = "publish" /\ BeingLoaded = Owned(loading)
    BY <1>10 DEF PublishGrown, BeingLoaded
  <2>3. /\ CacheBlocks' = ArrayAt(new_home) \cup CachedParts \cup Owned(loading)
        /\ BeingLoaded' = {} /\ pc' = "use"
    BY <2>1, <2>2, PublishedBlocks
  <2>4. CacheBlocks = ArrayAt(home) \cup CachedParts
    BY PartsOfCache
  <2>5. ArrayAt(home) \cap (CachedParts \cup Owned(loading)) = {}
    BY DEF CachedParts, ArrayAt, Owned, NameOf, SchemaOf, IndexOf
  <2>6. /\ heap' = (heap \ ArrayAt(home)) \cup ArrayAt(new_home)
        /\ bad_free' = (bad_free \/ ~(ArrayAt(home) \subseteq heap))
    BY <2>1 DEF Realloc
  <2> QED BY <1>1, <1>3, <2>2, <2>3, <2>4, <2>5, <2>6
<1>11. CASE GrowthFails
  <2>1. pc = "publish" /\ BeingLoaded = Owned(loading)
    BY <1>11 DEF GrowthFails, BeingLoaded
  <2> QED BY <1>1, <1>11, <2>1, LoadFailureFreesLoad DEF GrowthFails, Loading
<1>12. CASE InsertIndex
  <2>1. /\ pc = "insert" /\ pc' = "idle" /\ UNCHANGED <<home, bad_free>>
        /\ heap' = heap \cup {<<"index", Target.name>>}
    BY <1>12 DEF InsertIndex, Allocates, Returns
  <2>2. BeingLoaded = {} /\ BeingLoaded' = {}
    BY <2>1 DEF BeingLoaded
  <2>3. /\ DOMAIN tables' = DOMAIN tables /\ table.slot \in DOMAIN tables
        /\ \A i \in DOMAIN tables : i # table.slot => tables'[i] = tables[i]
    BY <1>12, IndexedRuntime
  <2>4. Owned(tables'[table.slot]) = Owned(tables[table.slot]) \cup {<<"index", Target.name>>}
    <3>1. /\ tables'[table.slot].name = Target.name /\ tables'[table.slot].keys # {}
          /\ Target = tables[table.slot]
      BY <1>12, IndexedRuntime DEF Runtimes, Target
    <3> QED BY <3>1 DEF Owned, NameOf, SchemaOf, IndexOf
  <2>5. CacheBlocks' = CacheBlocks \cup {<<"index", Target.name>>}
    <3>1. \A b : (\E i \in DOMAIN tables' : b \in Owned(tables'[i]))
                   <=> \/ b = <<"index", Target.name>>
                       \/ \E i \in DOMAIN tables : b \in Owned(tables[i])
      BY <2>3, <2>4
    <3>2. CachedParts' = CachedParts \cup {<<"index", Target.name>>}
      BY <3>1, PartsOfCache
    <3> QED BY <2>1, <3>2, PartsOfCache
  <2> QED BY <1>1, <1>3, <2>1, <2>2, <2>5
<1>13. CASE Close
  <2>1. /\ pc \in {"idle", "failed"} /\ pc' = "ended" /\ tables' = <<>> /\ home' = 0
        /\ heap' = heap \ CacheBlocks /\ bad_free' = (bad_free \/ ~(CacheBlocks \subseteq heap))
        /\ UNCHANGED status
    BY <1>13 DEF Close, Frees
  <2>2. BeingLoaded = {} /\ BeingLoaded' = {}
    BY <2>1 DEF BeingLoaded
  <2>3. DOMAIN tables' = {}
    BY <2>1, EmptySeq
  <2>4. CacheBlocks' = {}
    BY <2>1, <2>3 DEF CacheBlocks, ArrayAt
  <2>5. heap' = cut /\ ~bad_free'
    BY <1>0, <1>1, <2>1, <2>2, CutApart DEF HeapOf
  <2>6. HeapOf(cut)'
    BY <1>0, <2>1, <2>2, <2>4, <2>5 DEF HeapOf, GivingUp
  <2> QED BY <2>1, <2>5, <2>6 DEF HeapOK
<1>14. CASE Ended \/ UNCHANGED vars
  <2>1. UNCHANGED <<tables, home, loading, pc, status, heap, bad_free>>
    BY <1>14 DEF Ended, vars, cache, memory
  <2>2. BeingLoaded' = BeingLoaded
    BY <2>1 DEF BeingLoaded
  <2>3. HeapOf(cut)'
    BY <1>0, <1>2, <2>1, <2>2 DEF HeapOf, GivingUp
  <2> QED BY <2>1, <2>3 DEF HeapOK
<1> QED BY <1>4, <1>5, <1>6, <1>7, <1>8, <1>9, <1>10, <1>11, <1>12, <1>13, <1>14, <1>15, <1>16,
           <1>17, <1>18 DEF Next

\* Whichever step of a load or of an INSERT fails, no block is freed twice; between
\* statements the cache owns exactly what is allocated. The session ends with an empty heap,
\* but for the part of one index that a given-up split has cut off.
THEOREM CacheFreedOnce == Spec => []FreedExactlyOnce
<1>1. HeapOK => FreedExactlyOnce
  <2> SUFFICES ASSUME HeapOK PROVE FreedExactlyOnce
    OBVIOUS
  <2>1. PICK cut \in SUBSET CutOffs : HeapOf(cut)
    BY DEF HeapOK
  <2>2. pc = "idle" => BeingLoaded = {} /\ cut = {}
    BY <2>1 DEF BeingLoaded, HeapOf, GivingUp
  <2>3. pc = "ended" => BeingLoaded = {} /\ CacheBlocks = {}
    BY EmptySeq DEF HeapOK, BeingLoaded, CacheBlocks, ArrayAt
  <2>4. pc = "ended" => heap = cut
    BY <2>1, <2>3 DEF HeapOf
  <2>5. pc = "ended" /\ heap # {} =>
           status = "INDEX_ERROR" /\ \E t \in Tables : heap = {CutOff(t)}
    BY <2>1, <2>4 DEF HeapOf, GivingUp
  <2>6. pc = "idle" => heap = CacheBlocks
    BY <2>1, <2>2 DEF HeapOf
  <2> QED BY <2>5, <2>6 DEF HeapOK, FreedExactlyOnce
<1> QED BY <1>1, HeapStart, CacheHeapStep, CacheInvariant, PTL DEF Spec

-----------------------------------------------------------------------------
(* What the runtimes hold.                                                 *)

\* The runtime r has the keys 1..n of a table with an id column.
Holds(r, n) == r.has_id => r.keys = 1..n /\ r.next_id = n + 1
HasIdOfSchema(r) == r.has_id = (schema[r.name] = "with_id")

\* A row is in the file one step before it is in the index. An error ends the session, so
\* what the runtimes hold after it does not matter.
ContentsOK ==
    /\ pc # "failed" =>
          \A i \in DOMAIN tables :
             /\ HasIdOfSchema(tables[i])
             /\ pc = "insert" /\ i = table.slot =>
                   rows[tables[i].name] >= 1 /\ Holds(tables[i], rows[tables[i].name] - 1)
             /\ ~(pc = "insert" /\ i = table.slot) => Holds(tables[i], rows[tables[i].name])
    /\ pc \in {"file", "index", "publish"} => HasIdOfSchema(loading)
    /\ pc = "publish" => Holds(loading, rows[loading.name])

\* A step that changes neither the runtimes nor the rows.
LEMMA ContentsUntouched ==
  ASSUME CacheInv, ContentsOK, UNCHANGED <<schema, rows, tables>>,
         pc \notin {"insert", "failed"}, pc' # "insert",
         pc' \in {"file", "index", "publish"} => HasIdOfSchema(loading)',
         pc' = "publish" => Holds(loading, rows[loading.name])'
  PROVE  ContentsOK'
BY DEF ContentsOK, HasIdOfSchema, Holds

LEMMA ContentsStart == Init => ContentsOK
<1> SUFFICES ASSUME Init PROVE ContentsOK
  OBVIOUS
<1>1. DOMAIN tables = {} /\ pc = "idle"
  BY EmptySeq DEF Init
<1> QED BY <1>1 DEF ContentsOK

LEMMA ContentsStep == CacheInv /\ ContentsOK /\ [Next]_vars => ContentsOK'
<1> SUFFICES ASSUME CacheInv, ContentsOK, [Next]_vars PROVE ContentsOK'
  OBVIOUS
<1>1. /\ rows \in [Tables -> Nat] /\ tables \in Seq(Runtimes)
      /\ \A i \in DOMAIN tables : tables[i] \in Runtimes
  <2>1. rows \in [Tables -> Nat] /\ tables \in Seq(Runtimes)
    BY DEF CacheInv, TypeOK
  <2> QED BY <2>1, LenProperties, ElementOfSeq
<1>2. CASE pc' = "failed"
  BY <1>2 DEF ContentsOK
<1>3. CASE (\E op \in {"insert", "select"}, t \in Tables : Call(op, t)) \/ Found \/ Select
  <2>1. /\ UNCHANGED <<schema, rows, tables>>
        /\ pc \in {"idle", "lookup", "use"} /\ pc' \in {"idle", "lookup", "use"}
    BY <1>3 DEF Call, Found, Select, Returns, files, cache
  <2> QED BY <2>1, ContentsUntouched
<1>4. CASE NotFound /\ pc' # "failed"
  <2>1. UNCHANGED <<schema, rows, tables>> /\ pc = "lookup" /\ pc' = "schema"
    BY <1>4 DEF NotFound, LoadFails, files, cache
  <2> QED BY <2>1, ContentsUntouched
<1>5. CASE LoadSchema /\ pc' # "failed"
  <2>1. /\ UNCHANGED <<schema, rows, tables>> /\ pc = "schema" /\ pc' = "file"
        /\ loading' = [loading EXCEPT !.has_id = (schema[call.name] = "with_id")]
    BY <1>5 DEF LoadSchema, LoadFails, files, cache
  <2>2. loading \in Runtimes /\ loading.name = call.name
    BY <2>1 DEF CacheInv, TypeOK, NamesOK, Loading
  <2>3. loading'.name = call.name /\ loading'.has_id = (schema'[call.name] = "with_id")
    BY <2>1, <2>2 DEF Runtimes
  <2> QED BY <2>1, <2>3, ContentsUntouched DEF HasIdOfSchema
<1>6. CASE EnsureDataFile /\ pc' # "failed"
  <2>1. UNCHANGED <<schema, rows, tables, loading>> /\ pc = "file" /\ pc' = "index"
    BY <1>6 DEF EnsureDataFile, LoadFails, files, cache
  <2> QED BY <2>1, ContentsUntouched DEF ContentsOK, HasIdOfSchema
<1>7. CASE BuildIndex
  <2> DEFINE next == IF loading.has_id THEN Cardinality(StoredKeys) + 1 ELSE 0
  <2>1. /\ UNCHANGED <<schema, rows, tables>> /\ pc = "index" /\ pc' = "publish"
        /\ loading' = [loading EXCEPT !.keys = StoredKeys, !.next_id = next]
    BY <1>7 DEF BuildIndex, files, cache
  <2>2. loading \in Runtimes /\ loading.name = call.name /\ rows[call.name] \in Nat
    BY <1>1, <2>1 DEF CacheInv, TypeOK, NamesOK, Loading
  <2>3. loading.has_id => StoredKeys = 1..rows[call.name] /\ next = rows[call.name] + 1
    BY <2>2, StoredCount DEF StoredKeys
  <2> HIDE DEF next
  <2>4. /\ loading'.name = loading.name /\ loading'.has_id = loading.has_id
        /\ loading'.keys = StoredKeys /\ loading'.next_id = next
    BY <2>1, <2>2 DEF Runtimes
  <2>5. HasIdOfSchema(loading)'
    BY <2>1, <2>4 DEF ContentsOK, HasIdOfSchema
  <2>6. Holds(loading, rows[loading.name])'
    BY <2>1, <2>2, <2>3, <2>4 DEF Holds
  <2> QED BY <2>1, <2>5, <2>6, ContentsUntouched
<1>8. CASE PublishInPlace \/ PublishGrown
  <2>1. /\ tables' = Append(tables, loading) /\ pc = "publish" /\ pc' = "use"
        /\ UNCHANGED <<schema, rows>>
    BY <1>8 DEF PublishInPlace, PublishGrown, Publish, files
  <2>2. loading \in Runtimes
    BY <2>1 DEF CacheInv, TypeOK, Loading
  <2>3. /\ \A i \in DOMAIN tables : tables'[i] = tables[i]
        /\ tables'[Len(tables) + 1] = loading
        /\ DOMAIN tables' = DOMAIN tables \cup {Len(tables) + 1}
    BY <1>1, <2>1, <2>2, ArrayGrows
  <2>4. HasIdOfSchema(loading) /\ Holds(loading, rows[loading.name])
    BY <2>1 DEF ContentsOK
  <2>5. \A i \in DOMAIN tables : HasIdOfSchema(tables[i]) /\ Holds(tables[i], rows[tables[i].name])
    BY <2>1 DEF ContentsOK
  <2> QED BY <2>1, <2>3, <2>4, <2>5 DEF ContentsOK, HasIdOfSchema, Holds
<1>9. CASE InsertRow
  <2>1. /\ UNCHANGED <<schema, tables>> /\ pc = "use"
        /\ rows' = [rows EXCEPT ![call.name] = @ + 1]
        /\ \/ Target.has_id /\ pc' = "insert" /\ UNCHANGED table
           \/ ~Target.has_id /\ pc' = "idle"
    BY <1>9 DEF InsertRow, Returns, cache
  <2>2. /\ call.name \in Tables /\ table.slot \in DOMAIN tables
        /\ tables[table.slot].name = call.name /\ Target = tables[table.slot]
    BY <2>1 DEF CacheInv, TypeOK, PointerOK, Good, Working, Target
  <2>3. rows[call.name] \in Nat /\ rows'[call.name] = rows[call.name] + 1
    BY <1>1, <2>1, <2>2
  <2>4. rows'[call.name] >= 1 /\ rows'[call.name] - 1 = rows[call.name]
    BY <2>3
  <2>5. \A i \in DOMAIN tables : HasIdOfSchema(tables[i]) /\ Holds(tables[i], rows[tables[i].name])
    BY <2>1 DEF ContentsOK
  <2>6. ASSUME NEW i \in DOMAIN tables, i # table.slot
        PROVE  rows'[tables[i].name] = rows[tables[i].name]
    <3>1. tables[i].name # call.name
      BY <2>2, <2>6 DEF CacheInv, NamesOK, OneRuntimePerTable
    <3>2. tables[i].name \in Tables
      BY <1>1 DEF Runtimes
    <3> QED BY <1>1, <2>1, <3>1, <3>2
  <2>7. \A i \in DOMAIN tables : HasIdOfSchema(tables[i])'
    BY <2>1, <2>5 DEF HasIdOfSchema
  <2>8. \A i \in DOMAIN tables : i # table.slot => Holds(tables[i], rows[tables[i].name])'
    BY <2>1, <2>5, <2>6 DEF Holds
  <2>9. CASE Target.has_id
    BY <2>1, <2>2, <2>4, <2>5, <2>7, <2>8, <2>9 DEF ContentsOK, Holds
  <2>10. CASE ~Target.has_id
    <3>1. ASSUME NEW i \in DOMAIN tables, i = table.slot
          PROVE  Holds(tables[i], rows[tables[i].name])'
      BY <2>1, <2>2, <2>10, <3>1 DEF Holds
    <3>2. \A i \in DOMAIN tables : Holds(tables[i], rows[tables[i].name])'
      BY <2>8, <3>1
    <3> QED BY <2>1, <2>7, <2>10, <3>2 DEF ContentsOK
  <2> QED BY <2>9, <2>10
<1>10. CASE InsertIndex
  <2>1. pc = "insert" /\ pc' = "idle" /\ UNCHANGED <<schema, rows>>
    BY <1>10 DEF InsertIndex, Returns, files
  <2>2. /\ DOMAIN tables' = DOMAIN tables /\ table.slot \in DOMAIN tables
        /\ Target = tables[table.slot] /\ Target \in Runtimes /\ Target.has_id
        /\ \A i \in DOMAIN tables : i # table.slot => tables'[i] = tables[i]
    BY <1>10, IndexedRuntime DEF Target
  <2>3. /\ tables'[table.slot].name = Target.name
        /\ tables'[table.slot].has_id = Target.has_id
        /\ tables'[table.slot].keys = Target.keys \cup {Target.next_id}
        /\ tables'[table.slot].next_id = Target.next_id + 1
    BY <1>10, IndexedRuntime DEF Runtimes
  <2> DEFINE n == rows[Target.name]
  <2>4. n \in Nat
    BY <1>1, <2>2 DEF Runtimes
  <2>5. HasIdOfSchema(Target) /\ n >= 1 /\ Holds(Target, n - 1)
    BY <2>1, <2>2 DEF ContentsOK
  <2>6. Target.keys = 1..(n - 1) /\ Target.next_id = n
    BY <2>2, <2>4, <2>5 DEF Holds
  <2>7. 1..(n - 1) \cup {n} = 1..n
    <3> HIDE DEF n
    <3> QED BY <2>4, <2>5
  <2>8. ASSUME NEW i \in DOMAIN tables
        PROVE  /\ tables'[i].has_id = (schema[tables'[i].name] = "with_id")
               /\ tables'[i].has_id => /\ tables'[i].keys = 1..rows[tables'[i].name]
                                       /\ tables'[i].next_id = rows[tables'[i].name] + 1
    <3>1. CASE i = table.slot
      BY <2>2, <2>3, <2>5, <2>6, <2>7, <3>1 DEF HasIdOfSchema
    <3>2. CASE i # table.slot
      BY <2>1, <2>2, <3>2 DEF ContentsOK, HasIdOfSchema, Holds
    <3> QED BY <3>1, <3>2
  <2> QED BY <2>1, <2>2, <2>8 DEF ContentsOK, HasIdOfSchema, Holds
<1>11. CASE Close
  <2>1. tables' = <<>> /\ pc' = "ended"
    BY <1>11 DEF Close
  <2>2. DOMAIN tables' = {}
    BY <2>1, EmptySeq
  <2> QED BY <2>1, <2>2 DEF ContentsOK
<1>12. CASE Ended \/ UNCHANGED vars
  <2>1. UNCHANGED <<schema, rows, tables, loading, table, pc>>
    BY <1>12 DEF Ended, vars, files, cache
  <2> QED BY <2>1 DEF ContentsOK, HasIdOfSchema, Holds
<1>13. CASE GrowthFails \/ Refused \/ InsertIndexFails \/ Unload
  BY <1>2, <1>13 DEF GrowthFails, Refused, InsertIndexFails, Unload, LoadFails, StatementFails
<1>14. CASE BuildFails \/ DestroyIndex
  <2>1. /\ UNCHANGED <<schema, rows, tables>>
        /\ pc \in {"index", "unbuilt"} /\ pc' \in {"unbuilt", "unloaded"}
    BY <1>14 DEF BuildFails, DestroyIndex, files, cache
  <2> QED BY <2>1, ContentsUntouched
<1> QED BY <1>2, <1>3, <1>4, <1>5, <1>6, <1>7, <1>8, <1>9, <1>10, <1>11, <1>12, <1>13,
           <1>14 DEF Next

\* Between statements every cached runtime stands for its own file, however statements on
\* any number of tables alternate.
THEOREM RuntimesStandForFiles == Spec => []RuntimesMatchFiles
<1>1. ContentsOK => RuntimesMatchFiles
  BY DEF ContentsOK, RuntimesMatchFiles, HasIdOfSchema, Holds
<1> QED BY <1>1, ContentsStart, ContentsStep, CacheInvariant, PTL DEF Spec
=============================================================================
