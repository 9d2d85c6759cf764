---------------------------- MODULE EngineProofs ----------------------------
(***************************************************************************)
(* What processes can rely on in the data file they share, what one        *)
(* process at a time knows of it, and that these processes are the table   *)
(* of IdTable to their users.                                              *)
(***************************************************************************)
EXTENDS Engine, DataProofs

-----------------------------------------------------------------------------
(* Whatever else uses the file.                                            *)

\* Every entry of an index, and the offset of the row about to be indexed, is inside the
\* file; only appends change the file.
OffsetsInFile ==
    /\ file \in Seq({file[i] : i \in DOMAIN file})
    /\ pc \in [Procs -> {"down", "idle", "append", "index"}]
    /\ loaded \in [Procs -> BOOLEAN]
    /\ index \in [Procs -> {index[p] : p \in Procs}]
    /\ row_offset \in [Procs -> Nat]
    /\ \A p \in Procs : \A k \in DOMAIN index[p] : index[p][k] \in 1..Len(file)
    /\ \A p \in Procs : pc[p] = "append" => row_offset[p] \in 1..(Len(file) + 1)
    /\ \A p \in Procs : pc[p] = "index" => row_offset[p] \in 1..Len(file)

\* Its part about the row an INSERT is at.
LEMMA RowOffsets ==
  ASSUME OffsetsInFile
  PROVE  /\ \A p \in Procs : pc[p] = "append" => row_offset[p] \in 1..(Len(file) + 1)
         /\ \A p \in Procs : pc[p] = "index" => row_offset[p] \in 1..Len(file)
BY DEF OffsetsInFile

LEMMA InitOffsetsInFile == Init => OffsetsInFile
<1> SUFFICES ASSUME Init PROVE OffsetsInFile
  OBVIOUS
<1>1. PICK ids \in StoredBefore : file = [i \in 1..Len(ids) |-> WholeRow(ids[i])]
  BY DEF Init
<1>2. Len(ids) \in Nat
  BY StoredBeforeAssumption
<1>3. file \in [1..Len(ids) -> {file[i] : i \in DOMAIN file}]
  BY <1>1
<1>4. file \in Seq({file[i] : i \in DOMAIN file})
  BY <1>2, <1>3, SeqDef
<1>5. \A p \in Procs : DOMAIN index[p] = {} /\ index[p] \in {index[q] : q \in Procs}
  BY DEF Init, EmptyIndex
<1>6. index \in [Procs -> {index[p] : p \in Procs}]
  BY <1>5 DEF Init
<1> QED BY <1>4, <1>5, <1>6 DEF Init, OffsetsInFile

\* The file only grows, at its end.
LEMMA FileGrows ==
  ASSUME OffsetsInFile, file' = file \/ \E x : file' = Append(file, x)
  PROVE  /\ Len(file) \in Nat /\ Len(file') \in Nat /\ Len(file) <= Len(file')
         /\ DOMAIN file = 1..Len(file) /\ DOMAIN file' = 1..Len(file')
         /\ file' \in Seq({file'[i] : i \in DOMAIN file'})
         /\ \A i \in 1..Len(file) : file'[i] = file[i]
<1> DEFINE S == {file[i] : i \in DOMAIN file}
<1>1. file \in Seq(S)
  BY DEF OffsetsInFile
<1>2. Len(file) \in Nat /\ DOMAIN file = 1..Len(file)
  BY <1>1, LenProperties
<1>3. CASE file' = file
  BY <1>1, <1>2, <1>3
<1>4. CASE \E x : file' = Append(file, x)
  <2>1. PICK x : file' = Append(file, x)
    BY <1>4
  <2> HIDE DEF S
  <2>2. /\ file' \in Seq(S \cup {x}) /\ Len(file') = Len(file) + 1
        /\ DOMAIN file' = 1..Len(file')
        /\ \A i \in 1..Len(file) : file'[i] = file[i]
    BY <1>1, <2>1, AppendAt
  <2>3. file' \in [1..Len(file') -> {file'[i] : i \in DOMAIN file'}]
    BY <2>2, LenProperties
  <2>4. file' \in Seq({file'[i] : i \in DOMAIN file'})
    BY <1>2, <2>2, <2>3, SeqDef
  <2> QED BY <1>2, <2>2, <2>4
<1> QED BY <1>3, <1>4

\* A process that ends keeps nothing.
LEMMA EndsOffsets ==
  ASSUME OffsetsInFile, NEW p \in Procs, Ends(p),
         file' = file \/ \E x : file' = Append(file, x)
  PROVE  OffsetsInFile'
<1>1. /\ Len(file) \in Nat /\ Len(file') \in Nat /\ Len(file) <= Len(file')
      /\ file' \in Seq({file'[i] : i \in DOMAIN file'})
  BY FileGrows
<1>2. index' = [q \in Procs |-> IF q = p THEN EmptyIndex ELSE index[q]]
  BY DEF Ends, OffsetsInFile
<1>3. index' \in [Procs -> {index'[q] : q \in Procs}]
  BY <1>2
<1>4. \A q \in Procs : \A k \in DOMAIN index'[q] : index'[q][k] \in 1..Len(file')
  BY <1>1, <1>2 DEF OffsetsInFile, EmptyIndex
<1>5. /\ pc' \in [Procs -> {"down", "idle", "append", "index"}]
      /\ loaded' \in [Procs -> BOOLEAN] /\ row_offset' \in [Procs -> Nat]
  BY DEF Ends, OffsetsInFile
<1>6. /\ \A q \in Procs : pc'[q] = "append" => row_offset'[q] \in 1..(Len(file') + 1)
      /\ \A q \in Procs : pc'[q] = "index" => row_offset'[q] \in 1..Len(file')
  <2>1. \A q \in Procs : pc'[q] \in {"append", "index"} =>
           pc'[q] = pc[q] /\ row_offset'[q] = row_offset[q]
    BY DEF Ends, OffsetsInFile
  <2>2. Len(file) \in Nat /\ Len(file') \in Nat /\ Len(file) <= Len(file')
    BY <1>1
  <2> QED BY <2>1, <2>2, RowOffsets
<1> QED BY <1>1, <1>3, <1>4, <1>5, <1>6 DEF OffsetsInFile

\* Nothing but the place of the processes, the ghosts and the answer changes.
LEMMA OffsetsStep ==
  ASSUME OffsetsInFile, [Next]_vars
  PROVE  OffsetsInFile'
<1>1. CASE UNCHANGED vars
  BY <1>1 DEF vars, runtime, OffsetsInFile
<1>2. ASSUME NEW p \in Procs, Start(p)
      PROVE  OffsetsInFile'
  BY <1>2 DEF Start, runtime, OffsetsInFile
<1>3. ASSUME NEW p \in Procs,
             Exit(p) \/ Crash(p) \/ LoadFails(p) \/ Reject(p) \/ InsertOverflow(p)
             \/ AppendFails(p) \/ AppendUnconfirmed(p) \/ AppendTorn(p) \/ InsertIndexFails(p)
             \/ SelectFails(p)
      PROVE  OffsetsInFile'
  <2>1. Ends(p)
    BY <1>3 DEF Exit, Crash, LoadFails, Reject, InsertOverflow, AppendFails,
                AppendUnconfirmed, AppendTorn, InsertIndexFails, SelectFails, EndsWithError
  <2>2. file' = file \/ \E x : file' = Append(file, x)
    BY <1>3 DEF Exit, Crash, LoadFails, Reject, InsertOverflow, AppendFails,
                AppendUnconfirmed, AppendTorn, InsertIndexFails, SelectFails
  <2> QED BY <2>1, <2>2, EndsOffsets
<1>4. ASSUME NEW p \in Procs, Load(p)
      PROVE  OffsetsInFile'
  <2>1. file' = file /\ Len(file) \in Nat /\ DOMAIN file = 1..Len(file)
    BY <1>4, FileGrows DEF Load
  <2>2. index' = [q \in Procs |-> IF q = p THEN LoadedIndex ELSE index[q]]
    BY <1>4 DEF Load, OffsetsInFile
  <2>3. \A k \in DOMAIN LoadedIndex : LoadedIndex[k] \in 1..Len(file)
    <3> SUFFICES ASSUME NEW k \in StoredIds PROVE LoadedIndex[k] \in 1..Len(file)
      BY DEF LoadedIndex
    <3>1. \E i \in LineStarts : IdAt(i) = k
      BY DEF StoredIds
    <3>2. LineStarts \subseteq 1..Len(file)
      BY <2>1 DEF LineStarts
    <3> QED BY <3>1, <3>2 DEF LoadedIndex
  <2>4. index' \in [Procs -> {index'[q] : q \in Procs}]
    BY <2>2
  <2>5. \A q \in Procs : \A k \in DOMAIN index'[q] : index'[q][k] \in 1..Len(file')
    BY <2>1, <2>2, <2>3 DEF OffsetsInFile
  <2>6. loaded' \in [Procs -> BOOLEAN] /\ pc' = pc /\ row_offset' = row_offset
    BY <1>4 DEF Load, OffsetsInFile
  <2> QED BY <2>1, <2>4, <2>5, <2>6 DEF OffsetsInFile
<1>5. ASSUME NEW p \in Procs, InsertOpen(p)
      PROVE  OffsetsInFile'
  <2>1. file' = file /\ Len(file) \in Nat
    BY <1>5, FileGrows DEF InsertOpen
  <2>2. /\ index' = index /\ loaded' = loaded
        /\ pc' = [pc EXCEPT ![p] = "append"]
        /\ row_offset' = [row_offset EXCEPT ![p] = Len(file) + 1]
    BY <1>5 DEF InsertOpen, EndOfFile, runtime
  <2>3. /\ pc' \in [Procs -> {"down", "idle", "append", "index"}]
        /\ row_offset' \in [Procs -> Nat]
    BY <2>1, <2>2 DEF OffsetsInFile
  <2>4. /\ \A q \in Procs : pc'[q] = "append" => row_offset'[q] \in 1..(Len(file') + 1)
        /\ \A q \in Procs : pc'[q] = "index" => row_offset'[q] \in 1..Len(file')
    <3> SUFFICES ASSUME NEW q \in Procs
                 PROVE  /\ pc'[q] = "append" => row_offset'[q] \in 1..(Len(file') + 1)
                        /\ pc'[q] = "index" => row_offset'[q] \in 1..Len(file')
      OBVIOUS
    <3>1. CASE q = p
      <4>1. pc'[q] = "append" /\ row_offset'[q] = Len(file) + 1
        BY <2>2, <3>1 DEF OffsetsInFile
      <4> QED BY <2>1, <4>1
    <3>2. CASE q # p
      <4>1. pc'[q] = pc[q] /\ row_offset'[q] = row_offset[q]
        BY <2>2, <3>2 DEF OffsetsInFile
      <4> QED BY <2>1, <4>1, RowOffsets
    <3> QED BY <3>1, <3>2
  <2> QED BY <2>1, <2>2, <2>3, <2>4 DEF OffsetsInFile
<1>6. ASSUME NEW p \in Procs, InsertAppend(p)
      PROVE  OffsetsInFile'
  <2>1. file' = Append(file, WholeRow(next_id[p]))
    BY <1>6 DEF InsertAppend
  <2>2. /\ Len(file) \in Nat /\ Len(file') \in Nat /\ Len(file) <= Len(file')
        /\ file' \in Seq({file'[i] : i \in DOMAIN file'})
    BY <2>1, FileGrows
  <2>3. Len(file') = Len(file) + 1
    BY <2>1, AppendAt DEF OffsetsInFile
  <2>4. index' = index /\ loaded' = loaded /\ row_offset' = row_offset
        /\ pc' = [pc EXCEPT ![p] = "index"] /\ pc[p] = "append"
    BY <1>6 DEF InsertAppend, runtime
  <2>5. \A q \in Procs : \A k \in DOMAIN index'[q] : index'[q][k] \in 1..Len(file')
    BY <2>2, <2>4 DEF OffsetsInFile
  <2>6. /\ \A q \in Procs : pc'[q] = "append" => row_offset'[q] \in 1..(Len(file') + 1)
        /\ \A q \in Procs : pc'[q] = "index" => row_offset'[q] \in 1..Len(file')
    <3> SUFFICES ASSUME NEW q \in Procs
                 PROVE  /\ pc'[q] = "append" => row_offset'[q] \in 1..(Len(file') + 1)
                        /\ pc'[q] = "index" => row_offset'[q] \in 1..Len(file')
      OBVIOUS
    <3>1. CASE q = p
      <4>1. pc'[q] = "index" /\ row_offset'[q] \in 1..(Len(file) + 1)
        BY <2>4, <3>1 DEF OffsetsInFile
      <4> QED BY <2>3, <4>1
    <3>2. CASE q # p
      <4>1. pc'[q] = pc[q] /\ row_offset'[q] = row_offset[q]
        BY <2>4, <3>2 DEF OffsetsInFile
      <4>2. Len(file) \in Nat /\ Len(file') \in Nat /\ Len(file) <= Len(file')
        BY <2>2
      <4> QED BY <4>1, <4>2, RowOffsets
    <3> QED BY <3>1, <3>2
  <2>7. pc' \in [Procs -> {"down", "idle", "append", "index"}]
    BY <2>4 DEF OffsetsInFile
  <2> QED BY <2>2, <2>4, <2>5, <2>6, <2>7 DEF OffsetsInFile
<1>7. ASSUME NEW p \in Procs, InsertIndex(p)
      PROVE  OffsetsInFile'
  <2> DEFINE new == [k \in DOMAIN index[p] \cup {next_id[p]} |->
                        IF k = next_id[p] THEN row_offset[p] ELSE index[p][k]]
  <2>1. file' = file /\ pc[p] = "index"
    BY <1>7 DEF InsertIndex
  <2>2. index' = [q \in Procs |-> IF q = p THEN new ELSE index[q]]
    BY <1>7 DEF InsertIndex, OffsetsInFile
  <2>3. index' \in [Procs -> {index'[q] : q \in Procs}]
    BY <2>2
  <2>4. \A k \in DOMAIN new : new[k] \in 1..Len(file)
    BY <2>1 DEF OffsetsInFile
  <2>5. \A q \in Procs : \A k \in DOMAIN index'[q] : index'[q][k] \in 1..Len(file')
    BY <2>1, <2>2, <2>4 DEF OffsetsInFile
  <2>6. pc' = [pc EXCEPT ![p] = "idle"] /\ loaded' = loaded
        /\ row_offset' = [row_offset EXCEPT ![p] = 0]
    BY <1>7 DEF InsertIndex
  <2>7. /\ pc' \in [Procs -> {"down", "idle", "append", "index"}]
        /\ row_offset' \in [Procs -> Nat] /\ loaded' \in [Procs -> BOOLEAN]
    BY <2>6 DEF OffsetsInFile
  <2>8. \A q \in Procs : pc'[q] \in {"append", "index"} =>
           pc'[q] = pc[q] /\ row_offset'[q] = row_offset[q]
    BY <2>6 DEF OffsetsInFile
  <2>9. /\ \A q \in Procs : pc'[q] = "append" => row_offset'[q] \in 1..(Len(file') + 1)
        /\ \A q \in Procs : pc'[q] = "index" => row_offset'[q] \in 1..Len(file')
    BY <2>1, <2>8, RowOffsets
  <2>10. file' \in Seq({file'[i] : i \in DOMAIN file'})
    BY <2>1 DEF OffsetsInFile
  <2> QED BY <2>3, <2>5, <2>7, <2>9, <2>10 DEF OffsetsInFile
<1>8. ASSUME NEW p \in Procs, NEW k, SelectById(p, k)
      PROVE  OffsetsInFile'
  BY <1>8 DEF SelectById, runtime, OffsetsInFile
<1>9. ASSUME NEW p \in Procs, SelectAll(p)
      PROVE  OffsetsInFile'
  BY <1>9 DEF SelectAll, runtime, OffsetsInFile
<1> QED BY <1>1, <1>2, <1>3, <1>4, <1>5, <1>6, <1>7, <1>8, <1>9 DEF Next

\* What a step does to the file, and to the index of a process that stays.
LEMMA FileAndIndexStep ==
  ASSUME OffsetsInFile, [Next]_vars
  PROVE  /\ file' = file \/ \E x : file' = Append(file, x)
         /\ \A q \in Procs : loaded[q] /\ loaded'[q] =>
               \A k \in DOMAIN index[q] : index'[q][k] = index[q][k]
<1> DEFINE Stays == \A q \in Procs : loaded[q] /\ loaded'[q] =>
                       \A k \in DOMAIN index[q] : index'[q][k] = index[q][k]
<1>1. ASSUME NEW p \in Procs,
             Exit(p) \/ Crash(p) \/ LoadFails(p) \/ Reject(p) \/ InsertOverflow(p)
             \/ AppendFails(p) \/ AppendUnconfirmed(p) \/ AppendTorn(p) \/ InsertIndexFails(p)
             \/ SelectFails(p)
      PROVE  Stays /\ (file' = file \/ \E x : file' = Append(file, x))
  <2>1. Ends(p)
    BY <1>1 DEF Exit, Crash, LoadFails, Reject, InsertOverflow, AppendFails,
                AppendUnconfirmed, AppendTorn, InsertIndexFails, SelectFails, EndsWithError
  <2>2. file' = file \/ \E x : file' = Append(file, x)
    BY <1>1 DEF Exit, Crash, LoadFails, Reject, InsertOverflow, AppendFails,
                AppendUnconfirmed, AppendTorn, InsertIndexFails, SelectFails
  <2>3. Stays
    BY <2>1 DEF Ends, OffsetsInFile
  <2> QED BY <2>2, <2>3
<1>2. ASSUME NEW p \in Procs, InsertIndex(p)
      PROVE  Stays /\ file' = file
  BY <1>2 DEF InsertIndex, OffsetsInFile
<1>3. ASSUME NEW p \in Procs, Load(p)
      PROVE  Stays /\ file' = file
  BY <1>3 DEF Load, OffsetsInFile
<1>4. ASSUME NEW p \in Procs, InsertAppend(p)
      PROVE  Stays /\ \E x : file' = Append(file, x)
  BY <1>4 DEF InsertAppend, runtime
<1>5. ASSUME NEW p \in Procs,
             Start(p) \/ InsertOpen(p) \/ SelectAll(p) \/ (\E k \in 1..MaxId : SelectById(p, k))
      PROVE  Stays /\ file' = file
  BY <1>5 DEF Start, InsertOpen, SelectAll, SelectById, runtime
<1>6. CASE UNCHANGED vars
  BY <1>6 DEF vars, runtime
<1> QED BY <1>1, <1>2, <1>3, <1>4, <1>5, <1>6 DEF Next

\* Whole rows do not move or change under the index of a process, for any number of
\* processes, torn appends, failures and crashes (mode "ab+", row_offset).
THEOREM IndexedRowsStay == Spec => IndexEntriesStay
<1>1. Init => OffsetsInFile
  BY InitOffsetsInFile
<1>2. OffsetsInFile /\ [Next]_vars => OffsetsInFile'
  BY OffsetsStep
<1>3. OffsetsInFile /\ [Next]_vars =>
         \A p \in Procs : loaded[p] /\ loaded'[p] =>
            \A k \in DOMAIN index[p] :
               RowAt(index[p][k]) = [id |-> k, whole |-> TRUE]
                  => RowAt(index[p][k])' = [id |-> k, whole |-> TRUE]
  <2> SUFFICES ASSUME OffsetsInFile, [Next]_vars,
                      NEW p \in Procs, loaded[p], loaded'[p],
                      NEW k \in DOMAIN index[p],
                      RowAt(index[p][k]) = [id |-> k, whole |-> TRUE]
               PROVE  RowAt(index[p][k])' = [id |-> k, whole |-> TRUE]
    OBVIOUS
  <2> DEFINE o == index[p][k]
  <2>1. o \in 1..Len(file) /\ index'[p][k] = o
    BY FileAndIndexStep DEF OffsetsInFile
  <2>2. file'[o] = file[o]
    BY <2>1, FileAndIndexStep, FileGrows
  <2>3. IdAt(o) = k /\ file[o].cut = "no"
    BY DEF RowAt
  <2>4. file[o].id = k
    BY <2>3 DEF IdAt
  <2>5. IdAt(o)' = k
    BY <2>1, <2>2, <2>3, <2>4 DEF IdAt
  <2> QED BY <2>1, <2>2, <2>3, <2>5 DEF RowAt
<1> QED BY <1>1, <1>2, <1>3, PTL DEF Spec, IndexEntriesStay

-----------------------------------------------------------------------------
(* A file without torn lines.                                              *)

\* The ids of the first n rows, and the index of those rows.
IdsUpTo(n) == {file[i].id : i \in 1..n}
IndexUpTo(n) == [k \in IdsUpTo(n) |-> CHOOSE i \in 1..n : file[i].id = k]

\* Every line is a whole row, an INSERT under way has an id, and the row it appended and
\* those reported are in the file.
WholeRows ==
    /\ file \in Seq([id : 1..MaxId, cut : {"no"}])
    /\ torn = 0
    /\ next_id \in [Procs -> 0..MaxId]
    /\ acked \subseteq IdsUpTo(Len(file))
    /\ \A p \in Procs : pc[p] = "append" => next_id[p] # 0
    /\ \A p \in Procs : pc[p] = "index" => next_id[p] \in IdsUpTo(Len(file))

\* What read_line finds in such a file.
LEMMA WholeRowsRead ==
  ASSUME WholeRows
  PROVE  /\ Len(file) \in Nat /\ DOMAIN file = 1..Len(file)
         /\ \A i \in 1..Len(file) : file[i].id \in 1..MaxId /\ file[i].cut = "no"
         /\ LineStarts = 1..Len(file)
         /\ \A i \in 1..Len(file) : IdAt(i) = file[i].id
         /\ StoredIds = IdsUpTo(Len(file))
         /\ StoredRows = {[id |-> file[i].id, whole |-> TRUE] : i \in 1..Len(file)}
         /\ FileReadable
<1>1. Len(file) \in Nat /\ DOMAIN file = 1..Len(file)
  BY LenProperties DEF WholeRows
<1>2. \A i \in 1..Len(file) : file[i].id \in 1..MaxId /\ file[i].cut = "no"
  <2> SUFFICES ASSUME NEW i \in 1..Len(file)
               PROVE  file[i].id \in 1..MaxId /\ file[i].cut = "no"
    OBVIOUS
  <2>1. file[i] \in [id : 1..MaxId, cut : {"no"}]
    BY ElementOfSeq DEF WholeRows
  <2> QED BY <2>1
<1>3. LineStarts = 1..Len(file)
  BY <1>1, <1>2 DEF LineStarts
<1>4. \A i \in 1..Len(file) : IdAt(i) = file[i].id
  BY <1>2 DEF IdAt
<1>5. StoredIds = IdsUpTo(Len(file))
  BY <1>3, <1>4 DEF StoredIds, IdsUpTo
<1>6. StoredRows = {[id |-> file[i].id, whole |-> TRUE] : i \in 1..Len(file)}
  <2>1. \A i \in 1..Len(file) : RowAt(i) = [id |-> file[i].id, whole |-> TRUE]
    BY <1>2, <1>4 DEF RowAt
  <2> QED BY <1>3, <2>1 DEF StoredRows
<1>7. FileReadable
  BY <1>1, <1>2, <1>3 DEF FileReadable, MalformedAt
<1> QED BY <1>1, <1>2, <1>3, <1>4, <1>5, <1>6, <1>7

LEMMA WholeRowsReadNext == (WholeRows => StoredIds = IdsUpTo(Len(file)))'
<1>1. WholeRows => StoredIds = IdsUpTo(Len(file))
  BY WholeRowsRead
<1> QED BY <1>1, PTL

\* next_id of a process that loads such a file.
LEMMA LoadedNextIdIsLargest ==
  ASSUME WholeRows
  PROVE  /\ LoadedNextId \in 1..(MaxId + 1)
         /\ \A k \in StoredIds : k < LoadedNextId
         /\ LoadedNextId = MaxId + 1 => MaxId \in StoredIds
         /\ \A m \in StoredIds : (\A k \in StoredIds : k <= m) => LoadedNextId = m + 1
<1>1. StoredIds \subseteq 1..MaxId
  BY WholeRowsRead DEF IdsUpTo
<1>2. MaxId \in Nat \ {0}
  BY MaxIdAssumption
<1>3. CASE StoredIds = {}
  BY <1>2, <1>3 DEF LoadedNextId
<1>4. CASE StoredIds # {}
  <2>1. \E m \in StoredIds : \A k \in StoredIds : k <= m
    <3>1. StoredIds \in SUBSET (0..MaxId) /\ MaxId \in Nat
      BY <1>1, <1>2
    <3> QED BY <1>4, <3>1, LargestExists
  <2> DEFINE m == CHOOSE m \in StoredIds : \A k \in StoredIds : k <= m
  <2>2. m \in StoredIds /\ \A k \in StoredIds : k <= m
    BY <2>1
  <2>3. LoadedNextId = 1 + m
    BY <1>4 DEF LoadedNextId
  <2> HIDE DEF m
  <2> QED BY <1>1, <1>2, <2>2, <2>3
<1> QED BY <1>3, <1>4

LEMMA InitWholeRows == ASSUME MaxTorn = 0 PROVE Init => WholeRows
<1> SUFFICES ASSUME Init PROVE WholeRows
  OBVIOUS
<1>1. PICK ids \in StoredBefore : file = [i \in 1..Len(ids) |-> WholeRow(ids[i])]
  BY DEF Init
<1>2. ids \in Seq(1..MaxId) /\ Len(ids) \in Nat /\ \A i \in 1..Len(ids) : ids[i] \in 1..MaxId
  BY StoredBeforeAssumption, LenProperties, ElementOfSeq
<1>3. file \in [1..Len(ids) -> [id : 1..MaxId, cut : {"no"}]]
  BY <1>1, <1>2 DEF WholeRow
<1>4. file \in Seq([id : 1..MaxId, cut : {"no"}])
  BY <1>2, <1>3, FunctionIsSeq
<1> QED BY <1>4, MaxIdAssumption DEF Init, WholeRows

\* The appended row is there, and what was there stays.
LEMMA WholeRowAppended ==
  ASSUME WholeRows, NEW n \in 1..MaxId, file' = Append(file, WholeRow(n))
  PROVE  /\ file' \in Seq([id : 1..MaxId, cut : {"no"}])
         /\ Len(file) \in Nat /\ Len(file') = Len(file) + 1
         /\ \A i \in 1..Len(file) : file'[i] = file[i]
         /\ file'[Len(file) + 1] = WholeRow(n)
         /\ IdsUpTo(Len(file))' = IdsUpTo(Len(file)) \cup {n}
<1>1. WholeRow(n) \in [id : 1..MaxId, cut : {"no"}] /\ WholeRow(n).id = n
  BY DEF WholeRow
<1>2. file' \in Seq([id : 1..MaxId, cut : {"no"}])
  BY <1>1 DEF WholeRows
<1>3. /\ Len(file) \in Nat /\ Len(file') = Len(file) + 1
      /\ \A i \in 1..Len(file) : file'[i] = file[i]
      /\ file'[Len(file) + 1] = WholeRow(n)
  BY AppendAt DEF WholeRows
<1>4. IdsUpTo(Len(file))' = IdsUpTo(Len(file)) \cup {n}
  <2>1. IdsUpTo(Len(file))' = {file'[i].id : i \in 1..(Len(file) + 1)}
    BY <1>3 DEF IdsUpTo
  <2>2. 1..(Len(file) + 1) = 1..Len(file) \cup {Len(file) + 1}
    BY <1>3
  <2>3. \A i \in 1..Len(file) : file'[i].id = file[i].id
    BY <1>3
  <2>4. file'[Len(file) + 1].id = n
    BY <1>1, <1>3
  <2> QED BY <2>1, <2>2, <2>3, <2>4 DEF IdsUpTo
<1> QED BY <1>2, <1>3, <1>4

\* The ends of a process, but for those that tear a row.
LEMMA EndsWhole ==
  ASSUME OffsetsInFile, WholeRows, NEW p \in Procs, Ends(p),
         file' = file, acked' = acked, torn' = torn
  PROVE  WholeRows'
<1>1. next_id' \in [Procs -> 0..MaxId]
  BY MaxIdAssumption DEF Ends, WholeRows
<1>2. \A q \in Procs : pc'[q] \in {"append", "index"} =>
         pc'[q] = pc[q] /\ next_id'[q] = next_id[q]
  BY DEF Ends, OffsetsInFile, WholeRows
<1>3. \A n : IdsUpTo(n)' = {file[i].id : i \in 1..n}
  BY DEF IdsUpTo
<1> QED BY <1>1, <1>2, <1>3 DEF WholeRows, IdsUpTo

LEMMA WholeRowsStep ==
  ASSUME MaxTorn = 0, OffsetsInFile, WholeRows, [Next]_vars
  PROVE  WholeRows'
<1>1. CASE UNCHANGED vars
  BY <1>1 DEF vars, runtime, bounds, WholeRows, IdsUpTo
<1>2. ASSUME NEW p \in Procs,
             Exit(p) \/ Crash(p) \/ LoadFails(p) \/ Reject(p) \/ InsertOverflow(p)
             \/ AppendFails(p) \/ InsertIndexFails(p) \/ SelectFails(p)
      PROVE  WholeRows'
  <2>1. Ends(p) /\ file' = file /\ acked' = acked /\ torn' = torn
    BY <1>2 DEF Exit, Crash, LoadFails, Reject, InsertOverflow, AppendFails,
                InsertIndexFails, SelectFails, EndsWithError, bounds
  <2> QED BY <2>1, EndsWhole
<1>3. ASSUME NEW p \in Procs, AppendTorn(p)
      PROVE  FALSE
  BY <1>3 DEF AppendTorn, WholeRows
<1>4. ASSUME NEW p \in Procs,
             Start(p) \/ SelectAll(p) \/ (\E k \in 1..MaxId : SelectById(p, k))
      PROVE  WholeRows'
  <2>1. /\ file' = file /\ acked' = acked /\ torn' = torn /\ next_id' = next_id
        /\ pc' = [pc EXCEPT ![p] = "idle"] \/ pc' = pc
    BY <1>4 DEF Start, SelectAll, SelectById, runtime, bounds
  <2>2. \A q \in Procs : pc'[q] \in {"append", "index"} => pc'[q] = pc[q]
    BY <2>1 DEF OffsetsInFile
  <2> QED BY <2>1, <2>2 DEF WholeRows, IdsUpTo
<1>5. ASSUME NEW p \in Procs, Load(p)
      PROVE  WholeRows'
  <2>1. /\ file' = file /\ acked' = acked /\ torn' = torn /\ pc' = pc
        /\ next_id' = [next_id EXCEPT ![p] = LoadedNextId] /\ pc[p] = "idle"
    BY <1>5 DEF Load, bounds
  <2>2. MaxId \notin StoredIds
    BY <1>5 DEF Load, Loadable, StoredIds
  <2>3. LoadedNextId \in 0..MaxId
    BY <2>2, LoadedNextIdIsLargest, MaxIdAssumption
  <2>4. next_id' \in [Procs -> 0..MaxId]
    BY <2>1, <2>3 DEF WholeRows
  <2>5. \A q \in Procs : pc'[q] \in {"append", "index"} =>
           pc'[q] = pc[q] /\ next_id'[q] = next_id[q]
    BY <2>1 DEF OffsetsInFile, WholeRows
  <2> QED BY <2>1, <2>4, <2>5 DEF WholeRows, IdsUpTo
<1>6. ASSUME NEW p \in Procs, InsertOpen(p)
      PROVE  WholeRows'
  <2>1. /\ file' = file /\ acked' = acked /\ torn' = torn /\ next_id' = next_id
        /\ pc' = [pc EXCEPT ![p] = "append"] /\ next_id[p] # 0
    BY <1>6 DEF InsertOpen, runtime, bounds
  <2>2. \A q \in Procs : pc'[q] \in {"append", "index"} => pc'[q] = pc[q] \/ q = p
    BY <2>1 DEF OffsetsInFile
  <2>3. pc'[p] = "append"
    BY <2>1 DEF OffsetsInFile
  <2> QED BY <2>1, <2>2, <2>3 DEF WholeRows, IdsUpTo
<1>7. ASSUME NEW p \in Procs, InsertAppend(p)
      PROVE  WholeRows'
  <2>1. /\ file' = Append(file, WholeRow(next_id[p])) /\ acked' = acked /\ torn' = torn
        /\ next_id' = next_id /\ pc' = [pc EXCEPT ![p] = "index"] /\ pc[p] = "append"
    BY <1>7 DEF InsertAppend, runtime, bounds
  <2>2. next_id[p] \in 1..MaxId
    BY <2>1, MaxIdAssumption DEF WholeRows
  <2>3. /\ file' \in Seq([id : 1..MaxId, cut : {"no"}])
        /\ IdsUpTo(Len(file))' = IdsUpTo(Len(file)) \cup {next_id[p]}
    BY <2>1, <2>2, WholeRowAppended
  <2>4. \A q \in Procs : pc'[q] \in {"append", "index"} => pc'[q] = pc[q] \/ q = p
    BY <2>1 DEF OffsetsInFile
  <2>5. pc'[p] = "index"
    BY <2>1 DEF OffsetsInFile
  <2> QED BY <2>1, <2>3, <2>4, <2>5 DEF WholeRows
<1>9. ASSUME NEW p \in Procs, AppendUnconfirmed(p)
      PROVE  WholeRows'
  <2>1. /\ file' = Append(file, WholeRow(next_id[p])) /\ acked' = acked /\ torn' = torn
        /\ Ends(p) /\ pc[p] = "append"
    BY <1>9 DEF AppendUnconfirmed, EndsWithError, bounds
  <2>2. next_id[p] \in 1..MaxId
    BY <2>1, MaxIdAssumption DEF WholeRows
  <2>3. /\ file' \in Seq([id : 1..MaxId, cut : {"no"}])
        /\ IdsUpTo(Len(file))' = IdsUpTo(Len(file)) \cup {next_id[p]}
    BY <2>1, <2>2, WholeRowAppended
  <2>4. next_id' \in [Procs -> 0..MaxId]
    BY <2>1, MaxIdAssumption DEF Ends, WholeRows
  <2>5. \A q \in Procs : pc'[q] \in {"append", "index"} =>
           pc'[q] = pc[q] /\ next_id'[q] = next_id[q]
    BY <2>1 DEF Ends, OffsetsInFile, WholeRows
  <2> QED BY <2>1, <2>3, <2>4, <2>5 DEF WholeRows
<1>8. ASSUME NEW p \in Procs, InsertIndex(p)
      PROVE  WholeRows'
  <2>1. /\ file' = file /\ acked' = acked \cup {next_id[p]} /\ torn' = torn
        /\ next_id' = [next_id EXCEPT ![p] = (next_id[p] + 1) % (MaxId + 1)]
        /\ pc' = [pc EXCEPT ![p] = "idle"] /\ pc[p] = "index"
    BY <1>8 DEF InsertIndex, bounds
  <2>2. (next_id[p] + 1) % (MaxId + 1) \in 0..MaxId
    BY MaxIdAssumption DEF WholeRows
  <2>3. next_id' \in [Procs -> 0..MaxId]
    BY <2>1, <2>2 DEF WholeRows
  <2>4. \A q \in Procs : pc'[q] \in {"append", "index"} =>
           pc'[q] = pc[q] /\ next_id'[q] = next_id[q]
    BY <2>1 DEF OffsetsInFile, WholeRows
  <2>5. IdsUpTo(Len(file))' = IdsUpTo(Len(file))
    BY <2>1 DEF IdsUpTo
  <2>6. next_id[p] \in IdsUpTo(Len(file))
    BY <2>1 DEF WholeRows
  <2>7. acked' \subseteq IdsUpTo(Len(file))'
    BY <2>1, <2>5, <2>6 DEF WholeRows
  <2> QED BY <2>1, <2>3, <2>4, <2>5, <2>7 DEF WholeRows
<1> QED BY <1>1, <1>2, <1>3, <1>4, <1>5, <1>6, <1>7, <1>8, <1>9 DEF Next

\* As long as no append tears, a row reported as inserted is in the file for good, for
\* any number of processes, failures and crashes (append_row_to_table_with_offset).
THEOREM AckedRowsNeverLost == ASSUME MaxTorn = 0 PROVE Spec => []AckedRowsStay
<1>1. Init => OffsetsInFile /\ WholeRows
  BY InitOffsetsInFile, InitWholeRows
<1>2. OffsetsInFile /\ WholeRows /\ [Next]_vars => (OffsetsInFile /\ WholeRows)'
  BY OffsetsStep, WholeRowsStep
<1>3. WholeRows => AckedRowsStay
  <2> SUFFICES ASSUME WholeRows, NEW k \in acked
               PROVE  [id |-> k, whole |-> TRUE] \in StoredRows
    BY DEF AckedRowsStay
  <2>1. PICK i \in 1..Len(file) : file[i].id = k
    BY DEF WholeRows, IdsUpTo
  <2> QED BY <2>1, WholeRowsRead
<1> QED BY <1>1, <1>2, <1>3, PTL DEF Spec

-----------------------------------------------------------------------------
(* One process at a time.                                                  *)

\* No id is in the file twice, and what the process knows of the table is what is in the
\* file, but for the row it has appended and not yet indexed.
OneTable ==
    /\ \A i, j \in 1..Len(file) : file[i].id = file[j].id => i = j
    /\ \A p \in Procs : pc[p] \in {"append", "index"} => loaded[p]
    /\ \A p \in Procs : loaded[p] /\ pc[p] # "index" =>
          index[p] = LoadedIndex /\ next_id[p] = LoadedNextId % (MaxId + 1)
    /\ \A p \in Procs : pc[p] = "append" => row_offset[p] = Len(file) + 1
    /\ \A p \in Procs : pc[p] = "index" =>
          /\ Len(file) > 0
          /\ index[p] = IndexUpTo(Len(file) - 1)
          /\ row_offset[p] = Len(file)
          /\ file[Len(file)].id = next_id[p]
          /\ \A k \in StoredIds : k <= next_id[p]

\* The index of a file without repeated ids.
LEMMA LoadedIndexIsUpToEnd ==
  ASSUME WholeRows PROVE LoadedIndex = IndexUpTo(Len(file))
<1>1. StoredIds = IdsUpTo(Len(file)) /\ LineStarts = 1..Len(file)
      /\ \A i \in 1..Len(file) : IdAt(i) = file[i].id
  BY WholeRowsRead
<1>2. \A k : (CHOOSE i \in LineStarts : IdAt(i) = k) = (CHOOSE i \in 1..Len(file) : file[i].id = k)
  BY <1>1
<1> QED BY <1>1, <1>2 DEF LoadedIndex, IndexUpTo

\* The id a process that knows the table gives to its next row is new.
LEMMA NextIdIsNew ==
  ASSUME WholeRows, OneTable, NEW p \in Procs, pc[p] = "append"
  PROVE  \A k \in StoredIds : k < next_id[p]
<1>1. next_id[p] = LoadedNextId % (MaxId + 1) /\ next_id[p] # 0
  BY DEF OneTable, WholeRows
<1>2. LoadedNextId \in 1..(MaxId + 1) /\ MaxId \in Nat
  BY LoadedNextIdIsLargest, MaxIdAssumption
<1>3. LoadedNextId # MaxId + 1
  BY <1>1, <1>2
<1>4. next_id[p] = LoadedNextId
  BY <1>1, <1>2, <1>3
<1> QED BY <1>4, LoadedNextIdIsLargest

LEMMA InitOneTable == Init => OneTable
<1> SUFFICES ASSUME Init PROVE OneTable
  OBVIOUS
<1>1. PICK ids \in StoredBefore : file = [i \in 1..Len(ids) |-> WholeRow(ids[i])]
  BY DEF Init
<1>2. /\ Len(ids) \in Nat /\ DOMAIN ids = 1..Len(ids)
      /\ \A m, n \in DOMAIN ids : ids[m] = ids[n] => m = n
  BY StoredBeforeAssumption, LenProperties
<1>3. Len(file) = Len(ids)
  BY <1>1, <1>2
<1>4. \A i \in 1..Len(file) : file[i].id = ids[i]
  BY <1>1, <1>3 DEF WholeRow
<1> QED BY <1>2, <1>3, <1>4 DEF Init, OneTable

\* What LoadedIndex, LoadedNextId and StoredIds are of a file that stays.
LEMMA SameFile ==
  ASSUME file' = file
  PROVE  /\ LoadedIndex' = LoadedIndex /\ LoadedNextId' = LoadedNextId
         /\ StoredIds' = StoredIds /\ \A n : IndexUpTo(n)' = IndexUpTo(n)
BY DEF LoadedIndex, LoadedNextId, StoredIds, LineStarts, IdAt, IndexUpTo, IdsUpTo

\* The id of an INSERT under way is in no row of the file, so its row repeats no id.
LEMMA AppendedIdIsNew ==
  ASSUME WholeRows, WholeRows', OneTable, NEW p \in Procs, pc[p] = "append",
         file' = Append(file, WholeRow(next_id[p]))
  PROVE  /\ next_id[p] \in 1..MaxId
         /\ Len(file) \in Nat /\ Len(file') = Len(file) + 1
         /\ \A i \in 1..Len(file) : file'[i] = file[i]
         /\ file'[Len(file')].id = next_id[p]
         /\ StoredIds' = StoredIds \cup {next_id[p]} /\ next_id[p] \notin StoredIds
         /\ \A k \in StoredIds' : k <= next_id[p]
         /\ \A i, j \in 1..Len(file') : file'[i].id = file'[j].id => i = j
<1>1. next_id[p] \in 1..MaxId
  BY MaxIdAssumption DEF WholeRows
<1>2. /\ Len(file) \in Nat /\ Len(file') = Len(file) + 1
      /\ \A i \in 1..Len(file) : file'[i] = file[i]
      /\ file'[Len(file')].id = next_id[p]
      /\ IdsUpTo(Len(file))' = IdsUpTo(Len(file)) \cup {next_id[p]}
  BY <1>1, WholeRowAppended DEF WholeRow
<1>3. \A k \in StoredIds : k < next_id[p]
  BY NextIdIsNew
<1>4. /\ StoredIds = IdsUpTo(Len(file)) /\ StoredIds' = IdsUpTo(Len(file))'
      /\ StoredIds \subseteq 1..MaxId
  <2>1. StoredIds' = IdsUpTo(Len(file))'
    BY WholeRowsReadNext
  <2>2. StoredIds = IdsUpTo(Len(file)) /\ StoredIds \subseteq 1..MaxId
    BY WholeRowsRead DEF IdsUpTo
  <2> QED BY <2>1, <2>2
<1>5. StoredIds' = StoredIds \cup {next_id[p]} /\ next_id[p] \notin StoredIds
  BY <1>1, <1>2, <1>3, <1>4
<1>6. \A k \in StoredIds' : k <= next_id[p]
  BY <1>1, <1>3, <1>4, <1>5
<1>7. \A i, j \in 1..Len(file') : file'[i].id = file'[j].id => i = j
  <2>1. \A i \in 1..Len(file) : file[i].id \in StoredIds /\ file'[i].id = file[i].id
    BY <1>2, <1>4 DEF IdsUpTo
  <2>2. \A i \in 1..Len(file) : file'[i].id # next_id[p]
    BY <1>5, <2>1
  <2>3. \A i \in 1..Len(file') : i \in 1..Len(file) \/ i = Len(file')
    BY <1>2
  <2>4. \A i, j \in 1..Len(file) : file'[i].id = file'[j].id => i = j
    BY <2>1 DEF OneTable
  <2> QED BY <1>2, <2>2, <2>3, <2>4
<1> QED BY <1>1, <1>2, <1>5, <1>6, <1>7

LEMMA OneTableStep ==
  ASSUME NEW p, Procs = {p}, MaxTorn = 0,
         OffsetsInFile, WholeRows, WholeRows', OneTable, [Next]_vars
  PROVE  OneTable'
<1>1. CASE UNCHANGED vars
  BY <1>1, SameFile DEF vars, runtime, OneTable
<1>2. CASE Exit(p) \/ Crash(p) \/ LoadFails(p) \/ Reject(p) \/ InsertOverflow(p)
           \/ AppendFails(p) \/ InsertIndexFails(p) \/ SelectFails(p)
  <2>1. Ends(p) /\ file' = file
    BY <1>2 DEF Exit, Crash, LoadFails, Reject, InsertOverflow, AppendFails,
                InsertIndexFails, SelectFails, EndsWithError
  <2>2. pc'[p] = "down" /\ ~loaded'[p]
    BY <2>1 DEF Ends, OffsetsInFile
  <2> QED BY <2>1, <2>2 DEF OneTable
<1>3. CASE AppendTorn(p)
  BY <1>3 DEF AppendTorn, WholeRows
<1>4. CASE Start(p) \/ SelectAll(p) \/ \E k \in 1..MaxId : SelectById(p, k)
  <2>1. /\ file' = file /\ loaded' = loaded /\ index' = index /\ next_id' = next_id
        /\ pc[p] # "index" /\ pc' \in [Procs -> {"down", "idle", "append", "index"}]
        /\ pc'[p] = "idle"
    BY <1>4 DEF Start, SelectAll, SelectById, Ready, runtime, OffsetsInFile
  <2> QED BY <2>1, SameFile DEF OneTable
<1>5. CASE Load(p)
  <2>1. /\ file' = file /\ pc'[p] = "idle"
        /\ index'[p] = LoadedIndex /\ next_id'[p] = LoadedNextId
    BY <1>5 DEF Load, OffsetsInFile, WholeRows
  <2>2. MaxId \notin StoredIds
    BY <1>5 DEF Load, Loadable, StoredIds
  <2>3. LoadedNextId = LoadedNextId % (MaxId + 1)
    BY <2>2, LoadedNextIdIsLargest, MaxIdAssumption
  <2> QED BY <2>1, <2>3, SameFile DEF OneTable
<1>6. CASE InsertOpen(p)
  <2>1. /\ file' = file /\ loaded' = loaded /\ index' = index /\ next_id' = next_id
        /\ loaded[p] /\ pc[p] = "idle" /\ pc'[p] = "append"
        /\ row_offset'[p] = Len(file) + 1
    BY <1>6 DEF InsertOpen, EndOfFile, Ready, runtime, OffsetsInFile
  <2> QED BY <2>1, SameFile DEF OneTable
<1>7. CASE InsertAppend(p)
  <2>1. /\ file' = Append(file, WholeRow(next_id[p])) /\ pc[p] = "append"
        /\ loaded' = loaded /\ index' = index /\ next_id' = next_id
        /\ row_offset' = row_offset /\ pc'[p] = "index"
    BY <1>7 DEF InsertAppend, runtime, OffsetsInFile
  <2>2. /\ Len(file) \in Nat /\ Len(file') = Len(file) + 1
        /\ \A i \in 1..Len(file) : file'[i] = file[i]
        /\ file'[Len(file')].id = next_id[p]
        /\ \A k \in StoredIds' : k <= next_id'[p]
        /\ \A i, j \in 1..Len(file') : file'[i].id = file'[j].id => i = j
    BY <2>1, AppendedIdIsNew
  <2>3. index'[p] = IndexUpTo(Len(file) - 1)'
    <3>1. index[p] = IndexUpTo(Len(file))
      BY <2>1, LoadedIndexIsUpToEnd DEF OneTable
    <3>2. Len(file') - 1 = Len(file)
      BY <2>2
    <3>3. IndexUpTo(Len(file) - 1)' = IndexUpTo(Len(file))
      BY <2>2, <3>2 DEF IndexUpTo, IdsUpTo
    <3> QED BY <2>1, <3>1, <3>3
  <2>4. loaded'[p] /\ row_offset'[p] = Len(file') /\ Len(file') > 0
    BY <2>1, <2>2 DEF OneTable
  <2> QED BY <2>1, <2>2, <2>3, <2>4 DEF OneTable
<1>9. CASE AppendUnconfirmed(p)
  <2>1. /\ file' = Append(file, WholeRow(next_id[p])) /\ pc[p] = "append" /\ Ends(p)
    BY <1>9 DEF AppendUnconfirmed, EndsWithError
  <2>2. pc'[p] = "down" /\ ~loaded'[p]
    BY <2>1 DEF Ends, OffsetsInFile
  <2>3. \A i, j \in 1..Len(file') : file'[i].id = file'[j].id => i = j
    BY <2>1, AppendedIdIsNew
  <2> QED BY <2>2, <2>3 DEF OneTable
<1>8. CASE InsertIndex(p)
  <2>1. /\ file' = file /\ pc[p] = "index" /\ pc'[p] = "idle"
        /\ next_id'[p] = (next_id[p] + 1) % (MaxId + 1)
        /\ index'[p] = [k \in DOMAIN index[p] \cup {next_id[p]} |->
                           IF k = next_id[p] THEN row_offset[p] ELSE index[p][k]]
    BY <1>8 DEF InsertIndex, OffsetsInFile, WholeRows
  <2> DEFINE n == Len(file)
  <2>2. /\ n > 0 /\ index[p] = IndexUpTo(n - 1) /\ row_offset[p] = n
        /\ file[n].id = next_id[p] /\ \A k \in StoredIds : k <= next_id[p]
    BY <2>1 DEF OneTable
  <2>3. n \in Nat /\ 1..n = 1..(n - 1) \cup {n} /\ n \notin 1..(n - 1)
    BY <2>2, WholeRowsRead
  <2>4. IdsUpTo(n) = IdsUpTo(n - 1) \cup {next_id[p]}
    BY <2>2, <2>3 DEF IdsUpTo
  <2>5. next_id[p] \in StoredIds
    BY <2>4, WholeRowsRead
  <2>6. LoadedNextId = next_id[p] + 1
    BY <2>2, <2>5, LoadedNextIdIsLargest
  <2>7. index'[p] = IndexUpTo(n)
    <3>1. ASSUME NEW k \in IdsUpTo(n - 1), k # next_id[p]
          PROVE  (CHOOSE i \in 1..(n - 1) : file[i].id = k)
                    = (CHOOSE i \in 1..n : file[i].id = k)
      BY <2>2, <2>3, <3>1
    <3>2. (CHOOSE i \in 1..n : file[i].id = next_id[p]) = n
      BY <2>2, <2>3 DEF OneTable
    <3> QED BY <2>1, <2>2, <2>4, <3>1, <3>2 DEF IndexUpTo
  <2>8. index'[p] = LoadedIndex
    BY <2>7, LoadedIndexIsUpToEnd
  <2> QED BY <2>1, <2>6, <2>8, SameFile DEF OneTable
<1> QED BY <1>1, <1>2, <1>3, <1>4, <1>5, <1>6, <1>7, <1>8, <1>9 DEF Next

LEMMA OneTableInvariant ==
  ASSUME NEW p, Procs = {p}, MaxTorn = 0
  PROVE  Spec => [](OffsetsInFile /\ WholeRows /\ OneTable)
<1>1. Init => OffsetsInFile /\ WholeRows /\ OneTable
  BY InitOffsetsInFile, InitWholeRows, InitOneTable
<1>2. OffsetsInFile /\ WholeRows /\ OneTable /\ [Next]_vars
         => (OffsetsInFile /\ WholeRows /\ OneTable)'
  BY OffsetsStep, WholeRowsStep, OneTableStep
<1> QED BY <1>1, <1>2, PTL DEF Spec

\* What one process keeps of the table in memory is at every moment what a new process
\* would build from the file, after any failures and crashes but torn appends
\* (execute_insert against build_id_index_for_table).
THEOREM MemoryMatchesFile ==
  ASSUME NEW p, Procs = {p}, MaxTorn = 0
  PROVE  Spec => []RestartRestores
<1>1. Spec => [](OffsetsInFile /\ WholeRows /\ OneTable)
  BY OneTableInvariant
<1>2. WholeRows /\ OneTable => RestartRestores
  <2> SUFFICES ASSUME WholeRows, OneTable, NEW q \in Procs, Ready(q)
               PROVE  /\ index[q] = LoadedIndex
                      /\ next_id[q] = LoadedNextId % (MaxId + 1)
                      /\ Loadable \/ MaxId \in StoredIds
    BY DEF RestartRestores
  <2>1. loaded[q] /\ pc[q] # "index"
    BY DEF Ready
  <2>2. Loadable \/ MaxId \in StoredIds
    <3>1. SUFFICES ASSUME MaxId \notin StoredIds PROVE Loadable
      OBVIOUS
    <3>2. \A i \in LineStarts : IdAt(i) # 0 /\ IdAt(i) # MaxId
      BY <3>1, WholeRowsRead DEF StoredIds
    <3>3. \A i, j \in LineStarts : IdAt(i) = IdAt(j) => i = j
      BY WholeRowsRead DEF OneTable
    <3> QED BY <3>2, <3>3, WholeRowsRead DEF Loadable
  <2> QED BY <2>1, <2>2 DEF OneTable
<1> QED BY <1>1, <1>2, PTL

\* One process never gives out an id twice, nor one below an id ever stored, up to and
\* including the last one (next_id, its wrap to 0).
THEOREM IdsNeverReused ==
  ASSUME NEW p, Procs = {p}, MaxTorn = 0
  PROVE  Spec => IdsGrow
<1>1. Spec => [](OffsetsInFile /\ WholeRows /\ OneTable)
  BY OneTableInvariant
<1>2. OffsetsInFile /\ WholeRows /\ OneTable /\ [Next]_vars =>
         (Len(file') > Len(file) => \A k \in StoredIds : k < file'[Len(file')].id)
  <2> SUFFICES ASSUME OffsetsInFile, WholeRows, OneTable, [Next]_vars, Len(file') > Len(file)
               PROVE  \A k \in StoredIds : k < file'[Len(file')].id
    OBVIOUS
  <2>1. file' # file
    BY WholeRowsRead
  <2>2. ~AppendTorn(p)
    BY DEF AppendTorn, WholeRows
  <2>3. InsertAppend(p) \/ AppendUnconfirmed(p)
    BY <2>1, <2>2 DEF Next, vars, Start, Exit, Crash, Load, LoadFails, Reject, InsertOverflow,
       InsertOpen, AppendFails, InsertIndex, InsertIndexFails, SelectById, SelectAll, SelectFails
  <2>4. pc[p] = "append" /\ file' = Append(file, WholeRow(next_id[p])) /\ p \in Procs
    BY <2>3 DEF InsertAppend, AppendUnconfirmed
  <2>5. next_id[p] \in 1..MaxId
    BY <2>4, MaxIdAssumption DEF WholeRows
  <2>6. file'[Len(file')].id = next_id[p]
    BY <2>4, <2>5, WholeRowAppended DEF WholeRow
  <2> QED BY <2>4, <2>6, NextIdIsNew
<1> QED BY <1>1, <1>2, PTL DEF Spec, IdsGrow

\* What Promise puts for the rows of IdTable, and its next id as a function of them.
Rows == StoredIds \ Unanswered
NextAfter(ids) == IF ids = {} THEN 1 ELSE 1 + (CHOOSE m \in ids : \A k \in ids : k <= m)

\* A row that is stored and not yet answered has the id the table promises next.
PromisedNext == \A p \in Procs : pc[p] = "index" => next_id[p] = NextAfter(Rows)

LEMMA NextIds == Promise!NextId = NextAfter(Rows) /\ LoadedNextId = NextAfter(StoredIds)
BY DEF Promise!NextId, NextAfter, Rows, LoadedNextId

\* Only a row between its append and its answer is stored and not promised.
LEMMA RowsNow ==
  ASSUME NEW p, Procs = {p}
  PROVE  Rows = IF pc[p] = "index" THEN StoredIds \ {next_id[p]} ELSE StoredIds
<1>1. CASE pc[p] = "index"
  <2>1. Unanswered = {next_id[p]}
    BY <1>1 DEF Unanswered
  <2> QED BY <1>1, <2>1 DEF Rows
<1>2. CASE pc[p] # "index"
  <2>1. Unanswered = {}
    BY <1>2 DEF Unanswered
  <2> QED BY <1>2, <2>1 DEF Rows
<1> QED BY <1>1, <1>2

LEMMA RowsThen ==
  ASSUME NEW CONSTANT p, Procs = {p}
  PROVE  (Rows = IF pc[p] = "index" THEN StoredIds \ {next_id[p]} ELSE StoredIds)'
<1>1. Rows = IF pc[p] = "index" THEN StoredIds \ {next_id[p]} ELSE StoredIds
  BY RowsNow
<1> QED BY <1>1, PTL

\* The id the table promises while an INSERT is between its checks and its append.
LEMMA NextIdIsPromised ==
  ASSUME NEW p, Procs = {p}, WholeRows, OneTable, pc[p] = "append"
  PROVE  next_id[p] = NextAfter(StoredIds) /\ next_id[p] \in 1..MaxId
<1>1. next_id[p] = LoadedNextId % (MaxId + 1) /\ next_id[p] # 0
  BY DEF OneTable, WholeRows
<1>2. LoadedNextId \in 1..(MaxId + 1) /\ MaxId \in Nat
  BY LoadedNextIdIsLargest, MaxIdAssumption
<1>3. next_id[p] = LoadedNextId /\ next_id[p] \in 1..MaxId
  BY <1>1, <1>2
<1> QED BY <1>3, NextIds

\* The row that was appended is all there is between the file and the promise.
LEMMA AppendedRow ==
  ASSUME NEW p, Procs = {p}, WholeRows, OneTable, pc[p] = "index"
  PROVE  /\ next_id[p] \in StoredIds /\ next_id[p] \in 1..MaxId
         /\ Rows \cup {next_id[p]} = StoredIds
<1>1. Len(file) > 0 /\ file[Len(file)].id = next_id[p]
  BY DEF OneTable
<1>2. next_id[p] \in StoredIds /\ StoredIds \subseteq 1..MaxId
  BY <1>1, WholeRowsRead DEF IdsUpTo
<1> QED BY <1>2, RowsNow

\* The abstract step of each of the engine's steps that end with an answer.
LEMMA AnswerSelect ==
  ASSUME NEW p, Procs = {p}, WholeRows, OneTable, NEW k, SelectById(p, k)
  PROVE  reply' = Reply("select", k, "OK", {k} \cap StoredIds)
<1>1. Ready(p) /\ reply' = Reply("select", k, "OK", {row.id : row \in IndexAnswer(p, k)})
  BY DEF SelectById
<1>2. index[p] = LoadedIndex
  BY <1>1 DEF Ready, OneTable
<1>3. CASE k \in StoredIds
  <2>1. k \in DOMAIN LoadedIndex /\ LoadedIndex[k] = CHOOSE i \in LineStarts : IdAt(i) = k
    BY <1>3 DEF LoadedIndex
  <2>2. \E i \in LineStarts : IdAt(i) = k
    BY <1>3 DEF StoredIds
  <2>3. IdAt(LoadedIndex[k]) = k
    BY <2>1, <2>2
  <2>4. RowAt(LoadedIndex[k]).id = k
    BY <2>3 DEF RowAt
  <2>5. IndexAnswer(p, k) = {RowAt(LoadedIndex[k])}
    BY <1>2, <2>1, <2>3 DEF IndexAnswer
  <2>6. {row.id : row \in IndexAnswer(p, k)} = {k}
    BY <2>4, <2>5
  <2> QED BY <1>1, <1>3, <2>6
<1>4. CASE k \notin StoredIds
  <2>1. IndexAnswer(p, k) = {}
    BY <1>2, <1>4 DEF IndexAnswer, LoadedIndex
  <2> QED BY <1>1, <1>4, <2>1
<1> QED BY <1>3, <1>4

\* Every step of a process is a step of the table it promises, or none; and it keeps the
\* id of an unanswered row the one the table promises next.
LEMMA RefinementStep ==
  ASSUME NEW p, Procs = {p}, MaxTorn = 0,
         WholeRows, WholeRows', OneTable, OneTable', OffsetsInFile, PromisedNext, [Next]_vars
  PROVE  /\ [Promise!Next]_(Promise!vars)
         /\ PromisedNext'
<1>1. /\ Rows = IF pc[p] = "index" THEN StoredIds \ {next_id[p]} ELSE StoredIds
      /\ Rows' = IF pc'[p] = "index" THEN StoredIds' \ {next_id'[p]} ELSE StoredIds'
  BY RowsNow, RowsThen
<1>2. /\ Rows = StoredIds \ Unanswered /\ Rows' = (StoredIds \ Unanswered)'
      /\ PromisedNext' = \A q \in Procs : pc'[q] = "index" => next_id'[q] = NextAfter(Rows')
  BY DEF Rows, PromisedNext, NextAfter
<1>3. CASE UNCHANGED vars
  <2>1. StoredIds' = StoredIds /\ Rows' = Rows /\ reply' = reply /\ pc' = pc /\ next_id' = next_id
    BY <1>1, <1>3, SameFile DEF vars, runtime
  <2>2. UNCHANGED Promise!vars
    BY <1>2, <2>1 DEF Promise!vars
  <2>3. PromisedNext'
    BY <1>2, <2>1 DEF PromisedNext
  <2> QED BY <2>2, <2>3
<1>4. CASE Start(p) \/ Exit(p) \/ Load(p) \/ InsertOpen(p) \/ (Crash(p) /\ pc[p] # "index")
  <2>1. file' = file /\ reply' = reply /\ pc[p] # "index" /\ pc'[p] # "index"
    BY <1>4 DEF Start, Exit, Load, InsertOpen, Crash, Ends, Ready, OffsetsInFile
  <2>2. Rows' = Rows
    BY <1>1, <2>1, SameFile
  <2>3. UNCHANGED Promise!vars
    BY <1>2, <2>1, <2>2 DEF Promise!vars
  <2> QED BY <1>2, <2>1, <2>3
<1>5. CASE LoadFails(p) \/ Reject(p) \/ InsertOverflow(p) \/ AppendFails(p) \/ SelectFails(p)
  <2>1. /\ file' = file /\ pc[p] # "index" /\ pc'[p] # "index"
        /\ reply'.status # "OK" /\ reply'.found = {}
    BY <1>5 DEF LoadFails, Reject, InsertOverflow, AppendFails, SelectFails, EndsWithError,
                Ends, Ready, OffsetsInFile, Reply
  <2>2. Rows' = Rows
    BY <1>1, <2>1, SameFile
  <2>3. Promise!Refuse
    BY <1>2, <2>1, <2>2 DEF Promise!Refuse
  <2> QED BY <1>2, <2>1, <2>3 DEF Promise!Next
<1>6. CASE InsertAppend(p)
  <2>1. /\ file' = Append(file, WholeRow(next_id[p])) /\ pc[p] = "append" /\ pc'[p] = "index"
        /\ next_id' = next_id /\ reply' = reply
    BY <1>6 DEF InsertAppend, runtime, OffsetsInFile
  <2>2. next_id[p] = NextAfter(StoredIds) /\ next_id[p] \in 1..MaxId
    BY <2>1, NextIdIsPromised
  <2>3. StoredIds' = StoredIds \cup {next_id[p]} /\ next_id[p] \notin StoredIds
    BY <2>1, AppendedIdIsNew
  <2>4. Rows' = StoredIds /\ Rows = StoredIds
    BY <1>1, <2>1, <2>3
  <2>5. UNCHANGED Promise!vars
    BY <1>2, <2>1, <2>4 DEF Promise!vars
  <2>6. PromisedNext'
    BY <1>2, <2>1, <2>2, <2>4
  <2> QED BY <2>5, <2>6
<1>11. CASE AppendUnconfirmed(p)
  <2>1. /\ file' = Append(file, WholeRow(next_id[p])) /\ pc[p] = "append" /\ pc'[p] # "index"
        /\ reply' = Reply("insert", next_id[p], "STORAGE_ERROR", {})
    BY <1>11 DEF AppendUnconfirmed, EndsWithError, Ends, OffsetsInFile
  <2>2. next_id[p] = NextAfter(StoredIds) /\ next_id[p] \in 1..MaxId
    BY <2>1, NextIdIsPromised
  <2>3. StoredIds' = StoredIds \cup {next_id[p]}
    BY <2>1, AppendedIdIsNew
  <2>4. Rows' = Rows \cup {next_id[p]} /\ Rows = StoredIds
    BY <1>1, <2>1, <2>3
  <2>5. Promise!NextId = next_id[p] /\ Promise!NextId <= MaxId
    BY <2>2, <2>4, NextIds, MaxIdAssumption
  <2>6. Promise!StoreUnanswered
    BY <1>2, <2>1, <2>4, <2>5 DEF Promise!StoreUnanswered, Promise!Reply, Reply
  <2> QED BY <1>2, <2>1, <2>6 DEF Promise!Next
<1>7. CASE AppendTorn(p)
  BY <1>7 DEF AppendTorn, WholeRows
<1>8. CASE InsertIndex(p) \/ InsertIndexFails(p) \/ (Crash(p) /\ pc[p] = "index")
  <2>1. /\ file' = file /\ pc[p] = "index" /\ pc'[p] # "index"
        /\ \/ reply' \in {reply, Reply("insert", next_id[p], "INDEX_ERROR", {})}
           \/ reply' = Reply("insert", next_id[p], "OK", {})
    BY <1>8 DEF InsertIndex, InsertIndexFails, Crash, EndsWithError, Ends, OffsetsInFile
  <2>2. next_id[p] \in 1..MaxId /\ Rows \cup {next_id[p]} = StoredIds
    BY <2>1, AppendedRow
  <2>3. Rows' = Rows \cup {next_id[p]}
    BY <1>1, <2>1, <2>2, SameFile
  <2>4. Promise!NextId = next_id[p]
    BY <2>1, NextIds DEF PromisedNext
  <2>5. Promise!NextId <= MaxId
    BY <2>2, <2>4, MaxIdAssumption
  <2>6. Promise!Insert \/ Promise!StoreUnanswered
    BY <1>2, <2>1, <2>3, <2>4, <2>5 DEF Promise!Insert, Promise!StoreUnanswered, Promise!Reply, Reply
  <2> QED BY <1>2, <2>1, <2>6 DEF Promise!Next
<1>9. CASE SelectAll(p)
  <2>1. /\ file' = file /\ pc[p] # "index" /\ pc'[p] # "index"
        /\ reply' = Reply("scan", 0, "OK", StoredIds)
    BY <1>9 DEF SelectAll, Ready
  <2>2. Rows' = Rows /\ Rows = StoredIds
    BY <1>1, <2>1, SameFile
  <2>3. Promise!Scan
    BY <1>2, <2>1, <2>2 DEF Promise!Scan, Promise!Reply, Reply
  <2> QED BY <1>2, <2>1, <2>3 DEF Promise!Next
<1>10. ASSUME NEW k \in 1..MaxId, SelectById(p, k)
       PROVE  Promise!Next /\ PromisedNext'
  <2>1. /\ file' = file /\ pc[p] # "index" /\ pc'[p] # "index"
        /\ reply' = Reply("select", k, "OK", {k} \cap StoredIds)
    BY <1>10, AnswerSelect DEF SelectById, Ready
  <2>2. Rows' = Rows /\ Rows = StoredIds
    BY <1>1, <2>1, SameFile
  <2>3. Promise!Select
    BY <1>2, <2>1, <2>2 DEF Promise!Select, Promise!Reply, Reply
  <2> QED BY <1>2, <2>1, <2>3 DEF Promise!Next
<1> QED BY <1>3, <1>4, <1>5, <1>6, <1>7, <1>8, <1>9, <1>10, <1>11 DEF Next

LEMMA InitialTable ==
  ASSUME NEW p, Procs = {p}, MaxTorn = 0, Init
  PROVE  Promise!Init /\ PromisedNext
<1>1. PICK ids \in StoredBefore : file = [i \in 1..Len(ids) |-> WholeRow(ids[i])]
  BY DEF Init
<1>2. pc[p] = "down" /\ reply = Reply("none", 0, "OK", {})
  BY DEF Init
<1>3. WholeRows
  BY InitWholeRows
<1>4. ids \in Seq(1..MaxId)
  BY StoredBeforeAssumption
<1>5. StoredIds = {ids[i] : i \in DOMAIN ids}
  <2>1. DOMAIN ids = 1..Len(ids) /\ Len(ids) \in Nat /\ DOMAIN file = 1..Len(ids)
    BY <1>1, <1>4, LenProperties
  <2>2. Len(file) = Len(ids)
    BY <2>1, <1>3, WholeRowsRead
  <2>3. \A i \in 1..Len(ids) : file[i].id = ids[i]
    BY <1>1 DEF WholeRow
  <2> QED BY <1>3, <2>1, <2>2, <2>3, WholeRowsRead DEF IdsUpTo
<1>6. StoredIds \ Unanswered = StoredIds
  BY <1>2, RowsNow DEF Rows
<1>7. Promise!Init
  BY <1>2, <1>5, <1>6 DEF Promise!Init, Promise!Reply, Reply
<1> QED BY <1>2, <1>7 DEF PromisedNext

\* One process at a time, whatever it inserts, selects or is refused, and wherever it dies
\* or fails between the append, the index and the answer, is to its users the table the
\* documents describe (execute_statement, build_id_index_for_table).
THEOREM EngineIsTheTable ==
  ASSUME NEW p, Procs = {p}, MaxTorn = 0
  PROVE  Spec => ImplementsIdTable
<1> DEFINE Inv == OffsetsInFile /\ WholeRows /\ OneTable
<1>1. Spec => []Inv
  BY OneTableInvariant
<1>2. Init => Promise!Init /\ PromisedNext
  BY InitialTable
<1>3. Inv /\ Inv' /\ PromisedNext /\ [Next]_vars
        => PromisedNext' /\ [Promise!Next]_(Promise!vars)
  BY RefinementStep
<1> QED BY <1>1, <1>2, <1>3, PTL DEF Spec, ImplementsIdTable, Promise!Spec

-----------------------------------------------------------------------------
(* A process that is alone, behind torn lines.                             *)

\* Its offsets lead to what it wrote: the one an INSERT is given, and those of the ids it
\* has inserted.
OwnOffsets ==
    /\ next_id \in [Procs -> {next_id[p] : p \in Procs}]
    /\ session \in [Procs -> {session[p] : p \in Procs}]
    /\ \A p \in Procs :
          /\ pc[p] \in {"append", "index"} => loaded[p]
          /\ ~loaded[p] => session[p] = {}
          /\ pc[p] = "append" => row_offset[p] = Len(file) + 1
          /\ pc[p] = "index" => file[row_offset[p]] = WholeRow(next_id[p])
          /\ \A k \in session[p] : k \in DOMAIN index[p] /\ file[index[p][k]] = WholeRow(k)

LEMMA OwnOffsetsStep ==
  ASSUME NEW p, Procs = {p}, OffsetsInFile, OwnOffsets, [Next]_vars
  PROVE  OwnOffsets'
<1>1. /\ Len(file) \in Nat /\ DOMAIN file = 1..Len(file)
      /\ \A i \in 1..Len(file) : file'[i] = file[i]
  BY FileAndIndexStep, FileGrows
<1>2. /\ DOMAIN pc = {p} /\ DOMAIN loaded = {p} /\ DOMAIN index = {p} /\ DOMAIN row_offset = {p}
      /\ DOMAIN next_id = {p} /\ DOMAIN session = {p}
      /\ \A k \in DOMAIN index[p] : index[p][k] \in 1..Len(file)
      /\ pc[p] = "index" => row_offset[p] \in 1..Len(file)
  BY DEF OffsetsInFile, OwnOffsets
\* A function of one process.
<1>3. \A f : f \in [Procs -> {f[q] : q \in Procs}] <=> f = [q \in {p} |-> f[q]]
  OBVIOUS
<1>4. CASE UNCHANGED vars
  BY <1>4 DEF vars, runtime, OwnOffsets
<1>5. CASE \/ Exit(p) \/ Crash(p) \/ LoadFails(p) \/ Reject(p) \/ InsertOverflow(p)
           \/ AppendFails(p) \/ AppendUnconfirmed(p) \/ AppendTorn(p) \/ InsertIndexFails(p)
           \/ SelectFails(p)
  <2>1. Ends(p)
    BY <1>5 DEF Exit, Crash, LoadFails, Reject, InsertOverflow, AppendFails,
                AppendUnconfirmed, AppendTorn, InsertIndexFails, SelectFails, EndsWithError
  <2>2. pc'[p] = "down" /\ session'[p] = {}
    BY <1>2, <2>1 DEF Ends
  <2>3. next_id' = [q \in {p} |-> next_id'[q]] /\ session' = [q \in {p} |-> session'[q]]
    BY <1>3, <2>1 DEF Ends, OwnOffsets
  <2> QED BY <1>3, <2>2, <2>3 DEF OwnOffsets
<1>6. CASE Load(p)
  <2>1. /\ file' = file /\ UNCHANGED <<pc, row_offset, session>>
        /\ ~loaded[p] /\ pc[p] = "idle" /\ loaded'[p]
    BY <1>2, <1>6 DEF Load
  <2>2. next_id' = [q \in {p} |-> next_id'[q]]
    BY <1>3, <1>6 DEF Load, OwnOffsets
  <2> QED BY <1>3, <2>1, <2>2 DEF OwnOffsets
<1>7. CASE InsertOpen(p)
  <2>1. /\ UNCHANGED <<file, loaded, index, next_id, session>> /\ loaded[p]
        /\ pc'[p] = "append" /\ row_offset'[p] = Len(file) + 1
    BY <1>2, <1>7 DEF InsertOpen, Ready, EndOfFile, runtime
  <2> QED BY <2>1 DEF OwnOffsets
<1>8. CASE InsertAppend(p)
  <2>1. /\ UNCHANGED <<loaded, index, next_id, row_offset, session>>
        /\ pc[p] = "append" /\ pc'[p] = "index" /\ file' = Append(file, WholeRow(next_id[p]))
    BY <1>2, <1>8 DEF InsertAppend, runtime
  <2>2. row_offset[p] = Len(file) + 1
    BY <2>1 DEF OwnOffsets
  <2>3. file'[Len(file) + 1] = WholeRow(next_id[p])
    BY <2>1, AppendAt DEF OffsetsInFile
  <2>4. \A k \in session[p] : k \in DOMAIN index[p] /\ file'[index[p][k]] = WholeRow(k)
    BY <1>1, <1>2 DEF OwnOffsets
  <2> QED BY <2>1, <2>2, <2>3, <2>4 DEF OwnOffsets
<1>9. CASE InsertIndex(p)
  <2> DEFINE id == next_id[p]
             new == [k \in DOMAIN index[p] \cup {id} |->
                        IF k = id THEN row_offset[p] ELSE index[p][k]]
  <2>1. /\ file' = file /\ loaded' = loaded /\ pc[p] = "index" /\ pc'[p] = "idle"
        /\ session'[p] = session[p] \cup {id} /\ index'[p] = new
    BY <1>2, <1>9 DEF InsertIndex
  <2>2. next_id' = [q \in {p} |-> next_id'[q]] /\ session' = [q \in {p} |-> session'[q]]
    BY <1>3, <1>9 DEF InsertIndex, OwnOffsets
  <2>3. file[row_offset[p]] = WholeRow(id) /\ loaded[p]
    BY <2>1 DEF OwnOffsets
  <2>4. \A k \in session[p] : k \in DOMAIN index[p] /\ file[index[p][k]] = WholeRow(k)
    BY DEF OwnOffsets
  <2> HIDE DEF id
  <2>5. \A k \in session[p] \cup {id} : k \in DOMAIN new /\ file[new[k]] = WholeRow(k)
    BY <2>3, <2>4
  <2> HIDE DEF new
  <2> QED BY <1>3, <2>1, <2>2, <2>3, <2>5 DEF OwnOffsets
<1>10. CASE Start(p) \/ SelectAll(p) \/ \E k \in 1..MaxId : SelectById(p, k)
  <2>1. UNCHANGED <<file, loaded, index, next_id, row_offset, session>>
        /\ (pc' = pc \/ pc'[p] = "idle")
    BY <1>2, <1>10 DEF Start, SelectAll, SelectById, runtime
  <2> QED BY <2>1 DEF OwnOffsets
<1> QED BY <1>4, <1>5, <1>6, <1>7, <1>8, <1>9, <1>10 DEF Next

\* A process that is alone on the file reads every row it has inserted back whole, whatever
\* torn lines, failures and crashes left in the file before (row_offset, read_row_at_offset).
THEOREM OwnRowsAreRead ==
  ASSUME NEW p, Procs = {p}
  PROVE  Spec => []OwnRowsReadable
<1>1. Init => OffsetsInFile /\ OwnOffsets
  BY InitOffsetsInFile DEF Init, OwnOffsets
<1>2. OffsetsInFile /\ OwnOffsets /\ [Next]_vars => (OffsetsInFile /\ OwnOffsets)'
  BY OffsetsStep, OwnOffsetsStep
<1>3. OffsetsInFile /\ OwnOffsets => OwnRowsReadable
  <2> SUFFICES ASSUME OwnOffsets, NEW k \in session[p]
               PROVE  IndexAnswer(p, k) = {[id |-> k, whole |-> TRUE]}
    BY DEF OwnRowsReadable
  <2>1. k \in DOMAIN index[p] /\ file[index[p][k]] = WholeRow(k)
    BY DEF OwnOffsets
  <2>2. file[index[p][k]].id = k /\ file[index[p][k]].cut = "no"
    BY <2>1 DEF WholeRow
  <2>3. IdAt(index[p][k]) = k
    BY <2>2 DEF IdAt
  <2>4. RowAt(index[p][k]) = [id |-> k, whole |-> TRUE]
    BY <2>2, <2>3 DEF RowAt
  <2> QED BY <2>1, <2>3, <2>4 DEF IndexAnswer
<1> QED BY <1>1, <1>2, <1>3, PTL DEF Spec
=============================================================================
