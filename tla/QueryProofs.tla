----------------------------- MODULE QueryProofs -----------------------------
(***************************************************************************)
(* Proofs that execute_insert and execute_select keep what Table promises, *)
(* for every schema without a name twice, every data file and every set of *)
(* statements.                                                             *)
(***************************************************************************)
EXTENDS Query, DataProofs, FiniteSetTheorems

\* The empty text is a string, which the provers are not aware of.
Values == STRING \cup {""}

\* A schema and the rows of its data file.
StorageInv ==
    /\ columns \in Seq(STRING)
    /\ \A i, j \in DOMAIN columns : columns[i] = columns[j] => i = j
    /\ file \in Seq([DOMAIN columns -> Values])

\* What build_id_index_for_table finds and execute_insert keeps.
IndexInv ==
    loaded /\ IdColumn # 0 =>
        /\ 0 \notin StoredIds
        /\ \A i, j \in DOMAIN file : IdAt(i) = IdAt(j) => i = j
        /\ DOMAIN index = StoredIds
        /\ \A k \in StoredIds : index[k] \in DOMAIN file /\ IdAt(index[k]) = k
        /\ next_id \in 0..MaxId
        /\ next_id # 0 => \A k \in StoredIds : k < next_id

TableInv == StorageInv /\ IndexInv

-----------------------------------------------------------------------------
(* Columns and ids.                                                        *)

LEMMA FindColumnFinds ==
  ASSUME StorageInv, NEW name
  PROVE  /\ FindColumn(name) \in 0..Len(columns) /\ Len(columns) \in Nat
         /\ DOMAIN columns = 1..Len(columns)
         /\ FindColumn(name) # 0 => /\ FindColumn(name) \in DOMAIN columns
                                    /\ columns[FindColumn(name)] = name
         /\ \A i \in DOMAIN columns : columns[i] = name => FindColumn(name) = i
<1>1. Len(columns) \in Nat /\ DOMAIN columns = 1..Len(columns)
  BY LenProperties DEF StorageInv
<1>2. CASE \E i \in DOMAIN columns : columns[i] = name
  <2>1. FindColumn(name) = CHOOSE i \in DOMAIN columns : columns[i] = name
    BY <1>2 DEF FindColumn
  <2>2. FindColumn(name) \in DOMAIN columns /\ columns[FindColumn(name)] = name
    BY <1>2, <2>1
  <2> QED BY <1>1, <2>2 DEF StorageInv
<1>3. CASE ~\E i \in DOMAIN columns : columns[i] = name
  <2>1. FindColumn(name) = 0
    BY <1>3 DEF FindColumn
  <2> QED BY <1>1, <1>3, <2>1
<1> QED BY <1>2, <1>3

LEMMA ParseIdReads ==
  ASSUME NEW text
  PROVE  /\ ParseId(text) \in 0..MaxId /\ MaxId \in Nat
         /\ ParseId(text) # 0 => ParseId(text) \in 1..MaxId /\ text = IdText[ParseId(text)]
         /\ \A id \in 1..MaxId : text = IdText[id] => ParseId(text) = id
<1>1. MaxId \in Nat /\ \A a, b \in 1..MaxId : IdText[a] = IdText[b] => a = b
  BY IdTextAssumption
<1>2. CASE \E id \in 1..MaxId : text = IdText[id]
  <2>1. ParseId(text) = CHOOSE id \in 1..MaxId : text = IdText[id]
    BY <1>2 DEF ParseId
  <2>2. ParseId(text) \in 1..MaxId /\ text = IdText[ParseId(text)]
    BY <1>2, <2>1
  <2> QED BY <1>1, <2>2
<1>3. CASE ~\E id \in 1..MaxId : text = IdText[id]
  <2>1. ParseId(text) = 0
    BY <1>3 DEF ParseId
  <2> QED BY <1>1, <1>3, <2>1
<1> QED BY <1>2, <1>3

LEMMA RowsOfFile ==
  ASSUME StorageInv
  PROVE  /\ DOMAIN file = 1..Len(file) /\ Len(file) \in Nat
         /\ \A n \in DOMAIN file : file[n] \in [DOMAIN columns -> Values]
BY LenProperties, ElementOfSeq DEF StorageInv

-----------------------------------------------------------------------------
(* The refinement mapping.                                                 *)

LEMMA AsFunctionAt ==
  ASSUME StorageInv, NEW row, NEW name \in Promise!Names
  PROVE  /\ FindColumn(name) # 0
         /\ DOMAIN AsFunction(columns, row) = Promise!Names
         /\ AsFunction(columns, row)[name] = row[FindColumn(name)]
<1>1. \E i \in DOMAIN columns : columns[i] = name
  BY DEF Promise!Names
<1>2. FindColumn(name) = CHOOSE i \in DOMAIN columns : columns[i] = name
  BY <1>1 DEF FindColumn
<1>3. FindColumn(name) # 0
  BY <1>1, FindColumnFinds
<1> QED BY <1>2, <1>3 DEF AsFunction, Promise!Names

LEMMA NamesAreFound ==
  ASSUME StorageInv, NEW name
  PROVE  name \in Promise!Names <=> FindColumn(name) # 0
BY FindColumnFinds DEF Promise!Names

\* The rows of Table, taken from the rows of the file.
LEMMA TableRows ==
  ASSUME StorageInv
  PROVE  /\ AsTable(columns, file) \in Seq([Promise!Names -> Values])
         /\ Len(AsTable(columns, file)) = Len(file)
         /\ \A n \in DOMAIN file : \A name \in Promise!Names :
               AsTable(columns, file)[n][name] = file[n][FindColumn(name)]
         /\ \A n \in DOMAIN file : DOMAIN AsTable(columns, file)[n] = Promise!Names
<1>1. \A n \in DOMAIN file : AsTable(columns, file)[n] = AsFunction(columns, file[n])
  BY DEF AsTable
<1>2. \A n \in DOMAIN file : AsFunction(columns, file[n]) \in [Promise!Names -> Values]
  <2> TAKE n \in DOMAIN file
  <2>1. \A name \in Promise!Names : AsFunction(columns, file[n])[name] \in Values
    <3> TAKE name \in Promise!Names
    <3>1. FindColumn(name) # 0 /\ AsFunction(columns, file[n])[name] = file[n][FindColumn(name)]
      BY AsFunctionAt
    <3>2. FindColumn(name) \in DOMAIN columns
      BY <3>1, FindColumnFinds
    <3> QED BY <3>1, <3>2, RowsOfFile
  <2> QED BY <2>1 DEF AsFunction, Promise!Names
<1>3. AsTable(columns, file) \in [1..Len(file) -> [Promise!Names -> Values]]
  BY <1>1, <1>2, RowsOfFile DEF AsTable
<1>4. AsTable(columns, file) \in Seq([Promise!Names -> Values])
      /\ Len(AsTable(columns, file)) = Len(file)
  <2> DEFINE t == AsTable(columns, file)
             S == [Promise!Names -> Values]
  <2>1. t \in [1..Len(file) -> S] /\ Len(file) \in Nat
    BY <1>3, RowsOfFile
  <2> HIDE DEF t, S
  <2>2. t \in Seq(S) /\ Len(t) = Len(file)
    BY <2>1, FunctionIsSeq
  <2> QED BY <2>2 DEF t, S
<1>5. \A n \in DOMAIN file : \A name \in Promise!Names :
         AsTable(columns, file)[n][name] = file[n][FindColumn(name)]
  BY <1>1, AsFunctionAt
<1>6. \A n \in DOMAIN file : DOMAIN AsTable(columns, file)[n] = Promise!Names
  BY <1>2, <1>1
<1> QED BY <1>4, <1>5, <1>6

-----------------------------------------------------------------------------
(* The full scan.                                                          *)

\* Taking or passing over one row after the other.
Picks(f, N, taken, given) ==
    /\ f \in [0..N -> Seq({given[n] : n \in 1..N})]
    /\ f[0] = <<>>
    /\ \A i \in 1..N : f[i] = IF i \in taken THEN Append(f[i - 1], given[i]) ELSE f[i - 1]

LEMMA Picking ==
  ASSUME NEW N \in Nat, NEW taken, NEW given
  PROVE  \E f : Picks(f, N, taken, given)
<1> DEFINE V == Seq({given[n] : n \in 1..N})
           G == [p \in (1..N) \X V |->
                   IF p[1] \in taken THEN Append(p[2], given[p[1]]) ELSE p[2]]
           nothing == <<>>
<1>1. \A i \in 1..N : \A v \in V :
         G[<<i, v>>] = IF i \in taken THEN Append(v, given[i]) ELSE v
  OBVIOUS
<1>2. nothing \in V
  OBVIOUS
<1>3. StaysIn(G, N, V)
  <2> SUFFICES ASSUME NEW i \in 1..N, NEW v \in V PROVE G[<<i, v>>] \in V
    BY DEF StaysIn
  <2>1. Append(v, given[i]) \in V
    OBVIOUS
  <2> QED BY <1>1, <2>1
<1> HIDE DEF V, G, nothing
<1>4. PICK f : Recurs(f, N, V, nothing, G)
  BY <1>2, <1>3, Recursion
<1>5. f \in [0..N -> V] /\ f[0] = nothing /\ \A i \in 1..N : f[i] = G[<<i, f[i - 1]>>]
  BY <1>4 DEF Recurs
<1>6. \A i \in 1..N : i - 1 \in 0..N /\ f[i - 1] \in V
  BY <1>5
<1>7. \A i \in 1..N : f[i] = IF i \in taken THEN Append(f[i - 1], given[i]) ELSE f[i - 1]
  BY <1>1, <1>5, <1>6
<1> QED BY <1>5, <1>7 DEF V, nothing, Picks

\* select_full_scan_callback takes the rows of the file in turn.
LEMMA ScanSteps ==
  ASSUME StorageInv, NEW stmt,
         NEW where_column, where_column = IF stmt.where = <<>> THEN 0 ELSE FindColumn(stmt.where[1])
  PROVE  \E f : /\ ScanAnswer(stmt) = f[Len(file)]
               /\ f[0] = <<>>
               /\ \A n \in 1..Len(file) :
                     f[n] = IF Matches(stmt, where_column, file[n])
                            THEN Append(f[n - 1], Project(stmt, file[n])) ELSE f[n - 1]
<1> DEFINE N == Len(file)
           Is(f) == f = [n \in 0..N |-> IF n = 0 THEN <<>>
                                       ELSE IF Matches(stmt, where_column, file[n])
                                       THEN Append(f[n - 1], Project(stmt, file[n]))
                                       ELSE f[n - 1]]
           taken == {n \in 1..N : Matches(stmt, where_column, file[n])}
           given == [n \in 1..N |-> Project(stmt, file[n])]
<1>1. N \in Nat
  BY RowsOfFile
<1>2. PICK f : Picks(f, N, taken, given)
  BY <1>1, Picking
<1>3. ASSUME NEW n \in 0..N
      PROVE  f[n] = IF n = 0 THEN <<>>
                    ELSE IF Matches(stmt, where_column, file[n])
                    THEN Append(f[n - 1], Project(stmt, file[n])) ELSE f[n - 1]
  <2>1. n = 0 \/ n \in 1..N
    BY <1>1
  <2>2. n \in 1..N => (n \in taken <=> Matches(stmt, where_column, file[n]))
                      /\ given[n] = Project(stmt, file[n])
    OBVIOUS
  <2> HIDE DEF taken, given
  <2> QED BY <1>2, <2>1, <2>2 DEF Picks
<1>4. Is(f)
  <2> HIDE DEF taken, given
  <2> QED BY <1>2, <1>3 DEF Picks
<1> DEFINE found == CHOOSE g : Is(g)
<1>5. Is(found)
  <2> HIDE DEF Is
  <2> QED BY <1>4
<1>6. ScanAnswer(stmt) = found[N]
  BY DEF ScanAnswer
<1> HIDE DEF found
<1>7. found[0] = <<>>
  BY <1>1, <1>5
<1>8. \A n \in 1..N :
         found[n] = IF Matches(stmt, where_column, file[n])
                    THEN Append(found[n - 1], Project(stmt, file[n])) ELSE found[n - 1]
  <2> TAKE n \in 1..N
  <2>1. n \in 0..N /\ n # 0
    BY <1>1
  <2> QED BY <1>5, <2>1
<1> QED BY <1>6, <1>7, <1>8

\* So does what Table promises, with the rows of the table.
LEMMA SelectedSteps ==
  ASSUME StorageInv, NEW stmt
  PROVE  \E f : /\ Promise!Selected(stmt) = f[Len(file)]
               /\ f[0] = <<>>
               /\ \A n \in 1..Len(file) :
                     f[n] = IF Promise!IsMeant(stmt, AsTable(columns, file)[n])
                            THEN Append(f[n - 1], Promise!Shown(stmt, AsTable(columns, file)[n]))
                            ELSE f[n - 1]
<1> DEFINE t == AsTable(columns, file)
           N == Len(t)
           Is(f) == f = [n \in 0..N |-> IF n = 0 THEN <<>>
                                       ELSE IF Promise!IsMeant(stmt, t[n])
                                       THEN Append(f[n - 1], Promise!Shown(stmt, t[n]))
                                       ELSE f[n - 1]]
           taken == {n \in 1..N : Promise!IsMeant(stmt, t[n])}
           given == [n \in 1..N |-> Promise!Shown(stmt, t[n])]
<1>1. N \in Nat /\ N = Len(file)
  BY RowsOfFile, TableRows
<1>2. PICK f : Picks(f, N, taken, given)
  BY <1>1, Picking
<1>3. ASSUME NEW n \in 0..N
      PROVE  f[n] = IF n = 0 THEN <<>>
                    ELSE IF Promise!IsMeant(stmt, t[n])
                    THEN Append(f[n - 1], Promise!Shown(stmt, t[n])) ELSE f[n - 1]
  <2>1. n = 0 \/ n \in 1..N
    BY <1>1
  <2>2. n \in 1..N => (n \in taken <=> Promise!IsMeant(stmt, t[n]))
                      /\ given[n] = Promise!Shown(stmt, t[n])
    OBVIOUS
  <2> HIDE DEF taken, given
  <2> QED BY <1>2, <2>1, <2>2 DEF Picks
<1>4. Is(f)
  <2> HIDE DEF taken, given
  <2> QED BY <1>2, <1>3 DEF Picks
<1> DEFINE found == CHOOSE g : Is(g)
<1>5. Is(found)
  <2> HIDE DEF Is
  <2> QED BY <1>4
<1>6. Promise!Selected(stmt) = found[N]
  BY DEF Promise!Selected
<1> HIDE DEF found
<1>7. found[0] = <<>>
  BY <1>1, <1>5
<1>8. \A n \in 1..N :
         found[n] = IF Promise!IsMeant(stmt, t[n])
                    THEN Append(found[n - 1], Promise!Shown(stmt, t[n])) ELSE found[n - 1]
  <2> TAKE n \in 1..N
  <2>1. n \in 0..N /\ n # 0
    BY <1>1
  <2> QED BY <1>5, <2>1
<1> QED BY <1>1, <1>6, <1>7, <1>8

\* What SELECT is allowed to name is what Table accepts.
LEMMA SelectableIffAllowed ==
  ASSUME StorageInv, NEW stmt \in Selects
  PROVE  Promise!IsSelectable(stmt) <=> SelectAllowed(stmt)
BY NamesAreFound DEF Promise!IsSelectable, SelectAllowed

\* row_matches_where_clause and project_single_row, through the places of the columns.
LEMMA RowsAreReadAlike ==
  ASSUME StorageInv, NEW stmt \in Selects, SelectAllowed(stmt), NEW n \in DOMAIN file,
         NEW where_column, where_column = IF stmt.where = <<>> THEN 0 ELSE FindColumn(stmt.where[1])
  PROVE  /\ Matches(stmt, where_column, file[n]) <=> Promise!IsMeant(stmt, AsTable(columns, file)[n])
         /\ Project(stmt, file[n]) = Promise!Shown(stmt, AsTable(columns, file)[n])
<1> DEFINE row == AsTable(columns, file)[n]
<1>1. \A name \in Promise!Names : row[name] = file[n][FindColumn(name)]
  BY TableRows
<1> HIDE DEF row
<1>2. Matches(stmt, where_column, file[n]) <=> Promise!IsMeant(stmt, row)
  <2>1. CASE stmt.where = <<>>
    BY <2>1 DEF Matches, Promise!IsMeant
  <2>2. CASE stmt.where # <<>>
    <3>1. stmt.where[1] \in Promise!Names /\ where_column = FindColumn(stmt.where[1])
      BY <2>2, NamesAreFound DEF SelectAllowed
    <3> QED BY <1>1, <2>2, <3>1 DEF Matches, Promise!IsMeant
  <2> QED BY <2>1, <2>2
<1>3. Project(stmt, file[n]) = Promise!Shown(stmt, row)
  <2>1. CASE stmt.columns = <<>>
    <3>1. file[n] \in [DOMAIN columns -> Values]
      BY RowsOfFile
    <3>2. \A i \in DOMAIN columns :
             columns[i] \in Promise!Names /\ FindColumn(columns[i]) = i
      BY FindColumnFinds DEF Promise!Names
    <3>3. Promise!Shown(stmt, row) = [i \in DOMAIN columns |-> row[columns[i]]]
      BY <2>1 DEF Promise!Shown
    <3>4. \A i \in DOMAIN columns : row[columns[i]] = file[n][i]
      BY <1>1, <3>2
    <3>5. Project(stmt, file[n]) = file[n]
      BY <2>1 DEF Project
    <3> QED BY <3>1, <3>3, <3>4, <3>5
  <2>2. CASE stmt.columns # <<>>
    <3>1. \A i \in DOMAIN stmt.columns : stmt.columns[i] \in Promise!Names
      BY NamesAreFound DEF SelectAllowed
    <3>2. \A i \in DOMAIN stmt.columns : row[stmt.columns[i]] = file[n][FindColumn(stmt.columns[i])]
      BY <1>1, <3>1
    <3>3. Promise!Shown(stmt, row) = [i \in DOMAIN stmt.columns |-> row[stmt.columns[i]]]
      BY <2>2 DEF Promise!Shown
    <3>4. Project(stmt, file[n]) =
             [i \in DOMAIN stmt.columns |-> file[n][FindColumn(stmt.columns[i])]]
      BY <2>2 DEF Project
    <3> QED BY <3>2, <3>3, <3>4
  <2> QED BY <2>1, <2>2
<1> QED BY <1>2, <1>3 DEF row

LEMMA ScanIsSelected ==
  ASSUME StorageInv, NEW stmt \in Selects, SelectAllowed(stmt)
  PROVE  ScanAnswer(stmt) = Promise!Selected(stmt)
<1> DEFINE where_column == IF stmt.where = <<>> THEN 0 ELSE FindColumn(stmt.where[1])
           N == Len(file)
<1>1. PICK f : /\ ScanAnswer(stmt) = f[N] /\ f[0] = <<>>
               /\ \A n \in 1..N :
                     f[n] = IF Matches(stmt, where_column, file[n])
                            THEN Append(f[n - 1], Project(stmt, file[n])) ELSE f[n - 1]
  <2> HIDE DEF where_column
  <2>1. where_column = IF stmt.where = <<>> THEN 0 ELSE FindColumn(stmt.where[1])
    BY DEF where_column
  <2> QED BY <2>1, ScanSteps
<1>2. PICK g : /\ Promise!Selected(stmt) = g[N] /\ g[0] = <<>>
               /\ \A n \in 1..N :
                     g[n] = IF Promise!IsMeant(stmt, AsTable(columns, file)[n])
                            THEN Append(g[n - 1], Promise!Shown(stmt, AsTable(columns, file)[n]))
                            ELSE g[n - 1]
  BY SelectedSteps
<1>3. N \in Nat /\ DOMAIN file = 1..N
  BY RowsOfFile
<1>4. \A n \in 1..N :
         /\ Matches(stmt, where_column, file[n]) <=> Promise!IsMeant(stmt, AsTable(columns, file)[n])
         /\ Project(stmt, file[n]) = Promise!Shown(stmt, AsTable(columns, file)[n])
  <2> HIDE DEF where_column
  <2>1. where_column = IF stmt.where = <<>> THEN 0 ELSE FindColumn(stmt.where[1])
    BY DEF where_column
  <2> QED BY <1>3, <2>1, RowsAreReadAlike
<1> HIDE DEF where_column, N
<1>5. \A n \in 1..N : f[n - 1] = g[n - 1] => f[n] = g[n]
  BY <1>1, <1>2, <1>4
<1>6. \A n \in 0..N : f[n] = g[n]
  <2>1. f[0] = g[0] /\ N \in Nat
    BY <1>1, <1>2, <1>3
  <2>2. SameSteps(f, g, N)
    BY <1>5, <2>1 DEF SameSteps
  <2>3. SameUpTo(f, g, N)
    BY <2>1, <2>2, SameRecursion
  <2> QED BY <2>3 DEF SameUpTo
<1>7. N \in 0..N
  BY <1>3
<1> QED BY <1>1, <1>2, <1>6, <1>7

-----------------------------------------------------------------------------
(* The id index.                                                           *)

\* The rows whose id the where clause spells are those the index holds under it.
LEMMA MatchingIsTheId ==
  ASSUME StorageInv, NEW stmt, CanUseIndex(stmt), NEW n \in DOMAIN file
  PROVE  Matches(stmt, IdColumn, file[n]) <=> IdAt(n) = ParseId(stmt.where[2])
<1>1. /\ stmt.where # <<>> /\ ParseId(stmt.where[2]) \in 1..MaxId
      /\ stmt.where[2] = IdText[ParseId(stmt.where[2])]
  BY ParseIdReads DEF CanUseIndex
<1>2. /\ IdAt(n) = ParseId(file[n][IdColumn])
      /\ IdAt(n) \in 1..MaxId => file[n][IdColumn] = IdText[IdAt(n)]
  BY ParseIdReads DEF IdAt
<1> QED BY <1>1, <1>2 DEF Matches

\* A scan that meets one row at most gives that row.
LEMMA ScanOfOneRow ==
  ASSUME NEW N \in Nat, NEW r \in Nat, NEW f, NEW x, f[0] = <<>>,
         \A n \in 1..N : f[n] = IF n = r THEN Append(f[n - 1], x) ELSE f[n - 1]
  PROVE  f[N] = IF r \in 1..N THEN <<x>> ELSE <<>>
<1> DEFINE S == {n \in 0..N : f[n] = IF r \in 1..n THEN <<x>> ELSE <<>>}
<1>1. 0 \in S
  OBVIOUS
<1>2. ASSUME NEW n \in 1..N, n - 1 \in S PROVE n \in S
  <2>1. f[n - 1] = IF r \in 1..(n - 1) THEN <<x>> ELSE <<>>
    BY <1>2
  <2>2. Append(<<>>, x) = <<x>>
    OBVIOUS
  <2>3. CASE n = r
    <3>1. f[n - 1] = <<>> /\ r \in 1..n
      BY <2>1, <2>3
    <3>2. f[n] = Append(f[n - 1], x)
      BY <2>3
    <3>3. f[n] = <<x>>
      BY <2>2, <3>1, <3>2
    <3> QED BY <3>1, <3>3
  <2>4. CASE n # r
    <3>1. r \in 1..n <=> r \in 1..(n - 1)
      BY <2>4
    <3> QED BY <2>1, <2>4, <3>1
  <2> QED BY <2>3, <2>4
<1> HIDE DEF S
<1>3. \A n \in 0..N : n \in S
  BY <1>1, <1>2, UpTo
<1>4. N \in S
  BY <1>3
<1> QED BY <1>4 DEF S

LEMMA IndexScanAgree ==
  ASSUME TableInv, loaded, NEW stmt, CanUseIndex(stmt)
  PROVE  IndexAnswer(stmt) = ScanAnswer(stmt)
<1> DEFINE id == ParseId(stmt.where[2])
           N == Len(file)
<1> USE DEF TableInv
<1>1. IdColumn # 0 /\ stmt.where # <<>> /\ stmt.where[1] = "id" /\ id # 0
  BY DEF CanUseIndex
<1>2. /\ \A i, j \in DOMAIN file : IdAt(i) = IdAt(j) => i = j
      /\ DOMAIN index = StoredIds
      /\ \A k \in StoredIds : index[k] \in DOMAIN file /\ IdAt(index[k]) = k
  BY <1>1 DEF IndexInv
<1>3. N \in Nat /\ DOMAIN file = 1..N
  BY RowsOfFile
<1>4. \A n \in 1..N : Matches(stmt, IdColumn, file[n]) <=> IdAt(n) = id
  BY <1>3, MatchingIsTheId
<1>5. PICK f : /\ ScanAnswer(stmt) = f[N] /\ f[0] = <<>>
               /\ \A n \in 1..N :
                     f[n] = IF Matches(stmt, IdColumn, file[n])
                            THEN Append(f[n - 1], Project(stmt, file[n])) ELSE f[n - 1]
  <2>1. IdColumn = IF stmt.where = <<>> THEN 0 ELSE FindColumn(stmt.where[1])
    BY <1>1 DEF IdColumn
  <2> HIDE DEF N
  <2> QED BY <2>1, ScanSteps DEF N
<1> HIDE DEF id, N
<1>6. CASE id \in StoredIds
  <2> DEFINE r == index[id]
             x == Project(stmt, file[r])
  <2>1. r \in 1..N /\ IdAt(r) = id
    BY <1>2, <1>3, <1>6
  <2>2. \A n \in 1..N : IdAt(n) = id <=> n = r
    BY <1>2, <1>3, <2>1
  <2>3. \A n \in 1..N : f[n] = IF n = r THEN Append(f[n - 1], x) ELSE f[n - 1]
    BY <1>4, <1>5, <2>2
  <2>4. Matches(stmt, IdColumn, file[r])
    BY <1>4, <2>1
  <2>5. IndexAnswer(stmt) = <<x>>
    BY <1>2, <1>6, <2>4 DEF IndexAnswer, id
  <2> HIDE DEF r, x
  <2>6. f[N] = <<x>>
    <3>1. r \in Nat /\ f[0] = <<>>
      BY <1>3, <1>5, <2>1
    <3>2. f[N] = IF r \in 1..N THEN <<x>> ELSE <<>>
      BY <1>3, <2>3, <3>1, ScanOfOneRow
    <3> QED BY <2>1, <3>2
  <2> QED BY <1>5, <2>5, <2>6
<1>7. CASE id \notin StoredIds
  <2>1. \A n \in 1..N : IdAt(n) # id
    BY <1>3, <1>7 DEF StoredIds
  <2> DEFINE none == 0
  <2>2. none \in Nat /\ none \notin 1..N /\ \A n \in 1..N : n # none
    OBVIOUS
  <2> HIDE DEF none
  <2>3. \A n \in 1..N : f[n] = IF n = none THEN Append(f[n - 1], <<>>) ELSE f[n - 1]
    BY <1>4, <1>5, <2>1, <2>2
  <2>4. IndexAnswer(stmt) = <<>>
    BY <1>2, <1>7 DEF IndexAnswer, id
  <2>5. f[N] = <<>>
    <3>1. f[0] = <<>>
      BY <1>5
    <3>2. f[N] = IF none \in 1..N THEN <<<<>>>> ELSE <<>>
      BY <1>3, <2>2, <2>3, <3>1, ScanOfOneRow
    <3> QED BY <2>2, <3>2
  <2> QED BY <1>5, <2>4, <2>5
<1> QED BY <1>6, <1>7

-----------------------------------------------------------------------------
(* INSERT.                                                                 *)

\* The columns a statement gives values to are among those Table means.
LEMMA GivenColumns ==
  ASSUME StorageInv, NEW stmt
  PROVE  /\ Promise!HasId <=> IdColumn # 0
         /\ stmt.columns # <<>> => Promise!Given(stmt) = stmt.columns
         /\ stmt.columns = <<>> /\ IdColumn = 0 => Promise!Given(stmt) = columns
         /\ stmt.columns = <<>> /\ IdColumn # 0 =>
               /\ Promise!Given(stmt) \in Seq(STRING)
               /\ Len(Promise!Given(stmt)) = Len(columns) - 1
               /\ \A j \in 1..(Len(columns) - 1) :
                     Promise!Given(stmt)[j] = IF j < IdColumn THEN columns[j] ELSE columns[j + 1]
<1>1. Promise!HasId <=> IdColumn # 0
  BY NamesAreFound DEF Promise!HasId, IdColumn
<1>2. ASSUME stmt.columns = <<>>, IdColumn # 0
      PROVE  /\ Promise!Given(stmt) \in Seq(STRING)
             /\ Len(Promise!Given(stmt)) = Len(columns) - 1
             /\ \A j \in 1..(Len(columns) - 1) :
                   Promise!Given(stmt)[j] = IF j < IdColumn THEN columns[j] ELSE columns[j + 1]
  <2>1. IdColumn \in 1..Len(columns) /\ columns \in Seq(STRING)
    BY <1>2, FindColumnFinds DEF IdColumn, StorageInv
  <2>2. IdColumn = CHOOSE i \in DOMAIN columns : columns[i] = "id"
    BY <1>2 DEF IdColumn, FindColumn
  <2>3. Promise!Given(stmt) = RemoveAt(columns, IdColumn)
    BY <1>1, <1>2, <2>2 DEF Promise!Given, RemoveAt, Promise!RemoveAt
  <2> QED BY <2>1, <2>3, RemoveAtProperties
<1> QED BY <1>1, <1>2 DEF Promise!Given

\* What INSERT checks of its columns is what Table asks for.
LEMMA InsertableIffAllowed ==
  ASSUME StorageInv, NEW stmt \in Inserts
  PROVE  Promise!IsInsertable(stmt) <=>
            IF IdColumn = 0 THEN PlainInsertAllowed(stmt) ELSE AutoIdInsertAllowed(stmt)
<1> DEFINE given == Promise!Given(stmt)
<1>1. /\ Len(columns) \in Nat /\ DOMAIN columns = 1..Len(columns)
      /\ \A i, j \in DOMAIN columns : columns[i] = columns[j] => i = j
  BY LenProperties DEF StorageInv
<1>2. \A i \in DOMAIN columns : columns[i] \in Promise!Names /\ FindColumn(columns[i]) = i
  BY FindColumnFinds DEF Promise!Names
<1>3. CASE stmt.columns = <<>> /\ IdColumn = 0
  <2>1. given = columns /\ "id" \notin Promise!Names
    BY <1>3, GivenColumns DEF Promise!HasId
  <2>2. \A i \in DOMAIN columns : columns[i] \in Promise!Names \ {"id"}
    BY <1>2, <2>1
  <2>3. Promise!Distinct(columns)
    BY <1>1 DEF Promise!Distinct
  <2> QED BY <1>3, <2>1, <2>2, <2>3 DEF Promise!IsInsertable, PlainInsertAllowed
<1>4. CASE stmt.columns = <<>> /\ IdColumn # 0
  <2>1. /\ given \in Seq(STRING) /\ Len(given) = Len(columns) - 1
        /\ \A j \in 1..(Len(columns) - 1) :
              given[j] = IF j < IdColumn THEN columns[j] ELSE columns[j + 1]
    BY <1>4, GivenColumns
  <2>2. IdColumn \in 1..Len(columns) /\ columns[IdColumn] = "id"
    BY <1>4, FindColumnFinds DEF IdColumn
  <2> HIDE DEF given
  <2>3. DOMAIN given = 1..(Len(columns) - 1)
    BY <1>1, <2>1
  <2> DEFINE place(j) == IF j < IdColumn THEN j ELSE j + 1
  <2>4. \A j \in DOMAIN given :
           place(j) \in 1..Len(columns) /\ place(j) # IdColumn /\ given[j] = columns[place(j)]
    BY <1>1, <2>1, <2>2, <2>3
  <2>5. \A i, j \in DOMAIN given : place(i) = place(j) => i = j
    BY <1>1, <2>2, <2>3
  <2> HIDE DEF place
  <2>6. \A i \in DOMAIN given : given[i] \in Promise!Names \ {"id"}
    BY <1>1, <1>2, <2>2, <2>4
  <2>7. Promise!Distinct(given)
    BY <1>1, <2>4, <2>5 DEF Promise!Distinct
  <2> QED BY <1>4, <2>1, <2>6, <2>7 DEF Promise!IsInsertable, AutoIdInsertAllowed, given
<1>5. CASE stmt.columns # <<>>
  <2>1. given = stmt.columns
    BY <1>5, GivenColumns
  <2>2. Promise!Distinct(stmt.columns) <=> Distinct(stmt.columns)
    BY DEF Promise!Distinct, Distinct
  <2>3. \A name : name \in Promise!Names <=> FindColumn(name) # 0
    BY NamesAreFound
  <2>4. \A name : name = "id" <=> (FindColumn(name) = IdColumn /\ FindColumn(name) # 0) \/ name = "id"
    <3> TAKE name
    <3>1. FindColumn(name) # 0 => columns[FindColumn(name)] = name
      BY FindColumnFinds
    <3>2. IdColumn # 0 => columns[IdColumn] = "id"
      BY FindColumnFinds DEF IdColumn
    <3> QED BY <3>1, <3>2
  <2>5. \A name : name \in Promise!Names \ {"id"} <=> FindColumn(name) \notin {0, IdColumn}
    BY <2>3, <2>4 DEF IdColumn
  <2>6. Promise!IsInsertable(stmt) <=> AutoIdInsertAllowed(stmt)
    BY <1>5, <2>1, <2>2, <2>5 DEF Promise!IsInsertable, AutoIdInsertAllowed
  <2>7. IdColumn = 0 => (AutoIdInsertAllowed(stmt) <=> PlainInsertAllowed(stmt))
    BY <1>5 DEF AutoIdInsertAllowed, PlainInsertAllowed
  <2> QED BY <2>6, <2>7
<1> QED BY <1>3, <1>4, <1>5

-----------------------------------------------------------------------------
(* The invariant.                                                          *)

LEMMA InitInv == Init => TableInv
<1> SUFFICES ASSUME Init PROVE TableInv
  OBVIOUS
<1>1. PICK start \in FilesBefore : columns = start[1] /\ file = start[2]
  BY DEF Init
<1>2. file \in Seq([DOMAIN columns -> STRING])
  BY <1>1, FilesAssumption
<1>3. file \in Seq([DOMAIN columns -> Values])
  <2>1. [DOMAIN columns -> STRING] \subseteq [DOMAIN columns -> Values]
    BY DEF Values
  <2> QED BY <1>2, <2>1, SeqMonotonic
<1>4. StorageInv
  BY <1>1, <1>3, FilesAssumption DEF StorageInv
<1> QED BY <1>4 DEF Init, TableInv, IndexInv

\* Rows of INSERT have a value for each column.
LEMMA RowsTyped ==
  ASSUME StorageInv, NEW stmt \in Inserts
  PROVE  /\ IdColumn = 0 /\ PlainInsertAllowed(stmt) => PlainRow(stmt) \in [DOMAIN columns -> Values]
         /\ IdColumn # 0 /\ AutoIdInsertAllowed(stmt) =>
               \A id \in 1..MaxId : RowWithId(stmt, id) \in [DOMAIN columns -> Values]
<1>1. /\ stmt.columns \in Seq(STRING) /\ stmt.values \in Seq(STRING)
      /\ Len(stmt.values) \in Nat /\ DOMAIN stmt.values = 1..Len(stmt.values)
      /\ DOMAIN stmt.columns = 1..Len(stmt.columns)
      /\ \A i \in 1..Len(stmt.values) : stmt.values[i] \in Values
  BY StatementsAssumption, LenProperties, ElementOfSeq DEF Values
<1>2. Len(columns) \in Nat /\ DOMAIN columns = 1..Len(columns) /\ IdColumn \in 0..Len(columns)
  BY FindColumnFinds DEF IdColumn
<1>3. ASSUME Len(stmt.columns) = Len(stmt.values)
      PROVE  \A i : NamedValue(stmt, i) \in Values
  <2> TAKE i
  <2> DEFINE given == {n \in DOMAIN stmt.columns : FindColumn(stmt.columns[n]) = i}
  <2>1. CASE given = {}
    <3>1. NamedValue(stmt, i) = ""
      BY <2>1 DEF NamedValue
    <3> QED BY <3>1 DEF Values
  <2>2. CASE given # {}
    <3>1. (CHOOSE n \in given : TRUE) \in given
      BY <2>2
    <3>2. NamedValue(stmt, i) = stmt.values[CHOOSE n \in given : TRUE]
      BY <2>2 DEF NamedValue
    <3>3. (CHOOSE n \in given : TRUE) \in 1..Len(stmt.values)
      BY <1>1, <1>3, <3>1
    <3> QED BY <1>1, <3>2, <3>3
  <2> QED BY <2>1, <2>2
<1>4. ASSUME PlainInsertAllowed(stmt)
      PROVE  PlainRow(stmt) \in [DOMAIN columns -> Values]
  <2>1. CASE stmt.columns = <<>>
    <3>1. Len(stmt.values) = Len(columns)
      BY <1>4, <2>1 DEF PlainInsertAllowed
    <3> QED BY <1>1, <1>2, <2>1, <3>1 DEF PlainRow
  <2>2. CASE stmt.columns # <<>>
    <3>1. Len(stmt.columns) = Len(stmt.values)
      BY <1>4, <2>2 DEF PlainInsertAllowed
    <3> QED BY <1>3, <2>2, <3>1 DEF PlainRow
  <2> QED BY <2>1, <2>2
<1>5. ASSUME IdColumn # 0, AutoIdInsertAllowed(stmt), NEW id \in 1..MaxId
      PROVE  RowWithId(stmt, id) \in [DOMAIN columns -> Values]
  <2>1. IdText[id] \in Values
    BY IdTextAssumption DEF Values
  <2>2. CASE stmt.columns = <<>>
    <3>1. Len(stmt.values) = Len(columns) - 1
      BY <1>5, <2>2 DEF AutoIdInsertAllowed
    <3>2. ASSUME NEW i \in DOMAIN columns, i # IdColumn
          PROVE  stmt.values[IF i < IdColumn THEN i ELSE i - 1] \in Values
      <4>1. (IF i < IdColumn THEN i ELSE i - 1) \in 1..Len(stmt.values)
        <5> DEFINE c == IdColumn
                   L == Len(columns)
        <5>1. i \in 1..L /\ L \in Nat /\ c \in 0..L /\ Len(stmt.values) = L - 1
          BY <1>2, <3>1
        <5>2. c # 0 /\ i # c
          BY <1>5, <3>2
        <5> HIDE DEF c, L
        <5>3. (IF i < c THEN i ELSE i - 1) \in 1..(L - 1)
          BY <5>1, <5>2
        <5> QED BY <5>1, <5>3 DEF c
      <4> QED BY <1>1, <4>1
    <3> QED BY <2>1, <2>2, <3>2 DEF RowWithId
  <2>3. CASE stmt.columns # <<>>
    <3>1. Len(stmt.columns) = Len(stmt.values)
      BY <1>5, <2>3 DEF AutoIdInsertAllowed
    <3> QED BY <1>3, <2>1, <2>3, <3>1 DEF RowWithId
  <2> QED BY <2>2, <2>3
<1> QED BY <1>4, <1>5

LEMMA LoadKeepsInv ==
  ASSUME StorageInv, Load
  PROVE  TableInv'
<1> USE DEF Load
<1>1. StorageInv'
  BY DEF StorageInv
<1>2. CASE IdColumn = 0
  <2>1. IdColumn' = 0
    BY <1>2 DEF IdColumn, FindColumn
  <2> QED BY <1>1, <2>1 DEF TableInv, IndexInv
<1>3. CASE IdColumn # 0
  <2>1. /\ 0 \notin StoredIds /\ MaxId \notin StoredIds /\ Cardinality(StoredIds) = Len(file)
    BY <1>3 DEF Loadable
  <2>2. Len(file) \in Nat /\ DOMAIN file = 1..Len(file)
    BY RowsOfFile
  <2>3. \A i, j \in DOMAIN file : IdAt(i) = IdAt(j) => i = j
    <3> DEFINE f == [i \in DOMAIN file |-> IdAt(i)]
    <3>1. f \in Surjection(DOMAIN file, StoredIds)
      BY DEF Surjection, StoredIds
    <3>2. IsFiniteSet(1..Len(file)) /\ Cardinality(1..Len(file)) = Len(file)
      BY <2>2, FS_Interval
    <3>3. IsFiniteSet(DOMAIN file) /\ Cardinality(DOMAIN file) = Cardinality(StoredIds)
      BY <2>1, <2>2, <3>2
    <3> HIDE DEF f
    <3>4. f \in Injection(DOMAIN file, StoredIds)
      BY <3>1, <3>3, FS_SurjSameCardinalityImpliesInj
    <3>5. \A i, j \in DOMAIN file : f[i] = f[j] => i = j
      BY <3>4 DEF Injection, IsInjective
    <3> QED BY <3>5 DEF f
  <2>4. DOMAIN index' = StoredIds
    BY <1>3
  <2>5. \A k \in StoredIds : index'[k] \in DOMAIN file /\ IdAt(index'[k]) = k
    <3> TAKE k \in StoredIds
    <3>1. \E i \in DOMAIN file : IdAt(i) = k
      BY DEF StoredIds
    <3>2. index'[k] = CHOOSE i \in DOMAIN file : IdAt(i) = k
      BY <1>3
    <3> QED BY <3>1, <3>2
  <2>6. StoredIds \subseteq 1..(MaxId - 1) /\ MaxId \in Nat
    BY <2>1, ParseIdReads DEF StoredIds, IdAt
  <2>7. next_id' \in 1..MaxId /\ \A k \in StoredIds : k < next_id'
    <3> DEFINE largest == CHOOSE m \in StoredIds \cup {0} : \A k \in StoredIds : k <= m
    <3>1. \E m \in StoredIds \cup {0} : \A k \in StoredIds \cup {0} : k <= m
      <4>1. StoredIds \cup {0} \in SUBSET (0..MaxId) /\ StoredIds \cup {0} # {}
        BY <2>6
      <4> QED BY <2>6, <4>1, LargestExists
    <3>2. largest \in StoredIds \cup {0} /\ \A k \in StoredIds : k <= largest
      BY <3>1
    <3>3. next_id' = 1 + largest
      BY <1>3
    <3> HIDE DEF largest
    <3>4. largest \in 0..(MaxId - 1)
      <4>1. MaxId # 0
        BY IdTextAssumption
      <4> QED BY <2>6, <3>2, <4>1
    <3>5. \A k \in StoredIds : k \in Int /\ k <= largest
      BY <2>6, <3>2
    <3>6. next_id' \in 1..MaxId
      BY <2>6, <3>3, <3>4
    <3>7. \A k \in StoredIds : k < next_id'
      BY <3>3, <3>4, <3>5
    <3> QED BY <3>6, <3>7
  <2>8. StoredIds' = StoredIds /\ \A i : IdAt(i)' = IdAt(i)
    BY DEF StoredIds, IdAt, ParseId, IdColumn, FindColumn
  <2>9. next_id' \in 0..MaxId
    BY <2>6, <2>7
  <2>10. IndexInv'
    BY <2>1, <2>3, <2>4, <2>5, <2>7, <2>8, <2>9 DEF IndexInv
  <2> QED BY <1>1, <2>10 DEF TableInv
<1> QED BY <1>2, <1>3

LEMMA EndsKeepsInv ==
  ASSUME StorageInv, UNCHANGED <<columns, file>>, loaded' = FALSE
  PROVE  TableInv'
BY DEF TableInv, StorageInv, IndexInv

LEMMA UnchangedKeepsInv ==
  ASSUME TableInv, UNCHANGED <<columns, file, runtime>>
  PROVE  TableInv'
<1>1. StorageInv'
  BY DEF TableInv, StorageInv
<1>2. /\ StoredIds' = StoredIds /\ IdColumn' = IdColumn /\ \A i : IdAt(i)' = IdAt(i)
      /\ UNCHANGED <<index, next_id, loaded, file>>
  BY DEF StoredIds, IdAt, ParseId, IdColumn, FindColumn, runtime
<1>3. IndexInv'
  BY <1>2 DEF TableInv, IndexInv
<1> QED BY <1>1, <1>3 DEF TableInv

\* A row added at the end of the file.
LEMMA AppendKeepsStorage ==
  ASSUME StorageInv, NEW row \in [DOMAIN columns -> Values],
         columns' = columns, file' = Append(file, row)
  PROVE  /\ StorageInv'
         /\ DOMAIN file' = 1..(Len(file) + 1) /\ DOMAIN file = 1..Len(file) /\ Len(file) \in Nat
         /\ \A n \in DOMAIN file : file'[n] = file[n]
         /\ file'[Len(file) + 1] = row
<1>1. file \in Seq([DOMAIN columns -> Values])
  BY DEF StorageInv
<1>2. file' \in Seq([DOMAIN columns -> Values])
  BY <1>1
<1>3. StorageInv'
  BY <1>2 DEF StorageInv, Values
<1> QED BY <1>1, <1>3, AppendAt

LEMMA PlainInsertKeepsInv ==
  ASSUME TableInv, NEW stmt \in Inserts, PlainInsert(stmt)
  PROVE  TableInv'
<1> USE DEF TableInv, PlainInsert
<1>1. PlainRow(stmt) \in [DOMAIN columns -> Values]
  BY RowsTyped
<1>2. StorageInv'
  BY <1>1, AppendKeepsStorage
<1>3. IdColumn' = 0
  BY DEF IdColumn, FindColumn
<1> QED BY <1>2, <1>3 DEF IndexInv

LEMMA AutoIdInsertKeepsInv ==
  ASSUME TableInv, NEW stmt \in Inserts, AutoIdInsert(stmt)
  PROVE  /\ TableInv'
         /\ next_id \in 1..MaxId /\ next_id \notin StoredIds
<1> USE DEF TableInv
<1> DEFINE row == RowWithId(stmt, next_id)
<1>0. PICK n : n = Len(file) + 1
  OBVIOUS
<1>1. /\ loaded /\ IdColumn # 0 /\ AutoIdInsertAllowed(stmt) /\ next_id # 0
      /\ file' = Append(file, row) /\ columns' = columns /\ loaded'
      /\ index' = [k \in DOMAIN index \cup {next_id} |-> IF k = next_id THEN n ELSE index[k]]
      /\ next_id' = (next_id + 1) % (MaxId + 1)
  BY <1>0 DEF AutoIdInsert
<1>2. /\ 0 \notin StoredIds
      /\ \A i, j \in DOMAIN file : IdAt(i) = IdAt(j) => i = j
      /\ DOMAIN index = StoredIds
      /\ \A k \in StoredIds : index[k] \in DOMAIN file /\ IdAt(index[k]) = k
      /\ next_id \in 0..MaxId
      /\ \A k \in StoredIds : k < next_id
  BY <1>1 DEF IndexInv
<1>3. MaxId \in Nat \ {0} /\ next_id \in 1..MaxId /\ StoredIds \subseteq 1..MaxId
  <2>1. StoredIds \subseteq 0..MaxId
    BY ParseIdReads DEF StoredIds, IdAt
  <2> QED BY <1>1, <1>2, <2>1, IdTextAssumption
<1>4. next_id \notin StoredIds
  BY <1>2, <1>3
<1>5. row \in [DOMAIN columns -> Values]
  BY <1>1, <1>3, RowsTyped
<1>6. /\ StorageInv'
      /\ DOMAIN file' = 1..n /\ DOMAIN file = 1..(n - 1) /\ n \in Nat \ {0}
      /\ \A i \in DOMAIN file : file'[i] = file[i]
      /\ file'[n] = row
  BY <1>0, <1>1, <1>5, AppendKeepsStorage
<1>7. IdColumn' = IdColumn /\ IdColumn \in DOMAIN columns
  BY <1>1, FindColumnFinds DEF IdColumn, FindColumn
<1>8. \A i : IdAt(i)' = ParseId(file'[i][IdColumn])
  BY <1>7 DEF IdAt, ParseId
<1>9. IdAt(n)' = next_id
  <2>1. row[IdColumn] = IdText[next_id]
    BY <1>7 DEF RowWithId
  <2> HIDE DEF row
  <2> QED BY <1>3, <1>6, <1>8, <2>1, ParseIdReads
<1> HIDE DEF row
<1>10. \A i \in DOMAIN file : IdAt(i)' = IdAt(i)
  BY <1>6, <1>8 DEF IdAt
<1>11. StoredIds' = StoredIds \cup {next_id}
  <2>1. DOMAIN file' = DOMAIN file \cup {n}
    BY <1>6
  <2>2. StoredIds' = {IdAt(i)' : i \in DOMAIN file'}
    BY DEF StoredIds
  <2>3. StoredIds = {IdAt(i) : i \in DOMAIN file}
    BY DEF StoredIds
  <2> QED BY <1>9, <1>10, <2>1, <2>2, <2>3
<1>12. \A i, j \in DOMAIN file' : IdAt(i)' = IdAt(j)' => i = j
  <2>1. \A i \in DOMAIN file : IdAt(i)' # next_id
    BY <1>4, <1>10 DEF StoredIds
  <2>2. DOMAIN file' = DOMAIN file \cup {n}
    BY <1>6
  <2> QED BY <1>2, <1>9, <1>10, <2>1, <2>2
<1>13. DOMAIN index' = StoredIds'
  BY <1>1, <1>2, <1>11
<1>14. (\A k \in StoredIds : index[k] \in DOMAIN file /\ IdAt(index[k]) = k)'
  <2> SUFFICES ASSUME NEW k \in StoredIds'
               PROVE  (index[k] \in DOMAIN file /\ IdAt(index[k]) = k)'
    OBVIOUS
  <2>0. IdAt(index[k])' = ParseId(file'[index'[k]][IdColumn])
    BY <1>7 DEF IdAt, ParseId
  <2>1. CASE k = next_id
    <3>1. index'[k] = n
      BY <1>1, <2>1
    <3>2. n \in DOMAIN file' /\ IdAt(index[k])' = next_id
      BY <1>6, <1>8, <1>9, <2>0, <3>1
    <3> QED BY <2>1, <3>1, <3>2
  <2>2. CASE k # next_id
    <3>1. k \in StoredIds /\ index'[k] = index[k]
      BY <1>1, <1>2, <1>11, <2>2
    <3>2. index[k] \in DOMAIN file /\ IdAt(index[k]) = k
      BY <1>2, <3>1
    <3>3. index'[k] \in DOMAIN file'
      BY <1>6, <3>1, <3>2
    <3>4. IdAt(index[k])' = k
      BY <1>6, <2>0, <3>1, <3>2 DEF IdAt
    <3> QED BY <3>3, <3>4
  <2> QED BY <2>1, <2>2
<1>15. next_id' \in 0..MaxId /\ (next_id' # 0 => \A k \in StoredIds' : k < next_id')
  <2>1. CASE next_id = MaxId
    <3>1. next_id' = 0
      BY <1>1, <1>3, <2>1
    <3> QED BY <1>3, <3>1
  <2>2. CASE next_id # MaxId
    <3>1. next_id + 1 \in 1..MaxId
      BY <1>3, <2>2
    <3>2. next_id' = next_id + 1
      BY <1>1, <1>3, <3>1
    <3>3. \A k \in StoredIds' : k \in Int /\ k < next_id + 1
      BY <1>2, <1>3, <1>11
    <3> QED BY <1>3, <3>1, <3>2, <3>3
  <2> QED BY <2>1, <2>2
<1>16. 0 \notin StoredIds'
  BY <1>1, <1>2, <1>11
<1>17. IndexInv'
  BY <1>12, <1>13, <1>14, <1>15, <1>16 DEF IndexInv
<1> QED BY <1>3, <1>4, <1>6, <1>17

LEMMA NextInv == TableInv /\ [Next]_vars => TableInv'
<1> SUFFICES ASSUME TableInv, [Next]_vars PROVE TableInv'
  OBVIOUS
<1>0. StorageInv
  BY DEF TableInv
<1>1. CASE Load
  BY <1>0, <1>1, LoadKeepsInv
<1>2. CASE Exit
  BY <1>0, <1>2, EndsKeepsInv DEF Exit, Ends
<1>3. ASSUME NEW stmt \in Inserts, InsertRefused(stmt) PROVE TableInv'
  BY <1>0, <1>3, EndsKeepsInv DEF InsertRefused, Ends
<1>4. ASSUME NEW stmt \in Inserts, PlainInsert(stmt) PROVE TableInv'
  BY <1>4, PlainInsertKeepsInv
<1>5. ASSUME NEW stmt \in Inserts, AutoIdInsert(stmt) PROVE TableInv'
  BY <1>5, AutoIdInsertKeepsInv
<1>6. ASSUME NEW stmt \in Selects, SelectRefused(stmt) PROVE TableInv'
  BY <1>0, <1>6, EndsKeepsInv DEF SelectRefused, Ends
<1>7. ASSUME NEW stmt \in Selects, SelectByIndex(stmt) PROVE TableInv'
  BY <1>7, UnchangedKeepsInv DEF SelectByIndex
<1>8. ASSUME NEW stmt \in Selects, SelectByScan(stmt) PROVE TableInv'
  BY <1>8, UnchangedKeepsInv DEF SelectByScan
<1>9. ASSUME NEW stmt, StatementFails(stmt) PROVE TableInv'
  BY <1>0, <1>9, EndsKeepsInv DEF StatementFails, Ends
<1>10. ASSUME NEW stmt, LoadFails(stmt) PROVE TableInv'
  BY <1>10, UnchangedKeepsInv DEF LoadFails
<1>11. CASE UNCHANGED vars
  BY <1>11, UnchangedKeepsInv DEF vars
<1> QED BY <1>1, <1>2, <1>3, <1>4, <1>5, <1>6, <1>7, <1>8, <1>9, <1>10, <1>11 DEF Next

THEOREM InvHolds == Spec => []TableInv
BY InitInv, NextInv, PTL DEF Spec

\* A statement is refused for its columns exactly when Table has no place for them
\* (validate_insert_columns_for_auto_id, build_insert_row_existing_behavior,
\* validate_select_columns).
THEOREM RefusalsHold == Spec => []RefusalsAreRight
<1>1. TableInv => RefusalsAreRight
  BY InsertableIffAllowed, SelectableIffAllowed DEF RefusalsAreRight, TableInv
<1> QED BY <1>1, InvHolds, PTL

\* The id index answers as the full scan would (can_use_id_index).
THEOREM PathsHold == Spec => []PathsAgree
<1>1. TableInv => PathsAgree
  BY IndexScanAgree DEF PathsAgree
<1> QED BY <1>1, InvHolds, PTL

-----------------------------------------------------------------------------
(* The refinement of Table.                                                *)

\* The row INSERT builds is the row its column names say.
LEMMA RowIsMeant ==
  ASSUME StorageInv, NEW stmt \in Inserts, Promise!IsInsertable(stmt),
         NEW row, NEW id, DOMAIN row = DOMAIN columns,
         \A i \in DOMAIN columns :
            row[i] = IF i = IdColumn THEN id
                     ELSE IF stmt.columns = <<>>
                     THEN stmt.values[IF IdColumn = 0 \/ i < IdColumn THEN i ELSE i - 1]
                     ELSE NamedValue(stmt, i)
  PROVE  AsFunction(columns, row) = Promise!RowOf(stmt, id)
<1> DEFINE given == Promise!Given(stmt)
<1>1. /\ Len(columns) \in Nat /\ DOMAIN columns = 1..Len(columns)
      /\ \A i, j \in DOMAIN columns : columns[i] = columns[j] => i = j
  BY LenProperties DEF StorageInv
<1>2. DOMAIN AsFunction(columns, row) = Promise!Names /\ DOMAIN Promise!RowOf(stmt, id) = Promise!Names
  BY DEF AsFunction, Promise!RowOf, Promise!Names
<1>3. ASSUME NEW name \in Promise!Names
      PROVE  AsFunction(columns, row)[name] = Promise!RowOf(stmt, id)[name]
  <2> DEFINE c == FindColumn(name)
  <2>1. /\ c \in DOMAIN columns /\ columns[c] = name /\ c \in 1..Len(columns)
        /\ AsFunction(columns, row)[name] = row[c]
    BY AsFunctionAt, FindColumnFinds
  <2>2. Promise!RowOf(stmt, id)[name] =
           IF name = "id" THEN id
           ELSE IF \E i \in DOMAIN given : given[i] = name
           THEN stmt.values[CHOOSE i \in DOMAIN given : given[i] = name] ELSE ""
    BY DEF Promise!RowOf
  <2>3. name = "id" <=> c = IdColumn
    <3>1. \A i \in DOMAIN columns : columns[i] = "id" => IdColumn = i
      BY FindColumnFinds DEF IdColumn
    <3>2. IdColumn # 0 => columns[IdColumn] = "id"
      BY FindColumnFinds DEF IdColumn
    <3>3. c # 0
      BY AsFunctionAt
    <3> QED BY <2>1, <3>1, <3>2, <3>3
  <2> HIDE DEF given, c
  <2>4. CASE name = "id"
    BY <2>1, <2>2, <2>3, <2>4
  <2>5. CASE name # "id" /\ stmt.columns = <<>>
    <3> DEFINE place == IF IdColumn = 0 \/ c < IdColumn THEN c ELSE c - 1
    <3>1. row[c] = stmt.values[place]
      BY <2>1, <2>3, <2>5
    <3>2. place \in DOMAIN given /\ given[place] = name
          /\ \A i \in DOMAIN given : given[i] = name => i = place
      <4>1. CASE IdColumn = 0
        <5>1. given = columns
          BY <2>5, <4>1, GivenColumns DEF given
        <5> QED BY <1>1, <2>1, <4>1, <5>1
      <4>2. CASE IdColumn # 0
        <5>1. /\ given \in Seq(STRING) /\ Len(given) = Len(columns) - 1
              /\ \A j \in 1..(Len(columns) - 1) :
                    given[j] = IF j < IdColumn THEN columns[j] ELSE columns[j + 1]
          BY <2>5, <4>2, GivenColumns DEF given
        <5>2. DOMAIN given = 1..(Len(columns) - 1) /\ IdColumn \in 1..Len(columns)
          BY <1>1, <4>2, <5>1, FindColumnFinds DEF IdColumn
        <5>3. c # IdColumn
          BY <2>3, <2>5
        <5>4. place \in DOMAIN given /\ given[place] = columns[c]
          BY <1>1, <2>1, <4>2, <5>1, <5>2, <5>3
        <5>5. ASSUME NEW i \in DOMAIN given, given[i] = name PROVE i = place
          <6>1. given[i] = columns[IF i < IdColumn THEN i ELSE i + 1]
            BY <5>1, <5>2
          <6>2. (IF i < IdColumn THEN i ELSE i + 1) \in 1..Len(columns)
            BY <1>1, <5>2
          <6>3. (IF i < IdColumn THEN i ELSE i + 1) = c
            BY <1>1, <2>1, <5>5, <6>1, <6>2
          <6> QED BY <1>1, <4>2, <5>2, <6>3
        <5> QED BY <2>1, <5>4, <5>5
      <4> QED BY <4>1, <4>2
    <3> HIDE DEF place
    <3>3. (CHOOSE i \in DOMAIN given : given[i] = name) = place
      BY <3>2
    <3> QED BY <2>1, <2>2, <2>5, <3>1, <3>2, <3>3
  <2>6. CASE name # "id" /\ stmt.columns # <<>>
    <3> DEFINE named == {n \in DOMAIN stmt.columns : FindColumn(stmt.columns[n]) = c}
    <3>1. given = stmt.columns
      BY <2>6, GivenColumns DEF given
    <3>2. row[c] = IF named = {} THEN "" ELSE stmt.values[CHOOSE n \in named : TRUE]
      <4>1. row[c] = NamedValue(stmt, c)
        BY <2>1, <2>3, <2>6
      <4> QED BY <4>1 DEF NamedValue
    <3>3. \A n \in DOMAIN given : n \in named <=> given[n] = name
      <4> TAKE n \in DOMAIN given
      <4>1. FindColumn(given[n]) = c <=> given[n] = name
        <5>1. FindColumn(given[n]) # 0 => columns[FindColumn(given[n])] = given[n]
          BY FindColumnFinds
        <5>2. c # 0
          BY <1>1, <2>1
        <5> QED BY <2>1, <5>1, <5>2 DEF c
      <4> QED BY <3>1, <4>1
    <3>4. \A i, j \in DOMAIN given : given[i] = given[j] => i = j
      BY DEF Promise!IsInsertable, Promise!Distinct, given
    <3>5. named \subseteq DOMAIN given
      BY <3>1
    <3> HIDE DEF named
    <3>6. CASE named = {}
      BY <2>1, <2>2, <2>6, <3>2, <3>3, <3>6
    <3>7. CASE named # {}
      <4>1. PICK n \in named : TRUE
        BY <3>7
      <4>2. n \in DOMAIN given /\ given[n] = name
        BY <3>3, <3>5
      <4>3. (CHOOSE i \in DOMAIN given : given[i] = name) = n
        BY <3>4, <4>2
      <4>4. (CHOOSE i \in named : TRUE) = n
        <5>1. (CHOOSE i \in named : TRUE) \in named
          BY <3>7
        <5> QED BY <3>3, <3>4, <3>5, <4>2, <5>1
      <4> QED BY <2>1, <2>2, <2>6, <3>2, <3>7, <4>2, <4>3, <4>4
    <3> QED BY <3>6, <3>7
  <2> QED BY <2>4, <2>5, <2>6
<1>4. /\ AsFunction(columns, row) = [name \in Promise!Names |-> AsFunction(columns, row)[name]]
      /\ Promise!RowOf(stmt, id) = [name \in Promise!Names |-> Promise!RowOf(stmt, id)[name]]
  BY DEF AsFunction, Promise!RowOf, Promise!Names
<1> QED BY <1>3, <1>4, Zenon

LEMMA AppendIsMapped ==
  ASSUME StorageInv, NEW row \in [DOMAIN columns -> Values],
         columns' = columns, file' = Append(file, row)
  PROVE  AsTable(columns, file)' = Append(AsTable(columns, file), AsFunction(columns, row))
<1> DEFINE table == AsTable(columns, file)
           after == AsTable(columns, Append(file, row))
           added == AsFunction(columns, row)
<1>1. AsTable(columns, file)' = after
  BY DEF AsTable, AsFunction
<1>2. /\ DOMAIN Append(file, row) = 1..(Len(file) + 1) /\ DOMAIN file = 1..Len(file)
      /\ Len(file) \in Nat
      /\ \A n \in DOMAIN file : Append(file, row)[n] = file[n]
      /\ Append(file, row)[Len(file) + 1] = row
  BY AppendKeepsStorage
<1>3. /\ table \in Seq([Promise!Names -> Values]) /\ Len(table) = Len(file)
      /\ DOMAIN table = 1..Len(file)
  BY <1>2, TableRows DEF AsTable
<1>4. \A n \in 1..Len(file) : table[n] = AsFunction(columns, file[n])
  BY <1>2 DEF AsTable
<1>5. /\ DOMAIN after = 1..(Len(file) + 1)
      /\ \A n \in 1..(Len(file) + 1) : after[n] = AsFunction(columns, Append(file, row)[n])
  BY <1>2 DEF AsTable
<1>6. after = [n \in 1..(Len(file) + 1) |-> after[n]]
  BY <1>2 DEF AsTable
<1> HIDE DEF table, after, added
<1>7. /\ DOMAIN Append(table, added) = 1..(Len(file) + 1)
      /\ \A n \in 1..Len(file) : Append(table, added)[n] = table[n]
      /\ Append(table, added)[Len(file) + 1] = added
      /\ Append(table, added) \in Seq([Promise!Names -> Values] \cup {added})
  BY <1>3, AppendAt
<1>8. ASSUME NEW n \in 1..(Len(file) + 1) PROVE after[n] = Append(table, added)[n]
  <2>1. CASE n = Len(file) + 1
    BY <1>2, <1>5, <1>7, <2>1 DEF added
  <2>2. CASE n # Len(file) + 1
    <3>1. n \in 1..Len(file) /\ n \in DOMAIN file
      BY <1>2, <2>2
    <3>2. after[n] = AsFunction(columns, file[n])
      BY <1>2, <1>5, <3>1
    <3> QED BY <1>4, <1>7, <3>1, <3>2
  <2> QED BY <2>1, <2>2
<1>9. Append(table, added) = [n \in 1..(Len(file) + 1) |-> Append(table, added)[n]]
  <2> DEFINE t == Append(table, added)
             S == [Promise!Names -> Values] \cup {added}
  <2>1. t \in Seq(S) /\ DOMAIN t = 1..(Len(file) + 1)
    BY <1>7
  <2> HIDE DEF t, S
  <2>2. t = [n \in 1..Len(t) |-> t[n]] /\ DOMAIN t = 1..Len(t)
    BY <2>1, SeqDef, LenProperties
  <2> QED BY <2>1, <2>2 DEF t
<1>10. after = Append(table, added)
  BY <1>6, <1>8, <1>9, Zenon
<1> QED BY <1>1, <1>10 DEF table, added

LEMMA PlainInsertMaps ==
  ASSUME TableInv, NEW stmt \in Inserts, PlainInsert(stmt)
  PROVE  Promise!Insert
<1> DEFINE row == PlainRow(stmt)
<1>0. StorageInv
  BY DEF TableInv
<1>1. /\ IdColumn = 0 /\ PlainInsertAllowed(stmt) /\ columns' = columns
      /\ file' = Append(file, row) /\ reply' = Answer(stmt, "OK", <<<<>>>>)
  BY DEF PlainInsert
<1>2. Promise!IsInsertable(stmt) /\ ~Promise!HasId
  BY <1>0, <1>1, InsertableIffAllowed, GivenColumns
<1>3. row \in [DOMAIN columns -> Values]
  BY <1>0, <1>1, RowsTyped
<1>4. AsFunction(columns, row) = Promise!RowOf(stmt, "")
  <2>1. DOMAIN row = DOMAIN columns
    BY DEF PlainRow
  <2>2. \A i \in DOMAIN columns :
           row[i] = IF i = IdColumn THEN ""
                    ELSE IF stmt.columns = <<>>
                    THEN stmt.values[IF IdColumn = 0 \/ i < IdColumn THEN i ELSE i - 1]
                    ELSE NamedValue(stmt, i)
    <3>1. \A i \in DOMAIN columns : i # IdColumn
      BY <1>0, <1>1, FindColumnFinds
    <3> QED BY <1>1, <3>1 DEF PlainRow
  <2> HIDE DEF row
  <2> QED BY <1>0, <1>2, <2>1, <2>2, RowIsMeant
<1>5. AsTable(columns, file)' = Append(AsTable(columns, file), Promise!RowOf(stmt, ""))
  BY <1>0, <1>1, <1>3, <1>4, AppendIsMapped
<1>6. reply' = Promise!Answer(stmt, "OK", <<<<>>>>)
  BY <1>1 DEF Answer, Promise!Answer
<1> QED BY <1>1, <1>2, <1>5, <1>6 DEF Promise!Insert

LEMMA AutoIdInsertMaps ==
  ASSUME TableInv, NEW stmt \in Inserts, AutoIdInsert(stmt)
  PROVE  Promise!Insert
<1> DEFINE row == RowWithId(stmt, next_id)
           id == IdText[next_id]
<1>0. StorageInv
  BY DEF TableInv
<1>1. /\ IdColumn # 0 /\ AutoIdInsertAllowed(stmt) /\ columns' = columns
      /\ file' = Append(file, row) /\ reply' = Answer(stmt, "OK", <<<<id>>>>)
  BY DEF AutoIdInsert
<1>2. Promise!IsInsertable(stmt) /\ Promise!HasId
  BY <1>0, <1>1, InsertableIffAllowed, GivenColumns
<1>3. next_id \in 1..MaxId /\ next_id \notin StoredIds
  BY AutoIdInsertKeepsInv
<1>4. row \in [DOMAIN columns -> Values]
  BY <1>0, <1>1, <1>3, RowsTyped
<1>5. AsFunction(columns, row) = Promise!RowOf(stmt, id)
  <2>1. DOMAIN row = DOMAIN columns
    BY DEF RowWithId
  <2>2. \A i \in DOMAIN columns :
           row[i] = IF i = IdColumn THEN id
                    ELSE IF stmt.columns = <<>>
                    THEN stmt.values[IF IdColumn = 0 \/ i < IdColumn THEN i ELSE i - 1]
                    ELSE NamedValue(stmt, i)
    BY <1>1 DEF RowWithId
  <2> HIDE DEF row, id
  <2> QED BY <1>0, <1>2, <2>1, <2>2, RowIsMeant
<1>6. AsTable(columns, file)' = Append(AsTable(columns, file), Promise!RowOf(stmt, id))
  BY <1>0, <1>1, <1>4, <1>5, AppendIsMapped
<1>7. \A n \in DOMAIN AsTable(columns, file) : AsTable(columns, file)[n]["id"] # id
  <2> SUFFICES ASSUME NEW n \in DOMAIN file PROVE AsTable(columns, file)[n]["id"] # id
    BY DEF AsTable
  <2>1. AsTable(columns, file)[n]["id"] = file[n][IdColumn]
    BY <1>0, <1>2, TableRows DEF Promise!HasId, IdColumn
  <2>2. file[n][IdColumn] = id => IdAt(n) = next_id
    BY <1>3, ParseIdReads DEF IdAt
  <2>3. IdAt(n) \in StoredIds
    BY DEF StoredIds
  <2> QED BY <1>3, <2>1, <2>2, <2>3
<1>8. reply' = Promise!Answer(stmt, "OK", <<<<id>>>>)
  BY <1>1 DEF Answer, Promise!Answer
<1>9. id \in {IdText[k] : k \in 1..MaxId}
  BY <1>3
<1> HIDE DEF row, id
<1> QED BY <1>1, <1>2, <1>6, <1>7, <1>8, <1>9 DEF Promise!Insert

LEMMA SelectMaps ==
  ASSUME TableInv, NEW stmt \in Selects, SelectByIndex(stmt) \/ SelectByScan(stmt)
  PROVE  Promise!Select
<1>0. StorageInv
  BY DEF TableInv
<1>1. loaded /\ SelectAllowed(stmt) /\ UNCHANGED <<columns, file>>
  BY DEF SelectByIndex, SelectByScan
<1>2. reply' = Answer(stmt, "OK", ScanAnswer(stmt))
  BY <1>1, IndexScanAgree DEF SelectByIndex, SelectByScan
<1>3. reply' = Promise!Answer(stmt, "OK", Promise!Selected(stmt))
  BY <1>0, <1>1, <1>2, ScanIsSelected DEF Answer, Promise!Answer
<1>4. reply'.stmt = stmt
  BY <1>3 DEF Promise!Answer
<1>5. AsTable(columns, file)' = AsTable(columns, file)
  BY <1>1 DEF AsTable, AsFunction
<1> QED BY <1>0, <1>1, <1>3, <1>4, <1>5, SelectableIffAllowed DEF Promise!Select

LEMMA RefusalMaps ==
  ASSUME NEW stmt \in Inserts \cup Selects, NEW error \in {"EXEC_ERROR", "INDEX_ERROR"},
         reply' = Answer(stmt, error, <<>>), UNCHANGED <<columns, file>>
  PROVE  Promise!Refuse
<1>1. AsTable(columns, file)' = AsTable(columns, file)
  BY DEF AsTable, AsFunction
<1> QED BY <1>1 DEF Promise!Refuse, Promise!Answer, Answer

LEMMA StepMaps ==
  TableInv /\ [Next]_vars => [Promise!Next]_<<columns, AsTable(columns, file), reply>>
<1> SUFFICES ASSUME TableInv, [Next]_vars
             PROVE  [Promise!Next]_<<columns, AsTable(columns, file), reply>>
  OBVIOUS
<1> USE DEF Promise!Next
<1>1. CASE Load \/ Exit \/ UNCHANGED vars
  <2>1. UNCHANGED <<columns, file, reply>>
    BY <1>1 DEF Load, Exit, vars
  <2> QED BY <2>1 DEF AsTable, AsFunction
<1>2. ASSUME NEW stmt \in Inserts, InsertRefused(stmt) PROVE Promise!Next
  BY <1>2, RefusalMaps DEF InsertRefused
<1>3. ASSUME NEW stmt \in Inserts, PlainInsert(stmt) PROVE Promise!Next
  BY <1>3, PlainInsertMaps
<1>4. ASSUME NEW stmt \in Inserts, AutoIdInsert(stmt) PROVE Promise!Next
  BY <1>4, AutoIdInsertMaps
<1>5. ASSUME NEW stmt \in Selects, SelectRefused(stmt) PROVE Promise!Next
  BY <1>5, RefusalMaps DEF SelectRefused
<1>6. ASSUME NEW stmt \in Selects, SelectByIndex(stmt) \/ SelectByScan(stmt) PROVE Promise!Next
  BY <1>6, SelectMaps
<1>7. ASSUME NEW stmt \in Inserts \cup Selects, StatementFails(stmt) \/ LoadFails(stmt)
      PROVE  Promise!Next
  BY <1>7, RefusalMaps DEF StatementFails, LoadFails
<1> HIDE DEF Promise!Next
<1> QED BY <1>1, <1>2, <1>3, <1>4, <1>5, <1>6, <1>7 DEF Next

LEMMA InitMaps == Init => Promise!Init
<1> SUFFICES ASSUME Init PROVE Promise!Init
  OBVIOUS
<1>1. PICK start \in FilesBefore : columns = start[1] /\ file = start[2]
  BY DEF Init
<1>2. <<columns, AsTable(columns, file)>> \in
         {<<first[1], AsTable(first[1], first[2])>> : first \in FilesBefore}
  BY <1>1
<1>3. reply = Promise!Answer(Promise!NoStatement, "OK", <<>>)
  BY DEF Init, Answer, NoStatement, Promise!Answer, Promise!NoStatement
<1> QED BY <1>2, <1>3 DEF Promise!Init

\* Whatever the schema and the statements, INSERT and SELECT do what Table promises
\* (execute_insert, execute_select): every step of the program is a step of Table or
\* leaves its rows and the reply alone.
THEOREM QueryImplementsTable == Spec => ImplementsTable
BY InitMaps, StepMaps, InvHolds, PTL DEF Spec, ImplementsTable, Promise!Spec
=============================================================================
