---------------------------- MODULE SessionProofs ----------------------------
(***************************************************************************)
(* That main and the parser never read past the end of the token array and *)
(* free every block once, and that they read the grammar of SQL: what a    *)
(* session runs is what the script says, and a script of the grammar is    *)
(* run to its end. For every script, of any length, and any allocations    *)
(* that fail.                                                              *)
(***************************************************************************)
EXTENDS SessionGrammar, DataProofs, FiniteSetTheorems

\* The token array ends with its only TOKEN_EOF (tokenize_sql).
Final == Len(tokens)
TokensOK ==
    /\ Final \in Nat /\ 1 <= Final /\ DOMAIN tokens = 1..Final
    /\ tokens[Final] = "EOF" /\ \A i \in 1..Final : tokens[i] = "EOF" => i = Final
    /\ \A i \in 1..Final : tokens[i] \in Kinds \cup {"EOF"}

CursorInv == TokensOK /\ CursorInBounds

-----------------------------------------------------------------------------
\* Skipping semicolons stops at the first other token, at the latest at TOKEN_EOF.
LEMMA SemicolonsEnd ==
  ASSUME TokensOK, NEW i \in 1..Final
  PROVE  /\ AfterSemicolons(i) \in i..Final /\ AfterSemicolons(i) \in 1..Final
         /\ tokens[AfterSemicolons(i)] # ";"
         /\ OnlySemicolons(i, AfterSemicolons(i) - 1)
<1> DEFINE Semicolon(j) == tokens[j] = ";"
           Stop(j) == ~Semicolon(j) /\ \A k \in i..(j - 1) : Semicolon(k)
<1>1. Final \in Nat /\ ~Semicolon(Final)
  BY DEF TokensOK
<1>2. AfterSemicolons(i) = CHOOSE j \in i..Final : Stop(j)
  BY DEF AfterSemicolons, Final
<1> HIDE DEF Semicolon
<1> DEFINE T == {j \in i..Final : ~Semicolon(j)}
<1>3. Final \in T /\ T \in SUBSET Nat
  BY <1>1
<1>4. PICK j \in T : \A k \in T : j <= k
  BY <1>3, LeastExists
<1>5. ASSUME NEW k \in i..(j - 1) PROVE Semicolon(k)
  <2>1. k \in i..Final /\ ~(j <= k)
    BY <1>1
  <2> QED BY <1>4, <2>1
<1>6. j \in i..Final /\ Stop(j)
  BY <1>5
<1> HIDE DEF Stop
<1>7. AfterSemicolons(i) \in i..Final /\ Stop(AfterSemicolons(i))
  BY <1>2, <1>6
<1>8. tokens[AfterSemicolons(i)] # ";" /\ OnlySemicolons(i, AfterSemicolons(i) - 1)
  BY <1>7 DEF Stop, Semicolon, OnlySemicolons
<1>9. AfterSemicolons(i) \in 1..Final
  BY <1>1, <1>7
<1> QED BY <1>7, <1>8, <1>9

LEMMA TokensStart == Init => CursorInv
<1> SUFFICES ASSUME Init PROVE CursorInv
  OBVIOUS
<1>1. PICK script \in Scripts : tokens = Append(script, "EOF")
  BY DEF Init
<1>2. script \in Seq(Kinds)
  BY ScriptsAssumption
<1>3. \A i \in 1..Len(script) : script[i] \in Kinds
  BY <1>2, ElementOfSeq
<1>4. "EOF" \notin Kinds
  BY DEF Kinds
<1>5. /\ Len(tokens) = Len(script) + 1 /\ DOMAIN tokens = 1..Len(tokens)
      /\ \A i \in 1..Len(script) : tokens[i] = script[i]
      /\ tokens[Len(script) + 1] = "EOF"
  <2>1. script \in Seq(Kinds \cup {"EOF"})
    BY <1>2
  <2> QED BY <1>1, <2>1, AppendProperties, LenProperties
<1>6. Len(script) \in Nat
  BY <1>2, LenProperties
<1>7. TokensOK
  <2>1. Final = Len(script) + 1
    BY <1>5 DEF Final
  <2>2. DOMAIN tokens = 1..Final
    BY <1>5 DEF Final
  <2> QED BY <1>3, <1>4, <1>5, <1>6, <2>1, <2>2 DEF TokensOK
<1> QED BY <1>5, <1>6, <1>7 DEF CursorInv, CursorInBounds, Init

\* parser_advance moves past a token other than TOKEN_EOF only.
LEMMA AdvanceInBounds ==
  ASSUME CursorInv, NEW i \in DOMAIN tokens, tokens[i] # "EOF"
  PROVE  i + 1 \in DOMAIN tokens
BY DEF CursorInv, TokensOK

LEMMA CursorStep == CursorInv /\ [Next]_vars => CursorInv'
<1> SUFFICES ASSUME CursorInv, [Next]_vars PROVE CursorInv'
  OBVIOUS
<1>1. UNCHANGED tokens
  <2>1. CASE Parse
    BY <2>1 DEF Parse, NextStatement, Expect, Table, Columns, Column, Value, Projection, Where,
                WhereColumn, WhereValue, Parsed, ParseFails, OutOfMemory, Optional
  <2>2. CASE Main
    BY <2>2 DEF Main, Start, StartFails, Makes, GivesUp, MainLoop, Execute,
                ExecuteFails, Report, Failed, Done
  <2>3. CASE Ended \/ UNCHANGED vars
    BY <2>3 DEF Ended, vars
  <2> QED BY <2>1, <2>2, <2>3 DEF Next
<1>2. SUFFICES CursorInBounds'
  BY <1>1 DEF CursorInv, TokensOK, Final
<1>3. cursor \in DOMAIN tokens /\ current \in DOMAIN tokens
  BY DEF CursorInv, CursorInBounds
<1>4. Peek # "EOF" => current + 1 \in DOMAIN tokens
  BY <1>3, AdvanceInBounds DEF Peek
<1>5. SUFFICES cursor' \in DOMAIN tokens /\ current' \in DOMAIN tokens
  BY <1>1 DEF CursorInBounds
<1>6. ParseFails => UNCHANGED <<cursor, current>>
  BY DEF ParseFails
<1>7. CASE NextStatement
  <2>1. FirstWord \in DOMAIN tokens
    BY <1>3, SemicolonsEnd DEF FirstWord, CursorInv, TokensOK
  <2>2. (current' = FirstWord + 1 /\ tokens[FirstWord] # "EOF") \/ UNCHANGED current
    BY <1>7 DEF NextStatement, NotAStatement
  <2> QED BY <1>3, <1>7, <2>1, <2>2, AdvanceInBounds DEF NextStatement
<1>8. ASSUME NEW here, NEW kind \in Kinds, NEW next, Expect(here, kind, next)
      PROVE  cursor' \in DOMAIN tokens /\ current' \in DOMAIN tokens
  BY <1>3, <1>4, <1>6, <1>8 DEF Expect, Kinds
<1>9. ASSUME NEW here, NEW kind \in Kinds, NEW next, NEW otherwise,
             Optional(here, kind, next, otherwise)
      PROVE  cursor' \in DOMAIN tokens /\ current' \in DOMAIN tokens
  BY <1>3, <1>4, <1>9 DEF Optional, Kinds
<1>10. ASSUME NEW item, NEW next, Peek # "EOF", AfterItem(item, next)
       PROVE  current' \in DOMAIN tokens
  <2>1. current + 1 \in DOMAIN tokens
    BY <1>4, <1>10
  <2>2. tokens[current + 1] = "," => (current + 1) + 1 \in DOMAIN tokens
    BY <2>1, AdvanceInBounds
  <2>3. (current + 1) + 1 = current + 2
    <3>1. current \in Nat
      BY <1>3 DEF CursorInv, TokensOK
    <3> QED BY <3>1
  <2> QED BY <1>10, <2>1, <2>2, <2>3 DEF AfterItem
<1>11. CASE Table \/ WhereColumn \/ WhereValue
  <2>1. UNCHANGED cursor /\ (UNCHANGED current \/ (current' = current + 1 /\ Peek # "EOF"))
    BY <1>6, <1>11 DEF Table, WhereColumn, WhereValue, IsLiteral
  <2> QED BY <1>3, <1>4, <2>1
<1>12. CASE Column
  <2>1. CASE Peek = "identifier" /\ ~ParseFails
    <3>1. UNCHANGED cursor
          /\ AfterItem("column", IF stmt.type = "insert" THEN "columns_end" ELSE "from")
      BY <1>12, <2>1 DEF Column, OutOfMemory
    <3> QED BY <1>3, <1>10, <2>1, <3>1
  <2> QED BY <1>3, <1>6, <1>12, <2>1 DEF Column, OutOfMemory
<1>13. CASE Value
  <2>1. CASE IsLiteral(Peek) /\ ~ParseFails
    <3>1. UNCHANGED cursor /\ AfterItem("value", "values_end") /\ Peek # "EOF"
      BY <1>13, <2>1 DEF Value, OutOfMemory, IsLiteral
    <3> QED BY <1>3, <1>10, <3>1
  <2> QED BY <1>3, <1>6, <1>13, <2>1 DEF Value, OutOfMemory
<1>14. CASE Columns \/ Projection \/ Where
  <2>1. {"(", "*", "WHERE"} \subseteq Kinds
    BY DEF Kinds
  <2> QED BY <1>9, <1>14, <2>1 DEF Columns, Projection, Where
<1>15. CASE Parsed
  <2>1. cursor' = current' /\ (UNCHANGED current \/ (current' = current + 1 /\ Peek # "EOF"))
    BY <1>15 DEF Parsed
  <2> QED BY <1>3, <1>4, <2>1
<1>16. CASE Parse
  <2>1. {"INTO", ")", "VALUES", "(", "FROM", "="} \subseteq Kinds
    BY DEF Kinds
  <2> QED BY <1>7, <1>8, <1>11, <1>12, <1>13, <1>14, <1>15, <1>16, <2>1 DEF Parse
<1>17. CASE MainLoop
  BY <1>3, <1>17, SemicolonsEnd DEF MainLoop, CursorInv, TokensOK
<1>18. CASE Main /\ ~MainLoop
  BY <1>3, <1>18 DEF Main, Start, StartFails, Makes, GivesUp, Execute, ExecuteFails, Report,
                     Failed, Done
<1>19. CASE Ended \/ UNCHANGED vars
  BY <1>3, <1>19 DEF Ended, vars
<1> QED BY <1>16, <1>17, <1>18, <1>19 DEF Next

\* Neither the parser nor main ever reads past TOKEN_EOF, whatever the script.
THEOREM NeverPastTheEnd == Spec => []CursorInBounds
<1>1. CursorInv => CursorInBounds
  BY DEF CursorInv
<1> QED BY <1>1, TokensStart, CursorStep, PTL DEF Spec

-----------------------------------------------------------------------------
StmtOK ==
    stmt \in [type : {"insert", "select"}, table : Nat, columns : Seq(Nat), values : Seq(Nat),
              all : BOOLEAN, where_column : Nat, where_value : Nat]

BeforeTable == {"into", "table", "projection", "from"}
OnlyInsert == {"into", "columns", "columns_end", "values", "values_open", "value", "values_end"}
BeforeWhere == {"into", "projection", "from", "table", "columns", "column", "where", "where_column"}
OnlySelect == {"projection", "from", "where", "where_column", "equal", "where_value"}
BetweenStatements == {"main", "parse", "done"}
Starting == {"start", "tokenize", "context"}
Outside == {"start", "tokenize", "context", "ended"}

\* What the parser has not read yet is NULL: nothing is ever written over.
NotYetRead ==
    /\ pc \in BeforeTable \/ (pc = "column" /\ stmt.type = "select") => stmt.table = 0
    /\ pc \in OnlyInsert => stmt.type = "insert"
    /\ pc \in OnlySelect => stmt.type = "select"
    /\ pc \in BeforeWhere => stmt.where_column = 0
    /\ pc \in BeforeWhere \cup {"equal", "where_value"} => stmt.where_value = 0

Result == IF pc = "report" THEN {<<"result", 0>>} ELSE {}

\* What main has made before the context.
Made ==
    IF pc = "tokenize" THEN {<<"sql", 0>>}
    ELSE IF pc = "context" THEN {<<"sql", 0>>, <<"tokens", 0>>} ELSE {}

\* Exactly the parts of the statement, the result and the program are allocated.
HeapIsOwned ==
    /\ heap = IF pc \in Outside THEN Made ELSE Program \cup Owned(stmt) \cup Result
    /\ pc \in Outside \cup BetweenStatements => Owned(stmt) = {}
    /\ ~bad_free

HeapInv == StmtOK /\ NotYetRead /\ HeapIsOwned

-----------------------------------------------------------------------------
LEMMA NothingOwned ==
  /\ Owned(NoStatement) = {}
  /\ \A s : Owned(Emptied(s)) = {}
BY DEF Owned, NoStatement, Emptied, Block, ListBlocks

\* The blocks of a statement are neither those of the program nor its result.
LEMMA OwnedApart ==
  ASSUME NEW s
  PROVE  Owned(s) \cap (Program \cup {<<"result", 0>>}) = {}
<1> SUFFICES ASSUME NEW b \in Owned(s)
             PROVE  b \notin Program \cup {<<"result", 0>>}
  OBVIOUS
<1>1. b[1] \in {"table", "column", "value", "where_column", "where_value"}
  BY DEF Owned, Block, ListBlocks
<1> QED BY <1>1 DEF Program

\* One more item owns its text; the array of the list is there already, or new.
LEMMA ListGrows ==
  ASSUME NEW kind, NEW list \in Seq(Nat), NEW at \in Nat
  PROVE  ListBlocks(kind, Append(list, at)) = ListBlocks(kind, list) \cup {<<kind, 0>>, <<kind, at>>}
<1> DEFINE longer == Append(list, at)
<1>1. /\ Len(list) \in Nat /\ DOMAIN list = 1..Len(list)
      /\ DOMAIN longer = 1..(Len(list) + 1) /\ longer # <<>>
      /\ \A i \in 1..Len(list) : longer[i] = list[i]
      /\ longer[Len(list) + 1] = at
  BY AppendProperties, LenProperties, EmptySeq
<1>2. list = <<>> => DOMAIN list = {}
  BY EmptySeq
<1> HIDE DEF longer
<1>3. {<<kind, longer[n]>> : n \in DOMAIN longer}
        = {<<kind, list[n]>> : n \in DOMAIN list} \cup {<<kind, at>>}
  BY <1>1, SMTT(30)
<1> QED BY <1>1, <1>2, <1>3 DEF ListBlocks, longer

LEMMA HeapStart == Init => HeapInv
<1> SUFFICES ASSUME Init PROVE HeapInv
  OBVIOUS
<1>1. StmtOK /\ stmt = NoStatement /\ pc = "start" /\ heap = {} /\ ~bad_free
  BY EmptySeq DEF Init, StmtOK, NoStatement
<1> QED BY <1>1, NothingOwned
        DEF HeapInv, NotYetRead, HeapIsOwned, Made, Outside, BeforeTable, OnlyInsert, OnlySelect,
            BeforeWhere

\* While a statement is parsed, a step that allocates what it writes into the statement.
LEMMA ReadingKeepsHeap ==
  ASSUME HeapInv, StmtOK', NotYetRead', NEW blocks,
         pc \notin Outside \cup BetweenStatements \cup {"report"},
         pc' \notin Outside \cup BetweenStatements \cup {"report"},
         heap' = heap \cup blocks, Owned(stmt)' = Owned(stmt) \cup blocks, UNCHANGED bad_free
  PROVE  HeapInv'
BY DEF HeapInv, HeapIsOwned, Result

LEMMA GivingUpKeepsHeap ==
  ASSUME HeapInv, ParseFails, pc \notin Outside \cup {"report"}
  PROVE  HeapInv'
<1>1. heap = Program \cup Owned(stmt) /\ ~bad_free
  BY DEF HeapInv, HeapIsOwned, Result
<1>2. stmt' = Emptied(stmt) /\ pc' = "failed" /\ heap' = heap \ Owned(stmt) /\ ~bad_free'
  BY <1>1 DEF ParseFails, Frees
<1>3. heap' = Program /\ Owned(stmt)' = {}
  BY <1>1, <1>2, OwnedApart, NothingOwned
<1>4. StmtOK'
  BY <1>2, EmptySeq DEF HeapInv, StmtOK, Emptied, NoStatement
<1>5. NotYetRead'
  BY <1>2 DEF NotYetRead, BeforeTable, OnlyInsert, OnlySelect, BeforeWhere
<1> QED BY <1>2, <1>3, <1>4, <1>5
        DEF HeapInv, HeapIsOwned, Result, Outside, BetweenStatements

\* A step that reads a word of the grammar.
LEMMA WordKeepsHeap ==
  ASSUME HeapInv, NotYetRead', UNCHANGED <<stmt, heap, bad_free>>,
         pc \notin Outside \cup BetweenStatements \cup {"report"},
         pc' \notin Outside \cup BetweenStatements \cup {"report"}
  PROVE  HeapInv'
<1>1. StmtOK' /\ heap' = heap \cup {} /\ Owned(stmt)' = Owned(stmt) \cup {}
  BY DEF HeapInv, StmtOK
<1> QED BY <1>1, ReadingKeepsHeap

LEMMA NextStatementKeepsHeap ==
  ASSUME HeapInv, NextStatement
  PROVE  HeapInv'
<1>1. pc = "parse" /\ heap = Program /\ ~bad_free /\ UNCHANGED <<heap, bad_free>>
  BY DEF NextStatement, HeapInv, HeapIsOwned, Result, Outside, BetweenStatements
<1>2. \/ stmt' = NoStatement /\ pc' \in {"into", "failed"}
      \/ stmt' = [NoStatement EXCEPT !.type = "select"] /\ pc' = "projection"
  BY DEF NextStatement, NotAStatement
<1>3. StmtOK' /\ Owned(stmt)' = {} /\ stmt'.table = 0
      /\ stmt'.where_column = 0 /\ stmt'.where_value = 0
  <2>1. PICK type \in {"insert", "select"} : stmt' = [NoStatement EXCEPT !.type = type]
    <3>1. NoStatement = [NoStatement EXCEPT !.type = "insert"]
      BY DEF NoStatement
    <3> QED BY <1>2, <3>1
  <2>2. StmtOK' /\ stmt'.table = 0 /\ stmt'.where_column = 0 /\ stmt'.where_value = 0
    BY <2>1, EmptySeq DEF StmtOK, NoStatement
  <2>3. stmt' = Emptied([type |-> type])
    BY <2>1 DEF Emptied
  <2>4. Owned(stmt)' = {}
    BY <2>3, NothingOwned
  <2> QED BY <2>2, <2>4
<1>4. (pc' = "into" => stmt'.type = "insert") /\ (pc' = "projection" => stmt'.type = "select")
  BY <1>2 DEF NoStatement
<1>5. NotYetRead'
  BY <1>2, <1>3, <1>4 DEF NotYetRead, BeforeTable, OnlyInsert, OnlySelect, BeforeWhere
<1> QED BY <1>1, <1>2, <1>3, <1>5 DEF HeapInv, HeapIsOwned, Result, Outside, BetweenStatements

\* Each function of the parser, with the block it copies.
LEMMA TableKeepsHeap ==
  ASSUME CursorInv, HeapInv, Table
  PROVE  HeapInv'
<1>1. current \in Nat \ {0}
  BY DEF CursorInv, CursorInBounds, TokensOK
<1>2. pc = "table" /\ stmt.table = 0
  BY DEF Table, HeapInv, NotYetRead, BeforeTable
<1>3. CASE Peek = "identifier"
  <2>1. /\ heap' = heap \cup {<<"table", current>>} /\ UNCHANGED bad_free
        /\ stmt' = [stmt EXCEPT !.table = current]
        /\ pc' = IF stmt.type = "insert" THEN "columns" ELSE "where"
    BY <1>3 DEF Table, Allocates
  <2>2. StmtOK' /\ Owned(stmt)' = Owned(stmt) \cup {<<"table", current>>}
    BY <1>1, <1>2, <2>1, ZenonT(40) DEF HeapInv, StmtOK, Owned, Block
  <2>3. /\ stmt'.type = stmt.type /\ stmt.type \in {"insert", "select"}
        /\ stmt'.where_column = 0 /\ stmt'.where_value = 0
    BY <1>2, <2>1 DEF HeapInv, StmtOK, NotYetRead, BeforeWhere
  <2>4. NotYetRead'
    BY <2>1, <2>3 DEF NotYetRead, BeforeTable, OnlyInsert, OnlySelect, BeforeWhere
  <2> QED BY <1>2, <2>1, <2>2, <2>4, ReadingKeepsHeap DEF Outside, BetweenStatements
<1>4. CASE Peek # "identifier"
  BY <1>2, <1>4, GivingUpKeepsHeap DEF Table, Outside
<1> QED BY <1>3, <1>4

LEMMA ColumnKeepsHeap ==
  ASSUME CursorInv, HeapInv, Column
  PROVE  HeapInv'
<1>1. current \in Nat
  BY DEF CursorInv, CursorInBounds, TokensOK
<1>2. pc = "column" /\ stmt.where_column = 0 /\ stmt.where_value = 0
  BY DEF Column, HeapInv, NotYetRead, BeforeWhere
<1>3. CASE ParseFails
  BY <1>2, <1>3, GivingUpKeepsHeap DEF Outside
<1>4. CASE ~ParseFails
  <2> DEFINE blocks == {<<"column", 0>>, <<"column", current>>}
  <2>1. /\ heap' = heap \cup blocks /\ UNCHANGED bad_free
        /\ stmt' = [stmt EXCEPT !.columns = Append(@, current)]
        /\ pc' \in {"column", IF stmt.type = "insert" THEN "columns_end" ELSE "from"}
    BY <1>4 DEF Column, OutOfMemory, AfterItem, Allocates
  <2>2. stmt.columns \in Seq(Nat) /\ Append(stmt.columns, current) \in Seq(Nat)
    BY <1>1, AppendProperties DEF HeapInv, StmtOK
  <2>3. /\ StmtOK' /\ stmt'.columns = Append(stmt.columns, current)
        /\ stmt'.type = stmt.type /\ stmt'.table = stmt.table /\ stmt'.values = stmt.values
        /\ stmt'.where_column = stmt.where_column /\ stmt'.where_value = stmt.where_value
    BY <2>1, <2>2 DEF HeapInv, StmtOK
  <2>4. ListBlocks("column", stmt'.columns) = ListBlocks("column", stmt.columns) \cup blocks
    BY <1>1, <2>2, <2>3, ListGrows
  <2>5. Owned(stmt)' = Owned(stmt) \cup blocks
    BY <2>3, <2>4 DEF Owned
  <2>6. NotYetRead'
    BY <1>2, <2>1, <2>3
    DEF HeapInv, StmtOK, NotYetRead, BeforeTable, OnlyInsert, OnlySelect, BeforeWhere
  <2> QED BY <1>2, <2>1, <2>3, <2>5, <2>6, ReadingKeepsHeap DEF Outside, BetweenStatements
<1> QED BY <1>3, <1>4

LEMMA ValueKeepsHeap ==
  ASSUME CursorInv, HeapInv, Value
  PROVE  HeapInv'
<1>1. current \in Nat
  BY DEF CursorInv, CursorInBounds, TokensOK
<1>2. pc = "value" /\ stmt.type = "insert"
  BY DEF Value, HeapInv, NotYetRead, OnlyInsert
<1>3. CASE ParseFails
  BY <1>2, <1>3, GivingUpKeepsHeap DEF Outside
<1>4. CASE ~ParseFails
  <2> DEFINE blocks == {<<"value", 0>>, <<"value", current>>}
  <2>1. /\ heap' = heap \cup blocks /\ UNCHANGED bad_free
        /\ stmt' = [stmt EXCEPT !.values = Append(@, current)]
        /\ pc' \in {"value", "values_end"}
    BY <1>4 DEF Value, OutOfMemory, AfterItem, Allocates
  <2>2. stmt.values \in Seq(Nat) /\ Append(stmt.values, current) \in Seq(Nat)
    BY <1>1, AppendProperties DEF HeapInv, StmtOK
  <2>3. /\ StmtOK' /\ stmt'.values = Append(stmt.values, current)
        /\ stmt'.type = "insert" /\ stmt'.table = stmt.table /\ stmt'.columns = stmt.columns
    BY <1>2, <2>1, <2>2 DEF HeapInv, StmtOK
  <2>4. ListBlocks("value", stmt'.values) = ListBlocks("value", stmt.values) \cup blocks
    BY <1>1, <2>2, <2>3, ListGrows
  <2>5. Owned(stmt)' = Owned(stmt) \cup blocks
    BY <1>2, <2>3, <2>4 DEF Owned
  <2>6. NotYetRead'
    BY <2>1, <2>3 DEF NotYetRead, BeforeTable, OnlyInsert, OnlySelect, BeforeWhere
  <2> QED BY <1>2, <2>1, <2>3, <2>5, <2>6, ReadingKeepsHeap DEF Outside, BetweenStatements
<1> QED BY <1>3, <1>4

LEMMA WhereKeepsHeap ==
  ASSUME CursorInv, HeapInv, WhereColumn \/ WhereValue
  PROVE  HeapInv'
<1>1. current \in Nat \ {0}
  BY DEF CursorInv, CursorInBounds, TokensOK
<1>2. /\ pc \in {"where_column", "where_value"} /\ stmt.type = "select"
      /\ stmt.where_value = 0
      /\ pc = "where_column" => stmt.where_column = 0
  BY DEF WhereColumn, WhereValue, HeapInv, NotYetRead, OnlySelect, BeforeWhere
<1>3. CASE ParseFails
  BY <1>2, <1>3, GivingUpKeepsHeap DEF Outside
<1>4. CASE WhereColumn /\ ~ParseFails
  <2>1. /\ heap' = heap \cup {<<"where_column", current>>} /\ UNCHANGED bad_free
        /\ stmt' = [stmt EXCEPT !.where_column = current]
        /\ pc = "where_column" /\ pc' = "equal"
    BY <1>4 DEF WhereColumn, Allocates
  <2>2. /\ StmtOK' /\ stmt'.type = "select" /\ stmt'.where_value = 0
        /\ Owned(stmt)' = Owned(stmt) \cup {<<"where_column", current>>}
    <3>1. stmt.where_column = 0
      BY <1>2, <2>1
    <3>2. /\ StmtOK' /\ stmt'.where_column = current
          /\ stmt'.type = stmt.type /\ stmt'.table = stmt.table /\ stmt'.columns = stmt.columns
          /\ stmt'.where_value = stmt.where_value
      BY <1>1, <2>1 DEF HeapInv, StmtOK
    <3> QED BY <1>1, <1>2, <3>1, <3>2 DEF Owned, Block
  <2>3. NotYetRead'
    BY <2>1, <2>2 DEF NotYetRead, BeforeTable, OnlyInsert, OnlySelect, BeforeWhere
  <2> QED BY <2>1, <2>2, <2>3, ReadingKeepsHeap DEF Outside, BetweenStatements
<1>5. CASE WhereValue /\ ~ParseFails
  <2>1. /\ heap' = heap \cup {<<"where_value", current>>} /\ UNCHANGED bad_free
        /\ stmt' = [stmt EXCEPT !.where_value = current]
        /\ pc = "where_value" /\ pc' = "parsed"
    BY <1>5 DEF WhereValue, Allocates
  <2>2. StmtOK' /\ Owned(stmt)' = Owned(stmt) \cup {<<"where_value", current>>}
    <3>1. /\ StmtOK' /\ stmt'.where_value = current
          /\ stmt'.type = stmt.type /\ stmt'.table = stmt.table /\ stmt'.columns = stmt.columns
          /\ stmt'.where_column = stmt.where_column
      BY <1>1, <2>1 DEF HeapInv, StmtOK
    <3> QED BY <1>1, <1>2, <3>1 DEF Owned, Block
  <2>3. NotYetRead'
    BY <2>1 DEF NotYetRead, BeforeTable, OnlyInsert, OnlySelect, BeforeWhere
  <2> QED BY <2>1, <2>2, <2>3, ReadingKeepsHeap DEF Outside, BetweenStatements
<1> QED BY <1>3, <1>4, <1>5

\* The steps that only look for a word of the grammar.
LEMMA WordsKeepHeap ==
  ASSUME HeapInv,
         \/ Expect("into", "INTO", "table") \/ Expect("columns_end", ")", "values")
         \/ Expect("values", "VALUES", "values_open") \/ Expect("values_open", "(", "value")
         \/ Expect("values_end", ")", "parsed") \/ Expect("from", "FROM", "table")
         \/ Expect("equal", "=", "where_value")
         \/ Columns \/ Where \/ Parsed
  PROVE  HeapInv'
<1>1. CASE ParseFails
  BY <1>1, GivingUpKeepsHeap DEF Expect, Columns, Where, Parsed, Optional, Outside
<1>2. CASE ~ParseFails
  <2>1. UNCHANGED <<stmt, heap, bad_free>>
    BY <1>2 DEF Expect, Columns, Where, Parsed, Optional
  <2>2. \/ <<pc, pc'>> \in {<<"into", "table">>, <<"columns_end", "values">>,
              <<"values", "values_open">>, <<"values_open", "value">>,
              <<"values_end", "parsed">>, <<"from", "table">>, <<"equal", "where_value">>}
        \/ <<pc, pc'>> \in {<<"columns", "column">>, <<"columns", "values">>,
              <<"where", "where_column">>, <<"where", "parsed">>, <<"parsed", "execute">>}
    BY <1>2 DEF Expect, Columns, Where, Parsed, Optional
  <2>3. NotYetRead'
    BY <2>1, <2>2 DEF HeapInv, NotYetRead, BeforeTable, OnlyInsert, OnlySelect, BeforeWhere
  <2>4. /\ pc \notin Outside \cup BetweenStatements \cup {"report"}
        /\ pc' \notin Outside \cup BetweenStatements \cup {"report"}
    BY <2>2 DEF Outside, BetweenStatements
  <2> QED BY <2>1, <2>3, <2>4, WordKeepsHeap
<1> QED BY <1>1, <1>2

LEMMA ProjectionKeepsHeap ==
  ASSUME HeapInv, Projection
  PROVE  HeapInv'
<1>1. /\ pc = "projection" /\ pc' \in {"from", "column"}
      /\ UNCHANGED <<heap, bad_free>> /\ stmt' = [stmt EXCEPT !.all = (Peek = "*")]
  BY DEF Projection, Optional
<1>2. /\ StmtOK' /\ stmt'.type = stmt.type /\ stmt'.table = stmt.table
      /\ stmt'.columns = stmt.columns /\ stmt'.values = stmt.values
      /\ stmt'.where_column = stmt.where_column /\ stmt'.where_value = stmt.where_value
  BY <1>1 DEF HeapInv, StmtOK
<1>3. Owned(stmt)' = Owned(stmt) \cup {} /\ heap' = heap \cup {}
  BY <1>1, <1>2 DEF Owned
<1>4. NotYetRead'
  BY <1>1, <1>2 DEF HeapInv, NotYetRead, BeforeTable, OnlyInsert, OnlySelect, BeforeWhere
<1> QED BY <1>1, <1>2, <1>3, <1>4, ReadingKeepsHeap DEF Outside, BetweenStatements

\* The steps of main.
LEMMA MainKeepsHeap ==
  ASSUME HeapInv, Main
  PROVE  HeapInv'
<1>1. NotYetRead'
  <2>1. pc' \in {"tokenize", "context", "main", "ended", "done", "parse", "report", "failed"}
    BY DEF Main, Start, StartFails, Makes, GivesUp, MainLoop, Execute,
           ExecuteFails, Report, Failed, Done
  <2> QED BY <2>1 DEF NotYetRead, BeforeTable, OnlyInsert, OnlySelect, BeforeWhere
<1>2. StmtOK'
  <2>1. StmtOK /\ Emptied(stmt) \in [type : {"insert", "select"}, table : Nat,
            columns : Seq(Nat), values : Seq(Nat), all : BOOLEAN, where_column : Nat,
            where_value : Nat]
    BY EmptySeq DEF HeapInv, StmtOK, Emptied, NoStatement
  <2>2. UNCHANGED stmt \/ stmt' = Emptied(stmt)
    BY DEF Main, Start, StartFails, Makes, GivesUp, MainLoop, Execute,
           ExecuteFails, Report, Failed, Done
  <2> QED BY <2>1, <2>2 DEF StmtOK
<1>3. HeapIsOwned
  BY DEF HeapInv
<1>4. CASE Start
  <2>1. /\ pc \in Starting /\ pc' \in {"tokenize", "context", "main"}
        /\ UNCHANGED <<stmt, bad_free>>
    BY <1>4 DEF Start, Makes, Allocates, Starting
  <2>2. Owned(stmt) = {} /\ Owned(stmt)' = {} /\ Result' = {} /\ ~bad_free'
    BY <1>3, <2>1 DEF HeapIsOwned, Outside, Starting, Result
  <2>3. heap' = IF pc' = "main" THEN Program ELSE Made'
    BY <1>3, <1>4 DEF Start, Makes, Allocates, HeapIsOwned, Outside, Starting, Made, Program
  <2> QED BY <1>1, <1>2, <2>1, <2>2, <2>3
          DEF HeapInv, HeapIsOwned, Outside, Starting, BetweenStatements
<1>5. CASE StartFails
  <2>1. pc \in Starting /\ pc' = "ended" /\ UNCHANGED stmt
    BY <1>5 DEF StartFails, GivesUp, Starting
  <2>2. heap = Made /\ Owned(stmt) = {} /\ Owned(stmt)' = {} /\ ~bad_free
    BY <1>3, <2>1 DEF HeapIsOwned, Outside, Starting
  <2>3. Frees(Made)
    <3>1. /\ {} \X {0} = {} /\ {"sql"} \X {0} = {<<"sql", 0>>}
          /\ {"sql", "tokens"} \X {0} = {<<"sql", 0>>, <<"tokens", 0>>}
      OBVIOUS
    <3>2. \/ pc = "start" /\ Frees({} \X {0})
          \/ pc = "tokenize" /\ Frees({"sql"} \X {0})
          \/ pc = "context" /\ Frees({"sql", "tokens"} \X {0})
      BY <1>5 DEF StartFails, GivesUp
    <3>3. CASE pc = "start"
      BY <3>1, <3>2, <3>3 DEF Frees, Made
    <3>4. CASE pc = "tokenize"
      BY <3>1, <3>2, <3>4 DEF Frees, Made
    <3>5. CASE pc = "context"
      BY <3>1, <3>2, <3>5 DEF Frees, Made
    <3> QED BY <3>2, <3>3, <3>4, <3>5
  <2>4. heap' = {} /\ ~bad_free'
    BY <2>2, <2>3 DEF Frees
  <2> QED BY <1>1, <1>2, <2>1, <2>2, <2>4 DEF HeapInv, HeapIsOwned, Outside, Made
<1>6. CASE MainLoop
  <2>1. pc = "main" /\ pc' \in {"done", "parse"} /\ UNCHANGED <<heap, stmt, bad_free>>
    BY <1>6 DEF MainLoop
  <2> QED BY <1>1, <1>2, <1>3, <2>1
          DEF HeapInv, HeapIsOwned, Outside, BetweenStatements, Result
<1>7. CASE Execute
  <2>1. /\ pc = "execute" /\ pc' = "report" /\ heap' = heap \cup {<<"result", 0>>}
        /\ UNCHANGED <<stmt, bad_free>>
    BY <1>7 DEF Execute, Allocates
  <2> QED BY <1>1, <1>2, <1>3, <2>1
          DEF HeapInv, HeapIsOwned, Outside, BetweenStatements, Result
<1>8. CASE ExecuteFails
  <2>1. pc = "execute" /\ pc' = "failed" /\ UNCHANGED <<heap, stmt, bad_free>>
    BY <1>8 DEF ExecuteFails
  <2> QED BY <1>1, <1>2, <1>3, <2>1
          DEF HeapInv, HeapIsOwned, Outside, BetweenStatements, Result
<1>9. CASE Report
  <2>1. /\ pc = "report" /\ pc' = "main" /\ stmt' = Emptied(stmt)
        /\ heap = Program \cup Owned(stmt) \cup {<<"result", 0>>} /\ ~bad_free
    BY <1>3, <1>9 DEF Report, HeapIsOwned, Outside, Result
  <2>2. heap' = heap \ ({<<"result", 0>>} \cup Owned(stmt)) /\ ~bad_free'
    BY <1>9, <2>1 DEF Report, Frees
  <2>3. <<"result", 0>> \notin Program
    BY DEF Program
  <2>4. heap' = Program
    BY <2>1, <2>2, <2>3, OwnedApart
  <2>5. Owned(stmt)' = {}
    BY <2>1, NothingOwned
  <2> QED BY <1>1, <1>2, <2>1, <2>2, <2>4, <2>5
          DEF HeapInv, HeapIsOwned, Outside, BetweenStatements, Result
<1>10. CASE Failed
  <2>1. /\ pc = "failed" /\ pc' = "ended" /\ stmt' = Emptied(stmt)
        /\ heap = Program \cup Owned(stmt) /\ ~bad_free
    BY <1>3, <1>10 DEF Failed, HeapIsOwned, Outside, Result
  <2>2. heap' = {} /\ ~bad_free'
    BY <1>10, <2>1 DEF Failed, Frees
  <2>3. Owned(stmt)' = {}
    BY <2>1, NothingOwned
  <2> QED BY <1>1, <1>2, <2>1, <2>2, <2>3 DEF HeapInv, HeapIsOwned, Made, Outside
<1>11. CASE Done
  <2>1. /\ pc = "done" /\ pc' = "ended" /\ UNCHANGED stmt
        /\ heap = Program /\ Owned(stmt) = {} /\ ~bad_free
    BY <1>3, <1>11 DEF Done, HeapIsOwned, Outside, BetweenStatements, Result
  <2>2. heap' = {} /\ ~bad_free'
    BY <1>11, <2>1 DEF Done, Frees
  <2> QED BY <1>1, <1>2, <2>1, <2>2 DEF HeapInv, HeapIsOwned, Made, Outside
<1> QED BY <1>4, <1>5, <1>6, <1>7, <1>8, <1>9, <1>10, <1>11 DEF Main

LEMMA HeapStep == CursorInv /\ HeapInv /\ [Next]_vars => HeapInv'
<1> SUFFICES ASSUME CursorInv, HeapInv, [Next]_vars PROVE HeapInv'
  OBVIOUS
<1>1. CASE Parse
  BY <1>1, NextStatementKeepsHeap, TableKeepsHeap, ColumnKeepsHeap, ValueKeepsHeap,
     WhereKeepsHeap, WordsKeepHeap, ProjectionKeepsHeap DEF Parse
<1>2. CASE Main
  BY <1>2, MainKeepsHeap
<1>3. CASE Ended \/ UNCHANGED vars
  <2>1. UNCHANGED <<pc, stmt, heap, bad_free>>
    BY <1>3 DEF Ended, vars
  <2> QED BY <2>1 DEF HeapInv, StmtOK, NotYetRead, HeapIsOwned, Made, Result, Owned
<1> QED BY <1>1, <1>2, <1>3 DEF Next

\* Whatever the script and whatever fails, no block is freed twice, no part of a statement
\* outlives it, and the program ends with an empty heap.
THEOREM EveryBlockFreedOnce == Spec => []FreedExactlyOnce
<1>1. HeapInv => FreedExactlyOnce
  BY DEF HeapInv, HeapIsOwned, Made, FreedExactlyOnce, Result, Outside, BetweenStatements
<1> QED BY <1>1, TokensStart, CursorStep, HeapStart, HeapStep, PTL DEF Spec
-----------------------------------------------------------------------------
(* What the parser has read.                                               *)

\* n words of a kind stand from a place on, with commas between them.
Items(t, from, n, word) ==
    \A k \in 1..n : /\ Word(t[from + 2 * k - 2]) = word
                    /\ k < n => t[from + 2 * k - 1] = ","

\* A list has read them: each of its items is the place of its word.
Listed(t, list, from, word) ==
    /\ Items(t, from, Len(list), word)
    /\ \A k \in 1..Len(list) : list[k] = from + 2 * k - 2

\* The next item of the list is to be read, after a comma unless it is the first.
ItemNext(t, list, from, at) ==
    at = from + 2 * Len(list) /\ (list # <<>> => t[at - 1] = ",")

\* No comma comes after the last item.
ListDone(t, list, from, at) ==
    list # <<>> /\ at = from + 2 * Len(list) - 1 /\ t[at] # ","

\* The parts of an INSERT in the tokens t from i on.
TableRead(t, i, table) ==
    /\ t[i] = "INSERT" /\ t[i + 1] = "INTO" /\ t[i + 2] = "identifier"
    /\ table = i + 2
ColumnsOpen(t, i, columns) ==
    t[i + 3] = "(" /\ Listed(t, columns, i + 4, "identifier")
ColumnsRead(t, i, columns) ==
    IF columns = <<>> THEN t[i + 3] # "("
    ELSE ColumnsOpen(t, i, columns) /\ t[i + 3 + 2 * Len(columns)] = ")"
ValuesPlace(i, columns) == IF columns = <<>> THEN i + 3 ELSE i + 4 + 2 * Len(columns)
ValuesOpen(t, at, values) ==
    t[at] = "VALUES" /\ t[at + 1] = "(" /\ Listed(t, values, at + 2, "literal")
ValuesRead(t, at, values) ==
    ValuesOpen(t, at, values) /\ values # <<>> /\ t[at + 1 + 2 * Len(values)] = ")"

\* The parts of a SELECT.
ProjectionRead(t, i, columns, all) ==
    /\ t[i] = "SELECT"
    /\ IF columns = <<>> THEN all /\ t[i + 1] = "*"
       ELSE /\ ~all /\ Listed(t, columns, i + 1, "identifier")
            /\ t[i + 2 * Len(columns)] # ","
FromPlace(i, columns) == IF columns = <<>> THEN i + 2 ELSE i + 2 * Len(columns)
FromRead(t, at, table) ==
    t[at] = "FROM" /\ t[at + 1] = "identifier" /\ table = at + 1
WhereRead(t, at, column) ==
    t[at + 2] = "WHERE" /\ t[at + 3] = "identifier" /\ column = at + 3
ConditionRead(t, at, column, value, end) ==
    IF column = 0 THEN t[at + 2] # "WHERE" /\ end = at + 2
    ELSE /\ WhereRead(t, at, column)
         /\ t[at + 4] = "=" /\ Word(t[at + 5]) = "literal" /\ value = at + 5
         /\ end = at + 6

\* While a statement is parsed, main's cursor is at its first token.
Inserting(here, t, s, i, at) ==
    /\ s.type = "insert" /\ t[i] = "INSERT"
    /\ here \in {"into", "table", "columns"} => s.columns = <<>>
    /\ here \notin {"value", "values_end", "parsed"} => s.values = <<>>
    /\ here = "into" => at = i + 1
    /\ here = "table" => at = i + 2 /\ t[i + 1] = "INTO"
    /\ here \notin {"into", "table"} => TableRead(t, i, s.table)
    /\ here = "columns" => at = i + 3
    /\ here \in {"column", "columns_end"} => ColumnsOpen(t, i, s.columns)
    /\ here = "column" => ItemNext(t, s.columns, i + 4, at)
    /\ here = "columns_end" => ListDone(t, s.columns, i + 4, at)
    /\ here \in {"values", "values_open", "value", "values_end", "parsed"} =>
          ColumnsRead(t, i, s.columns)
    /\ LET place == ValuesPlace(i, s.columns) IN
       /\ here = "values" => at = place
       /\ here = "values_open" => at = place + 1 /\ t[place] = "VALUES"
       /\ here \in {"value", "values_end"} => ValuesOpen(t, place, s.values)
       /\ here = "value" => ItemNext(t, s.values, place + 2, at)
       /\ here = "values_end" => ListDone(t, s.values, place + 2, at)
       /\ here = "parsed" => ValuesRead(t, place, s.values) /\ at = place + 2 + 2 * Len(s.values)

Selecting(here, t, s, i, at) ==
    /\ s.type = "select" /\ t[i] = "SELECT"
    /\ here = "projection" => at = i + 1 /\ s.columns = <<>>
    /\ here = "column" => /\ ~s.all /\ t[i + 1] # "*"
                          /\ Listed(t, s.columns, i + 1, "identifier")
                          /\ ItemNext(t, s.columns, i + 1, at)
    /\ here \notin {"projection", "column"} => ProjectionRead(t, i, s.columns, s.all)
    /\ LET place == FromPlace(i, s.columns) IN
       /\ here = "from" => at = place
       /\ here = "table" => at = place + 1 /\ t[place] = "FROM"
       /\ here \notin {"projection", "column", "from", "table"} => FromRead(t, place, s.table)
       /\ here = "where" => at = place + 2
       /\ here = "where_column" => at = place + 3 /\ t[place + 2] = "WHERE"
       /\ here \in {"equal", "where_value"} => WhereRead(t, place, s.where_column)
       /\ here = "equal" => at = place + 4
       /\ here = "where_value" => at = place + 5 /\ t[place + 4] = "="
       /\ here = "parsed" => ConditionRead(t, place, s.where_column, s.where_value, at)

InInsert == {"into", "table", "columns", "column", "columns_end", "values", "values_open",
             "value", "values_end", "parsed"}
InSelect == {"projection", "column", "from", "table", "where", "where_column", "equal",
             "where_value", "parsed"}

ReadingOK ==
    /\ pc = "parse" => tokens[cursor] \notin {";", "EOF"}
    /\ pc \in InInsert \cup InSelect =>
          \/ pc \in InInsert /\ Inserting(pc, tokens, stmt, cursor, current)
          \/ pc \in InSelect /\ Selecting(pc, tokens, stmt, cursor, current)

LEMMA ListStarts ==
  ASSUME NEW t, NEW from \in Nat, NEW word
  PROVE  Listed(t, <<>>, from, word) /\ ItemNext(t, <<>>, from, from)
BY EmptySeq DEF Listed, Items, ItemNext

\* The list grows by the item at its place.
LEMMA ListGoesOn ==
  ASSUME NEW t, NEW list \in Seq(Nat), NEW from \in Nat \ {0}, NEW word, NEW at,
         Listed(t, list, from, word), ItemNext(t, list, from, at), Word(t[at]) = word
  PROVE  /\ Listed(t, Append(list, at), from, word)
         /\ t[at + 1] = "," => ItemNext(t, Append(list, at), from, at + 2)
         /\ t[at + 1] # "," => ListDone(t, Append(list, at), from, at + 1)
<1> DEFINE n == Len(list)
           longer == Append(list, at)
<1> DEFINE before == at - 1
<1>1. n \in Nat /\ (n > 0 => list # <<>>)
  BY LenProperties, EmptySeq
<1>2. at = from + 2 * n
  BY DEF ItemNext
<1>0. n > 0 => t[before] = ","
  BY <1>1 DEF ItemNext
<1>3. at \in Nat
  <2>1. n \in Nat
    BY <1>1
  <2> HIDE DEF n
  <2> QED BY <1>2, <2>1
<1>4. /\ Len(longer) = n + 1 /\ longer # <<>>
      /\ \A k \in 1..n : longer[k] = list[k]
      /\ longer[n + 1] = at
  BY <1>3, AppendProperties, LenProperties, EmptySeq
<1>5. \A k \in 1..n : /\ Word(t[from + 2 * k - 2]) = word /\ list[k] = from + 2 * k - 2
                      /\ k < n => t[from + 2 * k - 1] = ","
  BY DEF Listed, Items
<1> HIDE DEF n, longer, before
<1>6. ASSUME NEW k \in 1..(n + 1)
      PROVE  /\ Word(t[from + 2 * k - 2]) = word /\ longer[k] = from + 2 * k - 2
             /\ k < n + 1 => t[from + 2 * k - 1] = ","
  <2>1. CASE k < n
    <3>1. k \in 1..n
      BY <1>1, <2>1
    <3> QED BY <1>4, <1>5, <2>1, <3>1
  <2>2. CASE k = n
    <3>1. k \in 1..n /\ n > 0 /\ from + 2 * k - 1 = before
      BY <1>1, <1>2, <2>2 DEF before
    <3> QED BY <1>0, <1>4, <1>5, <3>1
  <2>3. CASE k = n + 1
    <3>1. from + 2 * k - 2 = at /\ ~(k < n + 1)
      BY <1>1, <1>2, <2>3
    <3> QED BY <1>4, <2>3, <3>1
  <2>4. k < n \/ k = n \/ k = n + 1
    BY <1>1
  <2> QED BY <2>1, <2>2, <2>3, <2>4
<1>7. Listed(t, longer, from, word)
  BY <1>4, <1>6 DEF Listed, Items
<1>8. at + 2 = from + 2 * Len(longer) /\ at + 1 = from + 2 * Len(longer) - 1
      /\ (at + 2) - 1 = at + 1
  BY <1>1, <1>2, <1>3, <1>4
<1>9. t[at + 1] = "," => ItemNext(t, longer, from, at + 2)
  BY <1>8 DEF ItemNext
<1>10. t[at + 1] # "," => ListDone(t, longer, from, at + 1)
  BY <1>4, <1>8 DEF ListDone
<1> QED BY <1>7, <1>9, <1>10 DEF longer

\* Giving a statement up ends the reading.
LEMMA GivingUpReads ==
  ASSUME ParseFails
  PROVE  ReadingOK'
BY DEF ParseFails, ReadingOK, InInsert, InSelect

LEMMA FirstWordReads ==
  ASSUME CursorInv, ReadingOK, NextStatement
  PROVE  ReadingOK' /\ FirstWord = cursor
<1>1. pc = "parse" /\ tokens[cursor] # ";" /\ cursor \in 1..Final /\ TokensOK
  BY DEF NextStatement, ReadingOK, CursorInv, CursorInBounds, TokensOK
<1>2. FirstWord = cursor
  <2>1. FirstWord \in cursor..Final /\ OnlySemicolons(cursor, FirstWord - 1)
    BY <1>1, SemicolonsEnd DEF FirstWord
  <2>2. FirstWord # cursor => cursor \in cursor..(FirstWord - 1)
    <3>1. Final \in Nat
      BY <1>1 DEF TokensOK
    <3>2. cursor \in 1..Final
      BY <1>1
    <3> QED BY <2>1, <3>1, <3>2
  <2> QED BY <1>1, <2>1, <2>2 DEF OnlySemicolons
<1>3. UNCHANGED <<tokens, cursor>>
  BY DEF NextStatement
<1>4. CASE stmt' = NoStatement /\ pc' = "into" /\ current' = cursor + 1 /\ tokens[cursor] = "INSERT"
  <2>1. Inserting(pc', tokens, stmt', cursor, current')
    BY <1>4, EmptySeq DEF Inserting, NoStatement
  <2> QED BY <1>2, <1>3, <1>4, <2>1 DEF ReadingOK, InInsert, InSelect
<1>5. CASE /\ stmt' = [NoStatement EXCEPT !.type = "select"] /\ pc' = "projection"
           /\ current' = cursor + 1 /\ tokens[cursor] = "SELECT"
  <2>1. Selecting(pc', tokens, stmt', cursor, current')
    BY <1>5, EmptySeq DEF Selecting, NoStatement
  <2> QED BY <1>2, <1>3, <1>5, <2>1 DEF ReadingOK, InInsert, InSelect
<1>6. CASE pc' = "failed"
  BY <1>2, <1>6 DEF ReadingOK, InInsert, InSelect
<1> QED BY <1>2, <1>4, <1>5, <1>6 DEF NextStatement, NotAStatement

LEMMA ReadsOn ==
  ASSUME UNCHANGED <<tokens, cursor>>, pc' # "parse",
         \/ pc' \in InInsert /\ Inserting(pc', tokens, stmt', cursor, current')
         \/ pc' \in InSelect /\ Selecting(pc', tokens, stmt', cursor, current')
  PROVE  ReadingOK'
BY DEF ReadingOK

LEMMA InsertIsRead ==
  ASSUME ReadingOK, pc \in InInsert, pc \notin InSelect \/ stmt.type = "insert"
  PROVE  Inserting(pc, tokens, stmt, cursor, current)
BY DEF ReadingOK, Selecting

LEMMA SelectIsRead ==
  ASSUME ReadingOK, pc \in InSelect, pc \notin InInsert \/ stmt.type = "select"
  PROVE  Selecting(pc, tokens, stmt, cursor, current)
BY DEF ReadingOK, Inserting

LEMMA Places ==
  ASSUME CursorInv, StmtOK
  PROVE  /\ cursor \in Nat \ {0} /\ current \in Nat \ {0}
         /\ stmt.columns \in Seq(Nat) /\ Len(stmt.columns) \in Nat
         /\ stmt.values \in Seq(Nat) /\ Len(stmt.values) \in Nat
         /\ ValuesPlace(cursor, stmt.columns) \in Nat \ {0}
         /\ FromPlace(cursor, stmt.columns) \in Nat \ {0}
         /\ stmt.columns # <<>> => Len(stmt.columns) > 0
<1>1. cursor \in Nat \ {0} /\ current \in Nat \ {0}
  BY DEF CursorInv, CursorInBounds, TokensOK
<1>2. stmt.columns \in Seq(Nat) /\ stmt.values \in Seq(Nat)
  BY DEF StmtOK
<1> DEFINE n == Len(stmt.columns)
<1>3. n \in Nat /\ Len(stmt.values) \in Nat /\ (stmt.columns # <<>> => n > 0)
  BY <1>2, LenProperties, EmptySeq
<1> HIDE DEF n
<1>4. cursor + 4 + 2 * n \in Nat \ {0} /\ cursor + 3 \in Nat \ {0} /\ cursor + 2 \in Nat \ {0}
      /\ cursor + 2 * n \in Nat \ {0}
  BY <1>1, <1>3
<1>5. /\ ValuesPlace(cursor, stmt.columns) \in Nat \ {0}
      /\ FromPlace(cursor, stmt.columns) \in Nat \ {0}
  BY <1>4 DEF ValuesPlace, FromPlace, n
<1> QED BY <1>1, <1>2, <1>3, <1>5 DEF n

\* The words of an INSERT.
LEMMA InsertWordsRead ==
  ASSUME CursorInv, HeapInv, ReadingOK,
         \/ Expect("into", "INTO", "table") \/ Expect("columns_end", ")", "values")
         \/ Expect("values", "VALUES", "values_open") \/ Expect("values_open", "(", "value")
         \/ Expect("values_end", ")", "parsed")
         \/ Columns
  PROVE  ReadingOK'
<1>1. CASE ParseFails
  BY <1>1, GivingUpReads
<1> SUFFICES ASSUME ~ParseFails PROVE ReadingOK'
  BY <1>1
<1> DEFINE place == ValuesPlace(cursor, stmt.columns)
           n == Len(stmt.columns)
           m == Len(stmt.values)
<1>2. /\ cursor \in Nat \ {0} /\ current \in Nat \ {0}
      /\ n \in Nat /\ m \in Nat /\ place \in Nat \ {0}
  BY Places DEF HeapInv
<1>3. UNCHANGED <<tokens, cursor, stmt>> /\ pc' # "parse"
  BY DEF Expect, Columns, Optional
<1>4. /\ pc \in InInsert /\ (pc \notin InSelect \/ stmt.type = "insert")
      /\ pc' \in InInsert
  BY DEF Expect, Columns, Optional, InInsert, InSelect
<1>5. Inserting(pc, tokens, stmt, cursor, current)
  BY <1>4, InsertIsRead
<1> SUFFICES Inserting(pc', tokens, stmt, cursor, current')
  BY <1>3, <1>4, ReadsOn
<1> HIDE DEF place, n, m
<1>6. CASE Expect("into", "INTO", "table")
  <2>1. pc = "into" /\ pc' = "table" /\ tokens[current] = "INTO" /\ current' = current + 1
    BY <1>6 DEF Expect, Peek
  <2> QED BY <1>2, <1>5, <2>1 DEF Inserting
<1>7. CASE Expect("columns_end", ")", "values")
  <2>1. /\ pc = "columns_end" /\ pc' = "values" /\ tokens[current] = ")"
        /\ current' = current + 1
    BY <1>7 DEF Expect, Peek
  <2>2. /\ ColumnsOpen(tokens, cursor, stmt.columns) /\ stmt.columns # <<>>
        /\ current = cursor + 4 + 2 * n - 1
    BY <1>5, <2>1 DEF Inserting, ListDone, n
  <2>3. ColumnsRead(tokens, cursor, stmt.columns) /\ current' = place
    <3>1. cursor + 3 + 2 * n = current /\ current + 1 = cursor + 4 + 2 * n
      <4>1. current = cursor + 4 + 2 * n - 1
        BY <2>2
      <4> QED BY <1>2, <4>1
    <3> QED BY <2>1, <2>2, <3>1 DEF ColumnsRead, ValuesPlace, place, n
  <2> QED BY <1>5, <2>1, <2>3 DEF Inserting, place
<1>8. CASE Expect("values", "VALUES", "values_open")
  <2>1. /\ pc = "values" /\ pc' = "values_open" /\ tokens[current] = "VALUES"
        /\ current' = current + 1
    BY <1>8 DEF Expect, Peek
  <2> QED BY <1>2, <1>5, <2>1 DEF Inserting
<1>9. CASE Expect("values_open", "(", "value")
  <2>1. /\ pc = "values_open" /\ pc' = "value" /\ tokens[current] = "("
        /\ current' = current + 1
    BY <1>9 DEF Expect, Peek
  <2>2. current = place + 1 /\ tokens[place] = "VALUES" /\ stmt.values = <<>>
    BY <1>5, <2>1 DEF Inserting, place
  <2>3. current + 1 = place + 2 /\ place + 2 \in Nat
    BY <1>2, <2>2
  <2>4. ValuesOpen(tokens, place, stmt.values) /\ ItemNext(tokens, stmt.values, place + 2, place + 2)
    BY <2>1, <2>2, <2>3, ListStarts DEF ValuesOpen
  <2> QED BY <1>5, <2>1, <2>2, <2>3, <2>4 DEF Inserting, place
<1>10. CASE Expect("values_end", ")", "parsed")
  <2>1. /\ pc = "values_end" /\ pc' = "parsed" /\ tokens[current] = ")"
        /\ current' = current + 1
    BY <1>10 DEF Expect, Peek
  <2>2. /\ ValuesOpen(tokens, place, stmt.values) /\ stmt.values # <<>>
        /\ current = place + 2 + 2 * m - 1
    BY <1>5, <2>1 DEF Inserting, ListDone, place, m
  <2>3. place + 1 + 2 * m = current /\ current + 1 = place + 2 + 2 * m
    <3>1. current = place + 2 + 2 * m - 1
      BY <2>2
    <3> QED BY <1>2, <3>1
  <2>4. ValuesRead(tokens, place, stmt.values)
    BY <2>1, <2>2, <2>3 DEF ValuesRead, m
  <2> QED BY <1>5, <2>1, <2>3, <2>4 DEF Inserting, place, m
<1>11. CASE Columns
  <2>1. pc = "columns" /\ current = cursor + 3 /\ stmt.columns = <<>>
    BY <1>5, <1>11 DEF Columns, Optional, Inserting
  <2>2. CASE tokens[current] = "("
    <3>1. pc' = "column" /\ current' = cursor + 4
      BY <1>2, <1>11, <2>1, <2>2 DEF Columns, Optional, Peek
    <3>2. /\ ColumnsOpen(tokens, cursor, stmt.columns)
          /\ ItemNext(tokens, stmt.columns, cursor + 4, cursor + 4)
      <4>1. cursor + 4 \in Nat /\ current = cursor + 3
        BY <1>2, <2>1
      <4> QED BY <2>1, <2>2, <4>1, ListStarts DEF ColumnsOpen
    <3> QED BY <1>5, <2>1, <3>1, <3>2 DEF Inserting
  <2>3. CASE tokens[current] # "("
    <3>1. pc' = "values" /\ current' = cursor + 3
      BY <1>11, <2>1, <2>3 DEF Columns, Optional, Peek
    <3>2. ColumnsRead(tokens, cursor, stmt.columns) /\ ValuesPlace(cursor, stmt.columns) = cursor + 3
      BY <2>1, <2>3 DEF ColumnsRead, ValuesPlace
    <3> QED BY <1>5, <2>1, <3>1, <3>2 DEF Inserting
  <2> QED BY <2>2, <2>3
<1> QED BY <1>6, <1>7, <1>8, <1>9, <1>10, <1>11

\* The words of a SELECT.
LEMMA SelectWordsRead ==
  ASSUME CursorInv, HeapInv, ReadingOK,
         \/ Expect("from", "FROM", "table") \/ Expect("equal", "=", "where_value")
         \/ Where
  PROVE  ReadingOK'
<1>1. CASE ParseFails
  BY <1>1, GivingUpReads
<1> SUFFICES ASSUME ~ParseFails PROVE ReadingOK'
  BY <1>1
<1> DEFINE place == FromPlace(cursor, stmt.columns)
<1>2. cursor \in Nat \ {0} /\ current \in Nat \ {0} /\ place \in Nat \ {0}
  BY Places DEF HeapInv
<1>3. UNCHANGED <<tokens, cursor, stmt>> /\ pc' # "parse"
  BY DEF Expect, Where, Optional
<1>4. /\ pc \in InSelect /\ (pc \notin InInsert \/ stmt.type = "select")
      /\ pc' \in InSelect
  BY DEF Expect, Where, Optional, InInsert, InSelect
<1>5. Selecting(pc, tokens, stmt, cursor, current)
  BY <1>4, SelectIsRead
<1> SUFFICES Selecting(pc', tokens, stmt, cursor, current')
  BY <1>3, <1>4, ReadsOn
<1> HIDE DEF place
<1>6. CASE Expect("from", "FROM", "table")
  <2>1. /\ pc = "from" /\ pc' = "table" /\ tokens[current] = "FROM"
        /\ current' = current + 1
    BY <1>6 DEF Expect, Peek
  <2> QED BY <1>2, <1>5, <2>1 DEF Selecting
<1>7. CASE Expect("equal", "=", "where_value")
  <2>1. /\ pc = "equal" /\ pc' = "where_value" /\ tokens[current] = "="
        /\ current' = current + 1
    BY <1>7 DEF Expect, Peek
  <2>2. current = place + 4 /\ current' = place + 5
    <3>1. current = place + 4
      BY <1>5, <2>1 DEF Selecting, place
    <3> QED BY <1>2, <2>1, <3>1
  <2> QED BY <1>5, <2>1, <2>2 DEF Selecting, place
<1>8. CASE Where
  <2>1. pc = "where" /\ current = place + 2 /\ stmt.where_column = 0
    BY <1>5, <1>8 DEF Where, Optional, Selecting, HeapInv, NotYetRead, BeforeWhere, place
  <2>2. CASE tokens[current] = "WHERE"
    <3>1. pc' = "where_column" /\ current' = place + 3
      BY <1>2, <1>8, <2>1, <2>2 DEF Where, Optional, Peek
    <3> QED BY <1>5, <2>1, <2>2, <3>1 DEF Selecting, place
  <2>3. CASE tokens[current] # "WHERE"
    <3>1. pc' = "parsed" /\ current' = place + 2
      BY <1>8, <2>1, <2>3 DEF Where, Optional, Peek
    <3>2. ConditionRead(tokens, place, stmt.where_column, stmt.where_value, current')
      BY <2>1, <2>3, <3>1 DEF ConditionRead
    <3> QED BY <1>5, <2>1, <3>1, <3>2 DEF Selecting, place
  <2> QED BY <2>2, <2>3
<1> QED BY <1>6, <1>7, <1>8

LEMMA ProjectionReads ==
  ASSUME CursorInv, HeapInv, ReadingOK, Projection
  PROVE  ReadingOK'
<1>1. cursor \in Nat \ {0} /\ current \in Nat \ {0}
  BY Places DEF HeapInv
<1>2. /\ UNCHANGED <<tokens, cursor>> /\ pc' # "parse"
      /\ pc = "projection" /\ pc' \in InSelect
  BY DEF Projection, Optional, InSelect
<1>3. Selecting("projection", tokens, stmt, cursor, current)
  BY <1>2, SelectIsRead DEF InInsert, InSelect
<1>4. /\ current = cursor + 1 /\ stmt.columns = <<>> /\ stmt.type = "select"
      /\ tokens[cursor] = "SELECT"
  BY <1>3 DEF Selecting
<1>5. /\ stmt'.columns = <<>> /\ stmt'.type = "select" /\ (stmt'.all <=> tokens[cursor + 1] = "*")
  BY <1>4 DEF Projection, HeapInv, StmtOK, Peek
<1> SUFFICES Selecting(pc', tokens, stmt', cursor, current')
  BY <1>2, ReadsOn
<1>6. CASE tokens[current] = "*"
  <2>1. pc' = "from" /\ current' = cursor + 2
    BY <1>1, <1>4, <1>6 DEF Projection, Optional, Peek
  <2>2. /\ ProjectionRead(tokens, cursor, stmt'.columns, stmt'.all)
        /\ FromPlace(cursor, stmt'.columns) = cursor + 2
    BY <1>4, <1>5, <1>6 DEF ProjectionRead, FromPlace
  <2> QED BY <1>4, <1>5, <2>1, <2>2 DEF Selecting
<1>7. CASE tokens[current] # "*"
  <2>1. pc' = "column" /\ current' = cursor + 1
    BY <1>4, <1>7 DEF Projection, Optional, Peek
  <2>2. /\ Listed(tokens, stmt'.columns, cursor + 1, "identifier")
        /\ ItemNext(tokens, stmt'.columns, cursor + 1, current')
    <3>1. cursor + 1 \in Nat
      BY <1>1
    <3> QED BY <1>5, <2>1, <3>1, ListStarts
  <2> QED BY <1>4, <1>5, <1>7, <2>1, <2>2 DEF Selecting
<1> QED BY <1>6, <1>7

LEMMA TableReads ==
  ASSUME CursorInv, HeapInv, ReadingOK, Table
  PROVE  ReadingOK'
<1>1. CASE ParseFails
  BY <1>1, GivingUpReads
<1> SUFFICES ASSUME ~ParseFails PROVE ReadingOK'
  BY <1>1
<1>2. /\ cursor \in Nat \ {0} /\ current \in Nat \ {0}
      /\ FromPlace(cursor, stmt.columns) \in Nat \ {0}
  BY Places DEF HeapInv
<1>3. /\ pc = "table" /\ tokens[current] = "identifier" /\ current' = current + 1
      /\ UNCHANGED <<tokens, cursor>>
      /\ pc' = IF stmt.type = "insert" THEN "columns" ELSE "where"
      /\ stmt' = [stmt EXCEPT !.table = current]
  BY DEF Table, Peek
<1>4. /\ stmt'.type = stmt.type /\ stmt'.table = current /\ stmt'.columns = stmt.columns
      /\ stmt'.values = stmt.values /\ stmt'.all = stmt.all
      /\ stmt.type \in {"insert", "select"}
  BY <1>3 DEF HeapInv, StmtOK
<1>5. CASE stmt.type = "insert"
  <2>1. Inserting("table", tokens, stmt, cursor, current)
    BY <1>3, <1>5, InsertIsRead DEF InInsert
  <2>2. Inserting("columns", tokens, stmt', cursor, current')
    BY <1>2, <1>3, <1>4, <2>1 DEF Inserting, TableRead
  <2> QED BY <1>3, <1>5, <2>2, ReadsOn DEF InInsert
<1>6. CASE stmt.type = "select"
  <2>1. Selecting("table", tokens, stmt, cursor, current)
    BY <1>3, <1>6, SelectIsRead DEF InSelect
  <2> DEFINE place == FromPlace(cursor, stmt.columns)
  <2>2. current = place + 1 /\ tokens[place] = "FROM"
    BY <2>1 DEF Selecting
  <2> HIDE DEF place
  <2>3. current' = place + 2
    BY <1>2, <1>3, <2>2 DEF place
  <2>4. FromRead(tokens, place, stmt'.table)
    BY <1>3, <1>4, <2>2 DEF FromRead
  <2>5. Selecting("where", tokens, stmt', cursor, current')
    BY <1>4, <2>1, <2>3, <2>4 DEF Selecting, place
  <2> QED BY <1>3, <1>6, <2>5, ReadsOn DEF InSelect
<1> QED BY <1>4, <1>5, <1>6

LEMMA WhereReads ==
  ASSUME CursorInv, HeapInv, ReadingOK, WhereColumn \/ WhereValue
  PROVE  ReadingOK'
<1>1. CASE ParseFails
  BY <1>1, GivingUpReads
<1> SUFFICES ASSUME ~ParseFails PROVE ReadingOK'
  BY <1>1
<1> DEFINE place == FromPlace(cursor, stmt.columns)
<1>2. cursor \in Nat \ {0} /\ current \in Nat \ {0} /\ place \in Nat \ {0}
  BY Places DEF HeapInv
<1>3. /\ pc \in {"where_column", "where_value"} /\ pc' \in InSelect
      /\ UNCHANGED <<tokens, cursor>> /\ current' = current + 1
      /\ pc' # "parse"
  BY DEF WhereColumn, WhereValue, InSelect
<1>4. Selecting(pc, tokens, stmt, cursor, current)
  BY <1>3, SelectIsRead DEF InInsert, InSelect
<1> HIDE DEF place
<1> SUFFICES Selecting(pc', tokens, stmt', cursor, current')
  BY <1>3, ReadsOn
<1>5. CASE WhereColumn
  <2>1. /\ pc = "where_column" /\ pc' = "equal" /\ tokens[current] = "identifier"
        /\ stmt' = [stmt EXCEPT !.where_column = current]
    BY <1>5 DEF WhereColumn, Peek
  <2>2. /\ stmt'.type = stmt.type /\ stmt'.table = stmt.table /\ stmt'.columns = stmt.columns
        /\ stmt'.all = stmt.all /\ stmt'.where_column = current
    BY <2>1 DEF HeapInv, StmtOK
  <2>3. current = place + 3 /\ tokens[place + 2] = "WHERE"
    BY <1>4, <2>1 DEF Selecting, place
  <2>4. current' = place + 4
    BY <1>2, <1>3, <2>3
  <2>5. WhereRead(tokens, place, stmt'.where_column)
    BY <2>1, <2>2, <2>3 DEF WhereRead
  <2> QED BY <1>4, <2>1, <2>2, <2>4, <2>5 DEF Selecting, place
<1>6. CASE WhereValue
  <2>1. /\ pc = "where_value" /\ pc' = "parsed" /\ tokens[current] \in {"string", "number"}
        /\ stmt' = [stmt EXCEPT !.where_value = current]
    BY <1>6 DEF WhereValue, Peek, IsLiteral
  <2>2. /\ stmt'.type = stmt.type /\ stmt'.table = stmt.table /\ stmt'.columns = stmt.columns
        /\ stmt'.all = stmt.all /\ stmt'.where_column = stmt.where_column
        /\ stmt'.where_value = current
    BY <2>1 DEF HeapInv, StmtOK
  <2>3. /\ current = place + 5 /\ tokens[place + 4] = "="
        /\ WhereRead(tokens, place, stmt.where_column)
    BY <1>4, <2>1 DEF Selecting, place
  <2>4. current' = place + 6 /\ stmt.where_column # 0
    <3>1. stmt.where_column = place + 3
      BY <2>3 DEF WhereRead
    <3> QED BY <1>2, <1>3, <2>3, <3>1
  <2>5. Word(tokens[place + 5]) = "literal"
    BY <2>1, <2>3 DEF Word
  <2>6. ConditionRead(tokens, place, stmt'.where_column, stmt'.where_value, current')
    BY <2>2, <2>3, <2>4, <2>5 DEF ConditionRead
  <2> QED BY <1>4, <2>1, <2>2, <2>6 DEF Selecting, place
<1> QED BY <1>5, <1>6

\* The lists.
LEMMA ValueReads ==
  ASSUME CursorInv, HeapInv, ReadingOK, Value
  PROVE  ReadingOK'
<1>1. CASE ParseFails
  BY <1>1, GivingUpReads
<1> SUFFICES ASSUME ~ParseFails PROVE ReadingOK'
  BY <1>1
<1> DEFINE place == ValuesPlace(cursor, stmt.columns)
<1>2. /\ place \in Nat \ {0} /\ current \in Nat \ {0} /\ stmt.values \in Seq(Nat)
  BY Places DEF HeapInv
<1>3. /\ pc = "value" /\ tokens[current] \in {"string", "number"}
      /\ UNCHANGED <<tokens, cursor>> /\ AfterItem("value", "values_end")
      /\ stmt' = [stmt EXCEPT !.values = Append(@, current)]
  BY DEF Value, OutOfMemory, IsLiteral, Peek
<1>4. /\ stmt'.type = stmt.type /\ stmt'.table = stmt.table /\ stmt'.columns = stmt.columns
      /\ stmt'.values = Append(stmt.values, current)
  BY <1>3 DEF HeapInv, StmtOK
<1>5. Inserting("value", tokens, stmt, cursor, current)
  BY <1>3, InsertIsRead DEF InInsert, InSelect
<1>6. /\ ValuesOpen(tokens, place, stmt.values)
      /\ ItemNext(tokens, stmt.values, place + 2, current)
  BY <1>5 DEF Inserting
<1> HIDE DEF place
<1>7. /\ Listed(tokens, stmt.values, place + 2, "literal") /\ Word(tokens[current]) = "literal"
      /\ place + 2 \in Nat \ {0}
  BY <1>2, <1>3, <1>6 DEF ValuesOpen, Word
<1>8. /\ Listed(tokens, stmt'.values, place + 2, "literal")
      /\ tokens[current + 1] = "," => ItemNext(tokens, stmt'.values, place + 2, current + 2)
      /\ tokens[current + 1] # "," => ListDone(tokens, stmt'.values, place + 2, current + 1)
  BY <1>2, <1>4, <1>6, <1>7, ListGoesOn
<1>9. ValuesOpen(tokens, place, stmt'.values)
  BY <1>6, <1>8 DEF ValuesOpen
<1>10. /\ pc' \in {"value", "values_end"}
       /\ Inserting(pc', tokens, stmt', cursor, current')
  <2>1. CASE tokens[current + 1] = ","
    <3>1. pc' = "value" /\ current' = current + 2
      BY <1>3, <2>1 DEF AfterItem
    <3> QED BY <1>4, <1>5, <1>8, <1>9, <2>1, <3>1 DEF Inserting, place
  <2>2. CASE tokens[current + 1] # ","
    <3>1. pc' = "values_end" /\ current' = current + 1
      BY <1>3, <2>2 DEF AfterItem
    <3> QED BY <1>4, <1>5, <1>8, <1>9, <2>2, <3>1 DEF Inserting, place
  <2> QED BY <2>1, <2>2
<1> QED BY <1>3, <1>10, ReadsOn DEF InInsert

LEMMA ColumnReads ==
  ASSUME CursorInv, HeapInv, ReadingOK, Column
  PROVE  ReadingOK'
<1>1. CASE ParseFails
  BY <1>1, GivingUpReads
<1> SUFFICES ASSUME ~ParseFails PROVE ReadingOK'
  BY <1>1
<1>2. /\ cursor \in Nat \ {0} /\ current \in Nat \ {0} /\ stmt.columns \in Seq(Nat)
  BY Places DEF HeapInv
<1>3. /\ pc = "column" /\ tokens[current] = "identifier"
      /\ UNCHANGED <<tokens, cursor>>
      /\ AfterItem("column", IF stmt.type = "insert" THEN "columns_end" ELSE "from")
      /\ stmt' = [stmt EXCEPT !.columns = Append(@, current)]
  BY DEF Column, OutOfMemory, Peek
<1>4. /\ stmt'.type = stmt.type /\ stmt'.table = stmt.table /\ stmt'.values = stmt.values
      /\ stmt'.all = stmt.all /\ stmt'.columns = Append(stmt.columns, current)
      /\ stmt.type \in {"insert", "select"}
  BY <1>3 DEF HeapInv, StmtOK
<1>5. Word(tokens[current]) = "identifier"
  BY <1>3 DEF Word
<1>6. CASE stmt.type = "insert"
  <2>1. Inserting("column", tokens, stmt, cursor, current)
    BY <1>3, <1>6, InsertIsRead DEF InInsert
  <2>2. /\ tokens[cursor + 3] = "("
        /\ Listed(tokens, stmt.columns, cursor + 4, "identifier")
        /\ ItemNext(tokens, stmt.columns, cursor + 4, current)
    BY <2>1 DEF Inserting, ColumnsOpen
  <2>3. cursor + 4 \in Nat \ {0}
    BY <1>2
  <2>4. /\ Listed(tokens, stmt'.columns, cursor + 4, "identifier")
        /\ tokens[current + 1] = "," => ItemNext(tokens, stmt'.columns, cursor + 4, current + 2)
        /\ tokens[current + 1] # "," => ListDone(tokens, stmt'.columns, cursor + 4, current + 1)
    BY <1>2, <1>4, <1>5, <2>2, <2>3, ListGoesOn
  <2>5. ColumnsOpen(tokens, cursor, stmt'.columns)
    BY <2>2, <2>4 DEF ColumnsOpen
  <2>6. /\ pc' \in {"column", "columns_end"}
        /\ Inserting(pc', tokens, stmt', cursor, current')
    <3>1. CASE tokens[current + 1] = ","
      <4>1. pc' = "column" /\ current' = current + 2
        BY <1>3, <3>1 DEF AfterItem
      <4> QED BY <1>4, <2>1, <2>4, <2>5, <3>1, <4>1 DEF Inserting
    <3>2. CASE tokens[current + 1] # ","
      <4>1. pc' = "columns_end" /\ current' = current + 1
        BY <1>3, <1>6, <3>2 DEF AfterItem
      <4> QED BY <1>4, <2>1, <2>4, <2>5, <3>2, <4>1 DEF Inserting
    <3> QED BY <3>1, <3>2
  <2> QED BY <1>3, <2>6, ReadsOn DEF InInsert
<1>7. CASE stmt.type = "select"
  <2>1. Selecting("column", tokens, stmt, cursor, current)
    BY <1>3, <1>7, SelectIsRead DEF InSelect
  <2>2. /\ ~stmt.all /\ tokens[cursor + 1] # "*" /\ tokens[cursor] = "SELECT"
        /\ Listed(tokens, stmt.columns, cursor + 1, "identifier")
        /\ ItemNext(tokens, stmt.columns, cursor + 1, current)
    BY <2>1 DEF Selecting
  <2>3. cursor + 1 \in Nat \ {0}
    BY <1>2
  <2>4. /\ Listed(tokens, stmt'.columns, cursor + 1, "identifier")
        /\ tokens[current + 1] = "," => ItemNext(tokens, stmt'.columns, cursor + 1, current + 2)
        /\ tokens[current + 1] # "," => ListDone(tokens, stmt'.columns, cursor + 1, current + 1)
    BY <1>2, <1>4, <1>5, <2>2, <2>3, ListGoesOn
  <2>5. CASE tokens[current + 1] = ","
    <3>1. pc' = "column" /\ current' = current + 2
      BY <1>3, <2>5 DEF AfterItem
    <3>2. Selecting("column", tokens, stmt', cursor, current')
      BY <1>4, <1>7, <2>2, <2>4, <2>5, <3>1 DEF Selecting
    <3> QED BY <1>3, <3>1, <3>2, ReadsOn DEF InSelect
  <2>6. CASE tokens[current + 1] # ","
    <3>1. pc' = "from" /\ current' = current + 1
      BY <1>3, <1>7, <2>6 DEF AfterItem
    <3>2. stmt'.columns # <<>> /\ current + 1 = cursor + 1 + 2 * Len(stmt'.columns) - 1
      BY <2>4, <2>6 DEF ListDone
    <3>3. current + 1 = cursor + 2 * Len(stmt'.columns)
      <4> DEFINE n == Len(stmt'.columns)
      <4>1. n \in Nat
        <5>1. stmt'.columns \in Seq(Nat)
          BY <1>2, <1>4, AppendProperties
        <5> QED BY <5>1, LenProperties
      <4>2. current + 1 = cursor + 1 + 2 * n - 1
        BY <3>2
      <4> HIDE DEF n
      <4>3. current + 1 = cursor + 2 * n
        BY <1>2, <4>1, <4>2
      <4> QED BY <4>3 DEF n
    <3>4. /\ ProjectionRead(tokens, cursor, stmt'.columns, stmt'.all)
          /\ FromPlace(cursor, stmt'.columns) = current + 1
      BY <1>4, <2>2, <2>4, <2>6, <3>2, <3>3 DEF ProjectionRead, FromPlace
    <3>5. Selecting("from", tokens, stmt', cursor, current')
      BY <1>4, <1>7, <2>2, <3>1, <3>4 DEF Selecting
    <3> QED BY <1>3, <3>1, <3>5, ReadsOn DEF InSelect
  <2> QED BY <2>5, <2>6
<1> QED BY <1>4, <1>6, <1>7

LEMMA ReadingStep ==
  ASSUME CursorInv, HeapInv, ReadingOK, [Next]_vars
  PROVE  ReadingOK'
<1>1. CASE Parsed
  BY <1>1 DEF Parsed, ReadingOK, InInsert, InSelect
<1>2. CASE Parse /\ ~Parsed
  BY <1>2, FirstWordReads, InsertWordsRead, SelectWordsRead, ProjectionReads, TableReads,
     WhereReads, ValueReads, ColumnReads DEF Parse
<1>3. CASE MainLoop
  <2>1. tokens[cursor'] # ";" /\ UNCHANGED tokens
    <3>1. cursor \in 1..Final /\ TokensOK
      BY DEF CursorInv, CursorInBounds, TokensOK
    <3> QED BY <1>3, <3>1, SemicolonsEnd DEF MainLoop
  <2>2. pc' = IF tokens[cursor'] = "EOF" THEN "done" ELSE "parse"
    BY <1>3 DEF MainLoop
  <2> QED BY <2>1, <2>2 DEF ReadingOK, InInsert, InSelect
<1>4. CASE Main /\ ~MainLoop
  BY <1>4 DEF Main, Start, StartFails, Makes, GivesUp, Execute, ExecuteFails, Report, Failed,
              Done, ReadingOK, InInsert, InSelect
<1>5. CASE Ended \/ UNCHANGED vars
  BY <1>5 DEF Ended, vars, ReadingOK
<1> QED BY <1>1, <1>2, <1>3, <1>4, <1>5 DEF Next

-----------------------------------------------------------------------------
(* The spelling of the statement that was read.                            *)

Words == Kinds \cup {"literal"}
Spelled == Words \X Nat

\* Spelled words stand in the tokens from a place on.
Stands(t, words, from) ==
    \A k \in 1..Len(words) : /\ words[k][1] = Word(t[from + k - 1])
                             /\ words[k][2] \in {0, from + k - 1}

\* One of the words is kept at this place.
Keeps(words, place) == \E k \in 1..Len(words) : words[k][2] = place

Joined(t, a, b, from) ==
    /\ a \o b \in Seq(Spelled) /\ Len(a \o b) = Len(a) + Len(b)
    /\ Stands(t, a \o b, from)
    /\ \A place : Keeps(a, place) \/ Keeps(b, place) => Keeps(a \o b, place)

LEMMA StandsOn ==
  ASSUME NEW t, NEW a \in Seq(Spelled), NEW b \in Seq(Spelled), NEW from \in Nat, NEW next,
         next = from + Len(a), Stands(t, a, from), Stands(t, b, next)
  PROVE  Joined(t, a, b, from)
<1> DEFINE n == Len(a)
           m == Len(b)
           c == a \o b
<1>1. /\ n \in Nat /\ m \in Nat /\ c \in Seq(Spelled) /\ Len(c) = n + m
      /\ \A k \in 1..n : c[k] = a[k]
  BY ConcatProperties, LenProperties
<1>2. \A k \in 1..m : c[n + k] = b[k]
  <2> SUFFICES ASSUME NEW k \in 1..m PROVE c[n + k] = b[k]
    OBVIOUS
  <2>1. n + k \in 1..(n + m) /\ ~(n + k <= n) /\ (n + k) - n = k
    <3> HIDE DEF n, m
    <3> QED BY <1>1
  <2> QED BY <2>1, ConcatProperties
<1> HIDE DEF n, m, c
<1>3. \A k \in 1..n : a[k][1] = Word(t[from + k - 1]) /\ a[k][2] \in {0, from + k - 1}
  BY DEF Stands, n
<1>4. \A k \in 1..m : /\ b[k][1] = Word(t[(from + n) + k - 1])
                      /\ b[k][2] \in {0, (from + n) + k - 1}
  <2>1. next = from + n
    BY DEF n
  <2> QED BY <2>1 DEF Stands, m
<1>5. ASSUME NEW k \in 1..(n + m)
      PROVE  c[k][1] = Word(t[from + k - 1]) /\ c[k][2] \in {0, from + k - 1}
  <2>1. CASE k <= n
    <3>1. k \in 1..n
      BY <1>1, <2>1
    <3> QED BY <1>1, <1>3, <3>1
  <2>2. CASE ~(k <= n)
    <3> DEFINE j == k - n
    <3>1. j \in 1..m /\ k = n + j /\ (from + n) + j - 1 = from + k - 1
      BY <1>1, <2>2
    <3> HIDE DEF j
    <3>2. c[k] = b[j]
      BY <1>2, <3>1
    <3>3. b[j][1] = Word(t[(from + n) + j - 1]) /\ b[j][2] \in {0, (from + n) + j - 1}
      BY <1>4, <3>1
    <3> QED BY <3>1, <3>2, <3>3
  <2> QED BY <2>1, <2>2
<1>6. Stands(t, c, from)
  BY <1>1, <1>5 DEF Stands
<1>7. ASSUME NEW place, Keeps(a, place) PROVE Keeps(c, place)
  <2>1. PICK k \in 1..n : a[k][2] = place
    BY <1>7 DEF Keeps, n
  <2>2. k \in 1..(n + m) /\ c[k] = a[k]
    BY <1>1, <2>1
  <2> QED BY <1>1, <2>1, <2>2 DEF Keeps
<1>8. ASSUME NEW place, Keeps(b, place) PROVE Keeps(c, place)
  <2>1. PICK k \in 1..m : b[k][2] = place
    BY <1>8 DEF Keeps, m
  <2>2. n + k \in 1..(n + m) /\ c[n + k] = b[k]
    BY <1>1, <1>2, <2>1
  <2> QED BY <1>1, <2>1, <2>2 DEF Keeps
<1> QED BY <1>1, <1>6, <1>7, <1>8 DEF n, m, c, Joined

\* Words that the statement does not keep.
LEMMA FixedStands ==
  ASSUME NEW t, NEW words \in Seq(Words), NEW from \in Nat,
         \A k \in 1..Len(words) : Word(t[from + k - 1]) = words[k]
  PROVE  /\ Fixed(words) \in Seq(Spelled) /\ Len(Fixed(words)) = Len(words)
         /\ Stands(t, Fixed(words), from)
<1>1. DOMAIN words = 1..Len(words) /\ Len(words) \in Nat
      /\ \A k \in 1..Len(words) : words[k] \in Words
  BY LenProperties, ElementOfSeq
<1>2. Fixed(words) \in [1..Len(words) -> Spelled]
  BY <1>1 DEF Fixed, Spelled
<1>3. Fixed(words) \in Seq(Spelled) /\ Len(Fixed(words)) = Len(words)
  BY <1>1, <1>2, FunctionIsSeq
<1>4. \A k \in 1..Len(words) : Fixed(words)[k][1] = words[k] /\ Fixed(words)[k][2] = 0
  BY <1>1 DEF Fixed
<1> QED BY <1>3, <1>4 DEF Stands

\* One word, kept or not.
LEMMA WordStands ==
  ASSUME NEW t, NEW from \in Nat, NEW word \in Words, NEW place \in {0, from},
         Word(t[from]) = word
  PROVE  /\ <<<<word, place>>>> \in Seq(Spelled) /\ Len(<<<<word, place>>>>) = 1
         /\ Stands(t, <<<<word, place>>>>, from) /\ Keeps(<<<<word, place>>>>, place)
<1> DEFINE w == <<word, place>>
           s == <<w>>
<1>1. w \in Spelled /\ w[1] = word /\ w[2] = place
  BY DEF Spelled
<1> HIDE DEF w
<1>2. s \in Seq(Spelled) /\ Len(s) = 1 /\ s[1] = w
  BY <1>1
<1> HIDE DEF s
<1>3. Stands(t, s, from)
  <2> SUFFICES ASSUME NEW k \in 1..1
               PROVE  s[k][1] = Word(t[from + k - 1]) /\ s[k][2] \in {0, from + k - 1}
    BY <1>2 DEF Stands
  <2>1. k = 1 /\ from + k - 1 = from
    OBVIOUS
  <2> QED BY <1>1, <1>2, <2>1
<1>4. Keeps(s, place)
  BY <1>1, <1>2 DEF Keeps
<1> QED BY <1>2, <1>3, <1>4 DEF s, w

LEMMA SpelledWord ==
  ASSUME NEW word \in Words, NEW place \in Nat, NEW w, w = <<word, place>>
  PROVE  w \in Spelled /\ w[1] = word /\ w[2] = place
BY DEF Spelled

LEMMA ListStands ==
  ASSUME NEW t, NEW list \in Seq(Nat), NEW from \in Nat, NEW word \in Words, list # <<>>,
         Listed(t, list, from, word)
  PROVE  /\ SpelledList(word, list) \in Seq(Spelled)
         /\ Len(SpelledList(word, list)) = 2 * Len(list) - 1
         /\ Stands(t, SpelledList(word, list), from)
<1> DEFINE n == Len(list)
           spelled == SpelledList(word, list)
<1>1. n \in Nat /\ n > 0 /\ \A k \in 1..n : list[k] \in Nat
  BY LenProperties, EmptySeq, ElementOfSeq
<1>2. \A k \in 1..n : /\ Word(t[from + 2 * k - 2]) = word
                      /\ k < n => t[from + 2 * k - 1] = ","
                      /\ list[k] = from + 2 * k - 2
  BY DEF Listed, Items
<1>3. \A k \in 1..(2 * n - 1) :
        spelled[k] = IF k % 2 = 1 THEN <<word, list[(k + 1) \div 2]>> ELSE <<",", 0>>
  BY DEF SpelledList
<1>4. spelled = [k \in 1..(2 * n - 1) |-> spelled[k]]
  BY DEF SpelledList
<1> HIDE DEF n, spelled
<1>5. ASSUME NEW k \in 1..(2 * n - 1)
      PROVE  /\ spelled[k] \in Spelled
             /\ spelled[k][1] = Word(t[from + k - 1])
             /\ spelled[k][2] \in {0, from + k - 1}
  <2>1. CASE k % 2 = 1
    <3> DEFINE i == (k + 1) \div 2
    <3>1. i \in 1..n /\ k = 2 * i - 1
      BY <1>1, <2>1
    <3> HIDE DEF i
    <3>2. from + 2 * i - 2 = from + k - 1
      BY <1>1, <3>1
    <3>3. spelled[k] = <<word, list[i]>> /\ list[i] \in Nat
      BY <1>1, <1>3, <2>1, <3>1 DEF i
    <3>4. Word(t[from + k - 1]) = word /\ list[i] = from + k - 1
      BY <1>2, <3>1, <3>2
    <3>5. spelled[k] \in Spelled /\ spelled[k][1] = word /\ spelled[k][2] = list[i]
      BY <3>3, SpelledWord
    <3> QED BY <3>4, <3>5
  <2>2. CASE k % 2 # 1
    <3> DEFINE i == k \div 2
    <3>1. i \in 1..n /\ i < n /\ k = 2 * i
      BY <1>1, <2>2
    <3> HIDE DEF i
    <3>2. from + 2 * i - 1 = from + k - 1
      BY <1>1, <3>1
    <3>3. spelled[k] = <<",", 0>>
      BY <1>3, <2>2
    <3>4. t[from + k - 1] = ","
      BY <1>2, <3>1, <3>2
    <3>5. Word(",") = ","
      BY DEF Word
    <3>6. spelled[k] \in Spelled /\ spelled[k][1] = "," /\ spelled[k][2] = 0
      <4>1. "," \in Words /\ 0 \in Nat
        BY DEF Words, Kinds
      <4>2. \A w : w = <<",", 0>> => w \in Spelled /\ w[1] = "," /\ w[2] = 0
        BY <4>1, SpelledWord
      <4> QED BY <3>3, <4>2
    <3> QED BY <3>4, <3>5, <3>6
  <2> QED BY <2>1, <2>2
<1>6. 2 * n - 1 \in Nat
  BY <1>1
<1>7. spelled \in [1..(2 * n - 1) -> Spelled]
  BY <1>4, <1>5
<1>8. spelled \in Seq(Spelled) /\ Len(spelled) = 2 * n - 1
  BY <1>6, <1>7, FunctionIsSeq
<1>9. Stands(t, spelled, from)
  BY <1>5, <1>8 DEF Stands
<1> QED BY <1>8, <1>9 DEF n, spelled

\* A statement whose spelling stands somewhere, its table where it was read, begins there.
LEMMA SpelledThere ==
  ASSUME TokensOK, NEW s, NEW from \in Nat \ {0}, s.table \in Nat \ {0},
         Spelling(s) \in Seq(Spelled), Stands(tokens, Spelling(s), from),
         Keeps(Spelling(s), s.table), from + Len(Spelling(s)) - 1 \in 1..Final
  PROVE  /\ FirstToken(s) = from /\ LastToken(s) = from + Len(Spelling(s)) - 1
         /\ IsSpelled(s)
<1> DEFINE words == Spelling(s)
           at == CHOOSE k \in DOMAIN words : words[k][2] = s.table
<1>1. DOMAIN words = 1..Len(words) /\ Len(words) \in Nat
  BY LenProperties
<1>2. \A k \in 1..Len(words) : /\ words[k][1] = Word(tokens[from + k - 1])
                               /\ words[k][2] \in {0, from + k - 1}
  BY DEF Stands
<1>3. at \in 1..Len(words) /\ words[at][2] = s.table
  BY <1>1 DEF Keeps
<1>4. FirstToken(s) = s.table - at + 1
  BY DEF FirstToken
<1>5. DOMAIN tokens = 1..Final /\ Final \in Nat
  BY DEF TokensOK
<1> HIDE DEF at
<1>6. s.table = from + at - 1
  BY <1>2, <1>3
<1>7. FirstToken(s) = from
  <2>1. at \in Nat
    BY <1>1, <1>3
  <2>2. (from + at - 1) - at + 1 = from
    BY <2>1
  <2> QED BY <1>4, <1>6, <2>2
<1>8. LastToken(s) = from + Len(words) - 1
  BY <1>7 DEF LastToken
<1> HIDE DEF words
<1>9. ASSUME NEW k \in DOMAIN words
      PROVE  /\ FirstToken(s) + k - 1 \in DOMAIN tokens
             /\ Word(tokens[FirstToken(s) + k - 1]) = words[k][1]
             /\ words[k][2] \in {0, FirstToken(s) + k - 1}
  <2>1. k \in 1..Len(words)
    BY <1>1, <1>9
  <2>2. from + k - 1 \in 1..Final
    <3> DEFINE n == Len(words)
    <3>1. n \in Nat /\ k \in 1..n /\ from + n - 1 \in 1..Final
      BY <1>1, <2>1 DEF words
    <3> HIDE DEF n
    <3> QED BY <1>5, <3>1
  <2> QED BY <1>2, <1>5, <1>7, <2>1, <2>2
<1>10. IsSpelled(s)
  BY <1>9 DEF IsSpelled, words
<1> QED BY <1>7, <1>8, <1>10 DEF words

\* One or two words of the grammar.
LEMMA GrammarWords ==
  ASSUME NEW t, NEW from \in Nat, NEW word \in Words, t[from] = word, Word(word) = word
  PROVE  /\ Fixed(<<word>>) \in Seq(Spelled) /\ Len(Fixed(<<word>>)) = 1
         /\ Stands(t, Fixed(<<word>>), from)
<1> DEFINE words == <<word>>
<1>1. words \in Seq(Words) /\ Len(words) = 1 /\ words[1] = word
  OBVIOUS
<1> HIDE DEF words
<1>2. ASSUME NEW k \in 1..1 PROVE Word(t[from + k - 1]) = words[k]
  <2>1. k = 1 /\ from + k - 1 = from
    OBVIOUS
  <2> QED BY <1>1, <2>1
<1>3. Fixed(words) \in Seq(Spelled) /\ Len(Fixed(words)) = 1 /\ Stands(t, Fixed(words), from)
  BY <1>1, <1>2, FixedStands
<1> QED BY <1>3 DEF words

LEMMA GrammarPair ==
  ASSUME NEW t, NEW from \in Nat, NEW word \in Words, NEW other \in Words,
         t[from] = word, Word(word) = word, t[from + 1] = other, Word(other) = other
  PROVE  /\ Fixed(<<word, other>>) \in Seq(Spelled) /\ Len(Fixed(<<word, other>>)) = 2
         /\ Stands(t, Fixed(<<word, other>>), from)
<1> DEFINE words == <<word, other>>
<1>1. words \in Seq(Words) /\ Len(words) = 2 /\ words[1] = word /\ words[2] = other
  OBVIOUS
<1> HIDE DEF words
<1>2. ASSUME NEW k \in 1..2 PROVE Word(t[from + k - 1]) = words[k]
  <2>1. CASE k = 1
    <3>1. from + k - 1 = from
      BY <2>1
    <3> QED BY <1>1, <2>1, <3>1
  <2>2. CASE k = 2
    <3>1. from + k - 1 = from + 1
      BY <2>2
    <3> QED BY <1>1, <2>2, <3>1
  <2> QED BY <2>1, <2>2
<1>3. Fixed(words) \in Seq(Spelled) /\ Len(Fixed(words)) = 2 /\ Stands(t, Fixed(words), from)
  BY <1>1, <1>2, FixedStands
<1> QED BY <1>3 DEF words

LEMMA InsertIsSpelled ==
  ASSUME TokensOK, StmtOK, stmt.type = "insert", NEW i \in Nat \ {0},
         TableRead(tokens, i, stmt.table), ColumnsRead(tokens, i, stmt.columns),
         ValuesRead(tokens, ValuesPlace(i, stmt.columns), stmt.values),
         ValuesPlace(i, stmt.columns) + 1 + 2 * Len(stmt.values) \in 1..Final
  PROVE  /\ FirstToken(stmt) = i /\ IsSpelled(stmt)
         /\ LastToken(stmt) = ValuesPlace(i, stmt.columns) + 1 + 2 * Len(stmt.values)
<1> DEFINE n == Len(stmt.columns)
           m == Len(stmt.values)
           place == ValuesPlace(i, stmt.columns)
           table == <<<<"identifier", stmt.table>>>>
           columns == IF stmt.columns = <<>> THEN <<>>
                      ELSE Fixed(<<"(">>) \o SpelledList("identifier", stmt.columns) \o Fixed(<<")">>)
           values == SpelledList("literal", stmt.values)
           s1 == Fixed(<<"INSERT", "INTO">>)
           s2 == s1 \o table
           s3 == s2 \o columns
           s4 == s3 \o Fixed(<<"VALUES", "(">>)
           s5 == s4 \o values
           s6 == s5 \o Fixed(<<")">>)
<1>1. Spelling(stmt) = s6
  BY DEF Spelling
<1>2. /\ n \in Nat /\ m \in Nat /\ stmt.columns \in Seq(Nat) /\ stmt.values \in Seq(Nat)
      /\ stmt.columns # <<>> => n > 0
  BY LenProperties, EmptySeq DEF StmtOK
<1>3. /\ \A word \in {"INSERT", "INTO", "identifier", "(", ")", "VALUES", "literal"} : word \in Words
      /\ \A word \in {"INSERT", "INTO", "identifier", "(", ")", "VALUES"} : Word(word) = word
  BY DEF Words, Kinds, Word
<1>4. s1 \in Seq(Spelled) /\ Len(s1) = 2 /\ Stands(tokens, s1, i)
  BY <1>3, GrammarPair DEF TableRead
<1>5. /\ table \in Seq(Spelled) /\ Len(table) = 1 /\ Stands(tokens, table, i + 2)
      /\ Keeps(table, stmt.table)
  <2>1. stmt.table = i + 2 /\ tokens[i + 2] = "identifier"
    BY DEF TableRead
  <2>2. i + 2 \in Nat /\ stmt.table \in {0, i + 2} /\ Word(tokens[i + 2]) = "identifier"
    BY <1>3, <2>1
  <2> QED BY <1>3, <2>2, WordStands
<1> HIDE DEF s1, table
<1>6. s2 \in Seq(Spelled) /\ Len(s2) = 3 /\ Stands(tokens, s2, i) /\ Keeps(s2, stmt.table)
  <2>1. i + 2 = i + Len(s1) /\ i \in Nat
    BY <1>4
  <2>2. Joined(tokens, s1, table, i)
    BY <1>4, <1>5, <2>1, StandsOn
  <2> QED BY <1>4, <1>5, <2>2 DEF Joined
<1> HIDE DEF s2, n, m, columns, values
<1>7. columns \in Seq(Spelled) /\ Stands(tokens, columns, i + 3) /\ i + 3 + Len(columns) = place
  <2>1. CASE stmt.columns = <<>>
    <3>1. columns = <<>> /\ place = i + 3
      BY <2>1 DEF columns, ValuesPlace
    <3>2. Stands(tokens, <<>>, i + 3) /\ <<>> \in Seq(Spelled) /\ Len(<<>>) = 0
      BY EmptySeq DEF Stands
    <3> QED BY <3>1, <3>2
  <2>2. CASE stmt.columns # <<>>
    <3> DEFINE open == Fixed(<<"(">>)
               list == SpelledList("identifier", stmt.columns)
               close == Fixed(<<")">>)
               both == open \o list
    <3>1. columns = both \o close
      BY <2>2 DEF columns
    <3>2. /\ tokens[i + 3] = "(" /\ Listed(tokens, stmt.columns, i + 4, "identifier")
          /\ tokens[i + 3 + 2 * n] = ")"
      BY <2>2 DEF ColumnsRead, ColumnsOpen, n
    <3>3. place = i + 4 + 2 * n
      BY <2>2 DEF ValuesPlace, n
    <3>4. open \in Seq(Spelled) /\ Len(open) = 1 /\ Stands(tokens, open, i + 3)
      <4>1. i + 3 \in Nat
        OBVIOUS
      <4> QED BY <1>3, <3>2, <4>1, GrammarWords
    <3>5. list \in Seq(Spelled) /\ Len(list) = 2 * n - 1 /\ Stands(tokens, list, i + 4)
      <4>1. i + 4 \in Nat
        OBVIOUS
      <4> QED BY <1>2, <1>3, <2>2, <3>2, <4>1, ListStands DEF n
    <3>6. close \in Seq(Spelled) /\ Len(close) = 1 /\ Stands(tokens, close, i + 3 + 2 * n)
      <4>1. i + 3 + 2 * n \in Nat
        BY <1>2
      <4> QED BY <1>3, <3>2, <4>1, GrammarWords
    <3> HIDE DEF open, list, close
    <3>7. both \in Seq(Spelled) /\ Len(both) = 2 * n /\ Stands(tokens, both, i + 3)
      <4>1. i + 3 \in Nat /\ i + 4 = (i + 3) + Len(open) /\ 1 + (2 * n - 1) = 2 * n
        BY <1>2, <3>4
      <4>2. Joined(tokens, open, list, i + 3)
        BY <3>4, <3>5, <4>1, StandsOn
      <4> QED BY <3>4, <3>5, <4>1, <4>2 DEF Joined
    <3> HIDE DEF both
    <3>8. /\ both \o close \in Seq(Spelled) /\ Len(both \o close) = 2 * n + 1
          /\ Stands(tokens, both \o close, i + 3)
      <4>1. i + 3 \in Nat /\ i + 3 + 2 * n = (i + 3) + Len(both)
        BY <1>2, <3>7
      <4>2. Joined(tokens, both, close, i + 3)
        BY <3>6, <3>7, <4>1, StandsOn
      <4> QED BY <3>6, <3>7, <4>2 DEF Joined
    <3>9. i + 3 + (2 * n + 1) = i + 4 + 2 * n
      BY <1>2
    <3> QED BY <3>1, <3>3, <3>8, <3>9
  <2> QED BY <2>1, <2>2
<1>8. /\ s3 \in Seq(Spelled) /\ i + Len(s3) = place /\ Stands(tokens, s3, i)
      /\ Keeps(s3, stmt.table)
  <2>1. i \in Nat /\ i + 3 = i + Len(s2) /\ Len(columns) \in Nat
    BY <1>6, <1>7, LenProperties
  <2>2. /\ s3 \in Seq(Spelled) /\ Len(s3) = 3 + Len(columns) /\ Stands(tokens, s3, i)
        /\ Keeps(s3, stmt.table)
    <3>1. Joined(tokens, s2, columns, i)
      BY <1>6, <1>7, <2>1, StandsOn
    <3> QED BY <1>6, <3>1 DEF Joined
  <2>3. i + (3 + Len(columns)) = i + 3 + Len(columns)
    BY <2>1
  <2> QED BY <1>7, <2>2, <2>3
<1>9. place \in Nat
  BY <1>8, LenProperties
<1>10. /\ tokens[place] = "VALUES" /\ tokens[place + 1] = "("
       /\ Listed(tokens, stmt.values, place + 2, "literal")
       /\ stmt.values # <<>> /\ tokens[place + 1 + 2 * m] = ")"
  BY DEF ValuesRead, ValuesOpen, m
<1> HIDE DEF s3, place
<1>11. /\ s4 \in Seq(Spelled) /\ i + Len(s4) = place + 2 /\ Stands(tokens, s4, i)
       /\ Keeps(s4, stmt.table)
  <2> DEFINE open == Fixed(<<"VALUES", "(">>)
  <2>1. open \in Seq(Spelled) /\ Len(open) = 2 /\ Stands(tokens, open, place)
    BY <1>3, <1>9, <1>10, GrammarPair
  <2> HIDE DEF open
  <2>2. /\ s3 \o open \in Seq(Spelled) /\ Len(s3 \o open) = Len(s3) + 2
        /\ Stands(tokens, s3 \o open, i) /\ Keeps(s3 \o open, stmt.table)
    <3>1. place = i + Len(s3) /\ i \in Nat
      BY <1>8
    <3>2. Joined(tokens, s3, open, i)
      BY <1>8, <2>1, <3>1, StandsOn
    <3> QED BY <1>8, <2>1, <3>2 DEF Joined
  <2>3. Len(s3) \in Nat
    BY <1>8, LenProperties
  <2>4. i + (Len(s3) + 2) = place + 2
    BY <1>8, <2>3
  <2> QED BY <2>2, <2>4 DEF open
<1> HIDE DEF s4
<1>12. /\ s5 \in Seq(Spelled) /\ i + Len(s5) = place + 1 + 2 * m /\ Stands(tokens, s5, i)
       /\ Keeps(s5, stmt.table)
  <2>1. values \in Seq(Spelled) /\ Len(values) = 2 * m - 1 /\ Stands(tokens, values, place + 2)
    <3>1. place + 2 \in Nat
      BY <1>9
    <3> QED BY <1>2, <1>3, <1>10, <3>1, ListStands DEF m, values
  <2> HIDE DEF values
  <2>2. /\ s5 \in Seq(Spelled) /\ Len(s5) = Len(s4) + (2 * m - 1)
        /\ Stands(tokens, s5, i) /\ Keeps(s5, stmt.table)
    <3>1. place + 2 = i + Len(s4) /\ i \in Nat
      BY <1>11
    <3>2. Joined(tokens, s4, values, i)
      BY <1>11, <2>1, <3>1, StandsOn
    <3> QED BY <1>11, <2>1, <3>2 DEF Joined
  <2>3. Len(s4) \in Nat
    BY <1>11, LenProperties
  <2>4. i + (Len(s4) + (2 * m - 1)) = place + 1 + 2 * m
    <3>1. m \in Nat /\ i \in Nat /\ i + Len(s4) = place + 2
      BY <1>2, <1>11
    <3> HIDE DEF m
    <3> QED BY <1>9, <2>3, <3>1
  <2> QED BY <2>2, <2>4
<1> HIDE DEF s5
<1>13. /\ s6 \in Seq(Spelled) /\ i + Len(s6) - 1 = place + 1 + 2 * m /\ Stands(tokens, s6, i)
       /\ Keeps(s6, stmt.table)
  <2> DEFINE close == Fixed(<<")">>)
  <2>1. close \in Seq(Spelled) /\ Len(close) = 1 /\ Stands(tokens, close, place + 1 + 2 * m)
    <3>1. place + 1 + 2 * m \in Nat
      BY <1>2, <1>9
    <3> QED BY <1>3, <1>10, <3>1, GrammarWords
  <2> HIDE DEF close
  <2>2. /\ s5 \o close \in Seq(Spelled) /\ Len(s5 \o close) = Len(s5) + 1
        /\ Stands(tokens, s5 \o close, i) /\ Keeps(s5 \o close, stmt.table)
    <3>1. place + 1 + 2 * m = i + Len(s5) /\ i \in Nat
      BY <1>12
    <3>2. Joined(tokens, s5, close, i)
      BY <1>12, <2>1, <3>1, StandsOn
    <3> QED BY <1>12, <2>1, <3>2 DEF Joined
  <2>3. Len(s5) \in Nat
    BY <1>12, LenProperties
  <2>4. i + (Len(s5) + 1) - 1 = place + 1 + 2 * m
    BY <1>12, <2>3
  <2> QED BY <2>2, <2>4 DEF close
<1>14. stmt.table \in Nat \ {0}
  BY DEF TableRead
<1>15. place + 1 + 2 * m \in 1..Final
  BY DEF place, m
<1> HIDE DEF s6
<1> QED BY <1>1, <1>13, <1>14, <1>15, SpelledThere DEF place, m

LEMMA ConditionStands ==
  ASSUME NEW t, NEW from \in Nat, NEW column \in Nat, NEW value \in Nat, NEW words,
         words = <<<<"WHERE", 0>>, <<"identifier", column>>, <<"=", 0>>, <<"literal", value>>>>,
         t[from] = "WHERE", t[from + 1] = "identifier", column = from + 1,
         t[from + 2] = "=", Word(t[from + 3]) = "literal", value = from + 3
  PROVE  words \in Seq(Spelled) /\ Len(words) = 4 /\ Stands(t, words, from)
<1>1. \A word \in {"WHERE", "identifier", "=", "literal"} : word \in Words
  BY DEF Words, Kinds
<1>2. Word("WHERE") = "WHERE" /\ Word("identifier") = "identifier" /\ Word("=") = "="
  BY DEF Word
<1> DEFINE a == <<"WHERE", 0>>
           b == <<"identifier", column>>
           c == <<"=", 0>>
           d == <<"literal", value>>
<1>3. /\ a \in Spelled /\ a[1] = "WHERE" /\ a[2] = 0
      /\ b \in Spelled /\ b[1] = "identifier" /\ b[2] = column
      /\ c \in Spelled /\ c[1] = "=" /\ c[2] = 0
      /\ d \in Spelled /\ d[1] = "literal" /\ d[2] = value
  BY <1>1 DEF Spelled
<1> HIDE DEF a, b, c, d
<1>4. words = <<a, b, c, d>>
  BY DEF a, b, c, d
<1>5. words \in Seq(Spelled) /\ Len(words) = 4
      /\ words[1] = a /\ words[2] = b /\ words[3] = c /\ words[4] = d
  BY <1>3, <1>4
<1>6. ASSUME NEW k \in 1..4
      PROVE  words[k][1] = Word(t[from + k - 1]) /\ words[k][2] \in {0, from + k - 1}
  <2>1. CASE k = 1
    <3>1. from + k - 1 = from
      BY <2>1
    <3> QED BY <1>2, <1>3, <1>5, <2>1, <3>1
  <2>2. CASE k = 2
    <3>1. from + k - 1 = from + 1
      BY <2>2
    <3> QED BY <1>2, <1>3, <1>5, <2>2, <3>1
  <2>3. CASE k = 3
    <3>1. from + k - 1 = from + 2
      BY <2>3
    <3> QED BY <1>2, <1>3, <1>5, <2>3, <3>1
  <2>4. CASE k = 4
    <3>1. from + k - 1 = from + 3
      BY <2>4
    <3> QED BY <1>2, <1>3, <1>5, <2>4, <3>1
  <2> QED BY <2>1, <2>2, <2>3, <2>4
<1> QED BY <1>5, <1>6 DEF Stands

LEMMA SelectIsSpelled ==
  ASSUME TokensOK, StmtOK, stmt.type = "select", NEW i \in Nat \ {0}, NEW end \in Nat,
         ProjectionRead(tokens, i, stmt.columns, stmt.all),
         FromRead(tokens, FromPlace(i, stmt.columns), stmt.table),
         ConditionRead(tokens, FromPlace(i, stmt.columns), stmt.where_column, stmt.where_value, end),
         end - 1 \in 1..Final
  PROVE  FirstToken(stmt) = i /\ IsSpelled(stmt) /\ LastToken(stmt) = end - 1
<1> DEFINE n == Len(stmt.columns)
           place == FromPlace(i, stmt.columns)
           table == <<<<"identifier", stmt.table>>>>
           projection == IF stmt.all THEN Fixed(<<"*">>) ELSE SpelledList("identifier", stmt.columns)
           where == IF stmt.where_column = 0 THEN <<>>
                    ELSE <<<<"WHERE", 0>>, <<"identifier", stmt.where_column>>,
                           <<"=", 0>>, <<"literal", stmt.where_value>>>>
           s1 == Fixed(<<"SELECT">>)
           s2 == s1 \o projection
           s3 == s2 \o Fixed(<<"FROM">>)
           s4 == s3 \o table
           s5 == s4 \o where
<1>1. Spelling(stmt) = s5
  BY DEF Spelling
<1>2. /\ n \in Nat /\ stmt.columns \in Seq(Nat) /\ (stmt.columns # <<>> => n > 0)
      /\ stmt.where_column \in Nat /\ stmt.where_value \in Nat
  BY LenProperties, EmptySeq DEF StmtOK
<1>3. /\ \A word \in {"SELECT", "*", "identifier", "FROM"} : word \in Words /\ Word(word) = word
  BY DEF Words, Kinds, Word
<1>4. s1 \in Seq(Spelled) /\ Len(s1) = 1 /\ Stands(tokens, s1, i)
  BY <1>3, GrammarWords DEF ProjectionRead
<1> HIDE DEF n, projection, where, s1, table
<1>5. /\ projection \in Seq(Spelled) /\ Len(projection) = place - (i + 1)
      /\ Stands(tokens, projection, i + 1) /\ place \in Nat
  <2>1. CASE stmt.columns = <<>>
    <3>1. projection = Fixed(<<"*">>) /\ place = i + 2 /\ tokens[i + 1] = "*"
      BY <2>1 DEF projection, FromPlace, ProjectionRead
    <3>2. i + 1 \in Nat /\ (i + 2) - (i + 1) = 1
      OBVIOUS
    <3> QED BY <1>3, <3>1, <3>2, GrammarWords
  <2>2. CASE stmt.columns # <<>>
    <3>1. /\ projection = SpelledList("identifier", stmt.columns) /\ place = i + 2 * n
          /\ Listed(tokens, stmt.columns, i + 1, "identifier")
      BY <2>2 DEF projection, FromPlace, ProjectionRead, n
    <3>2. i + 1 \in Nat /\ (i + 2 * n) - (i + 1) = 2 * n - 1 /\ i + 2 * n \in Nat
      BY <1>2
    <3>3. /\ projection \in Seq(Spelled) /\ Len(projection) = 2 * n - 1
          /\ Stands(tokens, projection, i + 1)
      BY <1>2, <1>3, <2>2, <3>1, <3>2, ListStands DEF n
    <3> QED BY <3>1, <3>2, <3>3
  <2> QED BY <2>1, <2>2
<1>6. tokens[place] = "FROM" /\ tokens[place + 1] = "identifier" /\ stmt.table = place + 1
  BY DEF FromRead
<1>7. \/ stmt.where_column = 0 /\ end = place + 2
      \/ /\ stmt.where_column = place + 3 /\ stmt.where_value = place + 5 /\ end = place + 6
         /\ stmt.where_column # 0
         /\ tokens[place + 2] = "WHERE" /\ tokens[place + 3] = "identifier"
         /\ tokens[place + 4] = "=" /\ Word(tokens[place + 5]) = "literal"
  BY DEF ConditionRead, WhereRead
<1> HIDE DEF place
<1>8. s2 \in Seq(Spelled) /\ i + Len(s2) = place /\ Stands(tokens, s2, i) /\ Len(s2) \in Nat
  <2>1. i + 1 = i + Len(s1) /\ i \in Nat /\ i + (1 + (place - (i + 1))) = place
    BY <1>4, <1>5
  <2>2. Joined(tokens, s1, projection, i)
    BY <1>4, <1>5, <2>1, StandsOn
  <2>3. s2 \in Seq(Spelled) /\ Len(s2) = 1 + (place - (i + 1)) /\ Stands(tokens, s2, i)
    BY <1>4, <1>5, <2>2 DEF Joined
  <2> QED BY <2>1, <2>3, LenProperties
<1> HIDE DEF s2
<1>9. s3 \in Seq(Spelled) /\ i + Len(s3) = place + 1 /\ Stands(tokens, s3, i) /\ Len(s3) \in Nat
  <2> DEFINE from == Fixed(<<"FROM">>)
  <2>1. from \in Seq(Spelled) /\ Len(from) = 1 /\ Stands(tokens, from, place)
    BY <1>3, <1>5, <1>6, GrammarWords
  <2> HIDE DEF from
  <2>2. place = i + Len(s2) /\ i \in Nat /\ i + (Len(s2) + 1) = place + 1
    BY <1>8
  <2>3. Joined(tokens, s2, from, i)
    BY <1>8, <2>1, <2>2, StandsOn
  <2>4. s2 \o from \in Seq(Spelled) /\ Len(s2 \o from) = Len(s2) + 1 /\ Stands(tokens, s2 \o from, i)
    BY <2>1, <2>3 DEF Joined
  <2> QED BY <2>2, <2>4, LenProperties DEF from
<1> HIDE DEF s3
<1>10. /\ s4 \in Seq(Spelled) /\ i + Len(s4) = place + 2 /\ Stands(tokens, s4, i)
       /\ Keeps(s4, stmt.table) /\ Len(s4) \in Nat
  <2>1. /\ table \in Seq(Spelled) /\ Len(table) = 1 /\ Stands(tokens, table, place + 1)
        /\ Keeps(table, stmt.table)
    <3>1. place + 1 \in Nat /\ stmt.table \in {0, place + 1} /\ Word(tokens[place + 1]) = "identifier"
      BY <1>3, <1>5, <1>6
    <3> QED BY <1>3, <3>1, WordStands DEF table
  <2>2. place + 1 = i + Len(s3) /\ i \in Nat /\ i + (Len(s3) + 1) = place + 2
    BY <1>5, <1>9
  <2>3. Joined(tokens, s3, table, i)
    BY <1>9, <2>1, <2>2, StandsOn
  <2>4. /\ s4 \in Seq(Spelled) /\ Len(s4) = Len(s3) + 1 /\ Stands(tokens, s4, i)
        /\ Keeps(s4, stmt.table)
    BY <2>1, <2>3 DEF Joined
  <2> QED BY <2>2, <2>4, LenProperties
<1> HIDE DEF s4
<1>11. where \in Seq(Spelled) /\ Stands(tokens, where, place + 2) /\ place + 2 + Len(where) = end
  <2>1. CASE stmt.where_column = 0
    <3>1. where = <<>> /\ end = place + 2
      BY <1>5, <1>7, <2>1 DEF where
    <3>2. Stands(tokens, <<>>, place + 2) /\ <<>> \in Seq(Spelled) /\ Len(<<>>) = 0
      BY EmptySeq DEF Stands
    <3>3. place + 2 + 0 = place + 2
      BY <1>5
    <3> QED BY <3>1, <3>2, <3>3
  <2>2. CASE stmt.where_column # 0
    <3>1. /\ where = <<<<"WHERE", 0>>, <<"identifier", stmt.where_column>>,
                       <<"=", 0>>, <<"literal", stmt.where_value>>>>
          /\ tokens[place + 2] = "WHERE" /\ tokens[place + 3] = "identifier"
          /\ tokens[place + 4] = "=" /\ Word(tokens[place + 5]) = "literal"
          /\ stmt.where_column = place + 3 /\ stmt.where_value = place + 5 /\ end = place + 6
      BY <1>7, <2>2 DEF where
    <3>2. /\ place + 2 \in Nat /\ (place + 2) + 1 = place + 3 /\ (place + 2) + 2 = place + 4
          /\ (place + 2) + 3 = place + 5 /\ place + 2 + 4 = place + 6
      BY <1>5
    <3>3. where \in Seq(Spelled) /\ Len(where) = 4 /\ Stands(tokens, where, place + 2)
      BY <1>2, <3>1, <3>2, ConditionStands
    <3> QED BY <3>1, <3>2, <3>3
  <2> QED BY <2>1, <2>2
<1>12. /\ s5 \in Seq(Spelled) /\ i + Len(s5) - 1 = end - 1 /\ Stands(tokens, s5, i)
       /\ Keeps(s5, stmt.table)
  <2>1. place + 2 = i + Len(s4) /\ i \in Nat /\ Len(where) \in Nat
    BY <1>10, <1>11, LenProperties
  <2>2. i + (Len(s4) + Len(where)) - 1 = end - 1
    <3> DEFINE k == Len(s4)
               l == Len(where)
    <3>1. k \in Nat /\ l \in Nat /\ place \in Nat /\ place + 2 = i + k /\ place + 2 + l = end
      BY <1>5, <1>10, <1>11, <2>1
    <3> HIDE DEF k, l
    <3>2. i + (k + l) - 1 = end - 1
      BY <3>1
    <3> QED BY <3>2 DEF k, l
  <2>3. Joined(tokens, s4, where, i)
    BY <1>10, <1>11, <2>1, StandsOn
  <2>4. /\ s5 \in Seq(Spelled) /\ Len(s5) = Len(s4) + Len(where) /\ Stands(tokens, s5, i)
        /\ Keeps(s5, stmt.table)
    BY <1>10, <2>3 DEF Joined
  <2> QED BY <2>2, <2>4
<1>13. stmt.table \in Nat \ {0}
  BY <1>5, <1>6
<1> HIDE DEF s5
<1> QED BY <1>1, <1>12, <1>13, SpelledThere

-----------------------------------------------------------------------------
(* What has been executed is what is written.                              *)

EndOf(statements) ==
    IF statements = <<>> THEN 0 ELSE LastToken(statements[Len(statements)])

ExecutedOK ==
    \A n \in DOMAIN executed :
       /\ IsSpelled(executed[n])
       /\ OnlySemicolons(IF n = 1 THEN 1 ELSE LastToken(executed[n - 1]) + 1,
                         FirstToken(executed[n]) - 1)

\* Up to main's cursor, or to the statement to execute, the script is executed.
WrittenInv ==
    /\ \E S : executed \in Seq(S)
    /\ ExecutedOK /\ EndOf(executed) \in Nat
    /\ pc \notin {"execute", "failed", "ended"} =>
          OnlySemicolons(EndOf(executed) + 1, cursor - 1)
    /\ pc = "execute" => /\ IsSpelled(stmt) /\ LastToken(stmt) \in Nat
                         /\ OnlySemicolons(EndOf(executed) + 1, FirstToken(stmt) - 1)
                         /\ OnlySemicolons(LastToken(stmt) + 1, cursor - 1)
    /\ pc = "done" => cursor = Final
    /\ pc = "failed" => status # "OK"
    /\ pc = "ended" /\ status = "OK" =>
          executed # <<>> /\ OnlySemicolons(EndOf(executed) + 1, Final - 1)

LEMMA WrittenStart == Init => WrittenInv
<1> SUFFICES ASSUME Init PROVE WrittenInv
  OBVIOUS
<1>1. executed = <<>> /\ cursor = 1 /\ pc = "start"
  BY DEF Init
<1>2. executed \in Seq({}) /\ DOMAIN executed = {} /\ EndOf(executed) = 0
  BY <1>1, EmptySeq DEF EndOf
<1>3. OnlySemicolons(EndOf(executed) + 1, cursor - 1)
  <2>1. EndOf(executed) + 1 = 1 /\ cursor - 1 = 0
    BY <1>1, <1>2
  <2>2. OnlySemicolons(1, 0)
    <3>1. 1..0 = {}
      OBVIOUS
    <3> QED BY <3>1, Zenon DEF OnlySemicolons
  <2> QED BY <2>1, <2>2
<1> QED BY <1>1, <1>2, <1>3 DEF WrittenInv, ExecutedOK

\* A step between the statements, or in one, leaves the executed part alone.
LEMMA NothingExecuted ==
  ASSUME WrittenInv, UNCHANGED <<tokens, executed>>
  PROVE  /\ \E S : executed' \in Seq(S)
         /\ ExecutedOK' /\ EndOf(executed)' \in Nat
         /\ \A a, b : OnlySemicolons(a, b)' <=> OnlySemicolons(a, b)
         /\ EndOf(executed)' = EndOf(executed)
<1>1. \E S : executed' \in Seq(S)
  BY DEF WrittenInv
<1>2. \A a, b : OnlySemicolons(a, b)' <=> OnlySemicolons(a, b)
  BY DEF OnlySemicolons
<1>3. \A s : IsSpelled(s)' <=> IsSpelled(s)
  BY DEF IsSpelled
<1>4. ExecutedOK'
  <2> SUFFICES ASSUME NEW n \in DOMAIN executed
               PROVE  /\ IsSpelled(executed[n])'
                      /\ OnlySemicolons(IF n = 1 THEN 1 ELSE LastToken(executed[n - 1]) + 1,
                                        FirstToken(executed[n]) - 1)'
    BY DEF ExecutedOK
  <2>1. /\ IsSpelled(executed[n])
        /\ OnlySemicolons(IF n = 1 THEN 1 ELSE LastToken(executed[n - 1]) + 1,
                          FirstToken(executed[n]) - 1)
    BY DEF WrittenInv, ExecutedOK
  <2> QED BY <2>1 DEF OnlySemicolons, IsSpelled
<1>5. EndOf(executed)' = EndOf(executed) /\ EndOf(executed) \in Nat
  BY DEF EndOf, WrittenInv
<1> QED BY <1>1, <1>2, <1>4, <1>5

LEMMA ParsedIsWritten ==
  ASSUME CursorInv, CursorInv', HeapInv, ReadingOK, WrittenInv, Parsed
  PROVE  /\ IsSpelled(stmt) /\ FirstToken(stmt) = cursor /\ LastToken(stmt) = current - 1
         /\ LastToken(stmt) \in Nat /\ OnlySemicolons(LastToken(stmt) + 1, cursor' - 1)
<1>1. /\ pc = "parsed" /\ UNCHANGED tokens
      /\ cursor' = IF tokens[current] = ";" THEN current + 1 ELSE current
  BY DEF Parsed, Peek
<1>2. /\ cursor \in Nat \ {0} /\ current \in Nat \ {0} /\ Len(stmt.values) \in Nat
      /\ ValuesPlace(cursor, stmt.columns) \in Nat \ {0}
  BY Places DEF HeapInv
<1>3. current \in 1..Final /\ TokensOK /\ StmtOK
  BY DEF CursorInv, CursorInBounds, TokensOK, HeapInv
<1>4. stmt.type \in {"insert", "select"}
  BY <1>3 DEF StmtOK
<1>5. current - 1 \in 1..Final /\ IsSpelled(stmt) /\ FirstToken(stmt) = cursor
      /\ LastToken(stmt) = current - 1
  <2>1. CASE stmt.type = "insert"
    <3> DEFINE place == ValuesPlace(cursor, stmt.columns)
               m == Len(stmt.values)
    <3>1. Inserting("parsed", tokens, stmt, cursor, current)
      BY <1>1, <2>1, InsertIsRead DEF InInsert
    <3>2. /\ TableRead(tokens, cursor, stmt.table) /\ ColumnsRead(tokens, cursor, stmt.columns)
          /\ ValuesRead(tokens, place, stmt.values) /\ current = place + 2 + 2 * m
      BY <3>1 DEF Inserting
    <3>3. place \in Nat \ {0} /\ m \in Nat /\ Final \in Nat
      BY <1>2, <1>3 DEF TokensOK
    <3> HIDE DEF place, m
    <3>4. current - 1 = place + 1 + 2 * m /\ place + 1 + 2 * m \in 1..Final
      BY <1>3, <3>2, <3>3
    <3> QED BY <1>2, <1>3, <2>1, <3>2, <3>4, InsertIsSpelled DEF place, m
  <2>2. CASE stmt.type = "select"
    <3> DEFINE place == FromPlace(cursor, stmt.columns)
    <3>1. Selecting("parsed", tokens, stmt, cursor, current)
      BY <1>1, <2>2, SelectIsRead DEF InSelect
    <3>2. /\ ProjectionRead(tokens, cursor, stmt.columns, stmt.all)
          /\ FromRead(tokens, place, stmt.table)
          /\ ConditionRead(tokens, place, stmt.where_column, stmt.where_value, current)
      BY <3>1 DEF Selecting
    <3>3. place \in Nat \ {0} /\ Final \in Nat
      BY <1>3, Places DEF TokensOK, HeapInv
    <3>4. current = place + 2 \/ current = place + 6
      BY <3>2 DEF ConditionRead
    <3> HIDE DEF place
    <3>5. current - 1 \in 1..Final /\ current \in Nat
      BY <1>3, <3>3, <3>4
    <3> QED BY <1>2, <1>3, <2>2, <3>2, <3>5, SelectIsSpelled DEF place
  <2> QED BY <1>4, <2>1, <2>2
<1>6. ASSUME NEW p \in (LastToken(stmt) + 1)..(cursor' - 1) PROVE tokens[p] = ";"
  <2>1. LastToken(stmt) + 1 = current
    BY <1>2, <1>5
  <2>2. CASE tokens[current] = ";"
    <3>1. p \in current..((current + 1) - 1)
      BY <1>1, <2>1, <2>2
    <3>2. p = current
      BY <1>2, <3>1
    <3> QED BY <2>2, <3>2
  <2>3. CASE tokens[current] # ";"
    <3>1. p \in current..(current - 1)
      BY <1>1, <2>1, <2>3
    <3>2. FALSE
      BY <1>2, <3>1
    <3> QED BY <3>2
  <2> QED BY <2>2, <2>3
<1>7. LastToken(stmt) \in Nat
  BY <1>2, <1>5
<1> QED BY <1>5, <1>6, <1>7 DEF OnlySemicolons

LEMMA SemicolonsJoin ==
  ASSUME NEW a \in Int, NEW b \in Int, NEW c \in Int,
         OnlySemicolons(a, b - 1), OnlySemicolons(b, c - 1)
  PROVE  OnlySemicolons(a, c - 1)
<1> SUFFICES ASSUME NEW p \in a..(c - 1) PROVE tokens[p] = ";"
  BY DEF OnlySemicolons
<1>1. p \in a..(b - 1) \/ p \in b..(c - 1)
  OBVIOUS
<1> QED BY <1>1 DEF OnlySemicolons

\* A step of the parser that does not complete the statement.
LEMMA StillParsing ==
  ASSUME Parse, ~Parsed
  PROVE  /\ pc \notin {"execute", "done", "failed", "ended"}
         /\ pc' \notin {"execute", "done", "ended"}
         /\ pc' = "failed" => status' # "OK"
         /\ UNCHANGED <<tokens, cursor, executed>>
<1>1. ParseFails => /\ pc' = "failed" /\ status' = "PARSE_ERROR"
                    /\ UNCHANGED <<tokens, cursor, executed>>
  BY DEF ParseFails
<1>2. CASE NextStatement
  BY <1>2 DEF NextStatement, NotAStatement
<1>3. CASE \/ Expect("into", "INTO", "table") \/ Expect("columns_end", ")", "values")
           \/ Expect("values", "VALUES", "values_open") \/ Expect("values_open", "(", "value")
           \/ Expect("values_end", ")", "parsed") \/ Expect("from", "FROM", "table")
           \/ Expect("equal", "=", "where_value")
  BY <1>1, <1>3 DEF Expect
<1>4. CASE Table \/ WhereColumn \/ WhereValue
  BY <1>1, <1>4 DEF Table, WhereColumn, WhereValue
<1>5. CASE Columns \/ Projection \/ Where
  BY <1>5 DEF Columns, Projection, Where, Optional
<1>6. CASE Column \/ Value
  BY <1>1, <1>6 DEF Column, Value, OutOfMemory, AfterItem
<1> QED BY <1>2, <1>3, <1>4, <1>5, <1>6 DEF Parse

LEMMA ExecuteIsWritten ==
  ASSUME WrittenInv, Execute
  PROVE  WrittenInv'
<1>1. /\ pc = "execute" /\ pc' = "report" /\ executed' = Append(executed, stmt)
      /\ UNCHANGED <<tokens, cursor>>
  BY DEF Execute
<1>2. PICK S : executed \in Seq(S)
  BY DEF WrittenInv
<1>3. /\ executed' \in Seq(S \cup {stmt}) /\ Len(executed) \in Nat
      /\ Len(executed') = Len(executed) + 1
      /\ \A n \in 1..Len(executed) : executed'[n] = executed[n]
      /\ executed'[Len(executed) + 1] = stmt
      /\ DOMAIN executed = 1..Len(executed) /\ DOMAIN executed' = 1..(Len(executed) + 1)
  BY <1>1, <1>2, AppendAt
<1>4. /\ IsSpelled(stmt) /\ LastToken(stmt) \in Nat /\ ExecutedOK
      /\ OnlySemicolons(EndOf(executed) + 1, FirstToken(stmt) - 1)
      /\ OnlySemicolons(LastToken(stmt) + 1, cursor - 1)
  BY <1>1 DEF WrittenInv
<1>5. executed' # <<>> /\ EndOf(executed)' = LastToken(stmt)
  <2>1. executed' # <<>>
    BY <1>3, EmptySeq
  <2> QED BY <1>3, <2>1 DEF EndOf
<1>6. \A a, b : OnlySemicolons(a, b)' <=> OnlySemicolons(a, b)
  BY <1>1 DEF OnlySemicolons
<1>7. ASSUME NEW n \in DOMAIN executed'
      PROVE  /\ IsSpelled(executed'[n])
             /\ OnlySemicolons(IF n = 1 THEN 1 ELSE LastToken(executed'[n - 1]) + 1,
                               FirstToken(executed'[n]) - 1)
  <2>1. CASE n \in 1..Len(executed)
    <3>1. n # 1 => n - 1 \in 1..Len(executed)
      BY <1>3, <2>1
    <3>2. executed'[n] = executed[n] /\ (n # 1 => executed'[n - 1] = executed[n - 1])
      BY <1>3, <2>1, <3>1
    <3>3. n \in DOMAIN executed
      BY <1>3, <2>1
    <3> QED BY <1>4, <3>2, <3>3 DEF ExecutedOK
  <2>2. CASE n = Len(executed) + 1
    <3>1. executed'[n] = stmt
      BY <1>3, <2>2
    <3>2. (IF n = 1 THEN 1 ELSE LastToken(executed'[n - 1]) + 1) = EndOf(executed) + 1
      <4>1. CASE executed = <<>>
        <5>1. n = 1 /\ EndOf(executed) = 0
          BY <2>2, <4>1, EmptySeq DEF EndOf
        <5> QED BY <5>1
      <4>2. CASE executed # <<>>
        <5>1. Len(executed) # 0
          BY <1>2, <4>2, EmptySeq
        <5>2. n # 1 /\ n - 1 = Len(executed) /\ n - 1 \in 1..Len(executed)
          BY <1>3, <2>2, <5>1
        <5>3. EndOf(executed) = LastToken(executed[n - 1]) /\ executed'[n - 1] = executed[n - 1]
          BY <1>3, <4>2, <5>2 DEF EndOf
        <5> QED BY <5>2, <5>3
      <4> QED BY <4>1, <4>2
    <3> QED BY <1>4, <3>1, <3>2
  <2>3. n \in 1..Len(executed) \/ n = Len(executed) + 1
    BY <1>3
  <2> QED BY <2>1, <2>2, <2>3
<1>8. \A s : IsSpelled(s)' <=> IsSpelled(s)
  BY <1>1 DEF IsSpelled
<1>9. ExecutedOK'
  <2> SUFFICES ASSUME NEW n \in DOMAIN executed'
               PROVE  /\ IsSpelled(executed[n])'
                      /\ OnlySemicolons(IF n = 1 THEN 1 ELSE LastToken(executed[n - 1]) + 1,
                                        FirstToken(executed[n]) - 1)'
    BY DEF ExecutedOK
  <2>1. IsSpelled(executed[n])'
    <3>1. IsSpelled(executed'[n])
      BY <1>7
    <3> QED BY <1>1, <3>1 DEF IsSpelled
  <2>2. OnlySemicolons(IF n = 1 THEN 1 ELSE LastToken(executed[n - 1]) + 1,
                       FirstToken(executed[n]) - 1)'
    <3>1. OnlySemicolons(IF n = 1 THEN 1 ELSE LastToken(executed'[n - 1]) + 1,
                         FirstToken(executed'[n]) - 1)
      BY <1>7
    <3> QED BY <1>1, <3>1 DEF OnlySemicolons
  <2> QED BY <2>1, <2>2
<1>10. OnlySemicolons(EndOf(executed) + 1, cursor - 1)'
  BY <1>1, <1>4, <1>5 DEF OnlySemicolons
<1> QED BY <1>1, <1>3, <1>4, <1>5, <1>9, <1>10 DEF WrittenInv

LEMMA WrittenStep ==
  ASSUME CursorInv, CursorInv', HeapInv, ReadingOK, WrittenInv, [Next]_vars
  PROVE  WrittenInv'
<1>1. CASE Execute
  BY <1>1, ExecuteIsWritten
<1> SUFFICES ASSUME ~Execute PROVE WrittenInv'
  BY <1>1
<1>2. UNCHANGED <<tokens, executed>>
  <2>1. CASE Parse
    BY <2>1, StillParsing DEF Parsed
  <2>2. CASE Main
    BY <2>2 DEF Main, Start, StartFails, Makes, GivesUp, MainLoop,
                ExecuteFails, Report, Failed, Done
  <2> QED BY <2>1, <2>2 DEF Next, Ended, vars
<1>3. /\ \E S : executed' \in Seq(S)
      /\ ExecutedOK' /\ EndOf(executed)' \in Nat
      /\ EndOf(executed)' = EndOf(executed)
      /\ \A a, b : OnlySemicolons(a, b)' <=> OnlySemicolons(a, b)
  BY <1>2, NothingExecuted
<1>4. cursor \in 1..Final /\ TokensOK /\ Final \in Nat /\ UNCHANGED Final
  BY <1>2 DEF CursorInv, CursorInBounds, TokensOK, Final
<1>5. OnlySemicolons(EndOf(executed) + 1, cursor - 1)'
        <=> OnlySemicolons(EndOf(executed) + 1, cursor' - 1)
  BY <1>2, <1>3 DEF OnlySemicolons
<1>6. CASE Parsed
  <2>1. pc' = "execute" /\ UNCHANGED stmt /\ pc = "parsed"
    BY <1>6 DEF Parsed
  <2>2. /\ IsSpelled(stmt) /\ FirstToken(stmt) = cursor /\ LastToken(stmt) \in Nat
        /\ OnlySemicolons(LastToken(stmt) + 1, cursor' - 1)
    BY <1>6, ParsedIsWritten
  <2>3. OnlySemicolons(EndOf(executed) + 1, cursor - 1)
    BY <2>1 DEF WrittenInv
  <2>4. /\ IsSpelled(stmt)' /\ LastToken(stmt)' \in Nat
        /\ OnlySemicolons(EndOf(executed) + 1, FirstToken(stmt) - 1)'
        /\ OnlySemicolons(LastToken(stmt) + 1, cursor - 1)'
    BY <1>2, <2>1, <2>2, <2>3 DEF IsSpelled, OnlySemicolons
  <2> QED BY <1>3, <2>1, <2>4 DEF WrittenInv
<1>7. CASE Parse /\ ~Parsed
  <2>1. /\ pc \notin {"execute", "done", "failed", "ended"}
        /\ pc' \notin {"execute", "done", "ended"}
        /\ pc' = "failed" => status' # "OK"
        /\ UNCHANGED cursor
    BY <1>7, StillParsing
  <2>2. OnlySemicolons(EndOf(executed) + 1, cursor - 1)'
    BY <1>5, <2>1 DEF WrittenInv
  <2> QED BY <1>3, <2>1, <2>2 DEF WrittenInv
<1>8. CASE MainLoop
  <2>1. /\ pc = "main" /\ cursor' = AfterSemicolons(cursor)
        /\ pc' = IF tokens[cursor'] = "EOF" THEN "done" ELSE "parse"
    BY <1>8 DEF MainLoop
  <2>2. cursor' \in 1..Final /\ OnlySemicolons(cursor, cursor' - 1)
    BY <1>4, <2>1, SemicolonsEnd
  <2>3. OnlySemicolons(EndOf(executed) + 1, cursor - 1) /\ EndOf(executed) \in Nat
    BY <2>1 DEF WrittenInv
  <2>4. OnlySemicolons(EndOf(executed) + 1, cursor' - 1)
    <3>1. EndOf(executed) + 1 \in Int /\ cursor \in Int /\ cursor' \in Int
      BY <1>4, <2>2, <2>3
    <3> QED BY <2>2, <2>3, <3>1, SemicolonsJoin
  <2>5. pc' = "done" => cursor' = Final
    BY <1>4, <2>1, <2>2 DEF TokensOK
  <2>6. pc' \in {"done", "parse"}
    BY <2>1
  <2> QED BY <1>3, <1>4, <1>5, <2>4, <2>5, <2>6 DEF WrittenInv
<1>9. CASE Start \/ Report
  <2>1. /\ pc \in Starting \cup {"report"} /\ pc' \in {"tokenize", "context", "main"}
        /\ UNCHANGED cursor
    BY <1>9 DEF Start, Makes, Report, Starting
  <2>2. OnlySemicolons(EndOf(executed) + 1, cursor - 1)'
    BY <1>5, <2>1 DEF WrittenInv, Starting
  <2> QED BY <1>3, <2>1, <2>2 DEF WrittenInv, Starting
<1>10. CASE StartFails \/ ExecuteFails \/ Failed
  <2>1. pc' \in {"failed", "ended"} /\ status' # "OK"
    <3>1. pc = "failed" => status # "OK"
      BY DEF WrittenInv
    <3> QED BY <1>10, <3>1 DEF StartFails, GivesUp, ExecuteFails, Failed
  <2> QED BY <1>3, <2>1 DEF WrittenInv
<1>11. CASE Done
  <2>1. /\ pc = "done" /\ pc' = "ended"
        /\ status' = IF executed = <<>> THEN "PARSE_ERROR" ELSE "OK"
    BY <1>11 DEF Done
  <2>2. cursor = Final /\ OnlySemicolons(EndOf(executed) + 1, cursor - 1)
    BY <2>1 DEF WrittenInv
  <2>3. status' = "OK" => executed' # <<>>
    BY <1>2, <2>1
  <2>4. OnlySemicolons(EndOf(executed) + 1, Final - 1)'
    BY <1>2, <1>3, <1>4, <2>2 DEF OnlySemicolons
  <2> QED BY <1>3, <2>1, <2>3, <2>4 DEF WrittenInv
<1>12. CASE Ended \/ UNCHANGED vars
  <2>1. UNCHANGED <<pc, cursor, stmt, status, executed>>
    BY <1>12 DEF Ended, vars
  <2>2. /\ IsSpelled(stmt)' <=> IsSpelled(stmt)
        /\ OnlySemicolons(EndOf(executed) + 1, FirstToken(stmt) - 1)'
              <=> OnlySemicolons(EndOf(executed) + 1, FirstToken(stmt) - 1)
        /\ OnlySemicolons(LastToken(stmt) + 1, cursor - 1)'
              <=> OnlySemicolons(LastToken(stmt) + 1, cursor - 1)
        /\ OnlySemicolons(EndOf(executed) + 1, Final - 1)'
              <=> OnlySemicolons(EndOf(executed) + 1, Final - 1)
        /\ LastToken(stmt)' = LastToken(stmt)
    BY <1>2, <1>4, <2>1 DEF IsSpelled, OnlySemicolons
  <2> QED BY <1>3, <1>4, <1>5, <2>1, <2>2 DEF WrittenInv
<1> QED BY <1>6, <1>7, <1>8, <1>9, <1>10, <1>11, <1>12 DEF Next, Main

\* For every script, of any length, and whatever fails: the statements executed are the
\* ones written, each with its own parts in their order, none skipped and none twice, and
\* a session that ends well has executed them all.
THEOREM WhatIsWrittenIsExecuted == Spec => []ExecutesWhatIsWritten
<1>1. CursorInv /\ WrittenInv => ExecutesWhatIsWritten
  <2> SUFFICES ASSUME CursorInv, WrittenInv PROVE ExecutesWhatIsWritten
    OBVIOUS
  <2>1. ASSUME pc = "ended", status = "OK"
        PROVE  OnlySemicolons(LastToken(executed[Len(executed)]) + 1, Len(tokens) - 1)
    BY <2>1 DEF WrittenInv, EndOf, Final
  <2> QED BY <2>1 DEF ExecutesWhatIsWritten, WrittenInv, ExecutedOK
<1>2. Init => ReadingOK
  BY DEF Init, ReadingOK, InInsert, InSelect
<1> QED BY <1>1, <1>2, TokensStart, CursorStep, HeapStart, HeapStep, ReadingStep, WrittenStart,
        WrittenStep, PTL DEF Spec

-----------------------------------------------------------------------------
(* The sentences of the language, by the places of their words.            *)

\* The form of a statement is said by the tokens from a place on.
Says(form, from) == \A k \in 1..Len(form) : Word(tokens[from + k - 1]) = form[k]

SaysBoth(a, b, from, next) ==
    /\ a \o b \in Seq(Words) /\ Len(a \o b) = Len(a) + Len(b)
    /\ Says(a \o b, from) <=> Says(a, from) /\ Says(b, next)

LEMMA SaysConcat ==
  ASSUME NEW a \in Seq(Words), NEW b \in Seq(Words), NEW from \in Nat, NEW next,
         next = from + Len(a)
  PROVE  SaysBoth(a, b, from, next)
<1> DEFINE n == Len(a)
           m == Len(b)
           c == a \o b
<1>1. /\ n \in Nat /\ m \in Nat /\ c \in Seq(Words) /\ Len(c) = n + m
      /\ \A k \in 1..n : c[k] = a[k]
  BY ConcatProperties, LenProperties
<1>2. \A k \in 1..m : c[n + k] = b[k]
  <2> SUFFICES ASSUME NEW k \in 1..m PROVE c[n + k] = b[k]
    OBVIOUS
  <2>1. n + k \in 1..(n + m) /\ ~(n + k <= n) /\ (n + k) - n = k
    <3> HIDE DEF n, m
    <3> QED BY <1>1
  <2> QED BY <2>1, ConcatProperties
<1>3. next = from + n
  OBVIOUS
<1> HIDE DEF n, m, c
<1>4. ASSUME Says(c, from) PROVE Says(a, from)
  <2> SUFFICES ASSUME NEW k \in 1..n PROVE Word(tokens[from + k - 1]) = a[k]
    BY DEF Says, n
  <2>1. k \in 1..(n + m) /\ c[k] = a[k]
    BY <1>1
  <2> QED BY <1>1, <1>4, <2>1 DEF Says
<1>5. ASSUME Says(c, from) PROVE Says(b, next)
  <2> SUFFICES ASSUME NEW k \in 1..m PROVE Word(tokens[next + k - 1]) = b[k]
    BY DEF Says, m
  <2>1. n + k \in 1..(n + m) /\ from + (n + k) - 1 = next + k - 1
    <3>1. n \in Nat /\ m \in Nat
      BY <1>1
    <3> QED BY <1>3, <3>1
  <2>2. c[n + k] = b[k]
    BY <1>2
  <2> QED BY <1>1, <1>5, <2>1, <2>2 DEF Says
<1>6. ASSUME Says(a, from), Says(b, next) PROVE Says(c, from)
  <2> SUFFICES ASSUME NEW k \in 1..(n + m) PROVE Word(tokens[from + k - 1]) = c[k]
    BY <1>1 DEF Says
  <2>1. CASE k <= n
    <3>1. k \in 1..n /\ c[k] = a[k]
      BY <1>1, <2>1
    <3> QED BY <1>6, <3>1 DEF Says, n
  <2>2. CASE ~(k <= n)
    <3> DEFINE j == k - n
    <3>1. j \in 1..m /\ k = n + j /\ next + j - 1 = from + k - 1
      BY <1>1, <1>3, <2>2
    <3> HIDE DEF j
    <3>2. c[k] = b[j]
      BY <1>2, <3>1
    <3>3. Word(tokens[next + j - 1]) = b[j]
      BY <1>6, <3>1 DEF Says, m
    <3> QED BY <3>1, <3>2, <3>3
  <2> QED BY <2>1, <2>2
<1> QED BY <1>1, <1>4, <1>5, <1>6 DEF SaysBoth, n, m, c

LEMMA SaysWord ==
  ASSUME NEW word \in Words, NEW from \in Nat
  PROVE  /\ <<word>> \in Seq(Words) /\ Len(<<word>>) = 1
         /\ Says(<<word>>, from) <=> Word(tokens[from]) = word
<1> DEFINE form == <<word>>
<1>1. form \in Seq(Words) /\ Len(form) = 1 /\ form[1] = word
  OBVIOUS
<1> HIDE DEF form
<1>2. Says(form, from) <=> Word(tokens[from]) = word
  <2>1. \A k \in 1..1 : k = 1 /\ from + k - 1 = from
    OBVIOUS
  <2>2. Says(form, from) <=> \A k \in 1..1 : Word(tokens[from + k - 1]) = form[k]
    BY <1>1 DEF Says
  <2> QED BY <1>1, <2>1, <2>2
<1> QED BY <1>1, <1>2 DEF form

LEMMA SaysPair ==
  ASSUME NEW word \in Words, NEW other \in Words, NEW from \in Nat
  PROVE  /\ <<word, other>> \in Seq(Words) /\ Len(<<word, other>>) = 2
         /\ Says(<<word, other>>, from)
               <=> Word(tokens[from]) = word /\ Word(tokens[from + 1]) = other
<1> DEFINE form == <<word, other>>
<1>1. form \in Seq(Words) /\ Len(form) = 2 /\ form[1] = word /\ form[2] = other
  OBVIOUS
<1> HIDE DEF form
<1>2. Says(form, from) <=> Word(tokens[from]) = word /\ Word(tokens[from + 1]) = other
  <2>1. from + 1 - 1 = from /\ from + 2 - 1 = from + 1
    OBVIOUS
  <2>2. \A k \in 1..2 : k = 1 \/ k = 2
    OBVIOUS
  <2>3. Says(form, from) <=> \A k \in 1..2 : Word(tokens[from + k - 1]) = form[k]
    BY <1>1 DEF Says
  <2>4. (\A k \in 1..2 : Word(tokens[from + k - 1]) = form[k])
          <=> Word(tokens[from + 1 - 1]) = form[1] /\ Word(tokens[from + 2 - 1]) = form[2]
    BY <2>2
  <2> QED BY <1>1, <2>1, <2>3, <2>4
<1> QED BY <1>1, <1>2 DEF form

LEMMA SaysList ==
  ASSUME NEW word \in Words, NEW n \in Nat \ {0}, NEW from \in Nat, word \in {"identifier", "literal"}
  PROVE  /\ List(word, n) \in Seq(Words) /\ Len(List(word, n)) = 2 * n - 1
         /\ Says(List(word, n), from) <=> Items(tokens, from, n, word)
<1> DEFINE form == List(word, n)
<1>1. form = [k \in 1..(2 * n - 1) |-> IF k % 2 = 1 THEN word ELSE ","] /\ 2 * n - 1 \in Nat
  BY DEF List
<1>2. "," \in Words
  BY DEF Words, Kinds
<1> HIDE DEF form
<1>3. form \in [1..(2 * n - 1) -> Words]
  BY <1>1, <1>2
<1>4. form \in Seq(Words) /\ Len(form) = 2 * n - 1
  <2> DEFINE q == 2 * n - 1
  <2>1. q \in Nat /\ form \in [1..q -> Words]
    BY <1>1, <1>3
  <2> HIDE DEF q
  <2>2. form \in Seq(Words) /\ Len(form) = q
    BY <2>1, FunctionIsSeq
  <2> QED BY <2>2 DEF q
<1>5. ASSUME Says(form, from) PROVE Items(tokens, from, n, word)
  <2> SUFFICES ASSUME NEW k \in 1..n
               PROVE  /\ Word(tokens[from + 2 * k - 2]) = word
                      /\ k < n => tokens[from + 2 * k - 1] = ","
    BY DEF Items
  <2>1. Word(tokens[from + 2 * k - 2]) = word
    <3> DEFINE j == 2 * k - 1
    <3>1. j \in 1..(2 * n - 1) /\ j % 2 = 1 /\ from + j - 1 = from + 2 * k - 2
      OBVIOUS
    <3> HIDE DEF j
    <3>2. form[j] = word
      BY <1>1, <3>1
    <3> QED BY <1>4, <1>5, <3>1, <3>2 DEF Says
  <2>2. ASSUME k < n PROVE tokens[from + 2 * k - 1] = ","
    <3> DEFINE j == 2 * k
    <3>1. j \in 1..(2 * n - 1) /\ j % 2 # 1 /\ from + j - 1 = from + 2 * k - 1
      BY <2>2
    <3> HIDE DEF j
    <3>2. form[j] = ","
      BY <1>1, <3>1
    <3>3. Word(tokens[from + 2 * k - 1]) = ","
      BY <1>4, <1>5, <3>1, <3>2 DEF Says
    <3> QED BY <3>3 DEF Word
  <2> QED BY <2>1, <2>2
<1>6. ASSUME Items(tokens, from, n, word) PROVE Says(form, from)
  <2> SUFFICES ASSUME NEW k \in 1..(2 * n - 1) PROVE Word(tokens[from + k - 1]) = form[k]
    BY <1>4 DEF Says
  <2>1. CASE k % 2 = 1
    <3> DEFINE j == (k + 1) \div 2
    <3>1. j \in 1..n /\ from + 2 * j - 2 = from + k - 1
      BY <2>1
    <3> HIDE DEF j
    <3>2. form[k] = word /\ Word(tokens[from + 2 * j - 2]) = word
      BY <1>1, <1>6, <2>1, <3>1 DEF Items
    <3> QED BY <3>1, <3>2
  <2>2. CASE k % 2 # 1
    <3> DEFINE j == k \div 2
    <3>1. j \in 1..n /\ j < n /\ from + 2 * j - 1 = from + k - 1
      BY <2>2
    <3> HIDE DEF j
    <3>2. form[k] = "," /\ tokens[from + 2 * j - 1] = ","
      BY <1>1, <1>6, <2>2, <3>1 DEF Items
    <3>3. Word(",") = ","
      BY DEF Word
    <3> QED BY <3>1, <3>2, <3>3
  <2> QED BY <2>1, <2>2
<1> QED BY <1>4, <1>5, <1>6 DEF form

\* An INSERT of n columns, or of none named, and m values from a place on.
PlaceOfValues(i, n) == IF n = 0 THEN i + 3 ELSE i + 4 + 2 * n
EndOfInsert(i, n, m) == PlaceOfValues(i, n) + 1 + 2 * m
HasColumns(t, i, n) ==
    n # 0 => /\ t[i + 3] = "(" /\ Items(t, i + 4, n, "identifier")
             /\ t[i + 3 + 2 * n] = ")"
HasValues(t, at, m) ==
    /\ t[at] = "VALUES" /\ t[at + 1] = "("
    /\ Items(t, at + 2, m, "literal") /\ t[at + 1 + 2 * m] = ")"
IsInsert(t, i, n, m) ==
    /\ t[i] = "INSERT" /\ t[i + 1] = "INTO" /\ t[i + 2] = "identifier"
    /\ HasColumns(t, i, n) /\ HasValues(t, PlaceOfValues(i, n), m)

\* A SELECT of n columns, or of all.
PlaceOfFrom(i, n) == IF n = 0 THEN i + 2 ELSE i + 2 * n
EndOfSelect(i, n, where) == IF where THEN PlaceOfFrom(i, n) + 5 ELSE PlaceOfFrom(i, n) + 1
IsSelect(t, i, n, where) ==
    /\ t[i] = "SELECT"
    /\ IF n = 0 THEN t[i + 1] = "*" ELSE Items(t, i + 1, n, "identifier")
    /\ LET at == PlaceOfFrom(i, n) IN
       /\ t[at] = "FROM" /\ t[at + 1] = "identifier"
       /\ where => /\ t[at + 2] = "WHERE" /\ t[at + 3] = "identifier"
                   /\ t[at + 4] = "=" /\ Word(t[at + 5]) = "literal"

InsertSaid(i, n, m) ==
    /\ Len(InsertForm(n, m)) = EndOfInsert(i, n, m) - i + 1
    /\ DOMAIN InsertForm(n, m) = 1..Len(InsertForm(n, m))
    /\ Says(InsertForm(n, m), i) <=> IsInsert(tokens, i, n, m)

LEMMA InsertSays ==
  ASSUME NEW i \in Nat \ {0}, NEW n \in Nat, NEW m \in Nat \ {0}
  PROVE  InsertSaid(i, n, m)
<1> DEFINE head == <<"INSERT", "INTO", "identifier">>
           columns == IF n = 0 THEN <<>>
                      ELSE <<"(">> \o List("identifier", n) \o <<")">>
           open == <<"VALUES", "(">>
           values == List("literal", m)
           close == <<")">>
           s1 == head \o columns
           s2 == s1 \o open
           s3 == s2 \o values
           s4 == s3 \o close
           place == PlaceOfValues(i, n)
<1>1. InsertForm(n, m) = s4
  BY DEF InsertForm
<1>2. /\ \A word \in {"INSERT", "INTO", "identifier", "(", ")", "VALUES", "literal"} : word \in Words
      /\ \A word \in {"INSERT", "INTO", "identifier", "(", ")", "VALUES"} : \A kind :
            Word(kind) = word <=> kind = word
  BY DEF Words, Kinds, Word
<1>3. /\ head \in Seq(Words) /\ Len(head) = 3
      /\ Says(head, i) <=> /\ tokens[i] = "INSERT" /\ tokens[i + 1] = "INTO"
                           /\ tokens[i + 2] = "identifier"
  <2>1. head \in Seq(Words) /\ Len(head) = 3
        /\ head[1] = "INSERT" /\ head[2] = "INTO" /\ head[3] = "identifier"
    BY <1>2
  <2> HIDE DEF head
  <2>2. i + 1 - 1 = i /\ i + 2 - 1 = i + 1 /\ i + 3 - 1 = i + 2
    OBVIOUS
  <2>3. \A k \in 1..3 : k = 1 \/ k = 2 \/ k = 3
    OBVIOUS
  <2>4. Says(head, i) <=> \A k \in 1..3 : Word(tokens[i + k - 1]) = head[k]
    BY <2>1 DEF Says
  <2>5. (\A k \in 1..3 : Word(tokens[i + k - 1]) = head[k])
          <=> /\ Word(tokens[i + 1 - 1]) = head[1] /\ Word(tokens[i + 2 - 1]) = head[2]
              /\ Word(tokens[i + 3 - 1]) = head[3]
    BY <2>3
  <2> QED BY <1>2, <2>1, <2>2, <2>4, <2>5
<1> HIDE DEF head, columns, open, values, close
<1>4. /\ columns \in Seq(Words) /\ i + 3 + Len(columns) = place
      /\ Says(columns, i + 3) <=> HasColumns(tokens, i, n)
  <2>1. CASE n = 0
    <3>1. columns = <<>> /\ place = i + 3 /\ HasColumns(tokens, i, n)
      BY <2>1 DEF columns, PlaceOfValues, HasColumns
    <3>2. <<>> \in Seq(Words) /\ Len(<<>>) = 0
      BY EmptySeq
    <3>3. Says(<<>>, i + 3)
      <4>1. 1..0 = {}
        OBVIOUS
      <4> QED BY <3>2, <4>1, Zenon DEF Says
    <3> QED BY <3>1, <3>2, <3>3
  <2>2. CASE n # 0
    <3> DEFINE opens == <<"(">>
               list == List("identifier", n)
               closes == <<")">>
               both == opens \o list
    <3>1. columns = both \o closes /\ place = i + 4 + 2 * n
      BY <2>2 DEF columns, PlaceOfValues
    <3>2. n \in Nat \ {0} /\ i + 3 \in Nat /\ i + 4 \in Nat /\ i + 3 + 2 * n \in Nat
      BY <2>2
    <3>3. opens \in Seq(Words) /\ Len(opens) = 1 /\ (Says(opens, i + 3) <=> tokens[i + 3] = "(")
      BY <1>2, <3>2, SaysWord
    <3>4. /\ list \in Seq(Words) /\ Len(list) = 2 * n - 1
          /\ Says(list, i + 4) <=> Items(tokens, i + 4, n, "identifier")
      BY <1>2, <3>2, SaysList
    <3>5. /\ closes \in Seq(Words) /\ Len(closes) = 1
          /\ Says(closes, i + 3 + 2 * n) <=> tokens[i + 3 + 2 * n] = ")"
      BY <1>2, <3>2, SaysWord
    <3> HIDE DEF opens, list, closes
    <3>6. SaysBoth(opens, list, i + 3, i + 4)
      <4>1. i + 4 = i + 3 + Len(opens)
        BY <3>3
      <4> QED BY <3>2, <3>3, <3>4, <4>1, SaysConcat
    <3>7. /\ both \in Seq(Words) /\ Len(both) = 2 * n
          /\ Says(both, i + 3) <=> tokens[i + 3] = "(" /\ Items(tokens, i + 4, n, "identifier")
      <4>1. 1 + (2 * n - 1) = 2 * n
        BY <3>2
      <4> QED BY <3>3, <3>4, <3>6, <4>1 DEF SaysBoth
    <3> HIDE DEF both
    <3>8. SaysBoth(both, closes, i + 3, i + 3 + 2 * n)
      <4>1. i + 3 + 2 * n = i + 3 + Len(both)
        BY <3>7
      <4> QED BY <3>2, <3>5, <3>7, <4>1, SaysConcat
    <3>9. /\ columns \in Seq(Words) /\ Len(columns) = 2 * n + 1
          /\ Says(columns, i + 3) <=> HasColumns(tokens, i, n)
      BY <2>2, <3>1, <3>5, <3>7, <3>8 DEF SaysBoth, HasColumns
    <3>10. i + 3 + (2 * n + 1) = i + 4 + 2 * n
      BY <3>2
    <3> QED BY <3>1, <3>9, <3>10
  <2> QED BY <2>1, <2>2
<1>5. Len(columns) \in Nat /\ place \in Nat
  BY <1>4, LenProperties
<1> HIDE DEF place
<1>6. /\ s1 \in Seq(Words) /\ i + Len(s1) = place /\ Len(s1) \in Nat
      /\ Says(s1, i) <=> Says(head, i) /\ HasColumns(tokens, i, n)
  <2>1. i + 3 = i + Len(head) /\ i \in Nat /\ i + (3 + Len(columns)) = i + 3 + Len(columns)
    BY <1>3, <1>5
  <2>2. SaysBoth(head, columns, i, i + 3)
    BY <1>3, <1>4, <2>1, SaysConcat
  <2>3. s1 \in Seq(Words) /\ Len(s1) = 3 + Len(columns)
    BY <1>3, <2>2 DEF SaysBoth
  <2>4. i + Len(s1) = place /\ Len(s1) \in Nat
    BY <1>4, <2>1, <2>3, LenProperties
  <2> QED BY <1>4, <2>2, <2>3, <2>4 DEF SaysBoth
<1> HIDE DEF s1
<1>7. /\ s2 \in Seq(Words) /\ i + Len(s2) = place + 2 /\ Len(s2) \in Nat
      /\ Says(s2, i) <=> Says(s1, i) /\ tokens[place] = "VALUES" /\ tokens[place + 1] = "("
  <2>1. /\ open \in Seq(Words) /\ Len(open) = 2
        /\ Says(open, place) <=> tokens[place] = "VALUES" /\ tokens[place + 1] = "("
    BY <1>2, <1>5, SaysPair DEF open
  <2>2. place = i + Len(s1) /\ i \in Nat /\ i + (Len(s1) + 2) = place + 2
    BY <1>6
  <2>3. SaysBoth(s1, open, i, place)
    BY <1>6, <2>1, <2>2, SaysConcat
  <2>4. s2 \in Seq(Words) /\ Len(s2) = Len(s1) + 2
    BY <2>1, <2>3 DEF SaysBoth
  <2>5. i + Len(s2) = place + 2 /\ Len(s2) \in Nat
    BY <2>2, <2>4, LenProperties
  <2> QED BY <2>1, <2>3, <2>4, <2>5 DEF SaysBoth
<1> HIDE DEF s2
<1>8. /\ s3 \in Seq(Words) /\ i + Len(s3) = place + 1 + 2 * m /\ Len(s3) \in Nat
      /\ Says(s3, i) <=> Says(s2, i) /\ Items(tokens, place + 2, m, "literal")
  <2>1. /\ values \in Seq(Words) /\ Len(values) = 2 * m - 1
        /\ Says(values, place + 2) <=> Items(tokens, place + 2, m, "literal")
    <3>1. place + 2 \in Nat
      BY <1>5
    <3> QED BY <1>2, <3>1, SaysList DEF values
  <2>2. place + 2 = i + Len(s2) /\ i \in Nat /\ i + (Len(s2) + (2 * m - 1)) = place + 1 + 2 * m
    BY <1>5, <1>7
  <2>3. SaysBoth(s2, values, i, place + 2)
    BY <1>7, <2>1, <2>2, SaysConcat
  <2>4. s3 \in Seq(Words) /\ Len(s3) = Len(s2) + (2 * m - 1)
    BY <2>1, <2>3 DEF SaysBoth
  <2>5. i + Len(s3) = place + 1 + 2 * m /\ Len(s3) \in Nat
    BY <2>2, <2>4, LenProperties
  <2> QED BY <2>1, <2>3, <2>4, <2>5 DEF SaysBoth
<1> HIDE DEF s3
<1> DEFINE end == EndOfInsert(i, n, m)
<1>9. end = place + 1 + 2 * m
  BY DEF EndOfInsert, place
<1>10. end \in Nat /\ end = i + Len(s3) /\ i \in Nat /\ Len(s3) + 1 = end - i + 1
  BY <1>5, <1>8, <1>9
<1> HIDE DEF end
<1>11. /\ s4 \in Seq(Words) /\ Len(s4) = end - i + 1
       /\ Says(s4, i) <=> Says(s3, i) /\ tokens[end] = ")"
  <2>1. /\ close \in Seq(Words) /\ Len(close) = 1
        /\ Says(close, end) <=> tokens[end] = ")"
    BY <1>2, <1>10, SaysWord DEF close
  <2>2. SaysBoth(s3, close, i, end)
    BY <1>8, <1>10, <2>1, SaysConcat
  <2>3. s4 \in Seq(Words) /\ Len(s4) = Len(s3) + 1
    BY <2>1, <2>2 DEF SaysBoth
  <2>4. Len(s4) = end - i + 1
    BY <1>10, <2>3
  <2>5. Says(s4, i) <=> Says(s3, i) /\ tokens[end] = ")"
    BY <2>1, <2>2 DEF SaysBoth
  <2> QED BY <2>3, <2>4, <2>5
<1> HIDE DEF s4
<1>12. DOMAIN s4 = 1..Len(s4)
  BY <1>11, LenProperties
<1>13. Len(InsertForm(n, m)) = EndOfInsert(i, n, m) - i + 1
  BY <1>1, <1>11 DEF end
<1>14. Says(InsertForm(n, m), i) <=> IsInsert(tokens, i, n, m)
  BY <1>1, <1>3, <1>6, <1>7, <1>8, <1>11 DEF IsInsert, HasValues, EndOfInsert, place, end
<1> QED BY <1>1, <1>12, <1>13, <1>14 DEF InsertSaid

SelectSaid(i, n, where) ==
    /\ Len(SelectForm(n, where)) = EndOfSelect(i, n, where) - i + 1
    /\ DOMAIN SelectForm(n, where) = 1..Len(SelectForm(n, where))
    /\ Says(SelectForm(n, where), i) <=> IsSelect(tokens, i, n, where)

LEMMA SelectSays ==
  ASSUME NEW i \in Nat \ {0}, NEW n \in Nat, NEW where \in BOOLEAN
  PROVE  SelectSaid(i, n, where)
<1> DEFINE head == <<"SELECT">>
           columns == IF n = 0 THEN <<"*">> ELSE List("identifier", n)
           from == <<"FROM", "identifier">>
           condition == <<"WHERE", "identifier", "=", "literal">>
           rest == IF where THEN condition ELSE <<>>
           s1 == head \o columns
           s2 == s1 \o from
           s3 == s2 \o rest
           place == PlaceOfFrom(i, n)
           end == EndOfSelect(i, n, where)
<1>1. SelectForm(n, where) = s3
  BY DEF SelectForm
<1>2. /\ \A word \in {"SELECT", "*", "identifier", "FROM", "WHERE", "=", "literal"} : word \in Words
      /\ \A word \in {"SELECT", "*", "identifier", "FROM", "WHERE", "="} : \A kind :
            Word(kind) = word <=> kind = word
  BY DEF Words, Kinds, Word
<1>3. /\ head \in Seq(Words) /\ Len(head) = 1
      /\ Says(head, i) <=> tokens[i] = "SELECT"
  BY <1>2, SaysWord
<1> HIDE DEF head
<1>4. /\ columns \in Seq(Words) /\ i + 1 + Len(columns) = place
      /\ Says(columns, i + 1) <=> IF n = 0 THEN tokens[i + 1] = "*"
                                  ELSE Items(tokens, i + 1, n, "identifier")
  <2>1. CASE n = 0
    <3>1. columns = <<"*">> /\ place = i + 2
      BY <2>1 DEF PlaceOfFrom
    <3>2. /\ <<"*">> \in Seq(Words) /\ Len(<<"*">>) = 1
          /\ Says(<<"*">>, i + 1) <=> tokens[i + 1] = "*"
      <4>1. i + 1 \in Nat
        OBVIOUS
      <4> QED BY <1>2, <4>1, SaysWord
    <3> QED BY <2>1, <3>1, <3>2
  <2>2. CASE n # 0
    <3>1. columns = List("identifier", n) /\ place = i + 2 * n
      BY <2>2 DEF PlaceOfFrom
    <3>2. n \in Nat \ {0} /\ i + 1 \in Nat /\ i + 1 + (2 * n - 1) = i + 2 * n
      BY <2>2
    <3>3. /\ List("identifier", n) \in Seq(Words) /\ Len(List("identifier", n)) = 2 * n - 1
          /\ Says(List("identifier", n), i + 1) <=> Items(tokens, i + 1, n, "identifier")
      BY <1>2, <3>2, SaysList
    <3> QED BY <2>2, <3>1, <3>2, <3>3
  <2> QED BY <2>1, <2>2
<1> HIDE DEF columns
<1>5. Len(columns) \in Nat /\ place \in Nat
  BY <1>4, LenProperties
<1>6. end = IF where THEN place + 5 ELSE place + 1
  BY DEF EndOfSelect
<1> HIDE DEF place, end
<1>7. /\ s1 \in Seq(Words) /\ i + Len(s1) = place /\ Len(s1) \in Nat
      /\ Says(s1, i) <=> Says(head, i) /\ Says(columns, i + 1)
  <2>1. i + 1 = i + Len(head) /\ i \in Nat /\ i + (1 + Len(columns)) = i + 1 + Len(columns)
    BY <1>3, <1>5
  <2>2. SaysBoth(head, columns, i, i + 1)
    BY <1>3, <1>4, <2>1, SaysConcat
  <2>3. s1 \in Seq(Words) /\ Len(s1) = 1 + Len(columns)
    BY <1>3, <2>2 DEF SaysBoth
  <2>4. i + Len(s1) = place /\ Len(s1) \in Nat
    BY <1>4, <2>1, <2>3, LenProperties
  <2> QED BY <2>2, <2>3, <2>4 DEF SaysBoth
<1> HIDE DEF s1
<1>8. /\ s2 \in Seq(Words) /\ i + Len(s2) = place + 2 /\ Len(s2) \in Nat
      /\ Says(s2, i) <=> Says(s1, i) /\ tokens[place] = "FROM" /\ tokens[place + 1] = "identifier"
  <2>1. /\ from \in Seq(Words) /\ Len(from) = 2
        /\ Says(from, place) <=> tokens[place] = "FROM" /\ tokens[place + 1] = "identifier"
    BY <1>2, <1>5, SaysPair
  <2>2. place = i + Len(s1) /\ i \in Nat /\ i + (Len(s1) + 2) = place + 2
    BY <1>7
  <2> HIDE DEF from
  <2>3. SaysBoth(s1, from, i, place)
    BY <1>7, <2>1, <2>2, SaysConcat
  <2>4. s2 \in Seq(Words) /\ Len(s2) = Len(s1) + 2
    BY <2>1, <2>3 DEF SaysBoth
  <2>5. i + Len(s2) = place + 2 /\ Len(s2) \in Nat
    BY <2>2, <2>4, LenProperties
  <2> QED BY <2>1, <2>3, <2>4, <2>5 DEF SaysBoth
<1> HIDE DEF s2
<1>9. /\ condition \in Seq(Words) /\ Len(condition) = 4
      /\ Says(condition, place + 2) <=>
            /\ tokens[place + 2] = "WHERE" /\ tokens[place + 3] = "identifier"
            /\ tokens[place + 4] = "=" /\ Word(tokens[place + 5]) = "literal"
  <2>1. condition \in Seq(Words) /\ Len(condition) = 4
        /\ condition[1] = "WHERE" /\ condition[2] = "identifier"
        /\ condition[3] = "=" /\ condition[4] = "literal"
    BY <1>2
  <2> HIDE DEF condition
  <2>2. /\ place + 2 + 1 - 1 = place + 2 /\ place + 2 + 2 - 1 = place + 3
        /\ place + 2 + 3 - 1 = place + 4 /\ place + 2 + 4 - 1 = place + 5
    BY <1>5
  <2>3. \A k \in 1..4 : k = 1 \/ k = 2 \/ k = 3 \/ k = 4
    OBVIOUS
  <2>4. Says(condition, place + 2)
          <=> \A k \in 1..4 : Word(tokens[place + 2 + k - 1]) = condition[k]
    BY <2>1 DEF Says
  <2>5. (\A k \in 1..4 : Word(tokens[place + 2 + k - 1]) = condition[k])
          <=> /\ Word(tokens[place + 2 + 1 - 1]) = condition[1]
              /\ Word(tokens[place + 2 + 2 - 1]) = condition[2]
              /\ Word(tokens[place + 2 + 3 - 1]) = condition[3]
              /\ Word(tokens[place + 2 + 4 - 1]) = condition[4]
    BY <2>3
  <2> QED BY <1>2, <2>1, <2>2, <2>4, <2>5
<1> HIDE DEF condition
<1>10. /\ rest \in Seq(Words) /\ place + 2 + Len(rest) = end + 1
       /\ Says(rest, place + 2) <=>
            (where => /\ tokens[place + 2] = "WHERE" /\ tokens[place + 3] = "identifier"
                      /\ tokens[place + 4] = "=" /\ Word(tokens[place + 5]) = "literal")
  <2>1. CASE where
    <3>1. rest = condition /\ place + 2 + 4 = end + 1
      BY <1>5, <1>6, <2>1
    <3> QED BY <1>9, <2>1, <3>1
  <2>2. CASE ~where
    <3>1. rest = <<>> /\ place + 2 + 0 = end + 1
      BY <1>5, <1>6, <2>2
    <3>2. <<>> \in Seq(Words) /\ Len(<<>>) = 0
      BY EmptySeq
    <3>3. Says(<<>>, place + 2)
      <4>1. 1..0 = {}
        OBVIOUS
      <4> QED BY <3>2, <4>1, Zenon DEF Says
    <3> QED BY <2>2, <3>1, <3>2, <3>3
  <2> QED BY <2>1, <2>2
<1> HIDE DEF rest
<1>11. Len(rest) \in Nat /\ end \in Nat
  <2>1. end \in Nat
    BY <1>5, <1>6
  <2> QED BY <1>10, <2>1, LenProperties
<1>12. /\ s3 \in Seq(Words) /\ Len(s3) = end - i + 1
       /\ Says(s3, i) <=> Says(s2, i) /\ Says(rest, place + 2)
  <2>1. place + 2 = i + Len(s2) /\ i \in Nat /\ Len(s2) + Len(rest) = end - i + 1
    <3> DEFINE a == Len(s2)
               b == Len(rest)
    <3>1. /\ a \in Nat /\ b \in Nat /\ place \in Nat /\ end \in Nat
          /\ i + a = place + 2 /\ place + 2 + b = end + 1
      BY <1>5, <1>8, <1>10, <1>11
    <3> HIDE DEF a, b
    <3>2. place + 2 = i + a /\ i \in Nat /\ a + b = end - i + 1
      BY <3>1
    <3> QED BY <3>2 DEF a, b
  <2>2. SaysBoth(s2, rest, i, place + 2)
    BY <1>8, <1>10, <2>1, SaysConcat
  <2>3. s3 \in Seq(Words) /\ Len(s3) = Len(s2) + Len(rest)
    BY <2>2 DEF SaysBoth
  <2>4. Len(s3) = end - i + 1
    BY <2>1, <2>3
  <2> QED BY <2>2, <2>3, <2>4 DEF SaysBoth
<1> HIDE DEF s3
<1>13. DOMAIN s3 = 1..Len(s3)
  BY <1>12, LenProperties
<1>14. Len(SelectForm(n, where)) = EndOfSelect(i, n, where) - i + 1
  BY <1>1, <1>12 DEF end
<1>15. Says(SelectForm(n, where), i) <=> IsSelect(tokens, i, n, where)
  BY <1>1, <1>3, <1>4, <1>7, <1>8, <1>10, <1>12 DEF IsSelect, place
<1> QED BY <1>1, <1>13, <1>14, <1>15 DEF SelectSaid

\* A list has at most as many items as the script has commas, and one more.
Commas == {p \in DOMAIN tokens : tokens[p] = ","}
Most == Cardinality(Commas) + 1

LEMMA ItemsByCommas ==
  ASSUME TokensOK, NEW from \in Nat \ {0}, NEW n \in Nat \ {0}, NEW word,
         Items(tokens, from, n, word), from + 2 * n - 2 <= Final
  PROVE  n <= Most
<1>1. IsFiniteSet(1..Final) /\ Commas \in SUBSET (1..Final)
  <2>1. 1 \in Int /\ Final \in Int
    BY DEF TokensOK
  <2>2. IsFiniteSet(1..Final)
    BY <2>1, FS_Interval
  <2> QED BY <2>2 DEF TokensOK, Commas
<1>2. IsFiniteSet(Commas)
  BY <1>1, FS_Subset
<1> DEFINE m == n - 1
           f == [k \in 1..m |-> from + 2 * k - 1]
<1>3. m \in Nat /\ IsFiniteSet(1..m) /\ Cardinality(1..m) = m
  <2>1. m \in Nat /\ (IF 1 > m THEN 0 ELSE m - 1 + 1) = m
    OBVIOUS
  <2> HIDE DEF m
  <2> QED BY <2>1, FS_Interval
<1>4. f \in Injection(1..m, Commas)
  <2>1. ASSUME NEW k \in 1..m PROVE from + 2 * k - 1 \in Commas
    <3> DEFINE p == from + 2 * k - 1
    <3>1. k \in 1..n /\ k < n /\ p \in 1..Final
      BY DEF TokensOK
    <3>2. \A j \in 1..n : j < n => tokens[from + 2 * j - 1] = ","
      BY DEF Items
    <3>3. tokens[p] = ","
      BY <3>1, <3>2
    <3> HIDE DEF p
    <3>4. p \in Commas
      BY <3>1, <3>3 DEF Commas, TokensOK
    <3> QED BY <3>4 DEF p
  <2>2. f \in [1..m -> Commas]
    BY <2>1
  <2>3. ASSUME NEW k \in 1..m, NEW j \in 1..m, f[k] = f[j] PROVE k = j
    <3>1. from + 2 * k - 1 = from + 2 * j - 1
      BY <2>3
    <3> QED BY <3>1
  <2> HIDE DEF f
  <2> QED BY <2>2, <2>3 DEF Injection, IsInjective
<1>5. Cardinality(1..m) <= Cardinality(Commas)
  <2> HIDE DEF f, m
  <2> QED BY <1>2, <1>4, FS_Injection
<1>6. Cardinality(Commas) \in Nat
  BY <1>2, FS_CardinalityType
<1> QED BY <1>3, <1>5, <1>6 DEF Most

LEMMA MostIsNat ==
  ASSUME TokensOK
  PROVE  Most \in Nat /\ 1 <= Most
<1>1. IsFiniteSet(1..Final) /\ Commas \in SUBSET (1..Final)
  <2>1. 1 \in Int /\ Final \in Int
    BY DEF TokensOK
  <2>2. IsFiniteSet(1..Final)
    BY <2>1, FS_Interval
  <2> QED BY <2>2 DEF TokensOK, Commas
<1>2. Cardinality(Commas) \in Nat
  BY <1>1, FS_Subset, FS_CardinalityType
<1> QED BY <1>2 DEF Most

\* The tokens of t from first to last are a statement.
InsertAtPlace(t, first, last) ==
    \E n \in Nat, m \in Nat \ {0} :
        IsInsert(t, first, n, m) /\ last = EndOfInsert(first, n, m)
SelectAtPlace(t, first, last) ==
    \E n \in Nat, where \in BOOLEAN :
        IsSelect(t, first, n, where) /\ last = EndOfSelect(first, n, where)
StatementAt(t, first, last) == InsertAtPlace(t, first, last) \/ SelectAtPlace(t, first, last)

LEMMA EndsAreNat ==
  ASSUME NEW i \in Nat \ {0}, NEW n \in Nat
  PROVE  /\ PlaceOfValues(i, n) \in Nat /\ PlaceOfFrom(i, n) \in Nat
         /\ i + 3 <= PlaceOfValues(i, n) /\ i + 2 <= PlaceOfFrom(i, n)
         /\ \A m \in Nat : EndOfInsert(i, n, m) \in Nat
         /\ \A where \in BOOLEAN : EndOfSelect(i, n, where) \in Nat
         /\ n # 0 => i + 4 + 2 * n - 2 <= PlaceOfValues(i, n)
         /\ n # 0 => i + 1 + 2 * n - 2 <= PlaceOfFrom(i, n)
         /\ \A m \in Nat : EndOfInsert(i, n, m) = PlaceOfValues(i, n) + 1 + 2 * m
         /\ \A where \in BOOLEAN : PlaceOfFrom(i, n) <= EndOfSelect(i, n, where)
BY DEF PlaceOfValues, PlaceOfFrom, EndOfInsert, EndOfSelect

LEMMA StatementForms ==
  ASSUME TokensOK, NEW i \in Nat \ {0}, NEW last \in Nat, last <= Final
  PROVE  IsStatement(i, last) <=> StatementAt(tokens, i, last)
<1>1. Most \in Nat /\ 1 <= Most
  BY MostIsNat
<1>2. Forms = {InsertForm(n, m) : n \in 0..Most, m \in 1..Most}
                \cup {SelectForm(n, where) : n \in 0..Most, where \in BOOLEAN}
  BY DEF Forms, Most, Commas
<1>3. IsStatement(i, last) <=>
        \E form \in Forms : /\ Len(form) = last - i + 1
                            /\ \A k \in DOMAIN form : Word(tokens[i + k - 1]) = form[k]
  BY DEF IsStatement
<1>4. ASSUME NEW n \in Nat, NEW m \in Nat \ {0}
      PROVE  (/\ Len(InsertForm(n, m)) = last - i + 1
              /\ \A k \in DOMAIN InsertForm(n, m) : Word(tokens[i + k - 1]) = InsertForm(n, m)[k])
             <=> IsInsert(tokens, i, n, m) /\ last = EndOfInsert(i, n, m)
  <2> DEFINE form == InsertForm(n, m)
             end == EndOfInsert(i, n, m)
  <2>1. end \in Nat /\ Len(form) = end - i + 1
        /\ ((\A k \in DOMAIN form : Word(tokens[i + k - 1]) = form[k]) <=> IsInsert(tokens, i, n, m))
    <3>1. InsertSaid(i, n, m) /\ end \in Nat
      BY InsertSays, EndsAreNat
    <3>2. /\ Len(form) = end - i + 1 /\ DOMAIN form = 1..Len(form)
          /\ Says(form, i) <=> IsInsert(tokens, i, n, m)
      BY <3>1 DEF InsertSaid
    <3> HIDE DEF form, end
    <3>3. Says(form, i) <=> \A k \in DOMAIN form : Word(tokens[i + k - 1]) = form[k]
      BY <3>2 DEF Says
    <3> QED BY <3>1, <3>2, <3>3
  <2> HIDE DEF form, end
  <2>2. end - i + 1 = last - i + 1 <=> last = end
    BY <2>1
  <2>3. (/\ Len(form) = last - i + 1
         /\ \A k \in DOMAIN form : Word(tokens[i + k - 1]) = form[k])
        <=> IsInsert(tokens, i, n, m) /\ last = end
    BY <2>1, <2>2
  <2> QED BY <2>3 DEF form, end
<1>5. ASSUME NEW n \in Nat, NEW where \in BOOLEAN
      PROVE  (/\ Len(SelectForm(n, where)) = last - i + 1
              /\ \A k \in DOMAIN SelectForm(n, where) :
                    Word(tokens[i + k - 1]) = SelectForm(n, where)[k])
             <=> IsSelect(tokens, i, n, where) /\ last = EndOfSelect(i, n, where)
  <2> DEFINE form == SelectForm(n, where)
             end == EndOfSelect(i, n, where)
  <2>1. end \in Nat /\ Len(form) = end - i + 1
        /\ ((\A k \in DOMAIN form : Word(tokens[i + k - 1]) = form[k]) <=> IsSelect(tokens, i, n, where))
    <3>1. SelectSaid(i, n, where) /\ end \in Nat
      BY SelectSays, EndsAreNat
    <3>2. /\ Len(form) = end - i + 1 /\ DOMAIN form = 1..Len(form)
          /\ Says(form, i) <=> IsSelect(tokens, i, n, where)
      BY <3>1 DEF SelectSaid
    <3> HIDE DEF form, end
    <3>3. Says(form, i) <=> \A k \in DOMAIN form : Word(tokens[i + k - 1]) = form[k]
      BY <3>2 DEF Says
    <3> QED BY <3>1, <3>2, <3>3
  <2> HIDE DEF form, end
  <2>2. end - i + 1 = last - i + 1 <=> last = end
    BY <2>1
  <2>3. (/\ Len(form) = last - i + 1
         /\ \A k \in DOMAIN form : Word(tokens[i + k - 1]) = form[k])
        <=> IsSelect(tokens, i, n, where) /\ last = end
    BY <2>1, <2>2
  <2> QED BY <2>3 DEF form, end
<1>6. ASSUME IsStatement(i, last) PROVE StatementAt(tokens, i, last)
  <2>1. PICK form \in Forms :
           /\ Len(form) = last - i + 1
           /\ \A k \in DOMAIN form : Word(tokens[i + k - 1]) = form[k]
    BY <1>3, <1>6
  <2>2. ASSUME NEW n \in 0..Most, NEW m \in 1..Most, form = InsertForm(n, m)
        PROVE  StatementAt(tokens, i, last)
    <3>1. n \in Nat /\ m \in Nat \ {0}
      BY <1>1
    <3>2. IsInsert(tokens, i, n, m) /\ last = EndOfInsert(i, n, m)
      BY <1>4, <2>1, <2>2, <3>1
    <3> QED BY <3>1, <3>2 DEF StatementAt, InsertAtPlace
  <2>3. ASSUME NEW n \in 0..Most, NEW where \in BOOLEAN, form = SelectForm(n, where)
        PROVE  StatementAt(tokens, i, last)
    <3>1. n \in Nat
      BY <1>1
    <3>2. IsSelect(tokens, i, n, where) /\ last = EndOfSelect(i, n, where)
      BY <1>5, <2>1, <2>3, <3>1
    <3> QED BY <3>1, <3>2 DEF StatementAt, SelectAtPlace
  <2> QED BY <1>2, <2>2, <2>3
<1>7. ASSUME NEW n \in Nat, NEW m \in Nat \ {0},
             IsInsert(tokens, i, n, m), last = EndOfInsert(i, n, m)
      PROVE  IsStatement(i, last)
  <2> DEFINE place == PlaceOfValues(i, n)
  <2>1. /\ place \in Nat /\ i + 3 <= place /\ last = place + 1 + 2 * m
        /\ n # 0 => i + 4 + 2 * n - 2 <= place
    BY <1>7, EndsAreNat
  <2>2. Items(tokens, place + 2, m, "literal")
    BY <1>7 DEF IsInsert, HasValues
  <2> HIDE DEF place
  <2>3. place + 2 \in Nat \ {0} /\ place + 2 + 2 * m - 2 <= Final
    BY <2>1 DEF TokensOK
  <2>4. m <= Most
    BY <2>2, <2>3, ItemsByCommas
  <2>5. n <= Most
    <3>1. CASE n = 0
      BY <1>1, <3>1
    <3>2. CASE n # 0
      <4>1. Items(tokens, i + 4, n, "identifier")
        BY <1>7, <3>2 DEF IsInsert, HasColumns
      <4>2. n \in Nat \ {0} /\ i + 4 \in Nat \ {0} /\ i + 4 + 2 * n - 2 <= Final
        BY <2>1, <3>2 DEF TokensOK
      <4> QED BY <4>1, <4>2, ItemsByCommas
    <3> QED BY <3>1, <3>2
  <2>6. n \in 0..Most /\ m \in 1..Most
    BY <1>1, <2>4, <2>5
  <2>7. InsertForm(n, m) \in Forms
    BY <1>2, <2>6
  <2> QED BY <1>3, <1>4, <1>7, <2>7
<1>8. ASSUME NEW n \in Nat, NEW where \in BOOLEAN,
             IsSelect(tokens, i, n, where), last = EndOfSelect(i, n, where)
      PROVE  IsStatement(i, last)
  <2>1. n <= Most
    <3>1. CASE n = 0
      BY <1>1, <3>1
    <3>2. CASE n # 0
      <4>1. Items(tokens, i + 1, n, "identifier")
        BY <1>8, <3>2 DEF IsSelect
      <4>2. /\ PlaceOfFrom(i, n) \in Nat /\ PlaceOfFrom(i, n) <= last
            /\ i + 1 + 2 * n - 2 <= PlaceOfFrom(i, n)
        BY <1>8, <3>2, EndsAreNat
      <4>3. n \in Nat \ {0} /\ i + 1 \in Nat \ {0} /\ i + 1 + 2 * n - 2 <= Final
        BY <3>2, <4>2 DEF TokensOK
      <4> QED BY <4>1, <4>3, ItemsByCommas
    <3> QED BY <3>1, <3>2
  <2>2. n \in 0..Most
    BY <1>1, <2>1
  <2>3. SelectForm(n, where) \in Forms
    BY <1>2, <2>2
  <2> QED BY <1>3, <1>5, <1>8, <2>3
<1> QED BY <1>6, <1>7, <1>8 DEF StatementAt, InsertAtPlace, SelectAtPlace

\* f tells from which places on t is a sequence of statements and empty statements.
SentenceFrom(t, f, p) ==
    \/ t[p] = "EOF"
    \/ t[p] = ";" /\ f[p + 1]
    \/ /\ t[p] \in {"INSERT", "SELECT"}
       /\ \E last \in p..(Len(t) - 1) : StatementAt(t, p, last) /\ f[last + 1]

IsLanguage(t, f) ==
    /\ f \in [1..Len(t) -> BOOLEAN]
    /\ \A p \in 1..Len(t) : f[p] <=> SentenceFrom(t, f, p)

HasWord(t) == \E p \in DOMAIN t : t[p] \notin {";", "EOF"}

\* The recursive function of Sentence is such a function.
LEMMA LanguageExists ==
  ASSUME TokensOK
  PROVE  \E f : IsLanguage(tokens, f) /\ (Sentence <=> f[1] /\ HasWord(tokens))
<1> DEFINE M == Len(tokens)
           V == BOOLEAN
           Part(p, h) == \/ tokens[p] = "EOF"
                         \/ tokens[p] = ";" /\ h[p + 1]
                         \/ /\ tokens[p] \in {"INSERT", "SELECT"}
                            /\ \E last \in p..(Len(tokens) - 1) : IsStatement(p, last) /\ h[last + 1]
           G == [q \in (1..M) \X [1..M -> V] |-> Part(q[1], q[2])]
<1>1. M \in Nat /\ M = Final
  BY DEF TokensOK, Final
<1>2. \A p \in 1..M : \A h \in [1..M -> V] : G[<<p, h>>] = Part(p, h)
  OBVIOUS
<1>3. ASSUME NEW p \in 1..M, NEW h, NEW k, \A j \in (p + 1)..M : h[j] = k[j]
      PROVE  Part(p, h) = Part(p, k)
  <2>1. CASE p = M
    <3>1. tokens[p] = "EOF"
      BY <1>1, <2>1 DEF TokensOK
    <3> QED BY <3>1
  <2>2. CASE p # M
    <3>1. p + 1 \in (p + 1)..M /\ \A last \in p..(M - 1) : last + 1 \in (p + 1)..M
      <4> HIDE DEF M
      <4> QED BY <1>1, <2>2
    <3>2. h[p + 1] = k[p + 1] /\ \A last \in p..(M - 1) : h[last + 1] = k[last + 1]
      <4> HIDE DEF M
      <4> QED BY <1>3, <3>1
    <3> QED BY <3>2, Zenon
  <2> QED BY <2>1, <2>2
<1>4. FillsDown(G, M, V)
  <2>1. \A p \in 1..M : \A h \in [1..M -> V] : G[<<p, h>>] \in V
    <3>1. \A p, h : Part(p, h) \in BOOLEAN
      OBVIOUS
    <3> HIDE DEF Part, G, M
    <3> QED BY <1>2, <3>1
  <2>2. ASSUME NEW p \in 1..M, NEW h \in [1..M -> V], NEW k \in [1..M -> V],
               \A j \in (p + 1)..M : h[j] = k[j]
        PROVE  G[<<p, h>>] = G[<<p, k>>]
    <3>1. Part(p, h) = Part(p, k)
      <4> HIDE DEF Part, G, M
      <4> QED BY <1>3, <2>2
    <3> HIDE DEF Part, G, M, V
    <3> QED BY <1>2, <2>2, <3>1
  <2> HIDE DEF G, M, V
  <2> QED BY <2>1, <2>2 DEF FillsDown
<1>5. TRUE \in V
  OBVIOUS
<1>6. PICK g : IsFilled(g, G, M, V)
  <2> HIDE DEF G, M, V
  <2> QED BY <1>1, <1>4, <1>5, Downward
<1> DEFINE Is(from) == from = [p \in 1..Len(tokens) |->
                           \/ tokens[p] = "EOF"
                           \/ tokens[p] = ";" /\ from[p + 1]
                           \/ /\ tokens[p] \in {"INSERT", "SELECT"}
                              /\ \E last \in p..(Len(tokens) - 1) : IsStatement(p, last) /\ from[last + 1]]
           found == CHOOSE from : Is(from)
<1>7. Is(g)
  <2>1. g \in [1..M -> V] /\ \A p \in 1..M : g[p] = Part(p, g)
    <3> HIDE DEF Part, G, M, V
    <3> QED BY <1>2, <1>6 DEF IsFilled
  <2> QED BY <2>1
<1>8. Is(found)
  <2> HIDE DEF Is
  <2> QED BY <1>7
<1>9. Sentence <=> found[1] /\ HasWord(tokens)
  BY DEF Sentence, HasWord
<1> HIDE DEF found
<1>10. IsLanguage(tokens, found)
  <2>1. found \in [1..Len(tokens) -> BOOLEAN] /\ \A p \in 1..Len(tokens) : found[p] = Part(p, found)
    BY <1>8
  <2>2. ASSUME NEW p \in 1..Len(tokens)
        PROVE  Part(p, found) <=> SentenceFrom(tokens, found, p)
    <3>1. \A last \in p..(Len(tokens) - 1) : IsStatement(p, last) <=> StatementAt(tokens, p, last)
      <4> SUFFICES ASSUME NEW last \in p..(Len(tokens) - 1)
                   PROVE  IsStatement(p, last) <=> StatementAt(tokens, p, last)
        OBVIOUS
      <4>1. p \in Nat \ {0} /\ last \in Nat /\ last <= Final
        <5> HIDE DEF M
        <5> QED BY <1>1 DEF M
      <4> QED BY <4>1, StatementForms
    <3> QED BY <3>1, Zenon DEF SentenceFrom
  <2> HIDE DEF Part
  <2> QED BY <2>1, <2>2 DEF IsLanguage
<1> QED BY <1>9, <1>10

\* The tokens leave no choice: a list that is being read where a list of n items is
\* written, which no comma follows, goes on until it has n.
NoComma(t, at) == t[at] # ","

LEMMA ListForced ==
  ASSUME NEW t, NEW list \in Seq(Nat), NEW from \in Nat \ {0}, NEW word, NEW n \in Nat \ {0},
         Items(t, from, n, word), NoComma(t, from + 2 * n - 1),
         Listed(t, list, from, word)
  PROVE  /\ \A at : ItemNext(t, list, from, at) => Word(t[at]) = word
         /\ \A at : ListDone(t, list, from, at) => Len(list) = n
<1> DEFINE m == Len(list)
<1>1. m \in Nat /\ (list # <<>> <=> m > 0)
  BY LenProperties, EmptySeq
<1>2. Items(t, from, m, word)
  BY DEF Listed
<1> HIDE DEF m
<1>3. ASSUME n < m PROVE FALSE
  <2>1. n \in 1..m /\ n < m
    BY <1>1, <1>3
  <2> QED BY <1>2, <2>1, Zenon DEF Items, NoComma
<1>4. ASSUME NEW at, ItemNext(t, list, from, at)
      PROVE  Word(t[at]) = word
  <2>1. at = from + 2 * m
    BY <1>4, Zenon DEF ItemNext, m
  <2>2. m # n
    <3> SUFFICES ASSUME m = n PROVE FALSE
      OBVIOUS
    <3>1. at - 1 = from + 2 * n - 1 /\ m > 0
      BY <2>1
    <3>2. t[at - 1] = ","
      BY <1>1, <1>4, <3>1, Zenon DEF ItemNext
    <3> QED BY <3>1, <3>2, Zenon DEF NoComma
  <2>3. m < n
    BY <1>1, <1>3, <2>2
  <2> DEFINE k == m + 1
  <2>4. k \in 1..n /\ at = from + 2 * k - 2
    BY <1>1, <2>1, <2>3
  <2> HIDE DEF k
  <2>5. Word(t[from + 2 * k - 2]) = word
    BY <2>4, Zenon DEF Items
  <2> QED BY <2>4, <2>5
<1>5. ASSUME NEW at, ListDone(t, list, from, at)
      PROVE  m = n
  <2>1. at = from + 2 * m - 1 /\ m > 0 /\ NoComma(t, at)
    BY <1>1, <1>5, Zenon DEF ListDone, NoComma, m
  <2>2. ASSUME m < n PROVE FALSE
    <3>1. m \in 1..n /\ m < n
      BY <1>1, <2>1, <2>2
    <3>2. t[from + 2 * m - 1] = ","
      BY <3>1, Zenon DEF Items
    <3> QED BY <2>1, <3>2, Zenon DEF NoComma
  <2> QED BY <1>1, <1>3, <2>2
<1> QED BY <1>4, <1>5 DEF m

\* What comes where, in an INSERT that is being read where one is written.
InsertGoesOn(here, kind) ==
    /\ here = "into" => kind = "INTO"
    /\ here \in {"table", "column"} => kind = "identifier"
    /\ here \in {"columns_end", "values_end"} => kind = ")"
    /\ here = "values" => kind = "VALUES"
    /\ here = "values_open" => kind = "("
    /\ here = "value" => Word(kind) = "literal"

LEMMA InsertForced ==
  ASSUME NEW here \in InInsert, NEW t, NEW s, NEW i \in Nat \ {0}, NEW at \in Nat \ {0},
         s.columns \in Seq(Nat), s.values \in Seq(Nat),
         Inserting(here, t, s, i, at),
         NEW n \in Nat, NEW m \in Nat \ {0}, IsInsert(t, i, n, m)
  PROVE  /\ InsertGoesOn(here, t[at])
         /\ here = "parsed" => at = EndOfInsert(i, n, m) + 1
<1> DEFINE columns == s.columns
           values == s.values
           place == PlaceOfValues(i, n)
           w == Len(columns)
           v == Len(values)
<1>1. /\ t[i + 1] = "INTO" /\ t[i + 2] = "identifier"
      /\ HasColumns(t, i, n) /\ HasValues(t, place, m)
  BY DEF IsInsert
<1>2. w \in Nat /\ v \in Nat /\ (columns # <<>> <=> w > 0)
  BY LenProperties, EmptySeq
<1>3. place \in Nat /\ i + 3 <= place /\ place = IF n = 0 THEN i + 3 ELSE i + 4 + 2 * n
  BY EndsAreNat DEF PlaceOfValues
<1>4. /\ n # 0 => /\ t[i + 3] = "(" /\ Items(t, i + 4, n, "identifier")
                  /\ t[i + 3 + 2 * n] = ")"
      /\ n = 0 => t[i + 3] = "VALUES"
  <2>1. ASSUME n = 0 PROVE t[i + 3] = "VALUES"
    <3>1. place = i + 3
      BY <1>3, <2>1
    <3> QED BY <1>1, <3>1 DEF HasValues
  <2> QED BY <1>1, <2>1, Zenon DEF HasColumns
<1>5. /\ t[place] = "VALUES" /\ t[place + 1] = "(" /\ t[place + 1 + 2 * m] = ")"
      /\ Items(t, place + 2, m, "literal")
  BY <1>1, Zenon DEF HasValues
<1>6. ASSUME ColumnsOpen(t, i, columns)
      PROVE  /\ n # 0
             /\ here = "column" => t[at] = "identifier"
             /\ ListDone(t, columns, i + 4, i + 3 + 2 * w) => w = n
             /\ here = "columns_end" => t[at] = ")"
  <2>1. n # 0 /\ Listed(t, columns, i + 4, "identifier")
    BY <1>4, <1>6 DEF ColumnsOpen
  <2>2. n \in Nat \ {0} /\ i + 4 \in Nat \ {0} /\ i + 4 + 2 * n - 1 = i + 3 + 2 * n
    BY <2>1
  <2>3. Items(t, i + 4, n, "identifier") /\ t[i + 4 + 2 * n - 1] = ")"
    BY <1>4, <2>1, <2>2
  <2>4. NoComma(t, i + 4 + 2 * n - 1)
    BY <2>3, Zenon DEF NoComma
  <2> HIDE DEF columns
  <2>5. /\ \A p : ItemNext(t, columns, i + 4, p) => Word(t[p]) = "identifier"
        /\ \A p : ListDone(t, columns, i + 4, p) => w = n
    BY <2>1, <2>2, <2>3, <2>4, ListForced DEF columns
  <2>6. ASSUME here = "column" PROVE t[at] = "identifier"
    <3>1. ItemNext(t, columns, i + 4, at)
      BY <2>6 DEF Inserting, columns
    <3>2. Word(t[at]) = "identifier"
      BY <2>5, <3>1
    <3> QED BY <3>2 DEF Word
  <2>7. ASSUME here = "columns_end" PROVE t[at] = ")"
    <3>1. ListDone(t, columns, i + 4, at)
      BY <2>7 DEF Inserting, columns
    <3>2. w = n /\ at = i + 4 + 2 * w - 1
      BY <2>5, <3>1, Zenon DEF ListDone
    <3> QED BY <2>3, <3>2
  <2> QED BY <2>1, <2>5, <2>6, <2>7
<1>7. ASSUME ColumnsRead(t, i, columns)
      PROVE  ValuesPlace(i, columns) = place
  <2>1. CASE columns = <<>>
    <3>1. n = 0
      BY <1>4, <1>7, <2>1 DEF ColumnsRead
    <3> QED BY <1>3, <2>1, <3>1 DEF ValuesPlace
  <2>2. CASE columns # <<>>
    <3>1. ColumnsOpen(t, i, columns) /\ t[i + 3 + 2 * w] = ")"
      BY <1>7, <2>2, Zenon DEF ColumnsRead
    <3>2. i + 4 + 2 * w - 1 = i + 3 + 2 * w
      <4> HIDE DEF w
      <4> QED BY <1>2
    <3>3. t[i + 3 + 2 * w] # ","
      BY <3>1, Zenon
    <3>4. ListDone(t, columns, i + 4, i + 3 + 2 * w)
      BY <2>2, <3>2, <3>3, Zenon DEF ListDone
    <3>5. w = n /\ n # 0
      BY <1>6, <3>1, <3>4
    <3> QED BY <1>3, <2>2, <3>5 DEF ValuesPlace
  <2> QED BY <2>1, <2>2
<1>8. ASSUME ValuesOpen(t, place, values)
      PROVE  /\ \A p : ItemNext(t, values, place + 2, p) => Word(t[p]) = "literal"
             /\ \A p : ListDone(t, values, place + 2, p) => v = m
  <2>1. Listed(t, values, place + 2, "literal")
    BY <1>8 DEF ValuesOpen
  <2>2. place + 2 \in Nat \ {0} /\ place + 2 + 2 * m - 1 = place + 1 + 2 * m
    BY <1>3
  <2>3. NoComma(t, place + 2 + 2 * m - 1)
    BY <1>5, <2>2, Zenon DEF NoComma
  <2> HIDE DEF place
  <2> QED BY <1>5, <2>1, <2>2, <2>3, ListForced
<1>9. CASE here \in {"into", "table"}
  BY <1>1, <1>9 DEF Inserting, InsertGoesOn
<1>10. CASE here = "columns"
  BY <1>10 DEF InsertGoesOn
<1>11. CASE here \in {"column", "columns_end"}
  <2>1. ColumnsOpen(t, i, columns)
    BY <1>11 DEF Inserting
  <2> HIDE DEF columns
  <2> QED BY <1>6, <1>11, <2>1 DEF InsertGoesOn
<1>12. CASE here \in {"values", "values_open"}
  <2>1. ColumnsRead(t, i, columns) /\ at = IF here = "values" THEN ValuesPlace(i, columns)
                                           ELSE ValuesPlace(i, columns) + 1
    BY <1>12 DEF Inserting
  <2> HIDE DEF columns, place
  <2>2. at = IF here = "values" THEN place ELSE place + 1
    BY <1>7, <2>1
  <2> QED BY <1>5, <1>12, <2>2 DEF InsertGoesOn
<1>13. CASE here \in {"value", "values_end"}
  <2>1. /\ ColumnsRead(t, i, columns) /\ ValuesOpen(t, ValuesPlace(i, columns), values)
        /\ here = "value" => ItemNext(t, values, ValuesPlace(i, columns) + 2, at)
        /\ here = "values_end" => ListDone(t, values, ValuesPlace(i, columns) + 2, at)
    BY <1>13 DEF Inserting
  <2> HIDE DEF columns, place, values
  <2>2. /\ ValuesOpen(t, place, values)
        /\ here = "value" => ItemNext(t, values, place + 2, at)
        /\ here = "values_end" => ListDone(t, values, place + 2, at)
    BY <1>7, <2>1
  <2>3. CASE here = "value"
    BY <1>8, <2>2, <2>3 DEF InsertGoesOn
  <2>4. CASE here = "values_end"
    <3>1. v = m /\ at = place + 2 + 2 * v - 1
      BY <1>8, <2>2, <2>4, Zenon DEF ListDone, v
    <3>2. place + 2 + 2 * m - 1 = place + 1 + 2 * m
      BY <1>3
    <3>3. t[at] = ")"
      BY <1>5, <3>1, <3>2
    <3> QED BY <2>4, <3>3 DEF InsertGoesOn
  <2> QED BY <1>13, <2>3, <2>4
<1>14. CASE here = "parsed"
  <2>1. /\ ColumnsRead(t, i, columns) /\ ValuesRead(t, ValuesPlace(i, columns), values)
        /\ at = ValuesPlace(i, columns) + 2 + 2 * v
    BY <1>14 DEF Inserting
  <2> HIDE DEF columns, place, values
  <2>2. ValuesRead(t, place, values) /\ at = place + 2 + 2 * v
    BY <1>7, <2>1
  <2>3. ListDone(t, values, place + 2, place + 1 + 2 * v)
    <3>1. values # <<>> /\ t[place + 1 + 2 * v] = ")"
      BY <2>2, Zenon DEF ValuesRead, v
    <3>2. place + 2 + 2 * v - 1 = place + 1 + 2 * v
      <4> HIDE DEF v
      <4> QED BY <1>2, <1>3
    <3> QED BY <3>1, <3>2, Zenon DEF ListDone, v
  <2>4. v = m
    BY <1>8, <2>2, <2>3 DEF ValuesRead
  <2>5. at = EndOfInsert(i, n, m) + 1
    BY <1>3, <2>2, <2>4 DEF EndOfInsert, place
  <2> QED BY <1>14, <2>5 DEF InsertGoesOn
<1> QED BY <1>9, <1>10, <1>11, <1>12, <1>13, <1>14 DEF InInsert

\* What comes where, in a SELECT.  A SELECT that is written without WHERE is followed by
\* something else than WHERE.
SelectGoesOn(here, kind) ==
    /\ here \in {"column", "table", "where_column"} => kind = "identifier"
    /\ here = "from" => kind = "FROM"
    /\ here = "equal" => kind = "="
    /\ here = "where_value" => Word(kind) = "literal"

LEMMA SelectForced ==
  ASSUME NEW here \in InSelect, NEW t, NEW s, NEW i \in Nat \ {0}, NEW at \in Nat \ {0},
         s.columns \in Seq(Nat),
         Selecting(here, t, s, i, at),
         NEW n \in Nat, NEW where \in BOOLEAN, IsSelect(t, i, n, where),
         t[EndOfSelect(i, n, where) + 1] # "WHERE"
  PROVE  /\ SelectGoesOn(here, t[at])
         /\ here = "parsed" => at = EndOfSelect(i, n, where) + 1
<1> DEFINE columns == s.columns
           place == PlaceOfFrom(i, n)
           w == Len(columns)
<1>1. w \in Nat /\ (columns # <<>> <=> w > 0)
  BY LenProperties, EmptySeq
<1>2. place \in Nat /\ place = IF n = 0 THEN i + 2 ELSE i + 2 * n
  BY EndsAreNat DEF PlaceOfFrom
<1>3. /\ t[place] = "FROM" /\ t[place + 1] = "identifier"
      /\ where => /\ t[place + 2] = "WHERE" /\ t[place + 3] = "identifier"
                  /\ t[place + 4] = "=" /\ Word(t[place + 5]) = "literal"
      /\ n = 0 => t[i + 1] = "*"
      /\ n # 0 => Items(t, i + 1, n, "identifier")
  BY DEF IsSelect
<1>4. EndOfSelect(i, n, where) + 1 = IF where THEN place + 6 ELSE place + 2
  BY <1>2 DEF EndOfSelect
<1>5. where <=> t[place + 2] = "WHERE"
  BY <1>3, <1>4
<1> HIDE DEF place, columns
<1>6. ASSUME Listed(t, columns, i + 1, "identifier"), n # 0
      PROVE  /\ \A p : ItemNext(t, columns, i + 1, p) => Word(t[p]) = "identifier"
             /\ \A p : ListDone(t, columns, i + 1, p) => w = n
  <2>1. n \in Nat \ {0} /\ i + 1 \in Nat \ {0} /\ i + 1 + 2 * n - 1 = place
    BY <1>2, <1>6
  <2>2. NoComma(t, i + 1 + 2 * n - 1)
    BY <1>3, <2>1, Zenon DEF NoComma
  <2>3. columns \in Seq(Nat)
    BY DEF columns
  <2> QED BY <1>3, <1>6, <2>1, <2>2, <2>3, ListForced
<1>7. ASSUME ProjectionRead(t, i, columns, s.all)
      PROVE  FromPlace(i, columns) = place
  <2>1. CASE columns = <<>>
    <3>1. t[i + 1] = "*"
      BY <1>7, <2>1, Zenon DEF ProjectionRead
    <3>2. n = 0
      <4> SUFFICES ASSUME n # 0 PROVE FALSE
        OBVIOUS
      <4>1. 1 \in 1..n /\ i + 2 * 1 - 2 + 1 = i + 1 /\ i + 1 + 2 * 1 - 2 = i + 1
        OBVIOUS
      <4>2. Word(t[i + 1]) = "identifier"
        BY <1>3, <4>1 DEF Items
      <4> QED BY <3>1, <4>2 DEF Word
    <3> QED BY <1>2, <2>1, <3>2 DEF FromPlace
  <2>2. CASE columns # <<>>
    <3>1. Listed(t, columns, i + 1, "identifier") /\ NoComma(t, i + 2 * w)
      BY <1>7, <2>2, Zenon DEF ProjectionRead, NoComma
    <3>2. n # 0
      <4> SUFFICES ASSUME n = 0 PROVE FALSE
        OBVIOUS
      <4>1. t[i + 1] = "*"
        BY <1>3
      <4>2. Items(t, i + 1, w, "identifier")
        BY <3>1 DEF Listed
      <4>3. 1 \in 1..w /\ i + 1 + 2 * 1 - 2 = i + 1
        <5> HIDE DEF w
        <5> QED BY <1>1, <2>2
      <4>4. Word(t[i + 1]) = "identifier"
        BY <4>2, <4>3 DEF Items
      <4> QED BY <4>1, <4>4 DEF Word
    <3>3. ListDone(t, columns, i + 1, i + 2 * w)
      <4>1. i + 1 + 2 * w - 1 = i + 2 * w
        <5> HIDE DEF w
        <5> QED BY <1>1
      <4> QED BY <2>2, <3>1, <4>1, Zenon DEF ListDone, NoComma
    <3>4. w = n
      BY <1>6, <3>1, <3>2, <3>3
    <3> QED BY <1>2, <2>2, <3>2, <3>4 DEF FromPlace
  <2> QED BY <2>1, <2>2
<1>8. CASE here = "projection"
  BY <1>8 DEF SelectGoesOn
<1>9. CASE here = "column"
  <2>1. /\ t[i + 1] # "*" /\ Listed(t, columns, i + 1, "identifier")
        /\ ItemNext(t, columns, i + 1, at)
    BY <1>9 DEF Selecting, columns
  <2>2. Word(t[at]) = "identifier"
    BY <1>3, <1>6, <2>1
  <2>3. t[at] = "identifier"
    BY <2>2 DEF Word
  <2> QED BY <1>9, <2>3 DEF SelectGoesOn
<1>10. CASE here \in {"from", "table", "where"}
  <2>1. /\ ProjectionRead(t, i, columns, s.all)
        /\ here = "from" => at = FromPlace(i, columns)
        /\ here = "table" => at = FromPlace(i, columns) + 1
    BY <1>10 DEF Selecting, columns
  <2>2. /\ here = "from" => at = place
        /\ here = "table" => at = place + 1
    BY <1>7, <2>1
  <2> QED BY <1>3, <1>10, <2>2 DEF SelectGoesOn
<1>11. CASE here \in {"where_column", "equal", "where_value"}
  <2>1. /\ ProjectionRead(t, i, columns, s.all)
        /\ here = "where_column" => /\ at = FromPlace(i, columns) + 3
                                    /\ t[FromPlace(i, columns) + 2] = "WHERE"
        /\ here \in {"equal", "where_value"} => WhereRead(t, FromPlace(i, columns), s.where_column)
        /\ here = "equal" => at = FromPlace(i, columns) + 4
        /\ here = "where_value" => at = FromPlace(i, columns) + 5
    BY <1>11 DEF Selecting, columns
  <2>2. /\ t[place + 2] = "WHERE"
        /\ here = "where_column" => at = place + 3
        /\ here = "equal" => at = place + 4
        /\ here = "where_value" => at = place + 5
    BY <1>7, <1>11, <2>1 DEF WhereRead
  <2>3. where
    BY <1>5, <2>2
  <2> QED BY <1>3, <1>11, <2>2, <2>3 DEF SelectGoesOn
<1>12. CASE here = "parsed"
  <2>1. /\ ProjectionRead(t, i, columns, s.all)
        /\ ConditionRead(t, FromPlace(i, columns), s.where_column, s.where_value, at)
    BY <1>12 DEF Selecting, columns
  <2>2. ConditionRead(t, place, s.where_column, s.where_value, at)
    BY <1>7, <2>1
  <2>3. at = IF where THEN place + 6 ELSE place + 2
    BY <1>5, <2>2 DEF ConditionRead, WhereRead
  <2> QED BY <1>4, <1>12, <2>3 DEF SelectGoesOn
<1> QED BY <1>8, <1>9, <1>10, <1>11, <1>12 DEF InSelect

\* Where a statement is written, the one that is being read goes on as it does, to its
\* end.
LEMMA ParseIsForced ==
  ASSUME CursorInv, StmtOK, ReadingOK, pc \in InInsert \cup InSelect,
         NEW f, IsLanguage(tokens, f), f[cursor]
  PROVE  /\ stmt.type = "insert" => pc \in InInsert /\ InsertGoesOn(pc, tokens[current])
         /\ stmt.type = "select" => pc \in InSelect /\ SelectGoesOn(pc, tokens[current])
         /\ pc = "parsed" => f[current]
<1>1. /\ cursor \in 1..Len(tokens) /\ cursor \in Nat \ {0} /\ current \in Nat \ {0}
      /\ stmt.columns \in Seq(Nat) /\ stmt.values \in Seq(Nat)
  BY Places DEF CursorInv, CursorInBounds, TokensOK, Final
<1>2. /\ stmt.type = "insert" => /\ pc \in InInsert
                                 /\ Inserting(pc, tokens, stmt, cursor, current)
      /\ stmt.type = "select" => /\ pc \in InSelect
                                 /\ Selecting(pc, tokens, stmt, cursor, current)
      /\ tokens[cursor] = IF stmt.type = "insert" THEN "INSERT" ELSE "SELECT"
      /\ stmt.type \in {"insert", "select"}
  BY DEF ReadingOK, Inserting, Selecting
<1>3. PICK last \in cursor..(Len(tokens) - 1) : StatementAt(tokens, cursor, last) /\ f[last + 1]
  BY <1>1, <1>2 DEF IsLanguage, SentenceFrom
<1>4. tokens[last + 1] # "WHERE"
  <2>1. last + 1 \in 1..Len(tokens)
    <3>1. last \in cursor..(Final - 1) /\ Final \in Nat
      BY <1>3 DEF CursorInv, TokensOK, Final
    <3>2. last + 1 \in 1..Final
      BY <1>1, <3>1
    <3> QED BY <3>2 DEF Final
  <2>2. SentenceFrom(tokens, f, last + 1)
    BY <1>3, <2>1 DEF IsLanguage
  <2> QED BY <2>2, Zenon DEF SentenceFrom
<1>5. CASE stmt.type = "insert"
  <2>1. InsertAtPlace(tokens, cursor, last)
    BY <1>2, <1>3, <1>5 DEF StatementAt, SelectAtPlace, IsSelect
  <2>2. PICK n \in Nat, m \in Nat \ {0} :
           IsInsert(tokens, cursor, n, m) /\ last = EndOfInsert(cursor, n, m)
    BY <2>1 DEF InsertAtPlace
  <2>3. /\ InsertGoesOn(pc, tokens[current])
        /\ pc = "parsed" => current = last + 1
    BY <1>1, <1>2, <1>5, <2>2, InsertForced
  <2> QED BY <1>2, <1>3, <1>5, <2>3
<1>6. CASE stmt.type = "select"
  <2>1. SelectAtPlace(tokens, cursor, last)
    BY <1>2, <1>3, <1>6 DEF StatementAt, InsertAtPlace, IsInsert
  <2>2. PICK n \in Nat, where \in BOOLEAN :
           IsSelect(tokens, cursor, n, where) /\ last = EndOfSelect(cursor, n, where)
    BY <2>1 DEF SelectAtPlace
  <2>3. /\ SelectGoesOn(pc, tokens[current])
        /\ pc = "parsed" => current = last + 1
    BY <1>1, <1>2, <1>4, <1>6, <2>2, SelectForced
  <2> QED BY <1>2, <1>3, <1>6, <2>3
<1> QED BY <1>2, <1>5, <1>6

\* What has been read up to its end is a statement.
LEMMA ParsedIsStatement ==
  ASSUME CursorInv, StmtOK, ReadingOK, pc = "parsed"
  PROVE  StatementAt(tokens, cursor, current - 1) /\ current - 1 \in cursor..(Final - 1)
<1> DEFINE columns == stmt.columns
           values == stmt.values
           n == Len(columns)
           m == Len(values)
<1>1. /\ cursor \in Nat \ {0} /\ current \in 1..Final /\ Final \in Nat
      /\ columns \in Seq(Nat) /\ n \in Nat /\ values \in Seq(Nat) /\ m \in Nat
      /\ (columns = <<>> <=> n = 0) /\ (values # <<>> => m \in Nat \ {0})
  BY Places, EmptySeq DEF CursorInv, CursorInBounds, TokensOK
<1>2. \/ Inserting(pc, tokens, stmt, cursor, current)
      \/ Selecting(pc, tokens, stmt, cursor, current)
  BY DEF ReadingOK, InInsert, InSelect
<1>3. CASE Inserting(pc, tokens, stmt, cursor, current)
  <2>1. /\ TableRead(tokens, cursor, stmt.table) /\ ColumnsRead(tokens, cursor, columns)
        /\ ValuesRead(tokens, ValuesPlace(cursor, columns), values)
        /\ current = ValuesPlace(cursor, columns) + 2 + 2 * m
    BY <1>3 DEF Inserting
  <2> DEFINE place == PlaceOfValues(cursor, n)
  <2>2. place = ValuesPlace(cursor, columns)
    BY <1>1 DEF PlaceOfValues, ValuesPlace
  <2>3. place \in Nat /\ cursor + 3 <= place /\ EndOfInsert(cursor, n, m) = place + 1 + 2 * m
    BY <1>1, EndsAreNat
  <2> HIDE DEF columns, values, place
  <2>4. HasColumns(tokens, cursor, n)
    BY <1>1, <2>1, Zenon DEF HasColumns, ColumnsRead, ColumnsOpen, Listed, n
  <2>5. HasValues(tokens, place, m) /\ m \in Nat \ {0}
    BY <1>1, <2>1, <2>2 DEF HasValues, ValuesRead, ValuesOpen, Listed
  <2> HIDE DEF n, m
  <2>6. /\ current - 1 = EndOfInsert(cursor, n, m) /\ cursor <= current - 1
        /\ current - 1 \in cursor..(Final - 1)
    <3> DEFINE end == EndOfInsert(cursor, n, m)
    <3>1. /\ current = place + 2 + 2 * m /\ end = place + 1 + 2 * m /\ cursor + 3 <= place
          /\ place \in Nat /\ m \in Nat
      BY <1>1, <2>1, <2>2, <2>3
    <3>2. cursor \in Nat \ {0} /\ current \in 1..Final /\ Final \in Nat
      BY <1>1
    <3> HIDE DEF end
    <3>3. /\ current - 1 = end /\ cursor <= current - 1
          /\ current - 1 \in cursor..(Final - 1)
      BY <3>1, <3>2
    <3> QED BY <3>3 DEF end
  <2>7. IsInsert(tokens, cursor, n, m)
    BY <2>1, <2>4, <2>5 DEF IsInsert, TableRead, place
  <2> QED BY <1>1, <2>5, <2>6, <2>7 DEF StatementAt, InsertAtPlace
<1>4. CASE Selecting(pc, tokens, stmt, cursor, current)
  <2> DEFINE place == PlaceOfFrom(cursor, n)
             where == stmt.where_column # 0
  <2>1. /\ ProjectionRead(tokens, cursor, columns, stmt.all)
        /\ FromRead(tokens, FromPlace(cursor, columns), stmt.table)
        /\ ConditionRead(tokens, FromPlace(cursor, columns), stmt.where_column,
                         stmt.where_value, current)
    BY <1>4 DEF Selecting
  <2>2. place = FromPlace(cursor, columns)
    BY <1>1 DEF PlaceOfFrom, FromPlace
  <2>3. place \in Nat /\ cursor + 2 <= place
    BY <1>1, EndsAreNat
  <2>4. /\ where => /\ tokens[place + 2] = "WHERE" /\ tokens[place + 3] = "identifier"
                    /\ tokens[place + 4] = "=" /\ Word(tokens[place + 5]) = "literal"
        /\ current = IF where THEN place + 6 ELSE place + 2
    BY <2>1, <2>2 DEF ConditionRead, WhereRead
  <2> HIDE DEF columns, place, where
  <2>5. IF n = 0 THEN tokens[cursor + 1] = "*" ELSE Items(tokens, cursor + 1, n, "identifier")
    BY <1>1, <2>1, Zenon DEF ProjectionRead, Listed, n
  <2> HIDE DEF n
  <2>6. /\ current - 1 = EndOfSelect(cursor, n, where)
        /\ current - 1 \in cursor..(Final - 1)
    <3> DEFINE end == EndOfSelect(cursor, n, where)
    <3>1. end = IF where THEN place + 5 ELSE place + 1
      BY DEF EndOfSelect, place
    <3>2. /\ current = IF where THEN place + 6 ELSE place + 2
          /\ place \in Nat /\ cursor + 2 <= place
      BY <2>3, <2>4
    <3>3. cursor \in Nat \ {0} /\ current \in 1..Final /\ Final \in Nat
      BY <1>1
    <3> HIDE DEF end
    <3>4. current - 1 = end /\ current - 1 \in cursor..(Final - 1)
      BY <3>1, <3>2, <3>3
    <3> QED BY <3>4 DEF end
  <2>7. IsSelect(tokens, cursor, n, where)
    BY <2>1, <2>2, <2>4, <2>5 DEF IsSelect, ProjectionRead, FromRead, place
  <2>8. where \in BOOLEAN
    BY DEF where
  <2> QED BY <1>1, <2>6, <2>7, <2>8 DEF StatementAt, SelectAtPlace
<1> QED BY <1>2, <1>3, <1>4

\* As long as the program runs, the script is a sentence if what is left of it is one; a
\* parser that gives up has seen that it is not.
LanguageSays(f) ==
    /\ pc \notin {"failed", "ended"} => (f[1] <=> f[cursor])
    /\ pc = "failed" /\ failures = 0 /\ status = "PARSE_ERROR" => ~f[1]
    /\ pc = "ended" /\ failures = 0 /\ status = "PARSE_ERROR" => ~(f[1] /\ HasWord(tokens))
    /\ pc = "ended" /\ status = "OK" => f[1] /\ HasWord(tokens)

InStatement == InInsert \cup InSelect \cup {"parse", "execute", "report"}

LanguageInv ==
    /\ failures \in Nat
    /\ executed # <<>> \/ pc \in InStatement => HasWord(tokens)
    /\ \A f : IsLanguage(tokens, f) => LanguageSays(f)

LEMMA LanguageStart == Init => LanguageInv
BY DEF Init, LanguageInv, LanguageSays, InStatement, InInsert, InSelect

\* The program goes on within a statement, or in its loop.
LEMMA LanguageGoesOn ==
  ASSUME LanguageInv, UNCHANGED <<tokens, cursor>>, failures' \in Nat,
         pc \notin {"failed", "ended"}, pc' \notin {"failed", "ended"},
         executed' # <<>> \/ pc' \in InStatement => executed # <<>> \/ pc \in InStatement
  PROVE  LanguageInv'
BY DEF LanguageInv, LanguageSays

\* The parser gives up where no statement is written, or as memory ends.
LEMMA LanguageGivesUp ==
  ASSUME LanguageInv, ParseFails, failures' \in Nat, pc \notin {"failed", "ended"},
         failures' = 0 => \A f : IsLanguage(tokens, f) => ~f[cursor]
  PROVE  LanguageInv'
BY DEF LanguageInv, LanguageSays, ParseFails, InStatement, InInsert, InSelect

\* Where the rest of the script is a sentence, the token is the one that may come.
LEMMA RightToken ==
  ASSUME CursorInv, HeapInv, ReadingOK, pc \in InInsert \cup InSelect,
         NEW f, IsLanguage(tokens, f), f[cursor]
  PROVE  /\ InsertGoesOn(pc, Peek) /\ SelectGoesOn(pc, Peek)
         /\ pc = "parsed" => f[current]
         /\ pc \in {"value", "where_value"} => IsLiteral(Peek)
<1>1. StmtOK /\ stmt.type \in {"insert", "select"}
  BY DEF HeapInv, StmtOK
<1>2. /\ stmt.type = "insert" => pc \in InInsert /\ InsertGoesOn(pc, Peek)
      /\ stmt.type = "select" => pc \in InSelect /\ SelectGoesOn(pc, Peek)
      /\ pc = "parsed" => f[current]
  BY <1>1, ParseIsForced DEF Peek
<1>3. ASSUME pc \in InInsert, InsertGoesOn(pc, Peek) PROVE SelectGoesOn(pc, Peek)
  BY <1>3 DEF InInsert, InsertGoesOn, SelectGoesOn
<1>4. ASSUME pc \in InSelect, SelectGoesOn(pc, Peek) PROVE InsertGoesOn(pc, Peek)
  BY <1>4 DEF InSelect, InsertGoesOn, SelectGoesOn
<1>5. InsertGoesOn(pc, Peek) /\ SelectGoesOn(pc, Peek)
  BY <1>1, <1>2, <1>3, <1>4
<1>6. ASSUME Word(Peek) = "literal" PROVE IsLiteral(Peek)
  <2>1. Peek \in Kinds \cup {"EOF"}
    BY DEF Peek, CursorInv, CursorInBounds, TokensOK
  <2> QED BY <1>6, <2>1, Zenon DEF Word, IsLiteral, Kinds
<1> QED BY <1>2, <1>5, <1>6 DEF InsertGoesOn, SelectGoesOn

\* From a place to the end of the semicolons there nothing changes.
LEMMA SemicolonsSaySame ==
  ASSUME TokensOK, NEW f, IsLanguage(tokens, f),
         NEW i \in 1..Final, NEW j \in i..Final, OnlySemicolons(i, j - 1)
  PROVE  f[i] <=> f[j]
<1> DEFINE N == j - i
           S == {k \in 0..N : f[i] <=> f[i + k]}
<1>1. /\ Final \in Nat /\ N \in Nat /\ i + N = j /\ i + 0 = i
      /\ \A k \in 1..N : /\ i + (k - 1) \in 1..Final /\ i + (k - 1) \in i..(j - 1)
                         /\ (i + (k - 1)) + 1 = i + k
  BY DEF TokensOK
<1>2. \A p \in 1..Final : f[p] <=> SentenceFrom(tokens, f, p)
  BY DEF IsLanguage, Final
<1> HIDE DEF N
<1>3. 0 \in S
  BY <1>1
<1>4. ASSUME NEW k \in 1..N, k - 1 \in S PROVE k \in S
  <2> DEFINE p == i + (k - 1)
  <2>1. p \in 1..Final /\ p + 1 = i + k /\ tokens[p] = ";"
    BY <1>1 DEF OnlySemicolons
  <2>2. k \in 0..N
    BY <1>1
  <2>3. f[i] <=> f[p]
    BY <1>4
  <2> HIDE DEF p
  <2>4. f[p] <=> f[p + 1]
    BY <1>2, <2>1 DEF SentenceFrom
  <2> QED BY <2>1, <2>2, <2>3, <2>4
<1>5. \A k \in 0..N : k \in S
  <2> HIDE DEF S
  <2> QED BY <1>1, <1>3, <1>4, UpTo
<1>6. N \in 0..N
  BY <1>1
<1> QED BY <1>1, <1>5, <1>6

LEMMA LanguageAfterSemicolons ==
  ASSUME CursorInv, LanguageInv, MainLoop
  PROVE  LanguageInv'
<1> DEFINE j == AfterSemicolons(cursor)
<1>1. /\ pc = "main" /\ cursor' = j /\ UNCHANGED <<tokens, executed, failures, status>>
      /\ pc' = IF tokens[j] = "EOF" THEN "done" ELSE "parse"
  BY DEF MainLoop
<1>2. /\ cursor \in 1..Final /\ j \in cursor..Final /\ j \in 1..Final
      /\ tokens[j] # ";" /\ OnlySemicolons(cursor, j - 1)
  BY SemicolonsEnd DEF CursorInv, CursorInBounds, TokensOK
<1> HIDE DEF j
<1>3. ASSUME pc' = "parse" PROVE HasWord(tokens)
  BY <1>1, <1>2, <1>3 DEF HasWord, CursorInv, TokensOK
<1>4. ASSUME NEW f, IsLanguage(tokens, f) PROVE f[cursor] <=> f[j]
  BY <1>2, <1>4, SemicolonsSaySame DEF CursorInv
<1>5. ASSUME NEW f, IsLanguage(tokens, f) PROVE LanguageSays(f)'
  <2>1. f[1] <=> f[cursor]
    BY <1>1, <1>5 DEF LanguageInv, LanguageSays
  <2> QED BY <1>1, <1>4, <1>5, <2>1 DEF LanguageSays
<1>6. failures' \in Nat /\ (executed' # <<>> \/ pc' \in InStatement => HasWord(tokens'))
  BY <1>1, <1>3 DEF LanguageInv, InStatement, InInsert, InSelect
<1> QED BY <1>1, <1>5, <1>6 DEF LanguageInv

\* A statement begins with INSERT or SELECT.
LEMMA FirstWordDecides ==
  ASSUME CursorInv, ReadingOK, LanguageInv, NextStatement
  PROVE  LanguageInv'
<1>1. FirstWord = cursor
  BY FirstWordReads
<1>2. pc = "parse" /\ UNCHANGED <<tokens, cursor, executed, failures>>
  BY DEF NextStatement
<1>3. CASE tokens[cursor] \in {"INSERT", "SELECT"}
  <2>1. pc' \in {"into", "projection"}
    BY <1>1, <1>3 DEF NextStatement
  <2> QED BY <1>2, <2>1, LanguageGoesOn DEF LanguageInv, InStatement
<1>4. CASE tokens[cursor] \notin {"INSERT", "SELECT"}
  <2>1. pc' = "failed"
    BY <1>1, <1>4 DEF NextStatement, NotAStatement
  <2>2. tokens[cursor] \notin {";", "EOF"} /\ cursor \in 1..Len(tokens)
    BY <1>2 DEF ReadingOK, CursorInv, CursorInBounds, TokensOK, Final
  <2>3. ASSUME NEW f, IsLanguage(tokens, f) PROVE ~f[cursor]
    BY <1>4, <2>2, <2>3 DEF IsLanguage, SentenceFrom
  <2> QED BY <1>2, <2>1, <2>3 DEF LanguageInv, LanguageSays, InStatement, InInsert, InSelect
<1> QED BY <1>3, <1>4

\* The end of a statement, with its semicolon.
LEMMA StatementEnds ==
  ASSUME CursorInv, HeapInv, ReadingOK, LanguageInv, Parsed
  PROVE  LanguageInv'
<1>1. /\ pc = "parsed" /\ pc' = "execute" /\ UNCHANGED <<tokens, executed, failures, status>>
      /\ cursor' = IF tokens[current] = ";" THEN current + 1 ELSE current
  BY DEF Parsed, Peek
<1>2. /\ StatementAt(tokens, cursor, current - 1) /\ current - 1 \in cursor..(Final - 1)
      /\ cursor \in 1..Final /\ current \in 1..Final /\ Final \in Nat
  BY <1>1, ParsedIsStatement DEF HeapInv, CursorInv, CursorInBounds, TokensOK
<1>3. ASSUME NEW f, IsLanguage(tokens, f) PROVE f[cursor] <=> f[cursor']
  <2>1. /\ \A p \in 1..Final : f[p] <=> SentenceFrom(tokens, f, p)
        /\ \A p \in 1..Final : f[p] \in BOOLEAN
    BY <1>3 DEF IsLanguage, Final
  <2>2. f[current] <=> f[cursor']
    <3>1. CASE tokens[current] = ";"
      <4>1. f[current] <=> f[current + 1]
        BY <1>2, <2>1, <3>1 DEF SentenceFrom
      <4> QED BY <1>1, <3>1, <4>1
    <3>2. CASE tokens[current] # ";"
      BY <1>1, <3>2
    <3> QED BY <3>1, <3>2
  <2>3. ASSUME f[cursor] PROVE f[current]
    <3>1. pc \in InInsert \cup InSelect
      BY <1>1 DEF InInsert
    <3> QED BY <1>1, <1>3, <2>3, <3>1, RightToken
  <2>4. ASSUME f[current] PROVE f[cursor]
    <3>1. tokens[cursor] \in {"INSERT", "SELECT"}
      BY <1>2 DEF StatementAt, InsertAtPlace, SelectAtPlace, IsInsert, IsSelect
    <3>2. (current - 1) + 1 = current
      BY <1>2
    <3>3. SentenceFrom(tokens, f, cursor)
      BY <1>2, <2>4, <3>1, <3>2 DEF SentenceFrom, Final
    <3> QED BY <1>2, <2>1, <3>3
  <2> QED BY <2>2, <2>3, <2>4
<1>4. ASSUME NEW f, IsLanguage(tokens, f) PROVE LanguageSays(f)'
  <2>1. f[1] <=> f[cursor]
    BY <1>1, <1>4 DEF LanguageInv, LanguageSays
  <2> QED BY <1>1, <1>3, <1>4, <2>1 DEF LanguageSays
<1>5. failures' \in Nat /\ (executed' # <<>> \/ pc' \in InStatement => HasWord(tokens'))
  BY <1>1 DEF LanguageInv, InStatement, InInsert
<1> QED BY <1>1, <1>4, <1>5 DEF LanguageInv

\* A token of a statement is taken, or the parser gives up where it cannot come.
LEMMA WordTakenOrWrong ==
  ASSUME CursorInv, HeapInv, ReadingOK, LanguageInv,
         pc \in InInsert \cup InSelect, UNCHANGED <<tokens, cursor, executed>>,
         failures' \in Nat,
         \/ pc' \in InInsert \cup InSelect
         \/ ParseFails /\ failures' # 0
         \/ ParseFails /\ ~(/\ InsertGoesOn(pc, Peek) /\ SelectGoesOn(pc, Peek)
                            /\ pc \in {"value", "where_value"} => IsLiteral(Peek))
  PROVE  LanguageInv'
<1>1. pc \notin {"failed", "ended"} /\ pc \in InStatement
  BY DEF InStatement, InInsert, InSelect
<1>2. CASE pc' \in InInsert \cup InSelect
  <2>1. pc' \notin {"failed", "ended"}
    BY <1>2 DEF InInsert, InSelect
  <2> QED BY <1>1, <2>1, LanguageGoesOn
<1>3. CASE ParseFails /\ failures' # 0
  BY <1>1, <1>3, LanguageGivesUp
<1>4. CASE ParseFails /\ ~(/\ InsertGoesOn(pc, Peek) /\ SelectGoesOn(pc, Peek)
                           /\ pc \in {"value", "where_value"} => IsLiteral(Peek))
  <2>1. ASSUME NEW f, IsLanguage(tokens, f) PROVE ~f[cursor]
    BY <1>4, <2>1, RightToken
  <2> QED BY <1>1, <1>4, <2>1, LanguageGivesUp
<1> QED BY <1>2, <1>3, <1>4

LEMMA ExpectedWord ==
  ASSUME CursorInv, HeapInv, ReadingOK, LanguageInv,
         NEW here, NEW kind, NEW next, Expect(here, kind, next),
         here \in InInsert \cup InSelect, next \in InInsert \cup InSelect,
         \A k : InsertGoesOn(here, k) /\ SelectGoesOn(here, k) => k = kind
  PROVE  LanguageInv'
<1>1. pc = here /\ UNCHANGED <<tokens, cursor, executed, failures>> /\ failures' \in Nat
  BY DEF Expect, ParseFails, LanguageInv
<1>2. pc' = next \/ (Peek # kind /\ ParseFails)
  BY DEF Expect
<1> QED BY <1>1, <1>2, WordTakenOrWrong

LEMMA ExpectedWords ==
  ASSUME CursorInv, HeapInv, ReadingOK, LanguageInv,
         \/ Expect("into", "INTO", "table") \/ Expect("columns_end", ")", "values")
         \/ Expect("values", "VALUES", "values_open") \/ Expect("values_open", "(", "value")
         \/ Expect("values_end", ")", "parsed") \/ Expect("from", "FROM", "table")
         \/ Expect("equal", "=", "where_value")
  PROVE  LanguageInv'
<1>1. /\ {"into", "table", "columns_end", "values", "values_open", "value", "values_end", "parsed"}
            \subseteq InInsert \cup InSelect
      /\ {"from", "table", "equal", "where_value"} \subseteq InInsert \cup InSelect
  BY DEF InInsert, InSelect
<1>2. CASE Expect("into", "INTO", "table")
  <2>1. \A k : InsertGoesOn("into", k) => k = "INTO"
    BY DEF InsertGoesOn
  <2> QED BY <1>1, <1>2, <2>1, ExpectedWord
<1>3. CASE Expect("columns_end", ")", "values")
  <2>1. \A k : InsertGoesOn("columns_end", k) => k = ")"
    BY Zenon DEF InsertGoesOn
  <2> QED BY <1>1, <1>3, <2>1, ExpectedWord
<1>4. CASE Expect("values", "VALUES", "values_open")
  <2>1. \A k : InsertGoesOn("values", k) => k = "VALUES"
    BY DEF InsertGoesOn
  <2> QED BY <1>1, <1>4, <2>1, ExpectedWord
<1>5. CASE Expect("values_open", "(", "value")
  <2>1. \A k : InsertGoesOn("values_open", k) => k = "("
    BY Zenon DEF InsertGoesOn
  <2> QED BY <1>1, <1>5, <2>1, ExpectedWord
<1>6. CASE Expect("values_end", ")", "parsed")
  <2>1. \A k : InsertGoesOn("values_end", k) => k = ")"
    BY Zenon DEF InsertGoesOn
  <2> QED BY <1>1, <1>6, <2>1, ExpectedWord
<1>7. CASE Expect("from", "FROM", "table")
  <2>1. \A k : SelectGoesOn("from", k) => k = "FROM"
    BY DEF SelectGoesOn
  <2> QED BY <1>1, <1>7, <2>1, ExpectedWord
<1>8. CASE Expect("equal", "=", "where_value")
  <2>1. \A k : SelectGoesOn("equal", k) => k = "="
    BY Zenon DEF SelectGoesOn
  <2> QED BY <1>1, <1>8, <2>1, ExpectedWord
<1> QED BY <1>2, <1>3, <1>4, <1>5, <1>6, <1>7, <1>8

\* The parts of a statement that it keeps.
LEMMA PartsRead ==
  ASSUME CursorInv, HeapInv, ReadingOK, LanguageInv,
         Table \/ Column \/ Value \/ WhereColumn \/ WhereValue
  PROVE  LanguageInv'
<1>1. failures \in Nat /\ MaxFailures \in Nat
  BY MaxFailuresAssumption DEF LanguageInv
<1>2. /\ pc \in {"table", "column", "value", "where_column", "where_value"}
      /\ UNCHANGED <<tokens, cursor, executed>>
  BY DEF Table, Column, Value, WhereColumn, WhereValue, OutOfMemory, ParseFails
<1>3. failures' \in Nat /\ failures' \in {failures, failures + 1}
  BY <1>1 DEF Table, Column, Value, WhereColumn, WhereValue, OutOfMemory
<1>4. /\ pc \in InInsert \cup InSelect
      /\ {"columns", "where", "column", "columns_end", "from", "value", "values_end",
          "equal", "parsed"} \subseteq InInsert \cup InSelect
  BY <1>2 DEF InInsert, InSelect
<1>5. OutOfMemory => ParseFails /\ failures' # 0
  BY <1>1 DEF OutOfMemory
<1>6. CASE Table
  <2>1. pc' \in {"columns", "where"} \/ (Peek # "identifier" /\ ParseFails)
    BY <1>6 DEF Table
  <2>2. InsertGoesOn(pc, Peek) => Peek = "identifier"
    BY <1>6 DEF Table, InsertGoesOn
  <2> QED BY <1>2, <1>3, <1>4, <2>1, <2>2, WordTakenOrWrong
<1>7. CASE Column
  <2>1. \/ pc' \in {"column", "columns_end", "from"} \/ OutOfMemory
        \/ Peek # "identifier" /\ ParseFails
    BY <1>7, Zenon DEF Column, AfterItem
  <2>2. InsertGoesOn(pc, Peek) => Peek = "identifier"
    BY <1>7 DEF Column, InsertGoesOn
  <2> QED BY <1>2, <1>3, <1>4, <1>5, <2>1, <2>2, WordTakenOrWrong
<1>8. CASE Value
  <2>1. \/ pc' \in {"value", "values_end"} \/ OutOfMemory
        \/ ~IsLiteral(Peek) /\ ParseFails
    BY <1>8, Zenon DEF Value, AfterItem
  <2>2. pc = "value"
    BY <1>8 DEF Value
  <2> QED BY <1>2, <1>3, <1>4, <1>5, <2>1, <2>2, WordTakenOrWrong
<1>9. CASE WhereColumn
  <2>1. pc' = "equal" \/ (Peek # "identifier" /\ ParseFails)
    BY <1>9 DEF WhereColumn
  <2>2. SelectGoesOn(pc, Peek) => Peek = "identifier"
    BY <1>9 DEF WhereColumn, SelectGoesOn
  <2> QED BY <1>2, <1>3, <1>4, <2>1, <2>2, WordTakenOrWrong
<1>10. CASE WhereValue
  <2>1. pc' = "parsed" \/ (~IsLiteral(Peek) /\ ParseFails)
    BY <1>10 DEF WhereValue
  <2>2. pc = "where_value"
    BY <1>10 DEF WhereValue
  <2> QED BY <1>2, <1>3, <1>4, <2>1, <2>2, WordTakenOrWrong
<1> QED BY <1>6, <1>7, <1>8, <1>9, <1>10

LEMMA OptionalWords ==
  ASSUME CursorInv, HeapInv, ReadingOK, LanguageInv, Columns \/ Projection \/ Where
  PROVE  LanguageInv'
<1>1. /\ UNCHANGED <<tokens, cursor, executed, failures>> /\ failures' \in Nat
      /\ pc \in {"columns", "projection", "where"}
      /\ pc' \in {"column", "values", "from", "where_column", "parsed"}
  BY Zenon DEF Columns, Projection, Where, Optional, LanguageInv
<1>2. pc \in InInsert \cup InSelect /\ pc' \in InInsert \cup InSelect
  BY <1>1 DEF InInsert, InSelect
<1> QED BY <1>1, <1>2, WordTakenOrWrong

\* The loop of main, and the end.
LEMMA ScriptDone ==
  ASSUME CursorInv, WrittenInv, LanguageInv, Done
  PROVE  LanguageInv'
<1>1. /\ pc = "done" /\ pc' = "ended" /\ UNCHANGED <<tokens, cursor, executed, failures>>
      /\ status' = IF executed = <<>> THEN "PARSE_ERROR" ELSE "OK"
  BY DEF Done
<1>2. cursor = Final /\ Final \in 1..Final /\ tokens[Final] = "EOF" /\ Final \in Nat
  BY <1>1 DEF WrittenInv, CursorInv, TokensOK
<1>3. ASSUME executed = <<>> PROVE ~HasWord(tokens)
  <2>1. OnlySemicolons(EndOf(executed) + 1, cursor - 1) /\ EndOf(executed) = 0
    BY <1>1, <1>3 DEF WrittenInv, EndOf
  <2>2. \A p \in 1..(Final - 1) : tokens[p] = ";"
    <3>1. EndOf(executed) + 1 = 1
      BY <2>1
    <3>2. OnlySemicolons(1, Final - 1)
      BY <1>2, <2>1, <3>1
    <3> QED BY <3>2, Zenon DEF OnlySemicolons
  <2>3. ASSUME NEW p \in DOMAIN tokens PROVE tokens[p] \in {";", "EOF"}
    <3>1. p \in 1..Final
      BY DEF CursorInv, TokensOK
    <3>2. p = Final \/ p \in 1..(Final - 1)
      BY <1>2, <3>1
    <3> QED BY <1>2, <2>2, <3>2
  <2> QED BY <2>3 DEF HasWord
<1>4. executed # <<>> => HasWord(tokens)
  BY DEF LanguageInv
<1>5. ASSUME NEW f, IsLanguage(tokens, f) PROVE f[1]
  <2>1. f[1] <=> f[Final]
    BY <1>1, <1>2, <1>5 DEF LanguageInv, LanguageSays
  <2>2. SentenceFrom(tokens, f, Final)
    BY <1>2 DEF SentenceFrom
  <2> QED BY <1>2, <1>5, <2>1, <2>2 DEF IsLanguage, Final
<1>6. ASSUME NEW f, IsLanguage(tokens, f) PROVE LanguageSays(f)'
  BY <1>1, <1>3, <1>4, <1>5, <1>6 DEF LanguageSays
<1> QED BY <1>1, <1>6, <1>4 DEF LanguageInv, InStatement, InInsert, InSelect

LEMMA MainKeepsLanguage ==
  ASSUME CursorInv, WrittenInv, LanguageInv, Main
  PROVE  LanguageInv'
<1>1. CASE Start
  <2>1. /\ UNCHANGED <<tokens, cursor, executed, failures>>
        /\ pc \in Starting /\ pc' \in {"tokenize", "context", "main"}
    BY <1>1 DEF Start, Makes, Starting
  <2> QED BY <2>1, LanguageGoesOn DEF Starting, LanguageInv, InStatement, InInsert, InSelect
<1>2. CASE StartFails
  BY <1>2 DEF StartFails, GivesUp, LanguageInv, LanguageSays, InStatement, InInsert, InSelect
<1>3. CASE MainLoop
  BY <1>3, LanguageAfterSemicolons
<1>4. CASE Execute
  <2>1. UNCHANGED <<tokens, cursor, failures>> /\ pc = "execute" /\ pc' = "report"
    BY <1>4 DEF Execute
  <2> QED BY <2>1, LanguageGoesOn DEF LanguageInv, InStatement
<1>5. CASE ExecuteFails
  <2>1. /\ UNCHANGED <<tokens, cursor, executed, failures>> /\ pc = "execute" /\ pc' = "failed"
        /\ status' = "EXEC_ERROR"
    BY <1>5 DEF ExecuteFails
  <2> QED BY <2>1 DEF LanguageInv, LanguageSays, InStatement, InInsert, InSelect
<1>6. CASE Report
  <2>1. UNCHANGED <<tokens, cursor, executed, failures>> /\ pc = "report" /\ pc' = "main"
    BY <1>6 DEF Report
  <2> QED BY <2>1, LanguageGoesOn DEF LanguageInv, InStatement
<1>7. CASE Failed
  <2>1. /\ UNCHANGED <<tokens, cursor, executed, failures, status>> /\ pc = "failed" /\ pc' = "ended"
        /\ status # "OK"
    BY <1>7 DEF Failed, WrittenInv
  <2> QED BY <2>1 DEF LanguageInv, LanguageSays, InStatement, InInsert, InSelect
<1>8. CASE Done
  BY <1>8, ScriptDone
<1> QED BY <1>1, <1>2, <1>3, <1>4, <1>5, <1>6, <1>7, <1>8 DEF Main

LEMMA LanguageStep ==
  ASSUME CursorInv, HeapInv, ReadingOK, WrittenInv, LanguageInv, [Next]_vars
  PROVE  LanguageInv'
<1>1. CASE Parse
  <2>1. CASE NextStatement
    BY <2>1, FirstWordDecides
  <2>2. CASE \/ Expect("into", "INTO", "table") \/ Expect("columns_end", ")", "values")
             \/ Expect("values", "VALUES", "values_open") \/ Expect("values_open", "(", "value")
             \/ Expect("values_end", ")", "parsed") \/ Expect("from", "FROM", "table")
             \/ Expect("equal", "=", "where_value")
    BY <2>2, ExpectedWords
  <2>3. CASE Table \/ Column \/ Value \/ WhereColumn \/ WhereValue
    BY <2>3, PartsRead
  <2>4. CASE Columns \/ Projection \/ Where
    BY <2>4, OptionalWords
  <2>5. CASE Parsed
    BY <2>5, StatementEnds
  <2> QED BY <1>1, <2>1, <2>2, <2>3, <2>4, <2>5, Zenon DEF Parse
<1>2. CASE Main
  BY <1>2, MainKeepsLanguage
<1>3. CASE Ended \/ UNCHANGED vars
  BY <1>3 DEF Ended, vars, LanguageInv, LanguageSays
<1> QED BY <1>1, <1>2, <1>3 DEF Next

\* A session in which no allocation fails and that ends without an error of the executor
\* ends well exactly if the script is a sequence of statements of the grammar with at
\* least one of them: the parser, which looks at one token and never goes back, rejects
\* no script of the language and accepts no other (parse_next_statement and the loops of
\* main).
THEOREM TheLanguageIsAccepted == Spec => []AcceptsTheLanguage
<1>1. Init => CursorInv /\ HeapInv /\ ReadingOK /\ WrittenInv /\ LanguageInv
  <2>1. Init => ReadingOK
    BY DEF Init, ReadingOK, InInsert, InSelect
  <2> QED BY <2>1, TokensStart, HeapStart, WrittenStart, LanguageStart
<1>2. CursorInv /\ HeapInv /\ ReadingOK /\ WrittenInv /\ LanguageInv /\ [Next]_vars
        => CursorInv' /\ HeapInv' /\ ReadingOK' /\ WrittenInv' /\ LanguageInv'
  BY CursorStep, HeapStep, ReadingStep, WrittenStep, LanguageStep
<1>3. CursorInv /\ LanguageInv => AcceptsTheLanguage
  <2> SUFFICES ASSUME CursorInv, LanguageInv, pc = "ended", failures = 0,
                      status \in {"OK", "PARSE_ERROR"}
               PROVE  status = "OK" <=> Sentence
    BY DEF AcceptsTheLanguage
  <2>1. PICK f : IsLanguage(tokens, f) /\ (Sentence <=> f[1] /\ HasWord(tokens))
    BY LanguageExists DEF CursorInv
  <2>2. LanguageSays(f)
    BY <2>1 DEF LanguageInv
  <2> QED BY <2>1, <2>2 DEF LanguageSays
<1> QED BY <1>1, <1>2, <1>3, PTL DEF Spec

=============================================================================
