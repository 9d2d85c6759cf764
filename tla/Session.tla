------------------------------ MODULE Session ------------------------------
(***************************************************************************)
(* One run of the program over one script: main (src/main.c) walks the     *)
(* token array, lets the parser (src/parser.c) build the next statement,   *)
(* executes and reports it, and ends at the first error.                   *)
(*                                                                         *)
(* A token is its type.  The text of an identifier or a literal is the     *)
(* place of its token, so that a statement shows which token each of its   *)
(* parts was copied from; 0 is NULL.  The heap is the set of the blocks    *)
(* that are allocated; a block is named by what it holds and the token it  *)
(* copies.  Copies of text are made by strdup_safe, which ends the process *)
(* when there is no memory; growing a list may fail and is reported.       *)
(***************************************************************************)
EXTENDS Integers, Sequences, FiniteSets

CONSTANTS Scripts,     \* the token types a script may have, without the final EOF
          MaxFailures  \* bounds the failing allocations

Kinds == {"identifier", "string", "number", ",", "(", ")", ";", "*", "=",
          "INSERT", "INTO", "VALUES", "SELECT", "FROM", "WHERE"}

ASSUME ScriptsAssumption == Scripts \subseteq Seq(Kinds)
ASSUME MaxFailuresAssumption == MaxFailures \in Nat

VARIABLES tokens,    \* TokenArray: the script and TOKEN_EOF
          cursor,    \* main's place in the array
          current,   \* Parser.current
          pc,        \* what the program does next
          stmt,      \* main's Statement
          heap,      \* the allocated blocks
          bad_free,  \* whether a block was freed that was not allocated
          executed,  \* the statements executed so far
          status,    \* the exit code
          failures   \* how many allocations failed

vars == <<tokens, cursor, current, pc, stmt, heap, bad_free, executed, status, failures>>

\* A Statement after memset: its type is the first of the enumeration.
NoStatement ==
    [type |-> "insert", table |-> 0, columns |-> <<>>, values |-> <<>>,
     all |-> FALSE, where_column |-> 0, where_value |-> 0]

\* What main owns; the context is one block here, with all that free_execution_context
\* frees.
Program == {<<"sql", 0>>, <<"tokens", 0>>, <<"context", 0>>}

Block(kind, at) == IF at = 0 THEN {} ELSE {<<kind, at>>}

\* A list owns its array and the text of each item.
ListBlocks(kind, list) ==
    IF list = <<>> THEN {} ELSE {<<kind, 0>>} \cup {<<kind, list[n]>> : n \in DOMAIN list}

\* The blocks free_statement frees: the type tells which member of the union is in use.
Owned(s) ==
    Block("table", s.table) \cup ListBlocks("column", s.columns) \cup
    IF s.type = "insert" THEN ListBlocks("value", s.values)
    ELSE Block("where_column", s.where_column) \cup Block("where_value", s.where_value)

Emptied_KeepsTable(s) == [NoStatement EXCEPT !.type = s.type, !.table = s.table]

\* What free_statement leaves of it.
Emptied(s) == [NoStatement EXCEPT !.type = s.type]

Frees(blocks) ==
    /\ heap' = heap \ blocks
    /\ bad_free' = (bad_free \/ ~(blocks \subseteq heap))

Allocates(blocks) == heap' = heap \cup blocks /\ UNCHANGED bad_free

Init ==
    /\ \E script \in Scripts : tokens = Append(script, "EOF")
    /\ cursor = 1 /\ current = 1 /\ pc = "start"
    /\ stmt = NoStatement
    /\ heap = {} /\ bad_free = FALSE
    /\ executed = <<>> /\ status = "OK" /\ failures = 0

-----------------------------------------------------------------------------
(* parse_next_statement.                                                   *)

\* parser_skip_semicolons, and the same loop in main.
AfterSemicolons(i) ==
    CHOOSE j \in i..Len(tokens) :
        tokens[j] # ";" /\ \A k \in i..(j - 1) : tokens[k] = ";"

\* The first token of the next statement.
FirstWord == AfterSemicolons(cursor)

Peek == tokens[current]

\* A function of the parser gives up: what it has allocated is freed, by itself or by
\* free_statement.
ParseFails ==
    /\ Frees(Owned(stmt))
    /\ stmt' = Emptied(stmt)
    /\ status' = "PARSE_ERROR" /\ pc' = "failed"
    /\ UNCHANGED <<tokens, cursor, current, executed>>

\* parser_match of the one token that may come here, and what to do then.
Expect(here, kind, next) ==
    /\ pc = here
    /\ \/ /\ Peek = kind
          /\ current' = current + 1 /\ pc' = next
          /\ UNCHANGED <<tokens, cursor, stmt, heap, bad_free, executed, status>>
       \/ Peek # kind /\ ParseFails
    /\ UNCHANGED failures

NotAStatement_Skipped ==
    stmt' = NoStatement /\ pc' = "main" /\ UNCHANGED <<current, status>>

\* Neither INSERT nor SELECT.
NotAStatement ==
    /\ stmt' = NoStatement
    /\ status' = "PARSE_ERROR" /\ pc' = "failed"
    /\ UNCHANGED current

\* The statement is cleared, whatever it points to, before its first token is looked at.
NextStatement ==
    /\ pc = "parse"
    /\ \/ /\ tokens[FirstWord] = "INSERT"
          /\ stmt' = NoStatement
          /\ current' = FirstWord + 1 /\ pc' = "into"
          /\ UNCHANGED status
       \/ /\ tokens[FirstWord] = "SELECT"
          /\ stmt' = [NoStatement EXCEPT !.type = "select"]
          /\ current' = FirstWord + 1 /\ pc' = "projection"
          /\ UNCHANGED status
       \/ /\ tokens[FirstWord] \notin {"INSERT", "SELECT"}
          /\ NotAStatement
    /\ UNCHANGED <<tokens, cursor, heap, bad_free, executed, failures>>

\* Growing a list fails.
OutOfMemory ==
    /\ failures < MaxFailures /\ failures' = failures + 1
    /\ ParseFails

AfterItem_NoLook(item, next) ==
    IF tokens[current + 1] = "," THEN current' = current + 2 /\ pc' = item
    ELSE current' = current + 2 /\ pc' = next

\* The item just read is followed by a comma and another one, or by something else.
AfterItem(item, next) ==
    IF tokens[current + 1] = "," THEN current' = current + 2 /\ pc' = item
    ELSE current' = current + 1 /\ pc' = next

\* parse_identifier_list, one item.
Column ==
    /\ pc = "column"
    /\ \/ /\ Peek = "identifier"
          /\ Allocates({<<"column", 0>>, <<"column", current>>})
          /\ stmt' = [stmt EXCEPT !.columns = Append(@, current)]
          /\ AfterItem("column", IF stmt.type = "insert" THEN "columns_end" ELSE "from")
          /\ UNCHANGED <<tokens, cursor, executed, status, failures>>
       \/ Peek = "identifier" /\ OutOfMemory
       \/ Peek # "identifier" /\ ParseFails /\ UNCHANGED failures

IsLiteral_OnlyString(kind) == kind = "string"

IsLiteral(kind) == kind \in {"string", "number"}

Value_Swapped ==
    /\ pc = "value"
    /\ \/ /\ IsLiteral(Peek)
          /\ Allocates({<<"value", 0>>, <<"value", current>>})
          /\ stmt' = [stmt EXCEPT !.values = <<current>> \o @]
          /\ AfterItem("value", "values_end")
          /\ UNCHANGED <<tokens, cursor, executed, status, failures>>
       \/ IsLiteral(Peek) /\ OutOfMemory
       \/ ~IsLiteral(Peek) /\ ParseFails /\ UNCHANGED failures

\* parse_literal_list, one item.
Value ==
    /\ pc = "value"
    /\ \/ /\ IsLiteral(Peek)
          /\ Allocates({<<"value", 0>>, <<"value", current>>})
          /\ stmt' = [stmt EXCEPT !.values = Append(@, current)]
          /\ AfterItem("value", "values_end")
          /\ UNCHANGED <<tokens, cursor, executed, status, failures>>
       \/ IsLiteral(Peek) /\ OutOfMemory
       \/ ~IsLiteral(Peek) /\ ParseFails /\ UNCHANGED failures

\* parse_identifier for the table.
Table ==
    /\ pc = "table"
    /\ \/ /\ Peek = "identifier"
          /\ Allocates({<<"table", current>>})
          /\ stmt' = [stmt EXCEPT !.table = current]
          /\ current' = current + 1
          /\ pc' = IF stmt.type = "insert" THEN "columns" ELSE "where"
          /\ UNCHANGED <<tokens, cursor, executed, status>>
       \/ Peek # "identifier" /\ ParseFails
    /\ UNCHANGED failures

\* A token that may be absent.
Optional(here, kind, next, otherwise) ==
    /\ pc = here
    /\ IF Peek = kind THEN current' = current + 1 /\ pc' = next
       ELSE UNCHANGED current /\ pc' = otherwise
    /\ UNCHANGED <<tokens, cursor, heap, bad_free, executed, status, failures>>

Columns == Optional("columns", "(", "column", "values") /\ UNCHANGED stmt

Projection ==
    /\ Optional("projection", "*", "from", "column")
    /\ stmt' = [stmt EXCEPT !.all = (Peek = "*")]

Where == Optional("where", "WHERE", "where_column", "parsed") /\ UNCHANGED stmt

\* parse_where_clause after WHERE.
WhereColumn ==
    /\ pc = "where_column"
    /\ \/ /\ Peek = "identifier"
          /\ Allocates({<<"where_column", current>>})
          /\ stmt' = [stmt EXCEPT !.where_column = current]
          /\ current' = current + 1 /\ pc' = "equal"
          /\ UNCHANGED <<tokens, cursor, executed, status>>
       \/ Peek # "identifier" /\ ParseFails
    /\ UNCHANGED failures

WhereValue ==
    /\ pc = "where_value"
    /\ \/ /\ IsLiteral(Peek)
          /\ Allocates({<<"where_value", current>>})
          /\ stmt' = [stmt EXCEPT !.where_value = current]
          /\ current' = current + 1 /\ pc' = "parsed"
          /\ UNCHANGED <<tokens, cursor, executed, status>>
       \/ ~IsLiteral(Peek) /\ ParseFails
    /\ UNCHANGED failures

\* The semicolon that may end the statement; the cursor moves on a success only.
Parsed ==
    /\ pc = "parsed"
    /\ current' = IF Peek = ";" THEN current + 1 ELSE current
    /\ cursor' = current' /\ pc' = "execute"
    /\ UNCHANGED <<tokens, stmt, heap, bad_free, executed, status, failures>>

Parse ==
    \/ NextStatement
    \/ Expect("into", "INTO", "table")
    \/ Table \/ Columns \/ Column
    \/ Expect("columns_end", ")", "values")
    \/ Expect("values", "VALUES", "values_open")
    \/ Expect("values_open", "(", "value")
    \/ Value
    \/ Expect("values_end", ")", "parsed")
    \/ Projection
    \/ Expect("from", "FROM", "table")
    \/ Where \/ WhereColumn
    \/ Expect("equal", "=", "where_value")
    \/ WhereValue
    \/ Parsed

-----------------------------------------------------------------------------
(* main.                                                                   *)

\* A step of the start makes something, or main gives up and frees what it had.
Makes(here, block, next) ==
    /\ pc = here /\ Allocates({<<block, 0>>}) /\ pc' = next
    /\ UNCHANGED <<tokens, cursor, current, stmt, executed, status, failures>>

GivesUp(here, kinds, error) ==
    /\ pc = here /\ Frees(kinds \X {0}) /\ status' = error /\ pc' = "ended"
    /\ UNCHANGED <<tokens, cursor, current, stmt, executed, failures>>

\* Nothing but blanks in the file.
IsEmptyText == Len(tokens) = 1

\* The script is read and split into tokens, and the context of the runtimes is made.
Start ==
    \/ Makes("start", "sql", "tokenize")
    \/ ~IsEmptyText /\ Makes("tokenize", "tokens", "context")
    \/ Makes("context", "context", "main")

\* A lexer that fails has freed its tokens: main's free_token_array finds none.
StartFails ==
    \/ GivesUp("start", {}, "FILE_ERROR")
    \/ IsEmptyText /\ GivesUp("tokenize", {"sql"}, "FILE_ERROR")
    \/ ~IsEmptyText /\ GivesUp("tokenize", {"sql"}, "LEX_ERROR")
    \/ GivesUp("context", {"sql", "tokens"}, "EXEC_ERROR")

MainLoop ==
    /\ pc = "main"
    /\ cursor' = AfterSemicolons(cursor)
    /\ pc' = IF tokens[cursor'] = "EOF" THEN "done" ELSE "parse"
    /\ UNCHANGED <<tokens, current, stmt, heap, bad_free, executed, status, failures>>

\* execute_statement makes a result, or frees what it made of one.
Execute ==
    /\ pc = "execute"
    /\ Allocates({<<"result", 0>>})
    /\ executed' = Append(executed, stmt)
    /\ pc' = "report"
    /\ UNCHANGED <<tokens, cursor, current, stmt, status, failures>>

ExecuteFails ==
    /\ pc = "execute"
    /\ status' = "EXEC_ERROR" /\ pc' = "failed"
    /\ UNCHANGED <<tokens, cursor, current, stmt, heap, bad_free, executed, failures>>

Report ==
    /\ pc = "report"
    /\ Frees({<<"result", 0>>} \cup Owned(stmt))
    /\ stmt' = Emptied(stmt)
    /\ pc' = "main"
    /\ UNCHANGED <<tokens, cursor, current, executed, status, failures>>

\* After an error of the parser or the executor, main frees the statement (again).
Failed ==
    /\ pc = "failed"
    /\ Frees(Program \cup Owned(stmt))
    /\ stmt' = Emptied(stmt)
    /\ pc' = "ended"
    /\ UNCHANGED <<tokens, cursor, current, executed, status, failures>>

Done ==
    /\ pc = "done"
    /\ Frees(Program)
    /\ status' = IF executed = <<>> THEN "PARSE_ERROR" ELSE "OK"
    /\ pc' = "ended"
    /\ UNCHANGED <<tokens, cursor, current, stmt, executed, failures>>

Main == Start \/ StartFails \/ MainLoop \/ Execute \/ ExecuteFails \/ Report \/ Failed \/ Done

Ended == pc = "ended" /\ UNCHANGED vars

Next == Parse \/ Main \/ Ended

Spec == Init /\ [][Next]_vars

\* The program is a single thread that nothing holds up.
FairSpec == Spec /\ WF_vars(Parse \/ Main)
-----------------------------------------------------------------------------
\* Nothing is freed twice, though the parser frees a statement it gives up and main
\* frees it again; outside of a statement nothing of one is allocated, and when the
\* session ends, however it ends, nothing is (parse_insert, parse_select, free_statement,
\* main).
FreedExactlyOnce ==
    /\ ~bad_free
    /\ pc = "main" => heap = Program
    /\ pc = "ended" => heap = {}

\* Neither main nor the parser ever reads past TOKEN_EOF (parser_advance, the cursor of
\* parse_next_statement).
CursorInBounds == cursor \in DOMAIN tokens /\ current \in DOMAIN tokens
=============================================================================
