# A TLA+ model of the SQL engine and its B+ tree index

The program is a command-line SQL engine in C. One process runs one SQL file:
it parses a statement, executes it and goes on to the next, until the file ends
or a statement fails. A table is a schema file and an append-only data file
with one line per row. A table with a column `id` gets generated ids and, in
the memory of each process, a B+ tree from id to the offset of the row.

## Components

| Part | State | Operations | Talks to |
|---|---|---|---|
| Session (`src/main.c`) | cursor over the tokens, the statement, the result | the statement loop; the first error ends the process | parser, executor |
| Lexer (`src/lexer.c`) | the token array | one pass over the script | |
| Parser (`src/parser.c`) | cursor, the statement being built | one statement at a time, from the cursor on | the token array of the lexer; `realloc`, which may fail |
| Executor (`src/executor.c`) | none of its own | INSERT: check, append, insert into the index, count up `next_id`; SELECT: by index or by full scan | runtime, storage, tree |
| Table runtime (`src/runtime.c`) | per process: an array of the tables loaded, each with schema, id index and `next_id` | load or reuse a table, grow the array, build the index from the data file, free | schema loader; scans storage with a callback that inserts into the tree |
| B+ tree (`src/bptree.c`) | nodes with keys, offsets or children, parent and next links; `root`, `key_count` | init, insert (leaf, leaf split, internal insert and split, new root), search, validate, destroy | called by runtime and executor; calls `calloc`, which may fail |
| Storage (`src/storage.c`) | the data files | append with offset, scan with offsets, read one row at an offset, escape and unescape fields | the file system; shared by all processes |
| Schema loader (`src/schema.c`) | the columns of a table | read the schema file, find a column | |
| CLI, result printing, utilities, benchmarks, scripts | | formatting and pure I/O, not modelled | |

What is hard in this code is not concurrency inside a process, there is none. It is

* a recursive data structure held together by three kinds of links, changed in
  several steps, any of whose allocations may fail after earlier steps are done;
* an INSERT that changes a file, a tree and a counter, one after the other, and
  a process that can die or fail between any two of them;
* a data file that outlives processes, that nothing locks, and in which a failed
  append leaves half a line;
* pointers into an array that a later load may move, and memory that every one
  of many error paths has to free exactly once;
* three hand-written readers (script, schema, data line), of which two have to
  undo exactly what a writer wrote;
* arithmetic at its limits: the halves of a split, the last `uint64_t` id, the
  overflow test of the id parser.

`PROJECT.json` lists these hazards at their lines, each with the properties
that would catch it going wrong.

What makes each part correct: the session executes exactly the sentences that are
written; the tree is a map from ids to offsets and keeps the invariants of a B+
tree; the runtime a process keeps equals the one a new process would build; an
acknowledged row is found by every later query of every later process; ids only
grow; a row is read back as it was written; an indexed SELECT answers as a scan does.

## Modules

Each part has one module that models it, an `MC` module with the values TLC
uses and, where theorems are proved, a module with the proofs.

Script to statements:

* `Lexer` - `tokenize_sql` as operators: `Read` takes a script to its tokens,
  and beside it what a lexeme is, described without scanning.
* `Session` - `main` and `parse_next_statement` token by token. A step takes one
  token or one failure. The heap is the set of allocated blocks, each named by what it
  holds, so that a double free and a leak are visible. A text is the place of the
  token it was copied from. The start is its steps (`Start`: the text, the tokens, the
  context), and each early return of `main` frees what the steps before it made
  (`StartFails`). Growing a list and executing a statement may fail. The context is one
  block here; what is in it is the heap of `TableCache`.
* `SessionGrammar` - the language of scripts written down as its sentences, and the
  spelling of a statement; the reference that `Session` is compared with.

Statements to tables:

* `Table` - what INSERT and SELECT promise: a list of rows with named columns.
* `Query` - `execute_insert` and `execute_select` on one table: checks in the order of
  the code, the row built, the choice of path, WHERE, projection. A row is a sequence
  of values in schema order, an offset is its place; a process ends and the next
  loads the file again.
* `TableCache` - `get_or_load_table_runtime` with its steps (schema, data file, index,
  growth of the array) for several tables. A runtime is a slot of an array that has an
  address; `realloc` may move it. A statement works through a pointer, an address
  and a slot. The blocks are those of the heap, as in `Session`. The nodes of an index are
  one block. Building it may stop at any row (`BuildFails`), or behind the last one when the
  ids are used up; the tree is then destroyed by `build_id_index_for_table` (`DestroyIndex`)
  and again by its caller (`Unload`). An insertion given up above a leaf it has split, at a
  load or at an INSERT, cuts nodes off the tree that no child array leads to: they are a
  block of their own, `CutOff`, which nothing frees. The files are reduced to the number of
  their rows, so a failing append leaves them as they are (`Engine` has the other ways), and
  the string `db_dir` belongs to the context block of `Session`.
* `Schema` - `load_table_schema`, from the text of a schema file to its columns.

Tables to files:

* `RowCodec` - escape, unescape, split, line reading, scan and read at an offset, and
  the id parser, all character by character and as recursive functions.
* `Text` - every short text, grown by one character per step and given to the lexer,
  the schema loader, the row codec or the id parser; the properties of these readers.
* `DataFile` - a data file of characters to which whole and torn rows are appended. It
  shows too that the pieces `Engine` keeps of a file say the same as the characters
  (`EngineReadsTheFile`, an abstraction function in the form of an invariant).
* `IdTable` - what a table with an id column promises its user over the life of the
  file: inserted rows, answers, restarts.
* `Engine` - processes running statements against one table. The data file is the
  sequence of the pieces appended to it and an offset is the place of a piece. An INSERT
  is the steps `InsertOpen` (open, `ftell`), `InsertAppend` (the row is in the file),
  `InsertIndex` (tree, `next_id`, the answer). In between an append may fail with nothing
  written (`AppendFails`), with part of the row written, cut anywhere, also between two
  digits of its id (`AppendTorn`), or with all of it written, when only `fclose` reports an error
  (`AppendUnconfirmed`); the index may refuse the row (`InsertIndexFails`) and the process
  may die (`Crash`). Loading a table reads the whole file
  in one step, since a scan sees the file as it is when it reaches its end. The index
  is a function, which is what `BPTree` implements. The other values of a row are only
  whole or not.

The index:

* `IndexMap` - what the index promises: a partial map with insert, refuse,
  search and destroy, one step per call.
* `BPTree` - the tree of `src/bptree.c`. The heap is one function per field of
  `BPTreeNode`. A call is a sequence of steps: `CallInsert`, one `Descend` per level
  of `find_leaf_node`, one step for the leaf (`InsertIntoLeaf`, `SplitLeaf`,
  `InsertDuplicate`), then one step per call of `insert_into_parent`:
  `InsertIntoInternalNode` or `NewRoot` end the call, `SplitInternal` goes on with the
  parent. The variables `node`, `separator` and `right` are the arguments of the C
  function, so its recursion is a loop. The calls of `destroy_node` still to be made are the
  set `doomed`; that each node is reached in one way only, so that a set loses none of them,
  is part of `FreedOnce`. `create_node` fails when `Nodes` is used up
  or, up to `MaxFailures` times, at will; every error return is an action
  of its own. Arrays are sequences, their fixed sizes are the property `WithinArrays`.
  `Contents` is the map the leaves hold, and `ImplementsIndexMap` says that every call is
  one step of `IndexMap`.
* `BPTreeCheck` - the properties that follow the pointers of the tree: `bptree_validate`
  translated as it is, the leaf chain, a search made now, each a recursive function of the
  node it starts from. What a search or a check finds is a value there, not a step.

How they fit together: `Session` executes a statement in one step, which `Query` and
`Engine` take apart; `Query` has every kind of statement and one reliable process,
`Engine` has SELECT and INSERT by id and everything that can fail between the steps;
`TableCache` has many tables and one reliable file for each. `BPTree` is the index of
all three, through the map it is shown to implement; `RowCodec` is the file of `Engine`,
through `DataFile`.

Proofs are in `BPTreeProofs`, `EngineProofs`, `QueryProofs`, `TextProofs`,
`DataFileProofs`, `SessionProofs` and `TableCacheProofs`. `DataProofs` has what they share:
induction and recursive functions in a form the provers can use, and lemmas about
sequences.

The operators named like `Half_AllButOne` are not used by any specification. Each
is what its namesake would be with a plausible mistake in the code; putting it
in the namesake's place makes TLC find the property that `PROJECT.json` names
("mutants") violated.

## Runs

| Run | Question | Bounds |
|---|---|---|
| `session` | Does the program accept exactly the language, execute what is written, free everything once, and end? | every script one token away from one or two of four statements, cut short or empty; any failing step of the start or statement, one failing list |
| `text` | Does each reader read its language, and is what is written read back? | every text of up to 5 characters (6 for schemas, 4 for ids) over a small alphabet |
| `data_file` | Where is a row in a file with torn appends, and does `Engine` know the file rightly? | 3 appends of 2 ids and 4 values, torn after any character |
| `query` | Are INSERT and SELECT those of a list of rows with named columns, by both paths? | id column first, between, last, absent; 24 INSERTs, 32 SELECTs; 2 rows, ids to 3 |
| `table_cache` | Do pointers, slots and memory stay right while tables are loaded and loads fail? | 5 tables (symmetric) with 0 or 2 rows at the start, so that 0, 4 and 8 slots occur and a load can stop between rows; 1 failure |
| `engine_restart` | Are processes one after another, with crashes and failures, one table, also when ids run out? | new or older file, `MaxId` 5, 6 rows |
| `engine_torn` | What can a process rely on behind a torn line? | 2 torn appends, 5 pieces, ids to 30 so that digits join |
| `engine_shared_file` | And with another process on the file? | 2 processes, 2 torn appends, 3 pieces |
| `engine_torn_select` | Does the indexed SELECT agree with the scan behind a torn line? (it does not) | 1 torn append |
| `bptree_structure` | Is every tree valid and freed completely, and is every call one step of the map? | order 3, 6 keys, 2 offsets (symmetric), memory for all |
| `bptree_even_order` | Is it valid and well filled also for an even order, as 64 is? | order 4, 10 keys: the least with which an internal node splits |
| `bptree_oom` | What survives a failing allocation, does a destroy reach each node once, and does every call end, with no cycle below or above a node? | order 3, 5 keys, 1 failing allocation |

The bounds are the least at which the interesting cases occur, and reach a little further.

* Order 3 is the smallest order for which every node can split, and 5 keys give
  three levels: a leaf split, an internal split and a new root above it. The sixth key
  adds splits below the split internal nodes, which is where a wrong parent pointer
  shows. The shipped order, 64, differs in nothing but the number; what is
  proved holds for it.
* In `Engine` two rows are enough for a torn line and its victim and three for a
  duplicate id after a restart; more rows repeat these situations.
* The readers look at one character and at most one more, so two tokens with what lies
  between them, or two lines of which the first ends in each possible way, fit in the
  lengths of `Text`. Its alphabets have a character of each class a reader tells
  apart. `MaxId` 65 has two digits and is, as `UINT64_MAX`, no power of ten less one,
  so that the quotient and the remainder of the overflow test both decide.
* Five tables fill four slots and force the second growth; the heap and the pointer
  of the other four are then in a moved array.
* The sentences of `session` have every optional part present and absent and each list
  with one and two items; every edit of one token covers every error return of the parser.
* In `query` the ids 1 to 3 are one file's life: with a gap and two rows the last id is
  used up.

Fairness is stated in two runs. `bptree_oom`: a call of the tree is straight-line code of
one thread, so its next step is taken (`WF_vars(Step)`), while callers need never call.
`session`: the program is one thread that waits for nothing, so the parser and `main`
keep taking steps (`WF_vars(Parse \/ Main)`).

Deadlock is not checked in `text` and `data_file`, where texts end at their bound.

### Where the code departs from what its documents say

`engine_torn_select` is expected to fail: the row appended behind a torn line is found
through the index and missed by the scan and by every later process
(`docs/workOrder.md:953`). Four more disagreements show in the models. They have no run of
their own; the properties that pass are stated so that they allow them:

* An allocation that fails above a leaf split leaves the right half of the leaf
  unreachable from the root; the tree then accepts one of its keys again, against
  `docs/workOrder.md:416`. The engine itself ends at such an error, so this concerns users
  of the tree as a module. `bptree_oom` shows what holds all the same: the leaf chain
  keeps every row, the links above stay right, nothing is freed twice, and
  `bptree_validate` never accepts the damaged tree.
* Two processes that have loaded the table give out the same id
  (`docs/workOrder.md:678`); the file then has a duplicate and no process can load it.
* The row with id `UINT64_MAX` is accepted and reported, and no later process can load
  the table (`docs/workOrder.md:677`).
* An INSERT refused for its index leaves its row in the file (`docs/studyHelper.md:196`);
  so does one whose `fclose` reports an error after the whole row was written. The abstract
  table allows both as `StoreUnanswered`.

And two losses without a document against them. A value that ends in a carriage return, at
the end of a row, is read back without it: `RowsRoundTrip` says that this is the only such
row, and `ImplementsTable` is about rows as the file gives them back. And memory: the
nodes a given-up split has cut off an index are not freed when the program ends.
`FreedExactlyOnce` of `TableCache` allows these, of one table, after an index error, and
nothing else.

## Proofs

TLC checks small instances; the theorems hold for every value of the constants,
from the assumptions named in the modules (`OrderAssumption`: the order is at least 3;
`StoredBeforeAssumption`: the data file repeats no id; `FilesAssumption`: so do the columns
of a schema, and every row has a value for each; `IdTextAssumption`: no two ids are spelled
alike; `RowsAssumption` and `AlphabetAssumption`: values and texts are sequences of
characters; `SchemaSpacesAssumption`: a carriage return is a space to `isspace`;
`ClassesAssumption`: letters, digits, spaces, symbols and the other marks are different
characters; and the types of the other constants).

* `TypeCorrect` and `ArraysNeverOverflow` (`BPTreeProofs`): types and shape of the
  nodes, and that no array of a node overflows, for every order, key set, heap and pattern
  of failing allocations. `WithinArrays` alone is not inductive: that a split leaves two
  nodes that fit needs the full node to hold exactly `MaxKeys` keys with as
  many offsets or one child more (`NodeShape`), and that the arguments of
  `insert_into_parent` are nodes of the right kind (`CallOK`). `TypeInv` is the
  conjunction; the step from one state to the next is proved action by action. The
  lemmas about `InsertAt` and `SubSeqTyped` say what the shifting loops do.
* `RelationshipAlwaysHolds` and `NothingFreedTwice` (`BPTreeProofs`), also under every
  pattern of failing allocations. That a destroy reaches a node in one way only follows from
  its parent link: two owners would both be its parent. In `LinkInv` every node in a child array has the owner of
  the array as its parent and is in it once, only used nodes have links, and the root is
  nobody's child. The converse, that a parent has its child, is false for nodes a
  failed split left behind; it is proved for the nodes that are reached from the root, and
  that the cursor of a call is one of these is part of the invariant. Reached means in
  every set that holds the root and the children of its members, so no recursion over
  the tree is needed.
* `NodesStayFilled` (`BPTreeProofs`), for odd and even orders and any failing
  allocations. `FillInv` adds the moment between a split and the step above it: the
  node that was split has its share also when it was the root until then, and
  `bptree_destroy` takes the root away first.
* `TreeIsTheMap` and `DestroyFreesAll` (the second half of `BPTreeProofs`, which begins
  with lemmas about the arrays of one node): the tree is the map, and is freed completely, for
  every order, key set and heap, on the condition that `calloc` never fails (`MaxFailures
  = 0` and `[]CanAllocate`). Without it both are false, see the first disagreement above.
  The invariant `RouteInv` gives each node a set of keys, those for which a search comes to
  it (`Routes`): the root has all keys, the children divide the set of their parent by the
  rule of `find_leaf_node`, the sets of two leaves are disjoint, and a node holds only keys of its
  own set. Between a split and `insert_into_parent` the parent still sends the keys of both
  halves to the left one (`Part`), and the separator must lie between the two
  (`SeparatorFits`). With that a key is in at most one leaf, and the leaf a search ends in is
  the only one that can have it. `AllHang` says that every allocated node hangs by the root,
  by a new right half or by the work list of `bptree_destroy`, again through closed sets.
* `ChainNeverLosesRows` (the last part of `BPTreeProofs`), under every pattern of failing
  allocations. `ChainInv` says that some list of leaves is the chain: it begins at the leftmost
  leaf of the root, each leaf links to the next one in it, none is in it twice, and every leaf that hangs by
  the root, or by a right half still to be hung up, is in it (`Chained`). That the recursive functions
  of `BPTreeCheck` have values needs more: `LevelInv`, that nodes can be given levels by
  which a child is one lower than its parent, and `RankInv`, that all nodes, lost and freed ones
  included, can be given ranks that fall along every next pointer. A split needs a
  rank between two that may be neighbours, so the ranks are doubled first.
* `ValidTreeFindsAll`, under every pattern of failing allocations. `CountInv` says that the chain
  stores at least as many keys as `key_count` and the running call account for, and that
  the keys are divided as in `Routes` if it stores just as many: an insertion given up after
  its leaf was split leaves a key that nobody ever counts, so the numbers differ from
  then on. `bptree_validate` compares the two, so a tree that passes it is divided, every leaf of
  its chain has keys of its own, and a search for a key ends in the only leaf that has it.
* `ValidUnlessGivenUp` and `ValidWhileMemoryLasts`: what `bptree_validate` checks holds
  between calls as long as no insertion is given up in `insert_into_parent`, so in particular as long as
  memory lasts; failing to allocate a first root or to split a leaf does no harm. Then the
  numbers agree (`ExactInv`), so the keys are divided: the set of each node is all that lies between
  the bounds `validate_node` passes down (`PartBetween`), the leaf depths are the levels, and
  the keys of the chain ascend since each leaf's set lies before that of the next.
* `IndexedRowsStay` (`EngineProofs`): offsets stay good whatever other processes
  append, with torn appends, failures and crashes included. The invariant
  `OffsetsInFile` says that every offset in memory is inside the file; that the file
  changes only at its end does the rest.
* `AckedRowsNeverLost`: for any number of processes while no append tears, so that each
  row is on a line of its own. `WholeRows`
  adds to `OffsetsInFile` that every line is a whole row and that a row is in the file
  before its INSERT can answer.
* `MemoryMatchesFile` and `IdsNeverReused`: for one process at a time, no torn
  append, and any crashes and failures. `RestartRestores` is not inductive, since between the append
  and the insert into the index memory and file differ; `OneTable` says by exactly the
  last row, whose id is the largest. The case of the last id is in it: `next_id` is the
  largest id plus one modulo `MaxId + 1`. That a largest id exists is proved from the
  well-foundedness of `<` (`LargestExists`). Without the condition on torn appends
  both are false: `Joined` digits can make an id that repeats or skips.
* `EngineIsTheTable`: under the same conditions `Engine` implements
  `IdTable`, step by step. The rows promised are those stored less the one that is
  appended and not yet answered; `PromisedNext` adds to the invariants above that this one
  has the id the table promises next. A crash or a failing index in that moment is the
  abstract step `StoreUnanswered`, and so is an append that fails after all of the row was
  written (`AppendedIdIsNew`: its id is larger than those stored).
* `NeverPastTheEnd` and `EveryBlockFreedOnce` (`SessionProofs`): for scripts of any length.
  `CursorInv` needs that the array ends in its only `TOKEN_EOF`, since the parser passes
  only tokens of another kind; `HeapInv` says that exactly the blocks of the statement built so far, of the
  result and of the program are allocated, during the start those made so far (`Made`), and
  that what is not yet read is NULL (`NotYetRead`), so that nothing owned is written over.
* `WhatIsWrittenIsExecuted` and `TheLanguageIsAccepted` (`SessionProofs`): the parser reads the
  grammar of `SessionGrammar`, for scripts of any length. `ReadingOK` says at each step of the
  parser which forms stand between the start of the statement and the cursor, and that the parts
  built so far are those written there; `WrittenInv` adds that the statements executed so
  far, with the semicolons between them, fill the script up to the start of this one. For the converse
  the tokens force the parse: where a statement of the grammar stands, each branch the parser
  takes is the only one that reads it (`InsertForced`, `SelectForced`, `ParseIsForced`), so at
  an error no statement stands there (`LanguageInv`). The language is a recursive function over
  the places of the script, whose existence is `LanguageExists`.
* `PointerStaysFresh`, `NoSecondRuntime`, `RuntimesStandForFiles`, `CacheFreedOnce` and
  `RuntimesStay` (`TableCacheProofs`): for any number of tables, rows and failures.
  `CacheInv` has the shape of the array, that the name being loaded is not in it, and that a
  statement's pointer was taken after the last growth; `HeapOK` what is allocated at
  each step of a load, the nodes cut off by a given-up split included; `ContentsOK` what a
  loaded runtime knows of its file, until an error ends the session.
* `OwnRowsAreRead`: for one process at a time behind any torn appends. The digits of two
  rows may run together there, so nothing is known of the other ids in the file; `OwnOffsets`
  says that under each id the process has inserted the index leads to a whole row of that id, that the
  offset of a row still to be appended is the end of the file, and that of a row still to be
  inserted into the index its own.
* `RefusalsHold`, `PathsHold` and `QueryImplementsTable` (`QueryProofs`): for every schema,
  wherever the id column stands, and every statement. `TableInv` says that each row has a value
  per column, that no id is stored twice, that the index is the map from the ids to the
  places of their rows, and that `next_id` is the largest plus one, or 0 when they are used up.
  The scan and the list of selected rows of `Table` are recursive functions that are shown to
  agree row by row; that the index finds what the scan finds needs that an id is spelled in one
  way only.
* `RowsAreReadBack` (`TextProofs`): for values of any length over any characters. Escaping a
  value is undone by unescaping it (`UnescapeEscape`, by induction over the value, with what
  stands behind it kept general); the splitter, run over an escaped value, collects it as it stands and
  ends with no escape pending (`SplitEscape`), so that over the line of a row it finds the
  values one after another (`SplitBody`).
* `OffsetsHold` (`DataFileProofs`): for data files of any length. `FileInv` says that the file is its appends one
  behind the other (`FileIsAppends`): each stands at its offset, and each begins where the one
  before it ends. A line that stands at an offset is read from it whatever follows (`RowHeld`).
* `IdsAreTheirNumbers` (`TextProofs`): for texts of any length. While no digit is refused, the value read is the
  number spelled and at most `MaxId`, so the test before each step is exact; once the number is too
  large it stays so.
* `LinesAreTheirRows`: a line without a bad escape is written as some row (`LineIsWritten`, by
  induction over the line, keeping the fields it has and the escape that is pending), and
  reading undoes that; over a line with one the splitter collects a value that cannot be
  unescaped, which no later character repairs (`Spoiled`).
* `EveryLineIsFound`: a scan is followed from each place where it can stand (`FoundFrom`), the
  induction going from the end of the file to its start.
* `SchemasAreTheirNames`: the lines, taken from the end of the file to its start, are read from each
  place where one starts, once and in order (`LinesAre`); a name stands between two places of a
  line with only spaces outside of them, which a carriage return taken off by `read_line` also
  is (`NameOfLine`). What is loaded of the first lines is each of their names once, or
  a repeated name has been seen (`LoadedIs`). The places are more than the names exactly if
  the map from places to names is not injective (`NamesCounted`).
* `TokensAreLexemes`: quotes that come in pairs are told from the length of the run that ends at
  each place (`RunsAreEven`), so what a lexeme is can be said without recursion (`LexemeIs`).
  `TokenEnd` then is behind the longest lexeme of its place (`TokenEndIs`), or the place is one
  from which no text is readable: nothing starts there, a dot that no digit follows stands behind a
  number, or a string is left open, which it stays behind every lexeme it can be cut into
  (`UnclosedStays`). From the end of the text to its start, the tokens are those lexemes
  (`TokensAtEach`).
* `LiteralsAreTheirValues`: the place of each character of the value in its literal (`LaidOut`) shows
  that the quotes inside are paired, so the literal is one token (`LiteralEnds`), and that reading it
  gives the value back (`LiteralValue`).
* `TearsSpoilTheirLine` (`DataFileProofs`): with `FileInv` the places where a line starts are the offsets of
  the appends that do not continue a torn one (`StartsAre`), so the two theorems above say what
  a scan finds.
* `EngineReadsItsFile` (`DataFileProofs`): the pieces by which `Engine` knows its file are read as
  the readers read the characters, so what is proved of `Engine` is about data files. `AllMade`
  says that each append is the line of a row or a part of it, `StemIs` what such a part
  looks like: digits only, or the digits of its id, a bar and more, with no bad escape but one that
  its end leaves open. From the last append to the first, the line that goes on behind an
  append then reads as a text that begins with digits (`ReadsAs`). The digits of two rows
  that run together spell the number `Joined` computes, since `Shift` is the power of ten for the
  digits behind (`SpelledConcat`); half an escape is bad whether the line ends there or the digits
  of another row follow (`BadConcat`).

Induction over data is done on sets (`NatInduct`, `SeqInduct` in `DataProofs`: a set that
holds the empty sequence and, with a sequence, each longer by one element). A recursive function is a
`CHOOSE`, so that one exists must be proved before anything is known of its values;
`Recursion` and `Downward` do this once, for functions that go up and for those that go down, and
`RankRecursion` for those that follow pointers along which a rank falls.

Model-checked only: `CallsReturn` and `Terminates`, which are liveness under fairness. All other
properties of the passing runs are theorems; TLC checked each of them before it was proved.

## Not modelled

* Result printing, the command line, utilities, benchmarks and the repository's
  scripts: formatting, drivers and pure I/O without state of the engine.
* NULL-argument checks, messages, paths and directories.
* `parse_statement`, which only tests call. `xmalloc` and `strdup_safe` end the process and
  have no step after them. A failing lexer, for its text or for want of memory, frees its
  own tokens within the step `StartFails` of `Session`; failing allocations of a result are one failing statement.
* An append is taken to reach the file in one piece unless it tears; rows longer than the
  stdio buffer, written by two processes at once, could mix. A loss of power after
  `fclose` is not modelled, nothing in the code calls `fsync`.

## Plan

What is left is little: tables without an id column and several tables in `Engine`, where
nothing but the number of files would change; the liveness of a call of the tree for
every order, which is out of the prover's reach; a composition of `Session` with `Query` in
which a script's text decides what is stored, which the two models determine separately.
