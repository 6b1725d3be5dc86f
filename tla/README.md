# SQL-Engine: a TLA+ model

TLA+ modules, TLC runs and TLAPS proofs for the engine in `src/`: a page file, a buffer
pool, slotted heaps, a B+ tree, table locks, a write-ahead log with recovery, the way of
a statement from its text to its answer, and a TCP front end. Every definition is
translated from the source; `PROJECT.json` maps each one to its lines.

## Inventory

The repository keeps three generations of the engine side by side:
`storageEngine/StorageEngine.*` under `queryOptimizerAndPlanner/QueryEngine.h` (no
transactions), `queryEngine/QueryEngine.*`, and the `lockOptimized` engines with
locks, log and recovery. The last one is the system the README of the sources
describes; the first has the only bodies of the redo functions and of the
statements by key.

| Component | State | Operations | Talks to |
|---|---|---|---|
| FileManager | open files, their size | read, write, allocate a page | disk |
| BufferManager | frames, page table, clock hand | fetch, pin, unpin, mark dirty, flush | FileManager |
| TableHeap | pages: slot count, tombstones, records | insert (first fit), delete, update, scan, replay | BufferManager, FileManager |
| BPlusTree | node pages, header page, `rootPage_` | insert with splits, remove, find, range scan | BufferManager, FileManager |
| StorageEngine | tables: heap, index, key column | insert, delete, update by key, scan, redo | TableHeap, BPlusTree, locks, log |
| LockManager | X holder and S holders per resource | lock S, lock X, unlock, release all | called under one mutex |
| TransactionManager | transaction states, next id | begin, commit, abort | QueryEngine |
| WALManager | log file and the stream buffer before it | log, flush, recover | StorageEngine |
| QueryEngine | `currentTxId_` | one SQL statement | all of the above |
| Parser, Binder, Planner, Rewriter, PhysicalPlanGenerator | none | text to AST to plan to operators | Catalog |
| Physical operators, Executor | scan positions, left row of a join | open, next, close | StorageEngine |
| ConnectionManager | listening socket, one client at a time | accept, read a statement, answer | QueryEngine |
| Catalog, Record, Schema, UDF registry, StatsManager, Monitoring | names, layouts, counters | look up, count, print | - |

### Where it is hard

- **Concurrency.** The lock manager and the transaction manager are written for
  several transactions; the storage engine takes a transaction id everywhere. The
  query engine and the server are sequential: one client, one `currentTxId_`. What is
  interleaved is therefore statements of transactions over tables, pointers of
  several users into one pool, and clients with a server.
- **Failure.** The process may die between any two writes, while serving or while
  recovering, with part of the log still in the stream buffer and any subset of the
  pages on disk. A client may go at any byte.
- **Ordering.** Write-back before reuse of a frame; log before acknowledgement; undo
  backwards; index and heap changed by separate calls; inner scans reopened per
  outer row.
- **Half-done statements.** An exception leaves a statement where it is: after the
  heap was changed and before the index, after the log and before the heap, after the
  catalog and before the table. Nothing takes the first part back.
- **Text.** SQL is parsed by hand and the log is written as text: what is read must be
  what was written, and is not for every value.
- **Limits.** Every frame pinned, a page full of live slots or of tombstones, a leaf
  with `MAX_KEYS` entries.

What makes each component correct is stated below, with the module that models it;
`PROJECT.json` lists the hazards one by one, at their lines.

## Modules

| Module | Models | Abstract specification |
|---|---|---|
| `LockManager`, used by `TxStorage` | `lockManager/LockManager.cpp` | `LockTable`: one mode per transaction and resource |
| `FileManager`, `BufferManager` | `fileManager`, `bufferManager` | `PageStore`: one current and one durable content per page; `SharedPages`: the same under users that fetch, write and release |
| `TableHeap` | `tableHeap/TableHeap.cpp`, over `PageStore` | `RowStore`: a map from record ids to records |
| `BPlusTree`, `StorageEngine` | `bPlusTree/BPlusTree.h`, `storageEngine/StorageEngine.cpp` | `KeyIndex`: the records there are, and a map from keys to them |
| `TransactionManager`, `TxStorage` | `transactionManager`, `storageEngine/lockOptimized/StorageEngine.cpp` with `registerTable`, BEGIN/COMMIT/ROLLBACK/ANALYZE; composes `LockManager` | - |
| `Recovery` | `_WALManager/WALManager.cpp`, the logging statements; composes `TableHeap` | the rows after the last commit (`truth`) |
| `Parser` | `parser/Parser.cpp`: tokens and the grammar of all statements | the grammar of what is read (`Sql`, in `SqlText`) and the part of it that is beyond dispute (`PlainSql`) |
| `AST` | `catalog/AST.h`: the nodes of a syntax tree | - |
| `Binder` | `binder/Binder.cpp`: names and types of all statements | - |
| `Query` | a statement from text to answer: a parser, `Binder`, then Planner, PhysicalPlanGenerator, physical operators, Executor | the product of the tables, filtered and projected (`Answer`) |
| `ConnectionManager` | `connectionManager/ConnectionManager.cpp` | - |
| `...Proofs` | theorems about the module of that name | - |

The layers meet at the abstract specifications. `BufferManager` is shown to implement
`SharedPages`, which is `PageStore` with the users of the pool: a write is a step of a
user, to the page it has fetched, and fetching (with the eviction it may cause),
releasing, flushing and allocating write nothing. `TableHeap` is written over
`PageStore` (its `Pool` instance), so a heap page is what `fetchPage` returns and what
is on disk, with frames, pins and eviction proved away. `TableHeap` is shown to
implement `RowStore`, which is how `StorageEngine` and `TxStorage` see a heap: a map of
record ids in which an insert takes the first free one. `TxStorage` uses `LockManager`
itself. `Recovery` uses `TableHeap` itself, since recovery writes slots by number. The
definitions named "Faulty" beside a definition are plausible wrong versions of it; no
specification uses them. `PROJECT.json` pairs each property with one that breaks it, to
show that the property can fail.

### LockManager

`table_` maps resources to an `xHolder` and a set of `sHolders`; an entry goes when both
are empty. `LockShared`, `LockExclusive`, `Unlock` and `ReleaseTransactionLocks` are one
action each because each holds `latch_` from its first to its last line. A refused
request throws and changes nothing but an entry that `table_[resource]` creates. Who
calls is `TxStorage`; `unlock` has no caller in `src`, so only the proofs go through it.

### FileManager, BufferManager

A frame has `isValid`, `isDirty`, `pinCount`, the page id and the bytes. `LoadInto` is the whole
miss path: victim, write-back, unmapping, read, mapping. A user of the pool holds the
pointer that `fetchPage` returned and may write through it until it unpins; `PointersValid`
says that meanwhile nobody gives its frame away. A crash keeps what is on disk.

### TableHeap

`content` and `durable` are the pages in the pool and on disk. `InsertRecord` is the first-fit
search over tombstones, free slots and a new page; `InsertAt`, `DeleteAt` and `UpdateAt` are
the unchecked functions recovery calls.

### BPlusTree, StorageEngine

A node is modelled as its memory: keys, then the union of values and children, then
`next`, then one cell behind the node. `insertRecursive` shifts a full leaf before it splits
it, so the arrays are written one past their end and the layout matters. The effect of
that is undefined in C++; the model takes what address arithmetic gives. The storage
engine puts a row map and the tree behind the statements by key. `KeyIndex` has the records too,
so that its steps are the calls: a record comes in and its key is bound to it, a bound record
goes and its key is unbound. An insert that forgets the index, or a delete that takes another
key out of it, is no step of it.

### TransactionManager, TxStorage

A statement is an action: it takes its table lock, changes heap and index and may stop
half way with an exception: behind the lock (`EmptyHanded`), or behind the heap, when
the key of an inserted row is no INT (`InsertKeyless`). `RegisterTable` enters a table
in the catalog before it looks for the key column, so a wrong column leaves a name
without a table. `Analyze` counts without a lock. Several transactions are open at a
time, which is what the signatures of the engine are for; the query engine runs one.
`ScanTable` is the scan with a transaction id, which takes the S lock and has no caller
in `src`: SELECT (`TableScan.cpp:18`) calls the scan without one, takes no lock and
reads what there is. What `StableView` and `DirtyIsPrivate` say is therefore a promise
of the engine to callers that pass their transaction, not one that SELECT keeps. `view`
and `before` are history variables: what a transaction last saw or left in a table, and
what the table was when it first locked it.

### Recovery

The rows are one table's heap, with an INT key; what `redoInsert` does to the index is left
out. The log is a file and the buffer of the `ofstream` before it; `Spill` moves a record at any
time, `FlushLog` all of them. COMMIT is three steps (log, flush, acknowledge) so that a crash
can come between them. `Crash` is enabled in every state of a living process, also between
the steps of a replay, and `Shutdown` runs the destructors in member order: the log is
closed before the pool is flushed. `truth` is a history variable with the rows after the
last commit that counts.

The log is text, and four things follow. `CrashInLine` leaves the first part of a line
in the file (`Fragments`): as `Garbage` that `recover()` throws on, as a record with no
new value, with a shorter old one, or with a shorter last number (`Cut`: a slot or, in a
COMMIT or ABORT, a transaction that is another one). A value in `Unreadable` (an empty
string, a comma, a line break) is written and makes `recover()` throw (`CanRead`). An
UPDATE line is taken apart at its first semicolon, so an old value that has one is read
up to it (`OldRead`), or, in front of another column, leaves redo without values that
fit (`AsRead`). An UPDATE whose value the column does not take is logged and then
refused (`RefusedUpdate`), and building its record makes a replay throw (`CanReplay`). A
process that ends in an exception is a `Crash`.

`spoilt` collects what recovery cannot make good, the `Mishaps`: a ROLLBACK that left
changes, a crash while the log was in its failed state, a page written back before the
log records of its changes were in the file (`Buffered`), a line cut so that recovery
acts upon it as it must not (`Misleads`: it undoes another slot, restores a shortened
value, or takes an aborted transaction for a committed one), and a log read as another
one (`ReadsBack`).

### Parser, Binder, Query

A text is a sequence of words; the lexer's character classes are the sets of words that
are names, numbers and strings, which differ from each other and from keywords and
symbols (`ParserAssumption`). Each parsing function gives, for a place in the tokens,
the set of what it makes: a node with the position behind it, or nothing if it throws.
`parseExpression` and the loops over lists are recursive functions of the place. The
reference is not a parser: a phrase is a sequence of words with the node it stands for,
`SqlText` says which phrases there are (`Expressions` by the depth of their nesting,
`Lists`, `Selects`, `Inserts`, ...) and what may stand behind a statement without being
taken for more of it (`Followed`). `Sql` is all of that, and what the parser implements:
operators group to the right whatever `getPrecedence` says of them, and no column has a
table before it. `PlainSql` is the part in which every operand that is itself an
operation stands in parentheses (`PlainExpressions`), so that its meaning is the same
under any rule of precedence. The statements of the run are built with its operators.
`Binder` is `Accepts` (bind does not throw) and `Bound` (the tree with its columns
resolved).

`Query` takes a statement from its text to its answer. The parser is its parameter
`Parsed`, which the run sets to `Parse` of `Parser`; of the texts and the parser it
assumes what `Parser` is built to give: a SELECT it makes has a list, a list of tables,
and expressions of the kinds it has nodes for (`IsSelect`). The run checks the
assumption on its texts, and `ParsedSelects` proves that `Parse` meets it on all.
`ParseText` and `BindStatement` are one step each; in the execution one step is one call
of `next()` on one table scan. The tree of operators is left-deep, so its state is a
cursor per scan, the left row of every join, and the node whose `next()` runs. The
column map of a plan is chosen among all the orders an `unordered_map` can give. The
rewriter and the optimizer leave every plan of the planner as it is (see "Not
modelled"), so there is no step for them.

### ConnectionManager

A statement is a few bytes, so that a read can end inside it. The server is `Accept`,
`Read`, `EndOfFile`, `Execute` and `Reply`; the clients connect, send, leave, with or
without waiting for answers. The engine is the effect of a statement on `currentTxId_`
and the kind of its answer. The clients in `Quoting` may send a literal with a semicolon
in it (`Quoted`), at which `readStatement` cuts: what the engine is given then is a
piece of the statement, and it answers that with an error.

## Runs

| Run | Instance | Shows |
|---|---|---|
| `buffer_pool` | 2 frames, 3 pages, 3 users, 2 contents | `PoolConsistent`, `PointersValid`, `PinsCounted`, `CleanIsOnDisk`, `ClockSparesLast`, `OnlyHoldersChange` and the implementation of `SharedPages` (`ImplementsPageStore`) |
| `table_heap` | 2 pages of 2 slots | `TailIsDead`, `InsertTakesFreeSlot`, `GrowsOnlyWhenFull` and the implementation of `RowStore` |
| `tx_storage` | 3 transactions, open at once, 1 table with or without an INT key, 2 keys, 2 rows | `LockCompatibility`, `LocksStable` and the implementation of `LockTable`; `StableView`, `DirtyIsPrivate`, `IndexSound`, `StrictTwoPhase` |
| `recovery` | 1 page of 2 slots, 2 transactions in a life, 3 data records in the log, 2 values of which one reads back as the other, one unreadable, one misfit; pages stolen, lines cut inside values and numbers | `RecoverableNow`, `RecoversCommitted`, `AcknowledgedIsLogged` |
| `storage_engine` | 3 keys, a leaf of 3 entries, 4 rows | `IndexPointsHome`, `ScanAgreesWithFind`, `RowsStayReachable` and the implementation of `KeyIndex` |
| `connection` | 2 clients, 3 statements, 2 sent by each, one client with semicolons in literals | `ExecutesWhatWasSent`, `TransactionsDoNotInterleave`, `EveryStatementAnswered` |
| `query` | 3 tables of 1 or 2 columns, up to 2 rows, 31 statements with 4 tails and 20 malformed texts | `ParsesBack`, `ResultIsQuery`, `ColumnsByName`, `EveryQueryEnds` |
| `rollback` | as `tx_storage`, two transactions open at once | `RollbackRestores` is violated |
| `engine_restart` | as `recovery`, `recover()` always first | `ServesCommitted` is violated |
| `index_split` | 3 keys, a leaf of 2 entries | `SplitsKeepEntries` is violated |
| `multi_statement` | 1 client that does not wait | `ExecutesWhatWasSent` is violated |
| `join_test` | as `query`, with the join of `queryOptimizerAndPlanner/tests/main.cpp` | `ParsesBack` is violated |

Every passing run has, beside these, one type invariant. `recovery` is the largest, with
1.1 million states; the others have between 9,506 (`table_heap`) and 914,635 (`connection`).

### Why the bounds are enough

- *Locks and transactions.* A conflict needs two transactions, a release that hits a
  bystander a third, so three are open at once. They differ only in their turn, and
  tables are independent in heap, index and lock, so there is one. `unlock` and a second
  resource, which no statement of one table reaches, are covered by `LockManagerProofs`
  alone.
- *Pool.* Two frames and three pages make every fetch of the third page evict; a third
  user lets a page be shared while the pool is full. More frames only lengthen the turn
  of the hand.
- *Heap.* Two pages of two slots have a tombstone before, inside and behind a full page.
- *Recovery.* Two slots and three records have a slot written by two transactions and
  a transaction that writes twice; a commit between them makes redo and undo meet. Of the
  two ordinary values one has a semicolon and reads back as the other, which is the worst
  it can read as. Numbers are written in base 2 (`Radix`), so that a cut number is another
  one from 2 on: with two slots that concerns the transactions, and the proofs, which have
  any radix, the slots as well. No life is followed further
  (`Followed`, a constraint) once a mishap has happened, since no property says anything
  then, or once a serving process has a log in its file that cannot be read, or is read as
  another one: the first ends the database, the second is the mishap of the next recovery,
  and `RecoverableNow` excludes both by name (`Replayable`, `ReadsBack`).
- *Index.* `storage_engine` fills a leaf to its last entry and never splits; what a split does
  is the subject of `index_split`, with one key more than the leaf takes.
- *Parser.* One text for every production of the grammar, operators nested on either
  side, in parentheses, and one malformed text for every `expect` and `throw`.
- *Query.* Two rows on each side tell a reopened scan from one that is not; every
  table is also empty in some behaviour; three tables make the left side of a join a
  join.
- *Connection.* Two statements make a second read start behind a first one; one client
  that quotes semicolons and one that does not show what the first leaves to the second.

### What the passing runs leave out, and why

- `recovery` looks at lives in which the log works (`SkipRecovery` lets a process with an
  empty log serve without `recover()`, which no caller does) and at databases that met none
  of the `Mishaps` (`Sound`). A rollback and a failed log would only repeat `rollback` and
  `engine_restart`. A stolen page and a misleading cut (of a DELETE, of a number, of
  an old value) do break recovery: the code neither flushes the log before a page nor marks
  the end of a line, and no comment of it claims to. So do strings with a semicolon, which are
  restored shorter; `ReadsBack` leaves logs with one out. Pages of
  an open transaction are stolen all the same (`Steal`), as long as their records are in the
  file, and undo is shown to take them back; cuts that mislead nobody are part of the run. A
  log `recover()` throws on recovers nothing, and no process gets past one (the guards of
  `ReplayStep` and `FinishRecovery`).
- `engine_restart` has the same instance without stealing.
- `ParsesBack` asks of clients only statements whose meaning no rule of precedence decides
  (`PlainSql`) and whose columns have no table before them; what follows a statement is
  ignored, as the parser has it. Qualified names are the subject of `join_test`. Precedence
  decides no answer: an operator on operators is refused by the Binder, however it was
  grouped (finding 5 and below).
- `tx_storage` says what the engine promises to callers that pass their transaction. A SELECT
  passes none (`TableScan.cpp:18`), so it reads what unfinished transactions have written;
  with one transaction open at a time, as in `QueryEngine`, there is nobody else to read from.
- `storage_engine` has no split (see `index_split`).
- `connection` has clients that wait for their answers (see `multi_statement`).
  `ExecutesWhatWasSent` is about those that quote no semicolon: at one in a literal
  `readStatement` cuts, and a piece is executed. It does say that such a client costs
  the others nothing.
- `ColumnsByName` is about plans without a join or with one column on each side; beyond
  that the column map is arbitrary, as the comment on it says.

## Fairness

Two specifications state fairness, and each only of a loop of one thread that waits for
nobody. `ConnectionManager` has `WF_vars(Server)`: the loop of `run` goes on as long as there
is a client to accept, a byte to read, a statement to execute or an answer to send; a
client may stop for ever, and then a server in `read()` is not enabled either. `Query` has
`WF_vars(Next)`: the loop of `Executor::execute` goes on until the query ends. All other
properties are safety properties of specifications without fairness.

Deadlock checking is off where the system may stop: `tx_storage` when all transaction ids are
used up, `recovery` at the end of its log bound, `connection` when no client is left or the
process has ended, `query` when the query has ended.

## Proofs

Eight components are proved for every value of their constants, with the assumptions named
in their modules. Some theorems have a hypothesis beside them, named where they are
described: those about the index (its root is not split), the lock table (`NoTxFresh`), the
texts (`SentIsPlain`) and the columns (`ColumnsDiffer`).

**`LockManagerProofs`** (hypothesis `NoTxFresh`: the 0 that means "nobody" is not a
transaction). The inductive invariant is `TypeOK /\ LockCompatibility`: the type says
that every entry has a holder, which the erasing branches of `unlock` keep, and
compatibility is inductive beside it. One lemma per function says what it does to the
entry of its resource; `SharedEffect`, `ExclusiveEffect` and `DropHeld` lift that to the
mode of each transaction, and from them follow `OthersUntouched` (a call changes the
locks of its own transaction only) and `Implements` (grants, upgrades and releases are
those of `LockTable`). They are about any callers and any calls, `unlock` among them;
`TxStorageProofs` states them of the calls the engine makes, where `StorageAssumption`
gives the hypothesis.

**`BufferManagerProofs`** (assumptions `FileAssumption`, `PoolAssumption`: at least one
frame, finitely many users, the zeroed page is a content, "none" is neither a page nor a
pointer). No invariant of the pool is inductive alone. A victim is nobody's frame
because its pin count counts its users (`PinsCounted` with `PointersValid`); a pin comes
off the right frame because the page table leads back to the frame of the pointer
(`PoolConsistent` with `PointersValid`); a clean victim can be dropped because of
`CleanIsOnDisk`; and unmapping a frame that was never used unmaps no page, which needs
one more conjunct, `UnusedUnnamed`. `IInv` is the conjunction of these with the type.
`ReadAfterWrite` says what the file reads as after a write, `FlushEffect`, `LoadFrames`,
`LoadUser` and `LoadTable` what an action does to the pool, and the lemmas named
`...Seen` what a reader of a page sees of it: a flush, a load and an allocation nothing
at all, a write its page only. `NoWriteLost` and `Implements` are read off those: of
`SharedPages` each step of the pool is the step of the user that made it, so a write
that were lost at an eviction, or an old content that came back, would be a fetch that
writes, which `SharedPages` has not. That the hand spares the frame it stands on,
`HandSparesLast`, is arithmetic on the distance from the hand.

**`TableHeapProofs`** (assumption `HeapAssumption`: at least one page and one slot).
`TailIsDead` is not inductive: a page appended to the file gets one slot, and the slots
behind it are dead only because the page was zero. `IInv` therefore adds `Fresh`: behind
the end of the file every page is zero, in the pool and on disk. `FoundIsFree` is the
argument about first fit; `PutRow`, `KillRow`, `WriteRow` and `PersistRows` say what
changing one slot, or saving one page, does to the map of rows, where `PutRow` needs the
dead tail for the slots a replay counts without writing them. `Implements` combines
them.

**`TxStorageProofs`** (assumptions of `TransactionManager`, and `StorageAssumption`).
Stable views and private changes are not inductive: nothing in them says why a statement
of another transaction is refused. `Owned` does: who has a view of a table holds a lock
on it, who may have changed it holds the exclusive one, and only active transactions
hold any. `IInv` is `Owned` with the types, `IndexSound`, `StableView` and the invariant
of the lock table; what a lock operation does to the modes is taken from
`LockManagerProofs`, of which the module makes an instance, so that compatibility is
proved once. `IndexSound` has to be carried beside it because `UpdateRecords` and
`DeleteRecords` follow the index. From `IInv` follow `ViewsAreStable` and
`NoDirtyReads`; `LocksAreTwoPhase` is proved of each step from it. To the lock table a
step of the engine is a call of one transaction or nothing (`LocksFollow`), so that
`OthersUntouched` and `ImplementsLocks` are those of `LockManagerProofs`.

**`RecoveryProofs`** (assumption `RecoveryAssumption`: at least one page and one slot, a
value that does not fit is none of the others). `AcknowledgedIsLogged` says where the
records of ended transactions are, and is not inductive: `EndLogged` adds that of a
COMMIT or ROLLBACK on its way the record is in the buffer until flush() and in the file
from then on, `QuietOutside` that no transaction is open while the process is down or
recovering, and `NothingBuffered` that the buffer is empty between transactions. It
speaks of lives that log; a process that has recovered logs nothing, and what it
acknowledges is in no log (`engine_restart`).

`RecoverableNow` and `RecoversCommitted` relate three things no step changes together:
the log, the pages on disk and the committed rows. The invariant, `IInv`, is `Base`
(types, dead tails, the empty buffer), `AckInv` (the above) and `Sane`, which says how
they hang together while no mishap has happened. In a life that logs (`Life`) every slot
has a history: the row it holds after each record of file and buffer (`Chain`). The pool
is at its end; the committed rows are where the records before the open transaction end;
every slot on disk is at some moment whose records are in the file (`History`), which is
what `Persist` and `Spill` have to keep, and why a page must not go to disk ahead of its
log (`Buffered`). From a crash to the end of the next recovery (`Outside`) the log no
longer changes, and what remains is that it and the disk determine the committed rows.
What a replay does is argued backwards. `recover()` visits the log twice, forwards and
backwards; of its visits to a slot the last one that inserts or deletes decides whether
the slot is alive, and the last one that inserts or updates what is in it (`OneReplay`,
`ReplayedRows`). For a log with history these last visits agree with the history at one
place, the end of the committed records (`FoundMark`, `FoundWrite`), and a slot no visit
decides was the same at every moment the disk can show (`FoundUnmarked`,
`FoundUnwritten`). So it does not matter where each page was when the process died, nor
that an interrupted recovery has left some of its own writes behind. Records are
replayed as they are read (`AsRead`): old values that are read shorter are excluded by
`ReadsBack`, where a theorem needs the old value, and a cut that recovery would act upon
by `Sound`; of every other cut, of any line at any place, it is shown to do no harm.
Both loops are arguments over the numbers of the visits (`Climb`, from the
well-foundedness of the naturals), not inductions over sequences.

**`StorageEngineProofs`** (assumptions `TreeAssumption`, `EngineAssumption`: a node
takes at least two keys, which are integers). All its theorems but `NeverSplit` are
about behaviours in which the root leaf has not been split (`Spec /\ []OneLeaf`): what a
split does to the entries beside it is wrong, as `index_split` shows, so without that
hypothesis they are false. `NeverSplit` shows that it holds for every table with no more
keys than a leaf takes, by the pigeonhole principle, and `SmallTable` states the others
for such tables without it. The leaf is followed down to the cells of its memory:
writing one entry leaves the cells of the others alone (`KeySet`, `ValueSet`), so each
turn of a shift loop moves one entry by one place, and after the loops every entry has
moved and none is lost (`ShiftedRaises`, `ShiftedLowers`). Keys ascend strictly, so that
`std::lower_bound` finds the place (`LowerFound`) and a leaf is a map (`BindsOnce`), in
which `insert` binds one key (`InsertBinds`) and `remove` unbinds one (`RemoveUnbinds`).
`ImplementsIndex` has for each statement the step of `KeyIndex` with its record and its
key: the entry that is bound is that of the record that came in, the one unbound that of
the record that went. The invariant adds `Home`: every entry leads to a row with its
key. It is what makes `deleteByKey` and `updateByKey` hit the row they mean although
record ids are given out again. `ScanIsSlice` says that a range scan is the stretch of
the leaf between two places.

**`ConnectionManagerProofs`** (assumptions `ConnectionAssumption`, `NoneAssumption`:
"nobody" is no client, no answer and no text). `TypeInv` is the type with `Session`:
between two clients the buffer is empty, and an answer on its way belongs to a statement
that was executed. From it `TransactionsAreAlone` follows for any clients.
`ExecutesInOrder` is about clients that wait for their answers (`~Pipelined`) and quote
no semicolon (those outside `Quoting`), beside any others; for clients that do not wait
it is false, as `multi_statement` shows, and a literal with a semicolon is cut at it.
The invariant, `Standing`, says of every client where its session stands: all it sent is
executed and no semicolon is unread (`Quiet`), one statement is in the stream, its bytes
split anyhow between the socket and the buffer (`Waiting`), it is with the engine
(`Running`), or the connection is closed (`Gone`). `LineOf` describes the unread bytes
of a waiting client, with what a client that left may have put behind the semicolon;
`ReadCuts` says that a read splits them, `TextOfLine` that the text before the first
semicolon is then the statement sent, and `SendStands` that a client that has its
answers has nothing unread, so that what `readStatement` drops with its buffer is never
part of a statement.

**`QueryProofs`** (assumptions `ParserAssumption`: the classes of words are disjoint,
and names are strings; `SchemaAssumption`: a schema is a list of columns;
`QueryAssumption`: the values are INT or STRING, and a SELECT the parser makes is an
`IsSelect`, whatever the parser).

The first half is about `Parser` and has no bound: `ReadsSql` says that `Parse` makes a
node of a text exactly if `Sql` has the text with that node, and never two. One
direction is that whatever a parsing function makes at a place stands there as a phrase,
with no word behind it that would continue it (`Sound`). It goes by induction on the
place, from the end of the text to its start (`Downwards`), since every call is made
further on than its caller: `ExpressionSound`, `ListSound`. The other is that every such
phrase that stands at a place is made (`Complete`), by induction on the phrase: on the
depth of an expression (`ExpressionInduction`) and the length of a list
(`ListInduction`). For an expression the hypothesis must be about every place at once,
because an operand is read where its operator ends, and the condition "no operator
behind" is what makes the right operand take all that follows: that the loop of
`parseExpression` ends after one turn is a consequence (`ExpressionExists`). Neither
induction is the library's, whose theorems take an operator: both are `Upwards`, over a
set, from the well-foundedness of the numbers. The recursive functions of the parser
exist and satisfy their equations by the same argument (`ExpressionIs`, `ItemsIs`). The
statements (`SelectRead`, `InsertRead`, ...) put the parts together: what each part may
not be followed by is met because the next one starts with a keyword, and `OneStatement`
says that no part can be read in two ways. `ReadsWhatIsMeant` is `ParsesBack` for any
texts of which `SentIsPlain` holds: the engine's parser is `Parse`, and a text with a
meaning is one of `PlainSql` with that meaning, whatever precedence the client has in
mind; what is no statement at all is refused. It needs that `PlainSql` is part of `Sql`
(`PlainIsSql`). `join_test` has a client outside of it, who writes `customers.name`.

The second half is about the query. `ResultIsQuery` speaks of a whole product, of which
the operators only ever hold one row. The invariant says where in it they are: `pos[k]`
is the number of the row of the first k tables' product that node k delivered last. Up
to the node that runs, the left row of a join is the row its left side delivered last
and the cursor says how many partners it has had; beyond it every row delivered has had
all of its partners (`Reached`); and the results are the answer to the rows of the whole
product up to that place, none of which raises (`Answered`). A pull moves one `pos[k]`
on by one (`NextRow`, `JoinStep`, `RootStep`); a rewind moves none, since a full left
row ends where the next one begins; when the leftmost scan is exhausted each `pos[k]` is
at its end (`WalkEnds`). The reference is made of recursive functions and `FlattenSeq`,
which the provers see as a `CHOOSE`: `Recursion` says that the function exists,
`ProductIs`, `WidthIs` and `AnswersAre` that it satisfies its equations, `CrossRows`
where in a product a pair of rows stands. That no row is read beyond its end, and that
an error of the model is one of the properties' words, takes the other half: after
`Binder` every column of the statement is a column of its tables (`SelectBound`), and
every map `gen()` can leave sends it into the joined row (`MapsNumber`), if not to the
right column.

`ColumnsAreNamed` is about the plans in which it is the right one (`Unambiguous`). It
goes from the text to the answer, by `ReadsWhatIsMeant`, and has two hypotheses:
`SentIsPlain`, since the answer is compared with what the client meant, and
`ColumnsDiffer`, that the columns of a table have different names. The code does not see
to the latter (`parseCreate` and `Catalog::addTable` take any list), and a table with
two columns of one name answers `*` with the last of them twice. `MapByName` says that
the map of such a plan sends each column to its place, `StarColumns` that `*` is bound
to the columns in the order of the row, and `FlattenRelates` carries both from the items
of the select list to the whole of it.

The layers are proved one by one, each over the abstract specification of the one below:
that `TableHeap` over `PageStore` implements `RowStore`, and that the pool implements
`PageStore`. `TxStorageProofs` stands on `LockManagerProofs`.

What is only model-checked: liveness (`EveryStatementAnswered`, `EveryQueryEnds`), which
is out of the prover's reach, as is `ENABLED`; and a tree of more than one node, of
which most is wrong. That the texts of the run satisfy `SentIsPlain` is not evaluated,
since `PlainSql` is infinite; they are built with its operators, and `ParsesBack` is
checked on them.

## Findings

1. `rollback`: ROLLBACK undoes nothing.
2. `engine_restart`: after `recover()` the log stream is in a failed state and commits
   are no longer logged, so the row of a transaction nobody committed is served by the
   next process.
3. `index_split`: an insert into a full leaf writes past its arrays before the split.
4. `multi_statement`: bytes read behind the first semicolon are lost.
5. `join_test`: the parser refuses qualified names, which the repository's own test sends
   (`queryOptimizerAndPlanner/tests/main.cpp:38-40`) and the Binder can resolve.

Met while modelling, without a run of their own:

- The expression parser is headed "Precedence Climbing" (`Parser.cpp:259`), and computes
  `getPrecedence` (lines 278, 342-347) without ever comparing it, so operators group to
  the right; the Binder then refuses `a = 1 AND b = 2`, and would refuse it grouped the
  other way.
- A string literal may have a semicolon (`Parser.cpp:53-64`), and `readStatement` cuts
  the statement there (`ConnectionManager.cpp:79-81`), which `ConnectionManager.h:29`
  calls the end of a statement.
- A text is not read to its end, so `a = 1 + 1` is read as `a = 1`.
- The Binder's "ambiguous column" is thrown inside the loop whose handler swallows it.
- A DELETE without WHERE reaches the storage engine, which dereferences the missing
  expression.
- `Planner.cpp` has two `case StmtType::SELECT` in one switch, which no compiler
  accepts: lines 7-22 refuse more than one table, lines 49-68 join them. The model has
  the second, which agrees with the Binder, the operators and the repository's join
  test.
- The engine that calls `optimizer_.optimize` has no such function.
- Recovery reads an old value up to its first semicolon (`WALManager.cpp:142-150`), and a last
  line cut inside a number as one with another slot or transaction (lines 114-124).

## Not modelled

- *The index under recovery.* `redoInsert` enters keys, `redoDelete` leaves them, index
  pages are written back at any time: what an index is after a replay depends on which
  of its pages were on disk, and the code says itself that it is not kept
  (`storageEngine/StorageEngine.cpp:140-141`).
- *Rewriter, optimizer, cost model.* The planner never puts a filter over a projection,
  and a projection is dropped only when its columns are called "t.0", "t.1", which no
  parsed column is: on the plans there are, the rewrites are the identity.
  `optimizeJoins` has no caller.
- *Functions and arithmetic in expressions.* The parser never builds a call and the Binder
  refuses an operator on operators; `Eval` has what gets through.
- *Catalog file, record layout, UDF registry, metrics, HTTP server, main.* Read or printed
  whole by one thread, with no state another component depends on.
- *The two older query engines.* The same statements on classes whose signatures have
  moved on. The base engine's UPDATE of a key that is not found works on an
  uninitialised record id (`queryOptimizerAndPlanner/QueryEngine.h:70-72`); the model
  takes such a statement to change nothing.
- *Several tables* in heap, index and recovery: nothing relates them. *Several open files* and
  `closeFile`, `deallocatePage` of FileManager, which have no caller.

## Plan

1. *Done*: all components above; proofs about locks, pool, heap, transactions, log and
   recovery, the tables with an unsplit index, the parser, queries, the connection.
2. *Proofs next*: every safety property of a passing run is proved; what is left is a
   tree with a split root, once splits keep their entries.
3. *Model*: the index under recovery, once the code says what it should be.
