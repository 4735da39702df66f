# VertexDB in TLA+

VertexDB is an in-memory SQL engine in C++20 with snapshot isolation and SSI,
foreign keys, transactions with an undo log, a write-ahead log of page images,
snapshot files and recovery at start. This directory models its stateful core,
the evaluation of its queries and the locking of its executor in TLA+, checks
them with TLC on small instances, and proves with TLAPS, for every instance, what
the transaction manager, the tables under concurrent transactions, the executor's
locking, the paged row store and page-image redo promise. Paths below are
relative to the root of the repository's checkout (`src/` holds the C++ sources, `include/` the
headers). `PROJECT.json` maps every definition to the lines it stands for and
lists the hazards with the properties that cover them.

## The system and its parts

| Part | State | Operations | Modelled in |
|---|---|---|---|
| Transaction manager (`transaction/transaction_manager.cpp`) | ids, states, commit sequences, read/write/predicate/insert sets of active and of committed transactions | begin, record\*, commit (SSI test), rollback, beginCommitted, prune | `TransactionManager` |
| Table and MVCC chains (`storage/table.cpp`, `transaction/mvcc_row_store.cpp`) | heap, free list, version chains with creator and deleter | insert, update, erase, scans and lookups at a snapshot | `SnapshotIsolation` (many transactions), `TableUndo` (one, with undo) |
| DML engine, foreign keys, undo (`execution/dml_engine.cpp`, `execution/foreign_key_eval.cpp`, `transaction/undo_log.cpp`) | tables with foreign keys between them, undo log | INSERT of several rows, UPDATE and DELETE of any rows, with NO ACTION, CASCADE, SET NULL; BEGIN, COMMIT, ROLLBACK | `DmlSession` over `TableUndo` |
| Executor, locks, prepared statements (`execution/query_executor.cpp`, `concurrency/lock_manager.cpp`, `execution/prepared_statement_catalog.cpp`, `prepared_bind.cpp`) | one session, a reader/writer lock, statements by name | calls of `execute()` by several threads, PREPARE, EXECUTE | `ExecutorStatements`, `AtomicExecutor` (contract), `QueryExecutor` |
| Session, catalog, recovery, log (`execution/txn_session.cpp`, `catalog_engine.cpp`, `recovery_service.cpp`, `persistence/write_ahead_log.cpp`, `storage_manager.cpp`) | databases, tables, indexes, deferred records, log file, snapshot files | DDL, DML, BEGIN, COMMIT (also one that cannot write), ROLLBACK, SAVE, LOAD, crash, restart, replay | `Durability` |
| Schema changes (`storage/table_schema.cpp`, `table_constraints.cpp`, `execution/catalog_engine.cpp`) | schema, rows, versions, CHECK, UNIQUE, foreign keys, index positions | ALTER TABLE ADD, DROP [CASCADE], RENAME COLUMN and their undo, between DML and index DDL | `SchemaChange` |
| Row stores (`storage/vector_row_store.cpp`, `page_row_store*.cpp`, `buffer_pool.cpp`) | slots, free list; pages, LRU pool, decoded rows, dirty pages | append, erase, update, revive, get, export/replace, page images | `RowStore` (contract), `PageRowStore` |
| Page-image redo (`storage/table_snapshot_io.cpp`, `execution/recovery_service.cpp`) | deferred and logged images of dirty pages | capture, commit, rollback, replay record by record | `PageRedo` |
| Indexes (`indexing/*.cpp`) | B+ tree pages, hash buckets, dirty marks | insert, remove, clear, rebuild, find, lessThan, greaterThan, ship and install images | `BTree`, `IndexManager` |
| Planner, scans, joins (`planner/query_planner*.cpp`, `execution/select_engine_*.cpp`, `predicate_eval.cpp`) | the plan; rows and predicates recorded as read | SELECT through an access path or over joins, against concurrent writes | `AccessPaths` (planning and execution), `SelectEngine` |
| Queries (`planner/rewriter.cpp`, `parser/recursive_cte.cpp`, `parser_with.cpp`, `parser_outer_refs.cpp`, `execution/select_engine*.cpp`, `subquery_runtime*.cpp`, `select_aggregate.cpp`, `select_scope.cpp`, `set_ops.cpp`) | CTE tables of a query, iterations of a recursive group | WITH (inlined, materialized, recursive), set operations, GROUP BY, ORDER BY, LIMIT, correlated subqueries | `QueryRewrite`, `QueryEvaluation`; `QuerySemantics` (what a query means) |
| DDL as text (`execution/sql_literal.cpp`, `common/index_expression.cpp`, `storage/check_eval.cpp`, `parser/tokenizer.cpp`, `parser/parser_ddl.cpp`, `parser_predicate.cpp`) | the text of a statement in the log; CHECKs and index definitions as text in a snapshot | parse and execute, log, replay; RENAME COLUMN, SAVE, LOAD | `DdlText` (writing, tokens, literals, predicates), `DdlParser` (statements), `DdlReplay` |
| Syntax of DML and SELECT, statistics and costs, byte formats, CLI | none that outlives a statement | functions of their input | not modelled (see below) |

How they interact: `QueryExecutor` takes the executor's lock and hands a
statement to the DML, catalog or select engine. The DML engine changes tables;
a table changes its row store, version chains and indexes, and records what it
did in the transaction manager. The engine pushes undo records to `TxnSession`
and captures the dirty pages into a redo record, which `TxnSession` defers in a
transaction and `RecoveryService` appends to the log otherwise. COMMIT runs the
SSI test, then flushes the deferred records; ROLLBACK applies the undo log
backwards. A new process loads a snapshot file and replays the log.

What is hard here: transactions that interleave on one chain of versions;
pruning conflict sets that a still active transaction needs; undo in the
presence of cascades and reused slots; three copies of a page; log records
deferred, reordered and written in several steps with crashes in between;
delta images that must add up; borrowing and merging over several levels of a
tree; names and positions that have to follow every ALTER TABLE and its undo;
residuals that must make up for what an access path leaves open; names that
mean a table, a CTE or a column of an outer query; fixpoints cut off by a limit;
a lock released and taken again within one call.
`PROJECT.json` lists these as hazards, each at its line.

## Modules

**TransactionManager.** One action per public operation. A conflict key is an
element of `Keys`; a predicate is the set of row images it matches, so that
`insertMatchesPredicate` is membership. An absent map entry is the empty set.
History variables (`ever*`, `refused`) keep what a transaction recorded after
the manager forgot it. `Autocommit` is `beginCommitted` with the writes the
table records for it.

**SnapshotIsolation** extends it with one table: every `Table` operation is
atomic (the table's mutex), operations of different transactions interleave,
and, as in the code, a rollback in the manager leaves the versions of the
aborted writer in the chains.

**TableUndo, DmlSession.** One executor over the tables of a schema and the
foreign keys between them. `TableUndo` has a database as a record (heap, free
list, version chains, undo log) and the operations of `Table`, of the undo log
and the constraint checks as operators on it. `DmlSession` has the statements:
an INSERT of several rows, an UPDATE or DELETE of any sequence of rows, with the
referential actions recursing through the foreign keys up to `MaxDepth`. A
statement is one action (the executor's exclusive lock) and may throw after some
of its rows: the database then keeps what it did up to there, and the undo log
has what was logged. With at most one open transaction only three stamps of a
version matter (committed, open, rolled back). As in the code, each check reads
through the snapshot its caller passes, which in a transaction may hide what
the statement itself has just done. `Workloads` is a set of schemas with the
statements tried on them; the variable `schema` holds the one chosen.

**ExecutorStatements, AtomicExecutor, QueryExecutor.** The first has the
statements and answers that the others share. `AtomicExecutor` says what threads that
share an executor may rely on: a statement takes effect at one moment, EXECUTE
at two (it finds the statement, then runs it), and all share one transaction.
`QueryExecutor` has the lock, reads and writes row after row, an undo log, and
the release and renewed acquisition of the lock within EXECUTE. It is shown to
implement the first. The refinement mapping gives the table as it was before the
statement that is writing (the history variable `settled`) until the writer
releases the lock, and as the table of BEGIN what the undo log leads back to
(`Saved`).

**Durability.** A statement changes memory and leaves its disk operations in
`todo`; `DiskStep` performs them one at a time and the last one acknowledges.
A crash may come when idle, between two operations or within an append (a torn
record). `CommitFails` is a COMMIT whose append throws at the open, the write or
the sync of a record: the transaction stays open, to be committed again or rolled
back, and the DDL records reached have lost their text, which the code moves
out of them. RENAME TABLE rewrites the deferred records and the undo log.
`Recover` rebuilds the database with the code's own rules: which snapshot file,
which suffix of the log, how each record is applied.

**SchemaChange.** A table with rows, version chains, constraints and indexes,
and the other tables with foreign keys to or from it. The code stores a column
as a position in rows and plain indexes and as a name everywhere else, so every
column carries an id of its own, which only the properties look at. Column
names are sequences of words, which makes the joined names of constraint
indexes concatenations. `Capture` is the undo information of DROP COLUMN, and
an internal error thrown halfway sets `failed` and ends the behaviour. The
only index expression is a negated column, over a column that is never NULL:
`evaluateIndexExpression` throws for a NULL, and what that leaves behind is
described below.

**DdlText, DdlParser, DdlReplay.** The log holds a DDL statement as SQL, and a
snapshot holds CHECK constraints and index definitions as text; recovery parses
both. A text is a sequence of tokens: names and keywords are words, a number is
its decimal digits and exponent with or without a decimal point, and a string
its characters, of which quote and backslash are escaped and read back one by
one. Numbers are written as `std::ostream` does, with six significant digits and an
exponent for large and small ones, which the tokenizer splits into four tokens.
`DdlText` and `DdlParser` translate writers and parser function by function, with what the
parser refuses and how it normalises (single-column constraints become flags of
the column). `DdlReplay` follows one statement from the user's text to what a
new process reads. `Durability` logs commands rather than their text;
`ReplayIsExact` says for which commands that is the same.

**RowStore, PageRowStore, PageRedo, Vectors.** The contract of a row store; the
paged store with its caches, shown to implement it; and redo of its dirty pages,
with a crash at any point outside replay (one within replay leads back to the
state in which replay began, so it adds no behaviour). An INSERT that reuses a
slot without a page is refused after the slot left the free list and became
live; only recovery makes such slots, so this is an action of `PageRedo`
(`RefusedInsert`), and the history variable `refusal` remembers it. `Vectors` has the
operations of `std::vector` they use. `PageHeap` says, for the proofs, when the
slots, pages and free list of a heap fit together.

**BTree, IndexManager.** `BTree` is the tree as a record and its algorithms as
operators, function by function. `IndexManager` runs hash index and tree side
by side under inserts, removals, rebuilds, capture of images, commit and
rollback, and keeps the copy that recovery would build from the images.
`Table` itself never calls `remove` (it rebuilds); the model does, because it is
part of the indexes' interface and of their tests.

**AccessPaths, SelectEngine.** `AccessPaths` translates planner and scan as
operators: a WHERE clause and a set of indexes give the plans the planner
considers (`PlanSelect`), a plan and a heap give the rows returned and how often
(`CollectVisibleEntries`), the row ids recorded as read (`RowsRead`) and the
predicates recorded for SSI (`RecordSsiScanPredicates`). Values are sequences
headed by their type, which gives the order of `Value` with NULL lowest.
Regular expressions and subqueries are sets of rows. Costs are not modelled, so
a property holds for whatever the statistics make the planner choose.
`SelectEngine` runs one SELECT or join on any small table, and then the writes
of other transactions.

**QueryRewrite, QueryEvaluation, QuerySemantics.** `QueryRewrite` is what is
decided about a query before it runs: which WITH clauses are refused, which
CTEs are recursive and in which groups, which are inlined and how. A query is a
record; a column is a sequence of names, so `t.a` ends in `a`.
`QueryEvaluation` adds the steps to `SelectEngine`'s: each CTE is materialized
or each recursive group started, every iteration of a group is an action, and
the main query is evaluated against the tables so made, with outer columns bound
in subqueries row by row. `QuerySemantics` defines, without any of that, the bag
of rows a query means, lists by syntax where the code is known to differ
(`IsException`), and states the properties.

**The proof modules.** `VectorsProofs` (lemmas on sequences and on least and
greatest elements), `TransactionManagerProofs` and on it
`SnapshotIsolationProofs`, `QueryExecutorProofs`, `PageRowStoreProofs`,
`RedoLogProofs` (log, undo records and the steps that change no page),
`RedoLayoutProofs` (layout of the pages, order of the log, chains of undo
records) and, on the last three, `PageRedoProofs`. See Proofs.

## Runs

Each is `tlc -config <cfg> <module>` in this directory.

| Run | Module, configuration | What it shows |
|---|---|---|
| `snapshot_isolation` | `MCSnapshotIsolation` | A transaction reads the same version until it writes (`RepeatableReads`); what it read or scanned is current when it commits (`ReadsCurrentAtCommit`); what commits is serializable in commit order (`SerializableInCommitOrder`); a commit is refused only on a conflict (`RefusedOnlyOnConflict`); pruning keeps what an active transaction needs (`RetainedForActive`) and nothing else (`RetainedSetsAreNeeded`); slots, free list and chains fit together (`TableOK`, which includes the types). |
| `dml_session` | `MCDmlSession.cfg` | References hold and keys are unique under every referential action, through statements that throw halfway and rollbacks (`ReferentialIntegrity`); a DELETE removes exactly the rows picked and those that cascade, or throws for a reason (`DeletesAreExact`); ROLLBACK never throws and gives back the heap (`RollbackNeverFails`, `RollbackRestoresHeap`); the free list is exact and live rows are visible. |
| `executor` | `MCQueryExecutor` | Concurrent calls of `execute()` behave as if each took effect at one moment (`CallsAreAtomic`, the refinement of `AtomicExecutor`), and every call returns (`CallsReturn`). |
| `schema_change` | `MCSchemaChange` | After an ALTER TABLE every constraint, index and foreign key that stays means the columns it meant (`AlterKeepsTheRest`), the undo log leads back to the tables of BEGIN (`RollbackRestoresTables`), nothing throws halfway (`NoInternalError`), and constraints checked through indexes hold row by row (`ConstraintsHold`). In behaviours of their own, DDL statements as text: replay executes the command that was logged if and only if its literals are of the forms below (`ReplayIsExact`), and a snapshot gives back CHECKs and index definitions, also after a RENAME COLUMN (`LoadIsExact`). |
| `durability` | `MCDurability.cfg` | Recovery gives the last acknowledged state or the interrupted statement as a whole; indexes agree with rows; the undo log leads back to BEGIN at any point. Includes tables renamed in a transaction, and COMMITs that fail and are repeated or rolled back. |
| `page_row_store` | `MCPageRowStore` | The paged store implements `RowStore` (refinement); its three caches agree; its layout stays valid. |
| `page_redo` | `MCPageRedo` | Replay ends, and gives the rows of the committed statements. |
| `indexes` | `MCIndexManager` | Lookups return the rows of the table, the tree stays balanced, no page leaks, and the shipped images add up. |
| `select` | `MCQueryEvaluation` | For every plan considered the answer is the set of rows the WHERE clause describes (`AnswerIsExact`); a write that changes it meets a recorded row or predicate (`ChangesConflict`); every join algorithm gives the join SQL defines, padding included (`JoinIsExact`); a whole query returns the bag of rows it means, in order and up to its LIMIT (`QueryIsExact`); a recursion fails by a limit only when it exceeds it (`LimitsAreExact`). |
| `slot_reuse`, `commit_batch`, `conjunct_union` | `MCDmlSession_Reuse.cfg`, `MCDurability_CommitBatch.cfg`, `MCSelectEngine_Union.cfg` | Disagreements of the code with its documents: expected to be violated (next section). |

Every property of a passing run has a mutant: an operator beside the original
(its comment starts with "Mutant") with a plausible slip of the code, under which TLC
reports that property violated.

### Bounds

- *snapshot_isolation*: one row id, two versions beyond the loaded row, one
  column of two values, and either three transactions of which one reads or two
  that both read (`Bounded`). A conflict is between two transactions; the third
  keeps conflict sets alive, lets them be pruned or writes in between; write
  skew needs two readers. The view drops ids of transactions that left nothing
  behind. Two readers among three transactions (904,783 states) also pass. The
  theorems remove these bounds.
- *dml_session*: twelve schemas. A parent and a child with keys of one column
  (two rows each) or two columns (one row, a third version, which SET NULL of a
  composite key needs), with each referential action on UPDATE and on DELETE; a
  table that refers to itself, with cycles, and three rows deep for the limit
  (`MaxDepth` 3 stands for 64); three tables where a row is reached directly and
  through another, with the three combinations of CASCADE and SET NULL. Initial
  databases are all the consistent ones. Undo logs have two
  to four records. Inserting and deleting parents in one
  workload is left to `slot_reuse`: the row it resurrects breaks references too.
- *executor*: two threads with two calls each, two rows, and statements of every
  kind, among them a prepared statement that is EXECUTE of another and can be
  made to run itself. Two calls of each thread are enough for a PREPARE, BEGIN or
  ROLLBACK to fall between the steps of the other's call.
- *schema_change*: two catalogs (a two-column UNIQUE and a CHECK between
  columns; a foreign key child with a UNIQUE column), two rows, three
  statements. A fault of an ALTER shows after the ALTER, a statement that uses
  what it left, or the rollback of both. The text of 529 statements: every kind
  of statement, column attribute and constraint in several orders and
  combinations, refused ones among them; 72 nestings of AND and OR with and
  without parentheses; and 22 literals on both sides of each limit (six and
  seven digits, exponents 5 and 6, -4 and -5, rounding up to the next power of
  ten, empty strings and strings of quotes and backslashes). Columns are renamed
  to a plain name and to `EXISTS`, `NULL` and `TRIGRAM`.
- *durability*: one database, two tables, one index, two rows, two columns,
  five statements, one SAVE. Five workloads: one crash at any point; restarts
  when idle; no crash and transactions of every kind of statement; transactions
  of DML and one RENAME TABLE, with a restart; COMMITs of DML of which one
  cannot open the log, with a crash.
- *page_row_store*: pages of two rows, a pool of two pages, five slots: three
  pages, the last one partly filled, so a `get` may have to evict. *page_redo*:
  pages of two rows, four slots, four records, one rollback: enough for a
  rolled back INSERT that opened a page, a record that counts its slot, a
  crash, an INSERT that is refused for that slot, another one that succeeds,
  and a second crash.
- *indexes*: pages of two keys, seven keys: five leaves of one key are needed
  for an inner page to borrow, and six keys to get there. Page ids only name
  pages, so the view compares trees by their nesting. The images are checked
  with three rows of two keys.
- *select*: five workloads. Tables of two rows out of six over three integer
  columns, one nullable, with five sets of indexes and 19 WHERE clauses, at
  least one for every kind of plan; tables of two strings out of eight with
  prefix, trigram and other patterns; joins of two and three one-column tables
  of up to two rows, with duplicates and NULLs, every pair of join kinds and
  every set of indexes. A wrong residual shows on one row and a wrong padding
  on one row of each side. One concurrent write: two of them (1.5 million
  states) also pass. Recursive queries (linear, mutual, not linear, with
  UNION and UNION ALL, with and without AS ACCUMULATOR) over every graph made of
  six edges on four nodes, among them a loop and a cycle, and four sets of
  seeds; `MaxIterations` 3 and `MaxRows` 5 stand for `maxIterations` and `maxRows`, so
  some of these recursions end by themselves and others at either limit. And
  62 queries with set operations, aggregates, ORDER BY, LIMIT, WITH and
  subqueries over 20 pairs of tables with duplicates and NULLs.

`CHECK_DEADLOCK FALSE` stands where a bound on ids, statements or log records
ends the behaviour, or where the SELECT or the calls are over; `indexes` has no such bound
and is checked for deadlock.

### Fairness

`page_redo` (`RecoveryFinishes`) assumes weak fairness of the replay steps:
replay is a loop in the constructor of the executor, with nothing to wait for.
`executor` (`CallsReturn`) assumes weak fairness of every thread inside
`execute()`: the next step of a thread is taken if it stays possible, and
nothing is assumed of the order in which `std::shared_mutex` admits threads.
Each thread makes finitely many calls, since readers that come without end may
keep a writer out. No fairness is assumed of clients, commits or crashes.

## Where code and documents disagree

Runs expected to fail, each with a finding in `PROJECT.json`:

- `slot_reuse`: rolling back an INSERT into a reused slot reopens the version a
  committed DELETE had closed (`mvcc_row_store.cpp:27`).
- `commit_batch`: COMMIT of DDL and DML is several appends
  (`recovery_service.cpp:294`).
- `conjunct_union`: `(a = 1 OR b = 2) AND c > 1` with indexes on `a` and `b`
  returns rows that satisfy one side only. `finalizeBestAccessPath` makes the
  union the path and `c > 1` its residual (`query_planner_access.cpp:199`), and
  the scan takes the residual of a union for further arms of an OR
  (`select_engine_scan.cpp:117`). UPDATE and DELETE choose their rows in the
  same way.

These have a configuration that TLC finds violated:

- `MCDurability_Checkpoint.cfg`: SAVE logs its marker before it publishes the
  snapshot (`catalog_engine.cpp:293`). A crash in between makes recovery load
  the old snapshot and skip the log before the marker.
- `MCDurability_TornTail.cfg`: recovery leaves a torn record in the file and
  later records are appended behind it (`write_ahead_log.cpp:34`).
- `MCDurability_Divergences.cfg` with the workload `RenamedTwice` and the
  invariant `RollbackRestoresDatabase`: two RENAMEs in a transaction, or one to a name
  that a table dropped earlier had: the rewriting of deferred records
  (`txn_session.cpp:105`) and of undo records (`undo_log.cpp:15`) takes a reused
  name for the old table, and ROLLBACK does not lead back.
- The same with the workload `RenameAfterDdl` (its default): ALTER TABLE or CREATE INDEX and then RENAME
  TABLE in one transaction. The first record is rewritten to the new name and
  stays before the rename in the log, so replay applies it to a table that does
  not exist yet (`docs/design.md:235`: "Logical SQL replayed").
- The same with the workload `RepeatedDdl`: a COMMIT of DDL fails and is repeated. The first
  attempt moved the texts out of the records (`recovery_service.cpp:294`), the
  second logs empty statements, and replay gives up at them.
- The same with the workload `FailedSync`: a COMMIT fails at the sync of a record that is
  already written, and is rolled back: the record stays in the log and the
  transaction is there after a restart (`recovery_service.cpp:269`).
- `MCDmlSession_Cascade.cfg` with the workload `Chain`: ON UPDATE CASCADE into a column that is itself a
  referenced key does not act on what refers to that (`applyChildFkUpdates`), and
  leaves references without a parent.
- `MCDmlSession_Cascade.cfg` with the workload `TwoReferences`: a row refers to one parent by two foreign
  keys with ON UPDATE CASCADE. The UPDATE throws after the parent was changed,
  because the second reference is checked with its old value, and outside a
  transaction the reference is left dangling. A UNIQUE key or NOT NULL column of
  the child that refuses the cascade has the same effect (`docs/sql.md:211`
  lists the referential actions without these exceptions).

Met while modelling and kept out of the passing runs by their workloads, so
that the rest can be checked; the models contain the code that causes them
unless noted:

- INSERT followed by ALTER TABLE in one transaction: replay applies the ALTER
  first and then the page image of the narrower row (`recovery_service.cpp:294`).
- With two databases recovery takes the first snapshot file of the directory,
  not the newest (`storage_manager.cpp:66`).
- LOAD DATABASE changes memory and leaves the log (`catalog_engine.cpp:301`).
  DROP DATABASE after SAVE deletes the snapshot and leaves the records that
  build on it in the log: replay throws at the first of them and gives up
  (`recovery_service.cpp:236`), and what was committed after the DROP is lost.
- A page opened by an INSERT that was rolled back is in no record, and the next
  record's capacity already counts it (`table_snapshot_io.cpp:175`):
  `RecoveredLayoutIsValid` is stated for behaviours without rollbacks.
- After a crash the table then has a free slot without a page. The INSERT that
  takes it throws ("page slot offset out of range on free-list reuse",
  `page_row_store.cpp:24`), with the slot already off the free list and live.
  The next INSERT gets the slot behind it, but its row becomes the first one of
  the page, which is the position of the slot before: its redo record describes
  a heap whose rows are not in the cells of their row ids. Up to the next crash
  the table still holds what was committed, which `RowsAreCommitted` checks;
  recovery then finds the row under another row id, and the property is not
  stated any more. Without `refusal # "crashed"` TLC shows the behaviour.
- `Table::update` starts from the newest heap row, committed or not
  (`table.cpp:253`), and erasing over an aborted update marks the wrong version
  (`mvcc_row_store.cpp:22`). Both need two open transactions on one table,
  which one executor never has.
- In a transaction, a DELETE that sets a row NULL by one foreign key and reaches
  it by a second one is refused: the second check reads the image from before
  (`dml_engine.cpp:17`). An exception of `DeletesAreExact`.
- SET NULL of a composite key writes one version per column under one undo
  record (`dml_engine.cpp:17`): ROLLBACK restores the heap, and leaves a version
  of the rolled back transaction in the chain.
- CREATE INDEX over exactly the columns of a UNIQUE, then DROP COLUMN CASCADE of
  one of them and ROLLBACK: the user index is restored first, and the constraint
  index is then taken for present (`table_schema.cpp:365`). `docs/design.md:239`
  says "DROP restores column + cascaded deps".
- RENAME COLUMN of a table that references itself leaves the old name in the
  parent columns of its own foreign key (`table_schema.cpp:477`).
- Constraint indexes are named by joining column names with `_`: with
  UNIQUE (a, d) and a UNIQUE column `a_d` a RENAME COLUMN throws after it changed
  the schema, without undo record or log record (`table_schema.cpp:468`).
- SET NULL of a composite key after a DROP COLUMN of the child in the same
  transaction (not modelled): the versions it leaves make the undo of the DROP
  throw (`mvcc_row_store.cpp:89`).
- INSERT, CREATE INDEX, INSERT in one transaction (not modelled): replay creates
  the index first, on a table without the first row, and the second image holds
  only one bucket of the hash index (`hash_index.cpp:92`).

- Two nested ORs with an arm without index each, `(a = 1 OR x) AND (b = 1 OR y)`:
  the intersection covers `a = 1 AND b = 1`, the complementary scan `x AND y`,
  and rows with `a = 1 AND y` are missing (`query_planner_and_intersect.cpp:143`).
  `AnswerIsExact` asks completeness of the other plans.
- `a IN (1, 1)` with an index on `a`, and a LIKE through a trigram index whose
  gram occurs twice in a row, return the row twice (`select_engine_scan.cpp:59`,
  `index_manager.cpp:279`). `AnswerIsExact` exempts these from "none twice".
- Joins record rows and no predicates (`select_engine_join.cpp:27`): an insert
  that changes the join conflicts with nothing, although
  `docs/deep_features.md:94` lists insert phantoms as aborted. `ChangesConflict`
  is about one table.
- Queries, each an exception of `QueryIsExact` by a definition of
  `QuerySemantics`: LIMIT 0 returns a row (`HasLimitZero`); a CTE with GROUP BY or
  aggregates is inlined as if it had none (`InlinesAggregation`); a body with
  set operations that reads a nested CTE loses them (`LosesSetOperations`,
  `rewriter.cpp:206`); materialized CTEs of different WITH clauses share one name
  space (`ReusesName`); the arm of a recursive CTE that reads only another group
  is skipped or repeated (`ReadsOtherGroup`, `subquery_runtime_cte.cpp:179`); an
  outer column on the left of a comparison, or a subquery whose alias hides the
  outer table's name, is bound to the wrong query (`HasOuterColumnOnTheLeft`,
  `subquery_runtime_bind.cpp:31`; `docs/sql.md:146` describes correlated
  subqueries without this limit); EXISTS over an aggregate, and IN over
  groups, test the rows without grouping them (`TestsAggregation`). A CTE that is materialized, joined or
  recursive and reads a sibling CTE fails with "unknown table": the properties
  are about queries that return rows.
- A statement prepared as EXECUTE of itself, perhaps through another, recurses
  without end (`query_executor.cpp:192`). `CallsReturn` exempts it (`HasCycle`).
- A double is logged with six significant digits, so replay gives `DEFAULT
  1234.5678` another value; one of 10^6 or more, or below 10^-4, is written as `1e+06`, which the
  tokenizer reads as `1`, `e`, `+`, `06`: the statement does not parse, and
  `recoverFromWal` starts without the database (`recovery_service.cpp:236`).
  The comment at `sql_literal.cpp:24` says "Ensure the lexeme re-parses as DOUBLE".
  The literal of an index expression is written by `Value::toString`
  (`index_expression.cpp:143`): `a + 2.0` becomes `a+2` and is an INT in log
  and snapshot, a string loses its quotes and its log record does not parse.
  `ReplayIsExact` and `LoadIsExact` have these as exceptions, and show that the
  text fails for each of them.
- RENAME COLUMN accepts keywords. A snapshot with a CHECK over a column renamed to
  `EXISTS` cannot be loaded, and one with `NULL` on the right of a comparison
  becomes a comparison with NULL (`LoadIsExact`).
- An index on an expression over a nullable column (not modelled): INSERT of a
  NULL throws after the row was appended and its version written
  (`table.cpp:208`), without an undo record, so that ROLLBACK leaves the row; a
  rebuild of the indexes, in DROP COLUMN, RENAME COLUMN or an UPDATE, throws
  halfway (`index_manager.cpp:245`).

## Proofs

`tlapm <module>` in this directory checks each of the eight proof modules to the
last leaf. The theorems hold for every value of the constants that the
assumptions admit: any number of transactions, keys, predicates, rows, threads,
slots, log records and rollbacks, any page size and pool capacity.

| Theorem | Property it states |
|---|---|
| *TransactionManagerProofs* | |
| `TypeCorrect` | `TypeOK` (in the runs a conjunct of `TableOK`) |
| `Serializability` | `SerializableInCommitOrder` |
| `PruneIsSound`, `PruneIsComplete` | `RetainedForActive`, `RetainedSetsAreNeeded` |
| `RefusalsAreJustified` | `RefusedOnlyOnConflict` |
| *SnapshotIsolationProofs* | |
| `TableWellFormed` | `TableOK` |
| `ManagerOverTable` | the four properties of the manager, under a table's calls |
| `PastStaysForever` | what the commits up to a sequence left is never changed (`PastIsImmutable`) |
| `ReadsAreRepeatable` | `RepeatableReads` |
| `CommitOrderExplainsReads` | `ReadsCurrentAtCommit` |
| *QueryExecutorProofs* | |
| `WritersExclude` | the lock keeps a writer alone (`WriterIsAlone`) |
| `ExecutorIsAtomic` | `CallsAreAtomic`: the refinement of `AtomicExecutor` |
| *PageRowStoreProofs* | |
| `FreeListStaysExact`, `CachesStayCoherent` | `FreeListExact`, `CachesAreCoherent` |
| `StoreIsVector` | `RefinesRowStore`: the refinement of `RowStore` |
| *PageRedoProofs* | |
| `RedoInvariance` | the inductive invariant of page-image redo, while no INSERT was refused |
| `CommittedRowsSurvive` | `RowsAreCommitted`, while no INSERT was refused |
| `LayoutStaysValid` (of the store by itself), `RecoveredLayoutStaysValid` | `LayoutIsValid`, `RecoveredLayoutIsValid` |
| `ReplayGoesOn` | replay is never refused a record (`ReplayIsAccepted`) |
| `RollbackGoesOn` | rollback is never refused an undo record, while no INSERT was refused (`UndoIsAccepted`) |

Assumptions, each evaluated by TLC on a run: a predicate is a set of images and
`MaxTxns` a natural number (`TransactionManager`); images are the functions from
columns to values, keys are the row ids, loaded tables fit, and `NoRow` is no
image (`SnapshotIsolation`); `NumRows` is a natural number (`QueryExecutor`);
`NoRow` is no row, pages and pool hold at least one row and one page
(`PageRowStore`).

*Transaction manager.* Validation reads the active sets of the committer and the
retained sets of committed transactions; the properties speak of what
transactions ever recorded. `IInv` connects them: `ActiveIsHistory` (the active
sets of an active transaction are its history), `RetainedForActive` (the
retained sets after an active transaction's snapshot are the history of their
transactions) and `Provenance` (a retained set is part of the history of the
transaction that committed at its sequence, so a refusal has a culprit).
`Lifecycle` keeps ids and sequences in order and distinct. `SeqCount` says the
sequence counter counts the committed transactions; with the cardinality of
the id set it shows that a committer always finds a sequence left, which
`TypeOK` needs. One lemma per operation shows that it preserves `IInv`; commit
and autocommit share `NewCommitPreserves`.

*Tables under transactions.* A table operation makes several recording calls in
one step, so the manager's invariant is first shown for those (`Forward`).
`TableInv` adds that whoever stamped a version recorded the write
(`StampsRecorded`) and that a transaction which scanned read every row that was
committed in its snapshot (`ScansRecorded`). Every step is a step of one writer
that had not committed and only adds stamps of its own (`StepOf`), hence the
past is immutable; repeatable reads follow, and, with the manager's
serializability, that reads are current at commit.

*Executor.* `IInv` says who holds the lock (`LockInv`), what a reader has read
(`ReadInv`) and how far a writer has got (`WriteInv`). A row that is written or
undone leaves what the undo log leads back to, so only the step that releases
the lock changes what `AtomicExecutor` sees; each step is shown to be one of its
steps or a stutter.

*Paged store.* `IInv` has the position of each slot, the cells of each page, rows
and tombstones, the free list and its count, and that every cached page and
decoded row is the one of the directory. An operation touches one cell, and
`StoreStep` and `AppendStep` show for one cell what the operations share.

*Page-image redo.* The records of a log are a partial function from pages to
contents: the last record that holds a page decides (`DirAfter`). `RedoInv` says
that the log rebuilds the rows of the last commit (`LogInv`); that the log with
the records of the open transaction rebuilds the rows of the table, but for the
pages of the statement in progress (`LoggedInv`); that the undo records lead from
the table to the last commit (`UndoInv`, by the first record on each row); and,
during replay, that the heap is what the records applied so far describe
(`RebuiltInv`). It does not say that every slot has a page, which a rollback
breaks: a slot without one is free (`HeapInv`). Without rollbacks every slot has
its cell in the table and in what the log rebuilds (`LayoutInv`), and so no
INSERT is refused (`RefusalInv`). A refused INSERT breaks `HeapInv`: there is a
live slot without a page. `RedoInv`, and what rests on it, is therefore proved
for behaviours in which no INSERT was refused, rollbacks and crashes included;
between a refusal and the next crash `RowsAreCommitted` is only model-checked.
That replay goes on needs no more than the capacities of the records in order
(`SizeInv`), which holds after refused INSERTs too. That rollback goes on needs
that the undo records on a row fit together and the last one fits the row,
which still has its page (`ChainInv`).

Where an argument would need induction over a sequence, the proofs take the
smallest or largest element with a property (`SmallestOf`, `LargestOf`), which
rests on the well-foundedness of the natural numbers.

Only model-checked:

- Liveness (`RecoveryFinishes`, `CallsReturn`): fairness and ENABLED are outside
  the prover's reach. `ReplayIsAccepted` is the safety part of the first.
- `DmlSession`, `IndexManager`, `SelectEngine`, `QuerySemantics` and `DdlReplay`:
  the referential actions, the B+ tree, access paths, queries and the parser are
  recursive operators, and what a recursion computes needs induction over data.
- `Durability` and `SchemaChange`: what ROLLBACK and recovery restore is a fold
  over undo logs, replayed logs and catalogs, again an induction over data.

## Not modelled

- The syntax of DML and of SELECT lists: it is parsed once and never written
  back (the writers for DML in `sql_literal.cpp` have no callers). In the DDL,
  names with dots, parameters, and the strings of index expressions other than
  letters; CREATE and DROP DATABASE, which are logged as bare names.
- Statistics, costs and EXPLAIN: no answer depends on them, since every plan the
  planner considers is checked.
- The byte formats of snapshots, log records and pages. The models build on
  what they guarantee: a snapshot is published whole (rename), a log record is
  durable when `append` returns, a torn one is recognised.
- I/O errors outside COMMIT (an autocommit that cannot append, a SAVE that
  cannot write): memory keeps the change and the statement reports an error.
  FlushOnly durability, and PhysicalRedo records, which nothing writes any more.
- Overlapping SELECTs of one transaction record what they read under the shared
  lock only (`transaction_manager.cpp:236`): a data race on the manager's maps,
  whose outcomes the build does not bound. `QueryExecutor` has the lock and the
  rows, not these maps.
- Index lookups at a snapshot older than the heap, and referential actions
  together with ALTER TABLE.
- `replaceRows` and `replaceSparse` of the paged store
  (`page_row_store_io.cpp:149`), by which old snapshots are loaded and databases
  cloned: `PageRowStore` has `replaceFromPages`. The types that materialized
  results of a query are given.
- The parser's limits on nested WITH (`parser_with.cpp:39`) and on the depth of
  correlated subqueries (`parser_outer_refs.cpp:77`): the queries checked stay
  below both.
- Evaluation of CHECK expressions of more than one comparison, and of values of
  different types (their text is in `DdlText`).

## Plan

1. Proofs: the free list and the heap under the operations of `TableUndo`, and
   the copy of an index that shipped images add up to.
2. Page-image redo of tables with rolled back inserts: a layout that holds after
   rollbacks too.
3. Index lookups at an older snapshot, referential actions together with ALTER
   TABLE, and I/O errors outside COMMIT.
