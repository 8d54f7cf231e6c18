# A TLA+ development of miniGU

miniGU is an embedded graph database in Rust: a GQL front end, a pull-based
execution engine, a multi-version transactional graph store with a write-ahead
log in a single file, an analytical graph store and a vector index. This
directory holds TLA+ models of these parts, the TLC configurations that check
them and TLAPS proofs about the transactional store, its log, the database
file, the analytical store and the catalog. Paths below are relative to
`src/minigu/`.

## 1. The system

| Component | State | Operations | Talks to |
|---|---|---|---|
| Timestamp generators (`transaction/src/timestamp.rs`) | two process-wide `AtomicU64` | `next`, `update_if_greater` | everything that begins or commits |
| `MemoryGraph` (`storage/src/tp/memory_graph.rs`) | maps of versioned vertices and edges, adjacency lists, WAL counter, `checkpoint_lock` | `get_*`, `create_*`, `delete_*`, `set_*_property`, recovery, checkpoint | transaction, manager, persistence |
| `MemTransaction` (`storage/src/tp/transaction.rs`) | id, start and commit timestamp, undo and redo buffers, read sets, write intents | `commit_at`, `abort_at`, `validate_read_sets`, `Drop` | graph records, manager, WAL |
| `MemTxnManager` (`storage/src/tp/txn_manager.rs`) | active and committed transactions, `commit_lock`, `latest_commit_ts`, `watermark` | `begin_transaction_at`, `finish_transaction`, `garbage_collect` | graph (removes records), generators |
| TP iterators (`storage/src/tp/iterators/`) | a cursor over a live map | `next` | `is_visible` of a version chain |
| WAL, checkpoint, recovery (`storage/src/common/wal/`, `storage/src/tp/checkpoint.rs`) | log entries with LSNs; a snapshot of the current versions | append, flush, replay, restore | persistence |
| Database file (`storage/src/db_file/`) | header, checkpoint region, log region | `append_wal`, `write_checkpoint`, `truncate_wal_until`, `open` | the file system |
| OLAP graph (`storage/src/ap/`) | blocks of edges with timestamps, property columns | its own begin, commit, abort and compression | timestamp generators |
| Vector index (`storage/src/tp/vector_index/`, `storage/diskann-rs/`) | a proximity graph, maps between node and slot ids | build, insert, soft delete, search | graph |
| Catalog and context (`catalog/`, `context/`, `core/`) | maps of graphs, graph types and indexes; a session's current graph | statements and procedures of a session | storage, files |
| GQL parser, planner (`gql/parser`, `gql/planner`) | none beyond a statement | parse, bind, plan, rewrite | catalog |
| GQL execution (`gql/execution`, `common/`) | none beyond a plan | pull-based operators over data chunks | storage |

Commands run in threads of the caller. Records are protected by a read-write
lock each, the maps by sharded locks, commits by `commit_lock`; no lock is held
from one call of a transaction to the next. What keeps two writers apart is a
mark in the data: `commit_ts` of the current version holds the writer's
transaction id, a number with the top bit set, until commit replaces it by a
commit timestamp.

What is hard: the steps of a begin and of a commit interleave with every other
call; version chains are linked by `Weak` pointers into undo buffers that
garbage collection drops; deletion cascades; a crash may come between any two
writes of a commit, a checkpoint or a truncation; edges of the OLAP graph move
between blocks while others hold their location or scan; sessions plan a
statement first and execute it later, and write and read files step by step; executors must each respect a filter that an
earlier one left in a chunk; an ordered-choice parser hides alternatives.
`PROJECT.json` lists these as hazards, each at its line.

What makes each component correct:

* generators: values are fresh, the two ranges never meet, every call returns;
* version store: a transaction reads the snapshot of its start and its own
  writes; of two overlapping writers of a record one fails; an abort leaves no
  trace; no lock outlives its owner;
* Serializable: a committed transaction's reads are still current at its commit;
* manager: collection drops nothing an active transaction may have to read;
* recovery: the recovered graph is the committed prefix of the log, LSNs are
  never used twice;
* database file: a crash leaves a file that opens with what was promised;
* OLAP graph: a read gives its snapshot's value or nothing, a scan returns once
  each edge that stays in place, compression gives back what is stored;
* vector index: the two numberings agree, a search returns the nearest live
  vectors;
* catalog: an index entry and its storage go together, a graph is not lost to a
  race, a graph survives export and import;
* parser: what the grammar derives is accepted, trees follow the binding powers;
* planner, execution: a plan answers what the query means, each executor has the
  meaning of its relational operator.

## 2. Modules

| Module | Models |
|---|---|
| `Timestamps` | both generators, one action per load, exchange and update |
| `VersionChain` | operators on one record: which version is visible, who may write, what an undo entry restores |
| `MemGraph` | graph, transactions and manager together |
| `SnapshotIsolation`, `MemGraphSI` | the abstract specification (private snapshots, first committer wins) and the refinement mapping to it |
| `WalRecovery` | redo buffers, log, checkpoints, crash and recovery, with both locks |
| `DbFile`, `DurableLog` | the blocks of the database file with syncs and crashes, and what it promises |
| `OlapGraph`, `OlapReaders` | the analytical store and its writers; a reader beside them |
| `DiskAnn`, `VectorIndex` | the proximity graph as functions; the adapter and the graph's index calls |
| `GraphTypes`, `Catalog` | graph types and graph exchange as functions; catalog and sessions |
| `GqlLexer`, `GqlExpressions`, `GqlGrammar`, `GqlParser` | token classes, the rules as data, and the machine that runs them |
| `Planner` | binder, logical plan, rewrite, physical plan and executor builder |
| `DataChunk`, `Evaluator`, `Executors`, `Aggregates`, `Factorized`, `QueryExec` | chunks, expressions, flat and factorized executors, and plans that compose them |
| `Timestamps_proofs`; `MemGraph_proofs`, `MemGraphSI_proofs` (extends the one before); `DbFile_proofs`; `WalRecovery_proofs`; `Catalog_proofs`; `OlapGraph_proofs`; `VectorIndex_proofs` | theorems |
| `MC*` | constants for TLC; `MCScenarios` joins several instances of `MemGraph` in one run |

`VersionChain` is used by `MemGraph`; `OlapReaders` extends `OlapGraph`; `Executors` and `Evaluator` by `Planner`
as well as `QueryExec`; `GraphTypes` by `Catalog`; `DiskAnn` by `VectorIndex`.
`WalRecovery` takes an append and a checkpoint for one durable step each;
`DbFile` opens these steps.

### Timestamps

`counter` holds the two atomics, `cur` the local variable of a thread inside
`next()`. `NextLoad`, `NextExchange`, `NextRetry` and `NextOverflow` are the
load, the two outcomes of `compare_exchange_weak` (it may fail spuriously) and
the error return. Both generators run the same actions with their own `Limit`.
`issued` and `reserved` are history: what was returned, what recovery reserved.

### VersionChain and MemGraph

Vertices and edges run line-for-line parallel code, so a record is either. A
record's `head` is `chain.current`; `chain[r]` is the sequence of undo entries
reachable from `undo_ptr`, newest last. Each entry carries its owner, because a
`Weak` pointer dies with the owner's undo buffer (`Gone`): the walk then ends
without an error, exactly as the `upgrade()` loop does.

| Action | Code |
|---|---|
| `BeginDrawId`, `BeginDrawTs`, `BeginRegister` | `begin_transaction_at`: id, start timestamp, insertion into `active_txns` with `update_watermark` |
| `Get` | `get_vertex`, `get_edge` |
| `CreateCheck`, `CreatePessimistic`, `CreateOptimistic` | `create_vertex`, `create_edge`: the checks, then the insertion or the intent |
| `SetPessimistic`, `SetOptimistic` | `set_vertex_property`, `set_edge_property` |
| `DeleteCheck`, `DeleteRecord` | pessimistic `delete_vertex`, `delete_edge`: the record's lock, then one record of the cascade per step |
| `DeleteOptimistic` | optimistic deletion, one call |
| `CommitDrawTs`, `CommitLock` | `commit_at` up to validation, for both strategies |
| `Promote` | one entry of the loop of `commit_pessimistic` |
| `ApplyIntent`, `PromoteIntent` | one intent of phases 2 and 3 of `commit_optimistic` |
| `CommitFinish` | `finalize_commit_common`, `finish_transaction`, `garbage_collect` |
| `Abort`, `AbortEntry`, `AbortFinish` | `abort_at`, one undo entry per step |

Abstractions. A property value is the number of the transaction that wrote it:
the code copies values and compares them only to find changed slots. Labels and
schemas are left out; an edge's end points are fixed. A call that fails with an
error changes nothing that another call could see (a failing create of a
Serializable transaction adds reads, as `Get` does), so it is not a step; the
failures that do change state are in the model: conflict inside a cascade,
validation failure, the `unwrap()` of `commit_pessimistic` (`panicked`). The
"missing" error inside phase 2 of `commit_optimistic` is unreachable after
phase 1 under `commit_lock` and is left out. A client drops its `Arc` when its
transaction has finished, so only `committed_txns` keeps undo entries alive.
`update_watermark` is one step. The first transaction finds the graph as a
loading transaction, already collected, left it (`Init`).

`Serialized` chooses the environment. With `TRUE` one thread at a time is
inside a call, as in a single-threaded embedding: transactions still
interleave, call by call. With `FALSE` the steps inside begin, create, delete,
commit and abort interleave as well.

### SnapshotIsolation and MemGraphSI

The abstract store has a committed graph `db` and, for every open transaction,
a private `view`, the keys it wrote and the keys others installed meanwhile.
The mapping needs no history variable: `db` is what lies beneath the entries of
an unfinished writer, a view is what `Read` returns, and a transaction is open
from the moment its start timestamp is drawn.

### WalRecovery

`disk` is the checkpoint and the log, everything else is lost by `Crash` and
rebuilt by `Recover` (`MemoryGraph::recover`: restore the checkpoint, replay
the log with one current transaction, set generators and LSN). A client calls
begin, a write, commit or abort (`Call`); `Step` goes on with a call under way:
registering and logging a begin, promoting, giving a redo entry its LSN,
appending it, appending the commit, finishing with the automatic checkpoint
(`CheckpointLock`, which waits until no transaction is active, `WriteCheckpoint`,
`TruncateWal`). A crash may come between any two of these. A record is a cell
with at most one uncommitted write; `MemGraph` has the rest of the chain.
`promise` is history: what the commits on the log have promised. `Overlap` and
`BlindWrites` admit client behaviour that section 5 describes. Replay reads the
log sorted by LSN (`SortedByLsn`, a stable sort by rank), and
`truncate_wal_until` returns early when it has nothing to remove.

### DbFile and DurableLog

The file is an array of blocks. `disk` is what has been synced, `pend` the
values written to each block since, any of which may be on the disk after a
crash. Every write and every `sync_all` of `append_wal`, `write_checkpoint` and
`truncate_wal_until` is a step, in the order of the code, and `Open` reads
the header and the two regions back, checksums included. `DurableLog` is what
`PersistenceProvider` promises: a snapshot and a log that survive. The mapping
reads the contents back from the synced blocks; while a checkpoint or a
truncation is under way that no crash may interrupt, it gives the contents
before it. `CrashIn` names the operations a crash may interrupt. `Kept` is the
log that a truncation writes again: what `read_wal_entries` returns is sorted,
so it is one pass over the LSNs in order. An append that finds the file at
`MaxBlock` is not a step.

### OlapGraph and OlapReaders

Vertices are an array with an id map; each vertex has a chain of blocks of
`BLOCK_CAPACITY` slots kept in the order of their targets; a full block splits.
The calls with a transaction stamp a slot with the transaction's id, and
`commit_at` replaces it through the location kept in `edge_id_map`. What a call
does under the edges lock is one step. What it does before it takes the lock is
another: `LookUp` is the read of `edge_id_map` in `set_edge_property_in_txn` and
`delete_edge_in_txn`, `DrawCommit` the drawing of the commit timestamp. The
calls without a transaction are a loader's and come first. The compressed forms
are functions of the state. `log` is history: what was written to each edge.

`OlapReaders` puts a reader beside these steps. `LookFor` is the look of
`get_edge_at_ts` and `get_edge` at `edge_id_map`, `Looked` the rest of the read
under the lock, which takes the slot at that place as it is by then.
`edge_next` is a call of `EdgeIterAtTs::next`, with a block and an offset kept
from the call before; `adjacency_next` is one turn of the loop of
`AdjacencyIteratorAtTs::next`, which takes the lock in each. Readers change
nothing, so they do not meet, and one stands for all. A transaction belongs to
one thread: between the two steps of a point read it does nothing else, between
two calls of `next()` it may write, and it drops the iterator before it ends.
`steady` and `given` are history: the edges that a scan has been able to read in
their place at all times since it began, and how often it returned each.

### DiskAnn and VectorIndex

`DiskAnn` has greedy search, robust pruning, back links, build, insertion,
soft deletion and clean-up as functions on a graph of slots, with squared
distances between integer points. `VectorIndex` keeps `vec`, the vector property
of each node, and the registered adapter with its two maps; its actions are the
five calls of `MemoryGraph`. A build that fails leaves no index, a batch that
DiskANN refuses is taken back out of the maps. The index is not transactional
in the code and not in the model.

### GraphTypes and Catalog

`GraphTypes` builds the type of a graph from `CREATE GRAPH` and from a manifest,
and writes and reads a graph as CSV files, with the conversion of each value to
a field and back. In `Catalog` a session starts a statement (`query`) and goes
through it in steps that end where the code holds no lock: an index is bound,
entered in the catalog, and built in storage while the graph's `index_op_lock`
names the session. An import checks the name, reads the manifest, reads one file
after another (a file that is missing or does not convert ends it), and
registers the graph. An export reads the graph, creates a file for each label,
dumps rows into `csv` writers whose buffers (`Buffer` rows) reach the file when
they are full, writes the manifest, and last drops the writers, which flushes
them in any order. No lock protects a directory, so all these steps interleave
with those of other sessions. `origin`, `exports` and `alone` are history: what
the files a graph was read from describe, and whether one export alone wrote
them. Graphs are heap objects, since a session keeps its `Arc` whatever becomes
of the name.

### The GQL parser

`GqlExpressions` and `GqlGrammar` hold one definition for each function of
`parser/impls/`, as data: token sets, sequences, ordered alternatives,
`dispatch!` arms, repetitions, peeks and precedence parsers. `Run` is the
semantics of the combinators of the `winnow` library and `precedence_impl` that
of `precedence.rs`. A parser result is the tree of operators and the tokens they
were parsed from; spans and error messages are left out.
`Sentences` reads the same rules without order and look-ahead.

### Planner

Binding, the logical plan, the rewrite of vector searches, the physical plan
and the executor builder are one action each, on a query that `Init` picks. A
plan carries the schema the planner computed for it; the builder looks columns
up by name in that schema and `Executors` runs the result, so a schema that
does not describe the columns gives a wrong answer in the model as in the code.
A name is a sequence of words, and the column of property p of variable v is
v followed by p, as the code joins them by an underscore: a variable `a_x` and
the property x of `a` have one name in the model too. Of the edge patterns the
binder accepts `->` only.
`Matches` and `RowOf` give the answer by the definition of the query.

### Execution

`DataChunk` is rows with a filter, `Evaluator` the expressions with three-valued
logic and checked integers, `Executors` the flat executors as functions on
streams (chunks, and then the end, an error or a panic), `Aggregates` and
`Factorized` the rest. `QueryExec` grows a plan by one executor per step, so that every executor
meets the streams of every other one, with filters not yet applied, empty
chunks, nulls and failing rows.

## 3. Runs

| Run | Instance | States | Shows |
|---|---|---|---|
| `timestamps` | 2 threads, commit timestamps 1..4, ids 6..9 | 424,544 | both counters up to and at their limits: fresh values, disjoint domains; every call of `next()` returns (liveness) |
| `collection` | serialised; 3 transactions, the first pessimistic, the others optimistic; 2 vertices, one stored; create, set, delete, read, abort, 2 calls each; collection after 2 commits | 719,681 | types; the watermark; first committer wins |
| `clients` | serialised; scenarios *both* (3 transactions, the strategies mixed, create, set, abort, one write per record), *cascading* (2 pessimistic, create, set, delete, two writes per record), *deleting* (2 optimistic, 2 vertices and an edge stored, set, delete) | 104,215 | refinement of `SnapshotIsolation`; aborts that restore and unlock |
| `threads` | Serializable; scenarios *validating* (2 pessimistic transactions of 3 calls, serialised, 2 vertices and an edge), and, not serialised, *locking* (3 pessimistic threads, one call each) and *staging* (2 optimistic threads, two calls each, 2 stored vertices) | 379,970 | validated reads are current; no edge without its end points between two transactions; locks, order of versions and dirty reads under every interleaving of the steps |
| `recovery` | 3 transactions one after another, 2 records, a checkpoint after 4 entries, two crashes anywhere | 401,329 | recovery gives the committed prefix, also after a crash that follows a recovery; memory and log agree; LSNs are fresh |
| `dbfile` | 5 LSNs, 4 blocks, checkpoints of 1 and 2 blocks, crashes when idle and inside appends | 68,309 | no header on disk counts an entry that is not; refinement of `DurableLog` |
| `olap` | 2 sources, 2 targets, 3 edges, 3 loader calls, 2 transactions of 2 writes, one of them reading, blocks of 2 slots | 1,229,610 | point reads give the snapshot or miss what was moved or written since; scans return once what stays in place; stale look-ups of writers are repaired; faithful scans and compression of the latest state |
| `exec` | integers -4..3, up to 3 vertices with properties null, 0 or 2, 2 executors on the scan, 3 more once factorized | 22,554 | each executor has the meaning of its relational operator |
| `parser` | 18 cases: a rule, some words, all its sentences up to 6 to 18 tokens | 47,248 | no sentence is hidden; trees follow the binding powers |
| `vector` | 4 nodes, 3 points, batches of 1 and 2, degree 4 | 11,334 | the two numberings agree; small searches are exact |
| `catalog` | 2 sessions (symmetric), 5 statements, 2 graph names, one dump of 3 vertices, an empty directory, buffers of 2 rows | 638,908 | no half index, no lost graph, copies are isomorphic, end points declared |
| `planner` | 6 kinds of paths with all label forms, 8 projections, 35 orders and pages, 2 graphs, names that collide | 52,176 | plans answer what the query means; the rewrite keeps the answer |

Every run lets the system stop: clients finish, statements and plans end.

Why the bounds are enough for the questions asked:

* `MemGraph`: the conflicts are between a reader and a writer or two writers,
  and a third transaction observes the result or keeps the watermark down; one
  edge between two vertices gives every role a record can have in a cascade;
  property slots are independent but for the order of two undo entries (section
  5). `GC_TRIGGER_THRESHOLD` is 50 in the code and 2 here, so that collection
  happens while a transaction is active; 9 turns it off.
* `Timestamps`: two threads are enough for one to spoil the other's exchange, and
  `update_if_greater` may come from outside at any time. The run is not reduced
  by symmetry, which is not sound for liveness.
* `WalRecovery`: one transaction for a checkpoint to hold, one behind it in the
  log, one that the crash cuts; the threshold of 4 entries is reached inside a
  run; a second crash meets a log that a recovered process has gone on with.
* `DbFile`: a checkpoint of two blocks moves the log behind the entries of an
  earlier one, so that stale blocks of another kind lie in the log region.
* `OlapGraph`: blocks of two slots split at the third edge; two transactions
  leave uncommitted slots between each other's; three edges in two blocks have
  slots before and behind a cursor that shift, and a block left and one ahead.
* `QueryExec`: two executors let every executor meet every other one's stream;
  the integer range is small so that sums overflow and divisions fail.
* `GqlParser`: the words of a case are chosen so that every alternative of its
  rules occurs; 6 tokens hold two operators of different power with a prefix and
  a suffix.
* `VectorIndex`: the capacity is twice the first build, which batches of two
  exceed; all slots fit in a neighbour list, since beyond that exactness is not
  what the code promises. No batch names a node twice (section 5).
* `Catalog`: five statements are enough to set a graph in both sessions and race
  on an index or a name, and to import a graph, export it and import the copy
  while another session exports to the same directory. The dump has a label with
  two rows and one with three, so that buffers of two rows fill in the middle.

Some runs leave out behaviour on purpose, because the code then does what
section 5 says: *both* and `collection` write each record once per transaction
(the deletion of a vertex counts for its edges), *cascading* and *deleting* have
no abort, in `collection` only one transaction is pessimistic, *locking* has no
create, *staging* no read and no edge, `threads` does not mix the strategies
within a scenario, `recovery` has
`Overlap` and `BlindWrites` `FALSE`, `dbfile` interrupts no checkpoint and no
truncation, `olap` has clients that keep off edges another transaction writes
(`ClientLocks`), and some properties name the shapes they exclude
(`TakenForName`, `Answerable` with `NamesDistinct`). Together the runs take every action.

Fairness is assumed in `Timestamps` only (`FairSpec`). A thread inside `next()`
goes on, because threads are scheduled: weak fairness of its steps.
`compare_exchange_weak` may fail although the counter has the expected value,
but not for ever: strong fairness of the exchange. Neither says that a call gets
through against the others; what lets it end is that each failed exchange loads
the value it lost to, and that the counters are finite. Callers need not call.
Elsewhere nothing waits but for `commit_lock`, the index lock and the checkpoint
that waits until no transaction is active; section 5 says how the last can wait
for ever, and no liveness is claimed of it.

Each property is checked against a mutated definition, listed in
`PROJECT.json`: the operators commented "Slip" in the modules. With the mutation
TLC finds the property violated.

## 4. Proofs

`Timestamps_proofs`, for every set of threads, every `TXN_ID_START > 1` and
every start value below it. The inductive invariant `IInv` joins `TypeOK` and
`DomainsDisjoint` with `HistoryBelow`: everything issued or reserved is below
the counter. Without it freshness is not inductive: the exchange only knows
that the counter equals the value it loaded.

* `InvariantHolds`: `Spec => []IInv`.
* `DomainsStayDisjoint`: `Spec => []DomainsDisjoint`.
* `TimestampsAreFresh`: `Spec => FreshTimestamps`.

`MemGraph_proofs`, for every number of transactions, every set of records and
every mix of strategies and calls, under the assumption `Serialized` (section 5
says why it is needed).

* `ManagerInvariant`: `Serialized /\ Spec => []IInv`.
* `WatermarkHolds`: `Serialized /\ Spec => []WatermarkSafe`.

`WatermarkSafe` is not inductive: `update_watermark` looks only at the active
transaction with the smallest id, so the invariant must say that ids and start
timestamps are in the same order (`StartsInOrder`), that a transaction between
drawing its timestamp and registering is the youngest (`PendingIsYoungest`),
which holds because it is alone in a call (`OneCall`), and that every timestamp
was drawn from the clock (`Drawn`). Steps that do not touch the manager are
shown to be `Quiet`, once for each action; the six others have a lemma each.
The least element of a set of ids comes from the well-foundedness of the
natural numbers (`MinExists`).

In the same module, for every value of the constants that satisfies
`GraphAssumption`, whether or not clients run one call at a time:

* `TypeInvariant`: `Spec => []TInv`.
* `TypesHold`: `Spec => []TypeOK`.

`TypeOK` is not inductive: a `delete` step takes the head of `target[t]` and
phase 2 of an optimistic commit branches on the kind of an intent, so `TInv`
adds that a delete call has a record left (`Targeted`) and that phase 2 meets
only records with an intent (`Applying`). Below the actions there is a lemma for
each operator that builds a value: undo entries, `Rollback`, `Replay`,
`snapshot_with_guard`, `NewWatermark`, `Cascade`. `Cascade` needs the edges to be
finite, which the assumption says.

The second half of `MemGraph_proofs`, for every number of transactions, every
set of records and every mix of strategies, isolation levels and calls, under two hypotheses:
`Serialized`, and `NothingRemoved`: there are no edges, or fewer transactions
than trigger a collection. Both are needed. Threads that overlap inside a
create or a commit break each of these properties, and so does a collection
that removes a tombstone whose mark a running transaction holds (section 5).
`cleanup_graph_data` looks at edges only, so a graph of vertices is covered with
collection, a graph with edges without.

* `LockInvariant`: `Serialized /\ NothingRemoved /\ Spec => []LInv`.
* `WritersHoldLocks`, `LocksReleased`, `VersionsInOrder`, `FirstWins`: under the
  same hypotheses `WriterHoldsLock`, `NoLockLeftBehind`, `VersionsOrdered` and
  `FirstCommitterWins` hold throughout.
* `ReadsSerializable`: under the same hypotheses `SerializableReads` holds.

None of the first four is inductive, and they need each other. The first committer
wins because a writer found the record unmarked and not newer than its start,
which is only worth something if marks are neither lost nor forged. So `LInv`
says of every transaction that what it has written it holds (`Held`), that
every mark has an owner who will take it away (`Marked`), and that the oldest
undo entry of a vertex saves a commit timestamp, so that an abort that goes on
to the end releases it (`FirstSaves`). An abort puts old versions back, so what
the undo entries hold must be in order too (`SavedOrdered` beside
`ChainsOrdered`) and must not be older than a commit the record has seen
(`Succeeds` beside `Superseded`). Between the phases of a call the invariant
keeps what the earlier phase checked (`CreateOpen`, `Validated`, `GuardsOld`),
and `ClockBound` counts the timestamps drawn, which keeps them below the
transaction ids. The proof has one lemma for each kind of write: a mark set
(`LocksWrite`), replaced by a commit timestamp (`LocksPromote`), passed over
(`LocksPassed`), or taken back (the abort); each action cites one.

`SerializableReads` speaks of finished transactions, whose read sets are gone.
`ReadsInv` follows it through the commit: a look-up of a stored record is in
the read set or under a write intent (`NotedFor`); behind validation, no commit
newer than the transaction's start has written what it read (`OldFor`, from
`Superseded`); and a commit under way has a later timestamp than every finished
one (`InOrderFor`), so a write that comes after it is later too.

`MemGraphSI_proofs`, for every number of transactions, records and calls,
strategies mixed, under `CarefulClients`: the two hypotheses above, and one of

* `WriteOnce`: a transaction writes a record once and deletes nothing; or
* `NoRollback` and `NoInsertDelete`: pessimistic transactions are Snapshot ones
  that nobody aborts, and optimistic ones do not both create and delete.

Section 5 has the counterexamples these exclude: `abort_at` takes back the
oldest write of a record only and revives what was deleted twice, and a record
inserted and deleted by one optimistic transaction shows up in the past. Optimistic
transactions may abort at any time, because they roll nothing back.

* `SnapshotInvariant`: `CarefulClients /\ Spec => []SInv`.
* `ReadsAreClean`, `AbortsLeaveNothing`: under the same hypothesis `NoDirtyRead`
  and `AbortLeavesNoData` hold throughout.
* `StoreIsSnapshotIsolation`: `CarefulClients /\ Spec =>
  ImplementsSnapshotIsolation`, the refinement of `SnapshotIsolation`.

A read of an old snapshot follows the undo chain, so what it sees depends on
entries other transactions put there, and each property needs to know what every
version of a record holds, the current one and those the chain leads back to.
`SInv` joins `LInv` and `ReadsInv` with `VInv`, which has a part for the records
and a part for the transactions. Of a record it says that a committed version
holds data of commits no newer than its timestamp (`Dated`), an uncommitted one
the writer's own on top of that (`MarkedClean`); that the oldest version is older
than every transaction or shows no record (`Based`); that every entry of the
chain is its writer's, and the writer unfinished, kept by the manager, or older
than the watermark (`Owned`), which is what makes collection harmless: an entry
whose owner is gone is one that no active transaction walks past; and
that entries of one writer lie together (`Runs`, `Topped`). Of a transaction it
says that timestamps are drawn in the order of events (`Timed`), what its undo
entries and intents are worth (`Buffered`, `Confirmed`, `Staged`), and that an
abort finds its own entry on top of the record (`Undoable`).

A step does one of few things to a record: it pushes an entry, promotes the
head, pops an entry, or leaves it alone, and finishing a transaction may drop
owners. Each has a lemma about `Replay` and `Walk` over plain values, one about
`VInv`, and one about what the others and the writer see. `Replay` takes the
entry nearest to the version wanted for each property, so a push adds at one end
and nothing older changes; what the walk stops at is followed by induction with
the hypothesis as a set. In the refinement a commit takes effect at
`finalize_commit_common`. Between its first promotion and that step, records
already carry the commit timestamp, and no transaction sees them because all
have begun before it: one that begins in between would, which is why `Serialized`
is needed.

`DbFile_proofs`, for every set of checkpoints and sizes, every number of entries
and every length of the file, under `TornAppendsOnly`: a crash comes between two
calls or inside `append_wal`. Section 5 shows why checkpoints and truncations
are excepted.

* `FileDescribed`: `TornAppendsOnly /\ Spec => []IInv`.
* `HeaderHolds`: `TornAppendsOnly /\ Spec => []HeaderNeverAhead`.
* `FileIsDurableLog`: `TornAppendsOnly /\ Spec => ImplementsDurableLog`.

The invariant says that the header on disk describes the image on disk
(`Described`), and for each step of a call which blocks may be pending and how
far it has come: `Appending`, `Checkpointing`, `Truncating`. A truncation is the
hard one: the entries written again and those still to write are together the
ones to keep. In the refinement an append takes effect when the header
that counts it is synced, or at a crash that leaves this header on the disk, a
checkpoint and a truncation at their last sync; every other step stutters.
`Kept` is a recursive function; that it is the sorted remainder of the log is
proved by an induction over the LSNs with the hypothesis as a set
(`SetInduction`).

`Catalog_proofs`, for every set of sessions, graph names, statements and dumps
that satisfies `CatalogAssumption`.

* `NoHalfIndex`: `Spec => []IndexesAgree`.
* `NamesKept`: `Spec => GraphsNotLost`.
* `EndpointsAreDeclared`: `Spec => []EndpointsDeclared`.

`IndexesAgree` is not inductive. It does not say that a name leads back to
itself (`Mutual`), without which the removal of a key could leave a second name
behind, and it says nothing while `index_op_lock` is held: `Building` and
`Deleting` say that the catalog is then one entry ahead or one behind, for the
key in the hands of the session that holds the lock. For the end points, the
types are followed where they come from (`EInv`): each call of
`populate_graph_type` keeps them declared, which is lifted over the elements of
the statement by induction (`PopulateOK`), and a manifest either panics
(`manifest_ok`) or gives each end the id of the vertex type that has its label
(`ManifestTypeOK`). A graph that another session is about to add (`"add"`), a
manifest that an import has read and not used yet, the graph in the hands of an
export, and the manifests in the directories (`DiskTyped`), whichever exports
are mixed there, are part of the invariant. What each step of an import or an
export keeps in its hands is in `JobOK`.

`WalRecovery_proofs`, for every number of transactions, keys, writes and crashes,
every checkpoint threshold. For the LSNs, clients overlap and write blindly or
not (`Overlap` and `BlindWrites` are free):

* `LsnsReserved`: `Spec => []WInv`.
* `LsnsNeverReused`: `Spec => []LsnsFresh`.

`LsnsFresh` speaks of the file, and a file says nothing about the entry that
comes next: an LSN is drawn in one step and written in a later one, entries of
overlapping transactions reach the log out of order, and LSNs start again after
a crash. So `WInv` follows the LSNs in the hands of each transaction (`held`):
they are below the next one, not covered by the checkpoint, not on the log, and
nobody else's (`Reserved`, `Unshared`). A checkpoint takes the next LSN, which is
behind everything that is held only if nothing is: `Registered` says that who
holds an LSN is registered with the manager, for whose last transaction the
checkpoint waits, and `IdsDistinct` that a transaction which leaves takes no
other one out with it. After a crash nothing is held, and recovery must find the
next LSN from the file alone. Replay sets it from each entry it reads, so it is
the LSN of the last one plus 1, and that is the largest because
`read_wal_entries` sorts (`Sorted`, by ranks: `BeforeGrows`, `RanksHit`); an
empty log leaves that of the checkpoint (`RecoveredLsn`, an induction over the
entries read with the hypothesis as a set).

For the data, both are excluded: section 5 shows that replay puts the writes of
overlapping transactions in the wrong one, and that a write to the tombstone of
a rolled-back create makes recovery fail, so neither hypothesis can be dropped.

* `MemoryFollowsLog`: `~Overlap /\ ~BlindWrites /\ Spec => []CInv`.
* `RecoveryKeepsPromises`, `MemoryShowsPromises`: under the same hypotheses
  `CrashSafe` and `MemoryIsLogged` hold throughout.

`CrashSafe` says nothing about memory, where the next entries come from, and
`MemoryIsLogged` nothing about a commit that is half way to the log. `CInv`
joins them in one relation between the running transaction, memory, and what
recovery would find now (`Consistent`). Outside the records the transaction has
written, memory and recovery agree (`Agree`: a create that was rolled back is a
tombstone in memory and nothing at all on the log). On the records it has
written, memory holds the write over the recovered version; an entry that is not
on the log yet will be accepted when it is replayed (`Replayable`), one that is
there has been (`WriteKept`). Recovery is a function of the file, computed by a
recursion over the sorted log, and an append must move it by one entry: that is
`RecoveryAppends`, which needs the log to be sorted as it is written (`Rising`)
and the next LSN to be ahead of it (`Ahead`, from `WInv`). After a crash replay
may register a transaction that nobody runs; its marks stay with it (`MarksIn`),
and a new id is beyond all marks. Last, a commit timestamp must not look like an
id: `Early` and `InTime` count two timestamps for each transaction, and
`RecoveryAssumption` puts `TXN_ID_START`, which is 2^63 in the code, beyond them.
Every action has a lemma about `Consistent` with plain values, and one that
applies it to a step.

`OlapGraph_proofs`, for every set of vertices, every number of edges and
transactions, every block capacity, and clients that keep off each other's edges
or not (`ClientLocks` is free, except in the last).

* `MapIsExact`: `Spec => []OInv`.
* `LookupsRepaired`: `Spec => []StaleLookupRepaired`.
* `SnapshotScansComplete`: `ReadSpec => ScansReturnSteady`.
* `ReadsAreSnapshots`: `KeepOff /\ ReadSpec => []SnapshotReads`.

None of these properties is inductive. `OInv` says that `edge_id_map` and the slots of
the blocks are inverse to each other (`Exact`: what the map holds is there,
`Mapped`, and every slot in use is in the map, `Entered`), so no edge is in two
slots; that the slots behind the last edge of a block are empty unless the block
was given up, which is where a scan stops; and that a block is chained to an
earlier one, so that a chain ends. Insertion, removal and restamping of a slot
have a lemma each (`EdgeInserted`, `EdgeRemoved`, `OneRestamped`), and every call
is one of them; an abort is a sequence of them, followed by induction over the
entries taken back (`TakenBackSteps`, `UndoneOK`).

A step of `ReadSpec` is one of `Spec` or leaves the storage alone
(`ReadStepIsStep`), so these invariants hold beside the reader. `CallInv` says
that a call under way belongs to a running transaction. For the scans, `ScanInv`
splits the steady edges at the cursor: one behind it has been returned once, one
ahead of it not yet. A steady edge has not moved and is readable, so the scan
cannot step over it (`AheadIsShown`), and because no edge is in two slots it
cannot return it from another (`SlotIsMapped`). `EdgeIterAtTs` goes from block to
block by number; `AdjacencyIteratorAtTs` follows the chain of a vertex, and ahead
of it is what the chain from its block still reaches (`Reaches`: in every set of
blocks that is closed under the links, the transitive closure without a
recursion). Writers may append blocks in the middle of a scan, but never relink
one (`RunGrows`), so what is reached stays reached (`ReachesKept`). That an edge
with a tombstone in front of it in its block is not steady for the adjacency
scan is needed: a tombstone ends the block for that iterator.

`KeepOff` is what the clients owe the storage and section 5 shows what happens
otherwise: they keep off an edge that another transaction writes (`ClientLocks`),
no edge leads to vertex 1, whose id marks a tombstone, and there are fewer
transactions than timestamps below `TXN_ID_START` (2^63 in the code). A read
looks at one slot, `SnapshotReads` speaks of all that was written to the edge;
`SInv` relates the two. What the slot of an edge says is the last entry of its
log (`EdgeInv`). Under the mark of a transaction is the commit of its snapshot
that its undo buffer leads back to, in the version list and in the log
(`OwnerInv`). A writer that waits for the lock still sees the edge it looked up,
unless the block was given up (`WaitInv`), which is what keeps two marks off one
slot. The filter on `min_ts` never hides a commit from a snapshot that has it
(`Unhidden`), because every rewrite lowers it (`Lower`). An edge that a call does
not write keeps its cell wherever its slot moves (`CellsKept`, `Untouched`). An
abort is an induction over the entries still to be taken back (`RolledTo`): the
first write to an edge decides whether the edge goes or returns to the version
underneath.

`VectorIndex_proofs`, for every set of nodes and vectors, every degree, list size
and growth factor, under `DistinctBatches`: no insert names a node twice (section
5 shows what happens otherwise).

* `NumberingAgrees`: `DistinctBatches /\ Spec => []SlotsAgree`.

The adapter numbers vectors with a counter and DiskANN by appending, and nothing
but the order of the calls keeps the two together. `SlotsAgree` is inductive
once the slots are known to be the numbers below `next_vector_id` (`Numbered`):
then the next ids are free in both maps, and are where DiskANN appends. The step
that could break it is an insert that fails after the vectors were appended,
since the adapter gives its ids back and DiskANN keeps the vectors.
`InsertNumbers` shows that there is none: DiskANN refuses a batch exactly when it
exceeds the capacity, which it checks first. After that each new vertex finds a
neighbour, because a search expands its entry point first (`SearchExpandsStart`),
the entry point is an older slot (`MedoidIsSlot`), and pruning keeps at least one
candidate (`PruneKeepsOne`). Each of these is an induction over a loop, written
as a recursive function whose values a lemma lists (`GreedySearchLoop`,
`RoundLoop`, `InsertAllLoop`, `VectorSumLoop`).

Only model-checked: `NextReturns` (liveness is out of the prover's reach);
`NoDanglingEdge` of `MemGraph`, which has no theorem because it is false beyond
two transactions (section 5: a third one can revive a deleted edge); every
property of `MemGraph` when threads overlap (run `threads`) or a collection
removes records (run `collection`), except the type invariant; `LatestFaithful`
of `OlapGraph`, where the decoding of a compressed block is an induction over
its differences; `SearchExact` of `VectorIndex`, which depends on what greedy
search finds; `CopiesIsomorphic` of `Catalog`; and everything in modules built
on recursive operators (`GqlParser`, `Evaluator`, the executors, `Planner`).

## 5. What the models say about the code

Behaviour of the code that departs from what one would expect, met while
modelling. Where a model shows it, the instance is given; the remaining ones
were seen in the code on the way.

### Transactional store (`storage/src/tp/`)

* A commit becomes visible record by record (`transaction.rs:556`): a
  transaction begun in between sees part of it. Instance: `MemGraph`, 2
  pessimistic threads, 2 stored vertices, not serialised;
  `ImplementsSnapshotIsolation` fails.
* A record with two undo entries is promoted twice, and the second time over the
  mark of the next writer (`transaction.rs:543`). Instance: 3 pessimistic
  threads, 1 vertex, 2 writes; `WriterHoldsLock` fails.
* The watermark passes a transaction that has drawn its start timestamp and not
  registered yet (`txn_manager.rs:194`, `235`). Instance: 2 threads that only
  begin and commit, not serialised; `WatermarkSafe` fails.
* `abort_at` rolls back oldest first, so a second write to a record survives
  (`transaction.rs:414`). Instance: 2 transactions, 2 property slots, 2 writes
  per record, with abort; `AbortLeavesNoData` fails.
* A Serializable transaction that looked for a missing record is not validated
  against its creation (`memory_graph.rs:840`). Instance: 2 Serializable
  transactions, 2 vertices, none stored: both look for the other's vertex,
  create their own and commit, which no serial order explains.
* Deleting a deleted vertex again and aborting revives it: `abort_at` sets
  `is_tombstone = false` whatever image was saved (`transaction.rs:427`).
  Instance: pessimistic, one stored vertex, 2 transactions, delete and abort.
  An edge comes back without its end point: one transaction deletes a vertex and
  its edge, a second deletes the edge once more and fails validation because of
  a third. Instance: 3 pessimistic Serializable transactions, serialised, 2
  vertices and an edge stored, set, delete and read, 2 calls, 1 write per record;
  `NoDanglingEdge` fails.
* An aborted `create_edge` leaves the edge marked with the aborted
  transaction's id: the undo entry saves the id where `create_vertex` saves 0
  (`memory_graph.rs:1126` and `1041`). Instance: as *both* with the edge's end
  points stored; `NoLockLeftBehind` fails.
* A vertex inserted and deleted by one optimistic transaction becomes visible
  to transactions that began before (`transaction.rs:776`). Instance: optimistic,
  create and delete, two writes per record; `NoDirtyRead` fails.
* `create_vertex` can return `Ok` without writing when the vertex appears
  between its checks and its insertion (`memory_graph.rs:1024`). Instance: as
  *locking* with create; `VersionsOrdered` and `WriterHoldsLock` fail.
* Collection removes tombstoned records of an edge whoever marked them
  (`txn_manager.rs:276`), and `commit_pessimistic` then panics on its
  `unwrap()` (`transaction.rs:547`). Instance: 3 pessimistic transactions
  that delete, one stored edge, threshold 1; `panicked` is reached.
* Pessimistic and optimistic threads together break the order of versions.
  Instance: as *locking* with strategies mixed; `VersionsOrdered` fails.
* An optimistic Serializable `delete_vertex` and a concurrent `create_edge` leave
  an edge without its end point. Instance: as *validating*, optimistic;
  `NoDanglingEdge` fails. So does an optimistic `delete_vertex` beside a commit
  under way, which hides an edge from it. Instance: as *staging* with the edge
  stored.
* Optimistic Serializable threads can commit reads of a half-visible commit.
  Instance: as *staging* with read; `SerializableReads` fails.
* `latest_commit_ts` can move backwards, because commit timestamps are drawn
  before `commit_lock` (`transaction.rs:382`).

### Log, checkpoint and file

* Replay keeps one current transaction (`memory_graph.rs:666`), so entries of
  overlapping transactions go to the wrong one. Instance: `recovery` with
  `Overlap = TRUE`; `CrashSafe` fails.
* The automatic checkpoint runs under `commit_lock` and waits for the other
  active transactions, which need the lock to commit (`transaction.rs:991`).
  Instance: the same; a state is reached in which the checkpoint waits and no
  client can go on, which is a deadlock but for crashes.
* Recovery registers a transaction that the crash cut off and never removes it;
  later checkpoints wait for it and the watermark stays behind it. Instance:
  `recovery`: with a crash inside a commit, `active` is never empty again.
* A write to the tombstone of a rolled-back create is logged and makes recovery
  fail. Instance: `recovery` with `BlindWrites = TRUE`; `CrashSafe` fails.
* A restored checkpoint does not advance the timestamp generator past the
  timestamps it holds (`checkpoint.rs:202`). An I/O error in an append after
  promotion leaves unlogged data visible.
* The checkpoint region is overwritten in place (`db_file/core.rs:186`), and a
  truncation empties the log before it writes the entries to keep again
  (`core.rs:432`). Instance: `dbfile` with `"checkpoint"`, or `"truncate"`, in
  `CrashIn`; `ImplementsDurableLog` fails. The header is written as one block in
  the model; a torn header would fail its checksum.

### OLAP graph (`storage/src/ap/`)

* A transaction cannot read its own new edge in a block whose `min_ts` is later
  than its snapshot; reads at a snapshot miss loaded edges in blocks that a
  commit has touched. `SnapshotReads` states both as exceptions.
* Deleting the only edge of a block marks the block dead; later edges put there
  are unreachable (`InDeadBlock`). `AdjacencyIterator` stops at tombstones
  although `EdgeIterAtTs` does not; an edge with label 1 to vertex 1 is taken
  for a tombstone.
* `get_edge_at_ts` and `get_edge` look at `edge_id_map` before they take the
  edges lock (`olap_graph.rs:905` and `910`, `839` and `847`) and, unlike the
  writers, do not look again: an edge that an insertion or a rollback shifts in
  between is reported as absent although it is visible. `SnapshotReads` states it
  as an exception (`loc[e] # call.at`); without it TLC finds the state.
* The iterators keep a block and an offset between two calls of `next()`
  (`edge_iterator.rs:105`, `adjacency_iterator.rs:114`): an insertion in front of
  the cursor makes a scan return an edge twice, a removal or a split makes it
  skip one. `ScansReturnSteady` speaks of the edges that stay where they are.
* `EdgeIterAtTs::next` takes the read lock again while it holds it
  (`edge_iterator.rs:107` and `110`), which may block for ever if a writer waits
  in between, depending on the lock's implementation. Seen in the code.
* A commit timestamp is drawn before the edges lock is taken
  (`ap/transaction.rs:56` and `69`): a transaction that begins in between has a
  later start, does not see the commit at first, and does afterwards.
* There is no check of write-write conflicts. Instance: `olap` with
  `ClientLocks = FALSE`; `SnapshotReads` fails.
* `delete_vertex` shifts the array but not `dense_id_map`, and panics for a
  vertex without edges; `create_vertex` after it panics (`phase = "poisoned"`).
* Columns created after blocks, and `compress_edge` on an empty block, panic;
  `compress_edge` wraps on a tombstone.
* The rollback of a deletion writes the target back where the tombstone was
  (`ap/transaction.rs`), behind or before edges inserted meanwhile: the block is
  no longer sorted, the binary search of the next insertion may end anywhere and
  `compress_edge` subtracts below zero. Instance: 3 transactions, one vertex; one
  deletes an edge to 4, another inserts an edge to 2 behind the tombstone, the
  first aborts. The reads do not depend on the order.

### Execution (`gql/execution/`)

* LIMIT and OFFSET count the rows of a chunk that its filter excludes, and LIMIT
  pulls one chunk too many; `LimitOffsetCut` says what they cut.
* The hash join ignores the filter of right chunks and joins null keys. Filter
  and Project evaluate rows that are filtered out, so an excluded row can fail a
  query. Sort over empty input and constant predicates, projections and sort
  keys panic or fail.
* SUM(DISTINCT) is null and AVG(DISTINCT) is 0; sums wrap in release builds.
* `FactorizedExpand` keeps a vertex without neighbours, on which
  `FactorizedFlatten` panics. Sources open transactions of their own and
  never finish them.

### Parser and planner (`gql/parser/`, `gql/planner/`)

* `any_path_search` never consumes ANY, so no search with ANY parses
  (`Unreachable`). NULLIF takes no comma, binary set functions no parentheses.
  `NOT x IS TRUE` is `(NOT x) IS TRUE`. GRAPH before a brace, LABEL and LABELS
  are taken for names, a delimited identifier for a whole graph path
  (`TakenForName`).
* Of the seven edge patterns the binder accepts only `->` (`binder/common.rs:189`).
  An expansion starts from the first column; an edge pattern without label matches nothing; a repeated variable is
  bound twice; AND inside OR of labels is read as OR. ORDER BY a property of a
  returned vertex panics, and so does a negated label; WHERE is always refused;
  USE affects binding only. `Answerable` lists what is left.
* The vector rewrite drops the sort and ignores DESC: the hash join above the
  index scan returns rows in the order of the matches, so the order is not kept.
  Over a path it returns all rows of the nearest vertices; a whole vertex
  returned carries only the fetched properties.
* The column of property p of variable v is the string `v_p`, looked up among
  all columns (`vector_index_scan_rewrite.rs:335`, `builder.rs:373`). In
  `MATCH (a:P)-[a_x:W]->(b:C) RETURN a.x` the planner finds the edge's column,
  skips the fetch and returns edge ids; `a.b_x` and `a_b.x` are one column, and a
  variable `distance` meets the column of the index scan. Instance: `planner`
  without `NamesDistinct` in `Answerable`; `AnswersExact` fails, and with an edge
  `a_emb` so does `RewriteAgrees`. A distance to such a column, which holds no
  vectors, panics.

### Vector index and catalog

* A build fails when the medoid is the first slot or there is one vector. A
  search for as many neighbours as slots loses the farthest; a filtered search
  pads its answer with nodes outside the filter. Once a neighbour list overflows,
  vectors can become unreachable. After all nodes are deleted no insert
  succeeds.
* `insert` looks for a batch's nodes in the map only, where `build` also compares
  them with each other: a node named twice in one insert takes two slots and the
  map keeps the second (in_mem_diskann.rs:603). Instance: `VectorIndex` with a
  batch `<<4, 4>>`; `SlotsAgree` fails after that insert.
* DROP INDEX resolves the name when it is bound: a concurrent drop and create
  make it drop another index. IF NOT EXISTS succeeds, and readers see an index,
  while its build is still running. `create_test_graph_data` registers a graph
  before its data is loaded. A failing SESSION SET keeps its first part.
* `CREATE GRAPH` hashes label names while only type names and aliases are
  registered; an export of such a graph panics after writing files. An exported
  vector is empty and cannot be imported; null and the empty string are written
  alike.
* Nothing protects the directory of a dump (`export_graph.rs:312`,
  `import_graph.rs:161`). The manifest is written before the last rows are
  flushed, so an import that finds it may read files that are cut short and
  register part of the graph; two exports to one directory mix their files; an
  export that fails in the middle leaves the files it has begun. `CopiesIsomorphic`
  is stated for directories that one export wrote and none was writing when they
  were read.

## 6. Not modelled, and the plan

Not modelled: the TP iterators (the visibility rule of `VersionChain` over a
cursor of a concurrent map, whose promises are the library's), the in-memory
persistence (it keeps nothing), schema directories and named graph types (no
statement changes them), shell and WebAssembly binding (I/O), the test harness,
the disk index, product quantisation and SIMD kernels of DiskANN (not used by
this program), value types beyond the conversions of import and export, and
which records share a shard lock of a map.

Next, in this order:

1. `NoDanglingEdge` for clients that delete only what they see, with a proof on
   top of `LInv` and `ReadsInv`.
2. The load and the store of `update_watermark` as separate steps.
