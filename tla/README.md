# A TLA+ verification of the hotblocks database

`hotblocks` keeps the most recent blocks of a set of blockchains ("datasets") in
RocksDB and serves queries over them while the chains move, fork and finalize.
This directory models

* its write path: what happens to the stored chain of one dataset, and to what
  subscribers are told about it, under forks, finality reports, retention,
  background compaction, errors and crashes, how several upstream endpoints
  become the one chain that is written, and how storage keeps tables,
  transactions and indexes together below it;
* its read path: the query service, the execution of one query on a chunk, and
  what becomes of an item between the block it was ingested with and the answer
  that shows it;
* the block data service (`bds`), which shares the data source and keeps blocks
  in Cassandra.

## 1. The system

| Part | Code | State | Operations | Hard behaviours |
|---|---|---|---|---|
| Data source | `data-source/src/standard.rs` | position, per-endpoint request/stream/fork/backoff, fork-consensus timer, finalized head | next event: block, fork, finalized head, maybe-on-head; `set_position` | several endpoints disagree, lag, fail; stale answers |
| Ingest task | `dataset_controller/ingest_generic.rs` | buffered blocks, first block of the buffer, flush floor, last finality report | push block, flush, fork handshake | withheld flush, one-slot channel, aborted while waiting |
| Dataset controller | `dataset_controller.rs` | `State` (Init, HeadProbe, Ingest, IngestPause, Idle), retention watch | write epoch, retention change, head probe, spawn | a change races queued messages; epoch restarts |
| Dataset writer | `write_controller.rs` | window (`first_block`, `parent_block_hash`, `first_chunk_head`), `head`, `finalized_head` | `new`, `new_chunk`, `finalize`, `retain`, `init_retention`, trim, `compute_rollback` | publication after commit, rollback used later than computed |
| Chunk store | `storage/src/db/write/tx.rs`, `read/chunk.rs` | chunks by last block, label with finalized head and version | `insert_fork`, `validate_*`, `write/delete_chunk`, `update_label` | fork replacement, finalized-prefix comparison |
| Compaction | `storage/src/db/ops/compaction.rs` | the plan of a merge | plan, merge tables, commit or abandon | plan from a snapshot, commit much later |
| Table lifecycle | `storage/src/db/write/ops.rs`, `reclaim.rs` | dirty, live and deleted tables | build, purge, reclaim file ranges | crash between build and commit; ids in flight |
| Storage transactions | `tx.rs`, `db.rs` | snapshot, retry budget, lifecycle lock | run, commit, retry | conflict and re-run of a closure |
| Hash indexes | `tx.rs`, `read/snapshot.rs` | hash -> block/transaction | index, unindex, lookup | replacement chunk with the same blocks |
| Data service | `data_service.rs` | controllers by dataset | boot, delete unconfigured | one dataset's failure |
| Query service | `hotblocks/src/query/` | executor slots, waiters, running queries | plan, wait for head, stream | snapshot vs. head, capacity |
| Query engine | `query/` | a plan of scans, relations and outputs | compile, simplify, scan, relate, output in packages | pruning by statistics, renumbered relations, resumption |
| Chain schemas and tables | `data/`, `data-core/`, `query/src/query/`, `query/src/json/` | the rows of a chunk | push a block, prepare, query | flattening, narrowed columns, columns named in two crates |
| Block data service | `bds/` | the last blocks in memory, rows and heads in Cassandra | push, save, publish, finalize, restart | four tasks on one watch channel, saves in any order |
| Retention coordinator | `hotblocks-retain/` | last pushed floors | poll, push | restart of either side |

They interact in a chain: the data source hands blocks to the ingest task, which
batches them into chunks and sends them over a channel of capacity one to the
controller, which drives the single writer of the dataset. A fork travels back:
the source's previous blocks go to the writer, which answers with the position to
resume at. Compactions of the same dataset run concurrently and meet the writer
only in storage. Subscribers see two watch channels, `head` and `finalized_head`.
Queries look at the watermarks to decide whether to wait, and then read one
storage snapshot, chunk by chunk, with the query engine.

Correctness, as the code intends it: the stored chunks always tile the window and
link by hash; a finalized block is stored, is never rewritten, and finality moves
forward; the watermarks tell of committed state and never show finalized above
head; a rollback leads to a position where the writer accepts a replay; the
writer's working copy equals storage between transactions. Storage changes by
whole transactions whatever runs concurrently; the tables of a stored chunk are
there; data that belongs to nobody is known to the cleanup; the hash index finds
exactly what is stored. A client that follows the API holds one history without
gaps; a query answers exactly what was asked, whatever the plan makes of it; every
field shows what was ingested. The block data service can rebuild any head it
published, and deletes only forks.

## 2. Modules

| Module | Role |
|---|---|
| `ChunkStore` | chunks, reads and validations of a storage transaction, as operators |
| `DatasetLedger` | abstract specification: what a reader of one dataset may ever see change |
| `WriteController` | the writer, compaction and crashes as a state machine |
| `DatasetController` | a source, the ingest task, its channel and the controller, driving the writer |
| `DataSource` | several endpoints reconciled into one stream of events, and the consumer that repositions it |
| `Database` | tables, markers, optimistic transactions, hash index, cleanup and startup recovery of one dataset |
| `AtomicStore` | abstract specification: what storage promises to its writer |
| `DatabaseAtomicity` | `Database` seen as an `AtomicStore` (the refinement mapping) |
| `QueryService` | the requests of clients, the executor and the running query, over a dataset that changes |
| `RangeLists`, `TableScan`, `QueryPlan` | lists of row ranges, the readers of a table, and the execution of a query on a chunk |
| `ChunkTables`, `JsonExp`, `ChainQueries` | tables of a chunk, JSON expressions and queries, as operators |
| `BitcoinChain`, `TronChain`, `FillsChain`, `CommandsChain`, `SolanaChain`, `EvmChain` | the model, tables, requests and fields of each chain |
| `Chains`, `RoundTrip` | the chains under one signature, and the way of a block into a chunk and out of a query |
| `Bds` | the block data service |
| `MC...` | the input sets, configurations and symmetry for TLC |
| `ChunkStoreProofs` | lemmas about the operators of `ChunkStore` |
| `WriteControllerProofs`, `DatasetControllerProofs`, `DatasetWindowProofs`, `DatabaseStepProofs`, `DatabaseProofs`, `DataSourceProofs`, `QueryServiceProofs` | the theorems |

### WriteController

A storage transaction of the writer reads and writes the label of its dataset, so
transactions of one dataset exclude each other and each is one step, taken at its
commit. A compaction commit is another step of the same kind (`Compact`), allowed
between any two steps of the writer. What follows a commit is not atomic with it: `pc` walks
through `SetHead`, `SetFin` (and `Trim` under a `Head(n)` strategy), with the
pending assignments in `todo`. `head` and `finalized_head` stand for the fields of
the writer and for the watch channels, which `set_head` and `set_finalized_head`
assign together.

| Action | Code |
|---|---|
| `NewWriter` | `WriteController::new`, at boot and at the start of each epoch |
| `NewChunk`, `NewChunkRefused` | `handle_ingest_msg` / `new_chunk`, accepted or refused in its transaction |
| `Finalize`, `FinalizeRefused` | `finalize` with `resolve_finality` |
| `Retain`, `Trim`, `InitRetention`, `InitRetentionRefused`, `BootDone` | `retain`, the trim after a chunk, `init_retention` |
| `SetHead`, `SetFin` | publication |
| `StorageError`, `Crash` | an error that ends the epoch; death and restart of the process |
| `Compact` | the commit of `DatasetCompaction::execute` |
| operator `ComputeRollback` | `compute_rollback`, a pure function of storage and hints |

Blocks are (number, hash) pairs; a chunk holds a set of them. Hashes are opaque,
and a source may hand over any well-formed chunk with any report: nothing the
code does not check itself is assumed of the source. Table contents other than
numbers and hashes are left out, as are hash indexes and table ids (`Database`
has them).

### DatasetLedger

`seg` is the set of stored blocks and `fin` the finalized head. A step replaces a
suffix above the finalized block, advances finality to a stored block, trims a
prefix, or resets the dataset. `WriteController` implements it with
`seg <- Blocks(chunks)`, `fin <- label_fin`: compactions, publications, crashes
and restarts are stuttering steps.

### DatasetController

`DatasetController` extends `WriteController` and takes its actions as the steps
of the controller, with the inputs the rest of the system produces.

| State | Code |
|---|---|
| `config` | `RetentionConfig`, as `DataService::start` hands it to the controller; only an `Api` dataset takes requests or has a cap |
| `src`, `src_fin` | external: the chain an honest source serves, and how far it is final |
| `retention`, `changed` | the retention watch channel and whether the controller has seen its value |
| `ctl`, `keep` | `State` of `write_epoch` and its `head: Option<u64>`; `Start` is the beginning of an epoch, `Spawn` the call of `spawn_ingest` |
| `ing` | `IngestGeneric` with the position of its data source |
| `chan`, `answer` | the channel of capacity one, the oneshot of a fork |
| `budget` | what is left of a member of `Budgets`: forks, retention requests, crashes and errors |

| Action | Code |
|---|---|
| `PushBlock`, `Flush`, `ReportFinality`, `IngestFails` | the arms of `IngestGeneric::run` |
| `ReceiveFork`, `GetRollback` | `handle_fork` before and after it waits |
| `StartEpoch`, `InitState`, `HeadProbe`, `SpawnIngest`, `IngestClosed`, `PauseOver` | the states of `write_epoch` |
| `HandleNewChunk`, `HandleFinalizedHead`, `HandleFork` | the message arm, with `handle_ingest_msg` |
| `HandleRetentionChange` | the retention arm, preferred by the biased `select!` |
| `WriterStep`, `BootStep` | the steps of the writer the controller waits for |
| `RequestRetention`, `Fault`, `Compaction` | the API, a crash or a storage error, the compaction loop |

A message is taken from the channel when it is handled. The task that sends the
next one meanwhile reads nothing the handler writes, so the order of the two does
not matter. A send that waits for room is a step that waits, because the task
does nothing else in between. The source serves one chain at a time: what an open
stream still delivers of an older branch is a stream read before the fork.

### DataSource

`DataSource` is `StandardDataSource` by itself, with all of its endpoints; the
source of `DatasetController` is what the ingest task sees of it with one honest
endpoint. A poll visits the endpoints in order (`turn`), each until it has an
event or nothing to do, and then decides about a fork.

| State | Code |
|---|---|
| `position`, `canonical`, `finalized_head`, `max_seen` | `DataSourceState` |
| `started`, `timer` | `fork_consensus_started_at`, `fork_consensus_timeout` |
| `state`, `errors`, `rejects`, `committed` | `Endpoint`: `EndpointState`, the two counters, `last_committed_block` |
| `event` | the last `DataEvent` |
| `log`, `owner` | the consumer: the hashes it holds, and who gave it the last one |
| `settled` | external: the servers agree from now on |

| Action | Code |
|---|---|
| `Request`, `OpenStream`, `SignalFork`, `Fails`, `StreamEnds`, `SkipBlock`, `AcceptBlock`, `RejectBlock`, `BackToReady`, `Wait` | the arms of `poll_endpoint`, with `accept_new_block`, `on_new_finalized_head`, `on_error`, `on_reject` |
| `BeginPoll`, `NoConsensus`, `ForkConsensus` | `poll_next_event`, `fork_consensus_timeout`, `extract_fork` |
| `SetPosition` | `set_position`, called by `handle_fork` |
| `PauseOver`, `ConsensusTimeout` | the timers |
| `Answer`, `Settle` | external: the servers |

A server answers each request from branch 0 or 1 up to any tip, and need not stay
on it. It reports as final only what is final on the branch `Canon`. Endpoints in
`Careless` may stream blocks that do not link to the position. The pause of a
backoff is any time: its counters are kept up to `Rungs`, where 1 already tells
the first strike (no pause) from the others.

### Database

`Database` opens the step that `WriteController` takes for granted: a storage
transaction. Its two processes are the writer and the compaction of a dataset;
the cleanup task works beside them, and `boot` walks through the start of the
process.

| State | Code |
|---|---|
| `label`, `chunks`, `data`, `dirty`, `deleted`, `index` | the column families `CF_DATASETS`, `CF_CHUNKS`, `CF_TABLES`, `CF_DIRTY_TABLES`, `CF_DELETED_TABLES`, `CF_BLOCK_HASHES` |
| `proc` | per process: the job, the tables built for it, the table under way, the snapshot of its transaction, whether the label was written since, the attempt |
| `pending` | the table ids a cleanup or an orphan purge has scanned |
| `boot` | the step of `DataService::start` and the flags of this start |
| `lost` | a history variable: dirty tables nobody will commit or abandon any more |

| Action | Code |
|---|---|
| `StartInsert`, `StartRetain`, `PlanMerge` | `write_new_chunk`, `retain` (and label updates), `prepare_merge_plan` |
| `FlushTable`, `FinishTable`, `BuildFails` | `TableStorage::flush`, `TableBuilder::finish`, an error of a builder |
| `Begin`, `Callback`, `Refuse`, `Commit`, `Cancel`, `Retry`, `Exhausted` | `Tx::run`, with the callbacks of `update_dataset` and of `DatasetCompaction::execute` |
| `Abandon`, `AbandonFails` | `abandon_tables`, `abandon_new_chunk_tables` |
| `ScanDeleted`, `PurgeTable`, `CleanupFails` | `db_cleanup_task`, `logical_cleanup`, `purge_table` |
| `Start`, `Reclaim`, `ScanOrphans`, `OrphansPurged`, `DropDataset`, `NoDrop`, `PurgeIndex`, `DropCleanup`, `Dropped`, `Create`, `StartFails` | `DataService::start`, `startup_disk_recovery`, `delete_dataset`, `create_dataset_if_not_exists` |
| `Crash` | death of the process; every exit is one (`flush_and_abandon_db`) |

Every transaction that changes a dataset reads its label for update and rewrites
it, so one flag, `stale`, stands for the validation of RocksDB at a commit. The
callback runs on the snapshot, but it reads tables through a snapshot of the
moment: a chunk merged and purged in between makes it fail instead of conflict,
and `Callback` does the same. RocksDB writes batches atomically and in order; a
crash loses none (a loss of the tail of the log with the machine is not
modelled). `AtomicStore` is the promise: chunks are inserted, trimmed, merged or
dropped in one step on what is stored at that moment, which is what
`WriteController` assumes of its transactions.

### QueryService

The writer is reduced to its transactions (`Insert`, `Finalize`, `Retain`, with the
operators of `ChunkStore`) and to the publication of its two watermarks, each a
step of its own; `Merge` is a compaction. A client has at most one request open.
What the API asks of it is part of the model: it continues after the last block it
holds, names that block's hash, and gives up blocks on a 409.

| State | Code |
|---|---|
| `chunks`, `finalized` | what a snapshot taken now shows; `settled` is its history |
| `head`, `finalized_head` | the receivers of the two watch channels |
| `waiters`, `in_flight` | `WaitSlots`, `QueryExecutor` |
| `orphans` | worker tasks whose client is gone |
| `req` | per client: the place of its request in its life (`pc`), the query, the `RunningQuery` with its buffer |
| `log` | what the client holds |

| Action | Code |
|---|---|
| `Ask`, `GetWaitSlot`, `DropWaitSlot`, `BlockArrived`, `WaitTimesOut` | `query_internal`, `is_long_poll`, `WaitSlots::get`, `wait_for_block` |
| `GetSlot`, `Busy`, `DropSlot`, `OrphanEnds` | `QueryExecutor::get_slot`, `QuerySlot::run` and the drop of a slot |
| `OpenRunner`, `WriteNextChunk`, `ExecutionFails`, `WorkerPanics` | `RunningQuery::new`, `write_next_chunk` in `next_run`, and how they fail |
| `FirstReply`, `NextDataPack`, `NextReply`, `Disconnect` | `QueryResponse`, `stream_query_response`, the client that goes away |

A plan is reduced to the blocks it writes (`OutputBlocks`), cut by the size limit
at any of them; `QueryPlan` has the rest. The time limit may end a run or a stream
at any chunk.

### QueryPlan, TableScan, RangeLists

`QueryPlan` executes one query on one chunk: items are compiled one by one
(`AddItem`), the plan is simplified (`Build`), scans and then relations run in any
order (`ExecuteScan`, `ExecuteRelation`), the rows found are weighed and cut
(`ExecuteOutput`), blocks are written (`WriteNextBlock`) and the client asks again
above the last one (`Resume`). `TableScan` has the predicates with what they can
conclude from statistics, the reader of a parquet file (row groups, pages, row
selections) and that of a snapshot table; `RangeLists` the lists of ranges between
them. Cells are small numbers, lists or null; a type is its least and greatest
value, so that a literal may lie beyond it. Statements are evaluated to true, false
or null.

### The round trip

`RoundTrip` pushes blocks of a chain to a chunk builder, prepares the tables and
asks one query. An item is a variant of the chain's model (which optional fields
are there, how long its lists are); a value is known by the field and the item it
came from, so that a column filled from the wrong field, or shown under the wrong
name, shows. A chain module has the model (`model.rs`), the columns and the row of
every table (`tables/*.rs`), and the requests, filters, relations and fields of its
queries (`query/src/query/*.rs`). `ChunkTables` narrows the index columns over the
whole chunk, `JsonExp` says which types an expression accepts and what it shows,
and `ChainQueries` which column types a filter, a join or an order refuses. Bloom
filters have no collisions here.

### Bds

| State | Code |
|---|---|
| `chain`, `fin`, `blocks`, `stored` | `Chain`, inside the watch channel |
| `news` | the tasks that have not seen the last change of the channel |
| `grow`, `next`, `parent` | `grow` and the position of its data source |
| `pending`, `last_block`, `writes` | `State` of `write_chain` and its futures |
| `head`, `setting`, `finalized`, `job` | the `prev` of `head_update_loop` and `finalize_loop`, and the call each waits for |
| `rows`, `finals`, `writers` | the tables of Cassandra; every start is a new writer |
| `view`, `final` | external: the branch the source shows, what it calls final |
| `left` | history: the blocks dropped for a fork since the start |

| Action | Code |
|---|---|
| `BlockArrives`, `HeadFinalized`, `ForkArrives`, `Wait` | the arms of `grow`, `handle_fork`, `ChainSender::wait` |
| `ChainChanged`, `BlockSaved` | the two arms of `write_chain`, each with `State::advance` |
| `HeadChanged`, `SetHead` | `head_update_loop` |
| `FinalizedChanged`, `FinalizePartition`, `SetFinalizedHead` | `finalize_loop`, `CassandraStorage::finalize` |
| `Stop`, `Start` | the end of the process, `Ingest::start` with `get_chain_head` |
| `Switch`, `MakeFinal` | external: the source |

An error of any task ends the process (`Exit`): any part of the writes under way is
done, and the next start has only the rows. The save of a block and its
`mark_stored` are one step, as is the listing and the batch of one partition: what
is saved in between is not in the batch. A save that lands after the next start
is left out.

## 3. Runs

| Run | Bounds | Question |
|---|---|---|
| `writer` | heights 0..2, 2 hashes, every chunk with holes, every floor, anchor and report, `Head(0)`, `Head(1)`, `Head(2)` | does the stored chain stay linked and finalized history untouched, do the working copy, the watermarks and the trim arithmetic survive, do rollbacks land on accepted positions, and does the writer implement the ledger? |
| `controller_safety` | heights 0..2, forks above block 0; `FromBlock(0)`, `Head(1)` and `Api` datasets with and without a cap; budgets (forks, requests, faults) of (2,0,1), (1,2,0), (1,1,1) | is anything an honest source sends ever refused, is what is committed as final final at the source, and is the window free of holes? |
| `controller_progress` | heights 0..2, 1 fork inside the window, 1 request, 1 fault; a `FromBlock(1)` and a capped `Api` dataset | does the dataset reach the tip and stay there? |
| `doc_deep_fork` | heights 0..2, a `FromBlock(2)` dataset, 1 fork below it | violation: ingestion never gets past a fork below the window |
| `source` | 2 endpoints, one works in the end, the other is careless and may fail forever; blocks 0..2 without an anchor, branches part at 1, reports at block 0 | is what the consumer gets one chain, is every fork decision, strike and head signal about the current position, and is the whole chain delivered once the servers agree? |
| `database` | 3 tables in order of their ids, 4 chunks over heights 0..1 with a fork, 2 attempts, 1 crash or failure, every combination of flags at every start | do writer, compaction, cleanup and recovery keep stored chunks readable, account for every table, keep the index exact, and is the store atomic? |
| `database_progress` | 3 tables, 2 attempts, 1 crash or failure | does every job end, and is every deleted table purged? |
| `query_follow` | 1 client, heights 0..2 on two chains (one skips a number), both endpoints, any begin, with and without an end | is what a client stitches together one history without a gap, final where it asked for final, and never handed out twice? |
| `query_slots` | 2 clients, 1 waiter place, 1 executor slot, heights 0..1 | do slots never leak, is a request refused only for the work of others, is every request answered? |
| `query_plan` | one chunk with blocks 1, 2, 4 in three parquet tables and a snapshot table, up to 3 items per query, packages of weight 6 | is the answer exact, are packages bounded, does the query end? |
| `round_trip` | 6 chains, up to 2 transactions, 6 variants of an item, narrow and wide numbers | does every query run on every chunk, show what was ingested, and find what it names? |
| `bds` | blocks a1, a2, a3 and b3 on a1, queue of 1 to 2, 2 saves at a time, partitions of 3 blocks, 2 changes of branch, 2 starts | can a published head be built again, is final what the source finalized, does finalization keep the chain, is no block forgotten? |

Three heights hold three chunks: one that a trim drops or that is finalized, one
that a compaction merges and one that a fork replaces, and chunks with a hole
inside and at the start. Two hashes per height make every disagreement (of a fork,
a hint, a report, an anchor) possible; a third adds no new result, as hashes are
only compared for equality. Hashes are symmetric.

In the composed system one fork makes a task, a message or a rollback stale, and a
second meets the replay of the first. No fork reaches block 0, which `standard.rs`
takes for final when a source reports nothing. Two retention requests are needed
for an `Api` dataset to start and then to change. In `controller_progress` a fork
stays at or above height 1, where every window of that run starts (`ForkFloor`);
what happens below is the subject of `doc_deep_fork`. These runs do not check for
deadlock: with a source that holds still the system waits.

`controller_progress` and `doc_deep_fork` assume weak fairness of the ingest task
and of the controller, and nothing of the source, the API, compactions or faults.
The two tasks are tokio tasks without locks between them: the runtime polls each
one that can proceed, timers of the pauses fire, storage calls return. A source at
its tip ends its stream, which makes the task flush (`MaybeOnHead`).

Two endpoints are enough for the source: every rule of it compares one endpoint
with the position or with the rest, one forked endpoint of two is a minority that
needs the timeout or a sleeping peer, and two are a majority. With the branches
parting above the start the position passes a common block first, so that answers
to requests before, at and after the fork meet. The safety properties of the
source are proved for any number of endpoints and any reports (section 4), so the
run keeps to the one report that lets every arm be taken.

`source` assumes that the task is polled (weak fairness of `Poll`) and that the
network settles. For the endpoints in `Live` it assumes that requests are
answered, pauses end, and a stream that has an item or an end gives it. That
fairness is strong because the poll may be elsewhere when the item arrives; the
waker of the stream brings the poll back. The consensus timeout is a tokio timer
and fires. Nothing is assumed of the other endpoint.

Three tables let a stored chunk, a merge and a new chunk, or a stored table, one
under way and one given up, exist at a time, which is every pair of jobs that can
conflict. A chunk of several tables differs from one of one table only in how many
tables a failed build leaves. A table id that nothing refers to any more is used
again, since the ids of the code are never exhausted. Neither database run checks
for deadlock: a process whose dataset is not configured, or fails to start, does
nothing.

`database_progress` assumes weak fairness of each job, of the cleanup task and of
the start of the process: they are threads and tasks without locks between them
(transactions are optimistic), calls of RocksDB return, and the cleanup ticks. It
assumes nothing of new jobs, faults or the outcome of a commit; the other process
may commit again and again, and only the budget of attempts ends a retry.

A client of `query_follow` is alone because clients share nothing but slots, which
are the subject of `query_slots`, where two of them, one of each resource and one
chain suffice to make every request meet a full pool. `query_slots` assumes weak
fairness of the steps that serve a request and of the end of an abandoned task:
timers fire, the worker pool runs what it was given, the runtime polls the stream.
It assumes nothing of the writer, of failures or of clients that go away.

The chunk of `query_plan` has row groups and pages that end between and inside
blocks, so that pruning has something to skip; items share relations and outputs,
and a whole table among them makes `Build` rewrite what the others left.
`QueryAdvances` is a measure that every step lowers; with TLC's deadlock check it
says that a query ends, without fairness.

Three blocks and a fork over one of them give `bds` a queue that is full, a save
that lands after its fork was dropped, and a finalization over two partitions. It
does not check for deadlock: the source may hold still, the process may end.

### Findings

`doc_deep_fork` is the one disagreement recorded as such in `PROJECT.json`:
`compute_rollback` answers a fork below the window with the start of the window,
where the source reports the same fork, forever (WP-6b asks for a reset).

Further differences met while modelling, visible in the definitions:

* `on_new_finalized_head` compares a report with the current position instead of
  the one its request was about: a late answer of an endpoint on another fork is
  passed on as finality (WP-4 asks for the effect of a single coherent source).
* `clear_heads` publishes `head = None` before `finalized_head = None`: for a moment
  a subscriber sees a finalized head and no head.
* `_retain` keeps a finalized head that lies in the first kept chunk below the new
  floor (`FinalizedKept`; INV-5 wants it in the window), and the trim of
  `handle_ingest_msg` passes no parent hash (`Trim`; INV-18 wants the anchor
  carried over).
* Hyperliquid's `cancelByCloidActions` filters by asset and cloid through columns
  that no table has; `QueriesRun` names this exception.
* Solana's discriminator filters are joined with a strict `or`: an instruction
  shorter than one of the listed discriminators is dropped although another one
  matches it. `round_trip` asks for one discriminator at a time.
* A column that a table lacks is an error, while
  `fixtures/fuel/queries/missing_block_fields/README.md` expects null.
* `bds`: finalization may delete rows of the chain below a block whose save is still
  under way (the `gap` of `ChainKept`); a fork that is left and entered again while
  its saves are under way leaves a block that is never stored (the `left` of
  `NoneForgotten`); after a start with a head that is not final, a fork makes
  `push` fail its assertion, and the process ends; the report of a finalized head
  on the other branch before the fork is met ends it too.

## 4. Proofs

For every `MaxBlock`, every set of hashes, every set of inputs:

| Theorem | Statement |
|---|---|
| `TypeCorrect` | `Spec => []TypeOK` |
| `ChainAlwaysLinked` | `Spec => []ChainLinked` |
| `FinalizedAlwaysStored` | `Spec => []FinalizedStored` |
| `FinalityIsFirm` | `Spec => FinalityFirm`, from `FinalizedNeverRewritten` and `FinalityNeverRegresses` |
| `WriterImplementsLedger` | `Spec => ImplementsLedger` |
| `RollbackAlwaysUsable` | `Spec => []RollbackUsable` |
| `WriterStaysInSync` | `Spec => []WriterInSync` |
| `PublishedStaysDurable` | `Spec => PublishedDurable` |
| `TrimsLandInside` | `Spec => []TrimKeepsHead` |
| `ControllerTypeCorrect` | `SysSpec => []SysTypeOK` |
| `ControllerKeepsChain` | `SysSpec => [](ChainLinked /\ FinalizedStored)` |
| `ControllerImplementsLedger` | `SysSpec => ImplementsLedger` |
| `ControllerKeepsFinalized` | `SysSpec => FinalizedImmutable` |
| `WindowStaysComplete` | `SysSpec => []WindowComplete` |
| `ControllerStaysInSync` | `SysSpec => []WriterInSync` |
| `ControllerRollbackUsable` | `SysSpec => []RollbackUsable` |
| `ControllerTrimsLandInside` | `NoEmptyWindow /\ SysSpec => []TrimKeepsHead` |
| `DatabaseTypeCorrect` | `Spec => []TypeOK` |
| `ChunksStayReadable` | `Spec => []LiveReadable` |
| `BuildsStayUntouched` | `Spec => []BuildsUntouched` |
| `TablesStayAccounted` | `Spec => []TablesAccounted` |
| `IndexStaysExact` | `Spec => []IndexExact` |
| `DatabaseImplementsAtomicStore` | `Spec => ImplementsAtomicStore` |
| `SourceGivesOneChain` | `Spec => []OneChain` |
| `SourceInvariant` | `Spec => []SourceInv` |
| `ConsensusIsScoped` | `Spec => []ConsensusScoped`, from `ConsensusIsGrounded` and `TimeoutIsScoped` |
| `FinalizedIsBelowPosition` | `Spec => []FinalizedBelowPosition` |
| `HeadSignalIsOwn` | `Spec => []HeadSignalOwn` |
| `StrikesAreScoped` | `Spec => StrikesScoped` |
| `SlotsAlwaysBalanced` | `Spec => []SlotsBalanced` |
| `RefusedOnlyForOthers` | `Spec => RefusedForOthers` |

Assumptions: `MaxBlock` is a natural number (that the numbers up to it are well
ordered, `OrderAssumption`, is proved from this as `BlockNumbersOrdered`, and stated
beside it so that the proofs about chunks need no library theory), `None` is none of the values it
stands beside, the input sets contain values of their types; for the controller,
that a hash is a pair of branch and height and the configurations are ones
`DataService::start` can produce, and that a message with a chunk is not `None`
(`MessageAssumption`); for storage (`DatabaseAssumption`), that there are finitely
many table ids, none of them older than itself, and finitely many tables of a
chunk, at least one, and that a transaction is tried at least once; for the source,
that there is an endpoint and the bounds are numbers. The theorems about the source hold for any number of
endpoints, any length of the chains and any set of careless endpoints. Those
about the query service assume finitely many clients (`ClientAssumption`), and that
the limits are natural numbers.

The inductive invariant is `StoreInv == TypeOK /\ FloorPending /\ ChainLinked /\
FinalizedStored`. `FloorPending` says that a pending trim has a floor; without it
`Trim` could not be typed. `ChainLinked` and `FinalizedStored` need each other:
a fork keeps the finalized block only because the survivors of a linked chain lie
below the new chunk, and the comparison of the finalized prefix says what the
chunk holds at and above its start. `ChunkStoreProofs` has the lemmas about the
operators, among them `InsertForkLinked`, `InsertForkBlocks` (what a fork replaces
is exactly the blocks at or above its start), `RetainedSuffix` and `MergeLinked`.
`FirstChunk` and `LastChunk` exist because block numbers are well ordered
(`OrderAssumption`, a consequence of the first assumption), so no cardinality or
finiteness of the chunk set is needed.

What the writer knows and publishes needs more (`WriterInv`). `SyncInv` says, for
every point of the walk through `SetHead` and `SetFin`, which of the working copy,
the pending assignments and the watermarks agree with storage. `FirstHeadInv` is
about the one thing that does not: a compaction moves the end of the first chunk
under a writer that remembers its head, and what remains true is that this block
lies in the first chunk. `FinInv` keeps the published finalized head below the
committed one and below both heads, since a new head is published before the
finality that came with it. `FloorInv` says that a pending trim has its floor in the
window; with it a trim either keeps the head or starts right above it. It keeps the
head when nobody asks for a window of 0 blocks (`TrimsLandInside`; `NoEmptyWindow`
says it of the configurations and requests of the composed system, where
`KeepInv` carries it to every trim). The rollback follows from `StoreInv` alone (`ResumeFits`).

The facts about a step are proved for `OpenNext`, the steps of the writer with any
input of the right type. `Spec` takes such steps because its input sets have the
right types (`NextIsOpen`); the composed system does because of `SysTypeOK`
(`SysStepIsOpen`): the buffer of the ingest task is a run of blocks that ends at
its position (`Buffered`), so that what it flushes is a well-formed chunk, and a
rollback is a position. The theorems about the whole dataset follow from the same
lemmas.

That the window has no holes is a property of the whole dataset: the writer stores
any chunk that links to what is below it, or that starts a window anew. The
inductive invariant `FlowInv` joins `SysInv` and `WriterInv` with three facts.
`SessionInv`: the task, its one-slot channel and its answer exist only in the
`Ingest` state, and not while a writer is rebuilt. `NextInv`: a chunk in the
channel, the buffer behind it and a rollback under way start at or below the block
the store continues at, and have no holes. `CoverInv`: the chunks cover what lies
between the start of the window and the head. The hard steps are those that lower
the next block or move it to another place: a retention change that wipes the window
has to end the session (`RetentionSession`), a trim keeps the next block where it is
(`TrimNext`), and a rollback is answered by a task that has dropped its buffer
(`RollbackNext`).

The invariant of storage is `DbInv`. The chunks are a linked chain (`ChunkInv`) and
no table belongs to two chunks, to two jobs or to a chunk and a job (`OwnedOnce`,
`BuildsUntouched`): this makes deleting a chunk safe for the tables of all others. A
sweep holds marked tables only (`ScanInv`), so a table that is committed between its
scan and its purge is not in it. A job that is past its snapshot has one that is
current or is going to be refused (`JobInv`), so that every commit is a step on the
chunks as they are: the core of the refinement. Jobs run only while the dataset is
served (`ServedInv`), which is what lets a drop ignore them. `PutInsert`,
`PutRetain` and `PutMerge` say what the staged writes of each kind of transaction
do to a sound set of chunks, `UnindexExact` what they do to the index, and
`CommitEffect` that the headers change by the whole write of the job (`WholeWrite`).

The invariant of the source, `SourceInv`, adds to the properties that no request,
answer or stream runs ahead of the position (`NotAhead`), that what an endpoint
committed lies below it (`CommittedBelow`), and what is known of fork signals while
a poll is under way (`Signals`): one of an endpoint already visited is about the
position, and its clock runs. `NotAhead` makes an accepted block the one right at
the position, so the log grows without a hole, and makes every older fork signal
stale at once, so the clock may be reset. The steps fall into five kinds
(`StepKinds`); those of one endpoint that leave the position alone share their
frame (`LocalFrame`). `StrikesAreScoped` also needs that a pause has a strike to
explain it (`PausesExplained`).

The slots of the query service need no strengthening beyond the shape of a request
(`SlotsInv`). Every action of a request moves one client from one place of its life
to another and leaves the others where they are (`Moves`; `WaitMoves`, `SlotMoves`,
`ReplyMoves`, `DisconnectMoves` say which); `MoveCounts` says what a move does to the
number of clients in a set of places, and the rest is arithmetic on the counters.

The action properties follow from the invariant before the step and a case
analysis over the actions; the refinement from a step simulation.

Only model-checked:

* liveness (`CatchesUp`, `ReachesTip`, `JobsEnd`, `DeletedPurged`, `Answered`), which
  is out of the prover's reach;
* `HonestNeverBlamed` and `FinalityIsTheSources`, which relate what is stored to all
  the branches the source has had, a recursive definition on their ancestry;
* what a client follows (`FollowsOneChain`, `FinalizedOnly`, `NeverRepeats`);
* the properties of `Bds`, whose chain in memory is rebuilt from the rows of a set by
  a recursion on ancestors: what it computes needs an induction over data;
* everything about `QueryPlan` and `RoundTrip`, whose definitions are recursive.

## 5. Not modelled

* Which chunks a compaction picks (`find_range`, `score_merge`): any run of adjacent
  chunks may be merged, so what is shown holds for every choice.
* Array builders, page encodings, offsets, bit masks, spilling, sorting and merging
  of rows: transformations of data without shared state, checked by their own tests.
* The queries of fuel and substrate, for which the repository has no tables, the
  parsing of queries and of blocks, and the text of the JSON.
* Collisions in bloom filters, more than one discriminator in a Solana filter, and
  blocks with account references that do not resolve.
* The archiver: it would need a model of a file system and of its directory
  listings while they change.
* The retention coordinator beyond the requests it makes, HTTP, metrics and the
  shutdown sequence (a crash, as far as storage is concerned).
* The transaction hash index, which follows the calls of the block hash index.
* The loss of the tail of RocksDB's log with the machine, the consistency levels and
  the paging of Cassandra.
* The test harness and the examples.
