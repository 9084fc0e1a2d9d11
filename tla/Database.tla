------------------------------ MODULE Database ------------------------------
(***************************************************************************)
(* The storage of one dataset below its transactions (crates/storage): the *)
(* tables its chunks are made of, their dirty and deleted markers, the     *)
(* optimistic transactions of the writer and of the compaction, the hash   *)
(* index, the cleanup task, and what a start of the process does to them   *)
(* after a crash.                                                          *)
(*                                                                         *)
(* A transaction takes a snapshot, runs its callback on it and commits if  *)
(* no key it tracks was written since.  Every mutation of a dataset reads  *)
(* its label for update and rewrites it, so "stale" (the label was written *)
(* after the snapshot) stands for the whole validation of RocksDB.  Table  *)
(* data is written outside transactions, and read through a snapshot of    *)
(* the moment of the read.                                                 *)
(*                                                                         *)
(* Table ids are never reused.  The model takes one that nothing refers to *)
(* any more for a new one; ids come in any order (clocks may step back).   *)
(***************************************************************************)
EXTENDS ChunkStore, FiniteSets

CONSTANTS
    SourceChunks,   \* the chunks ingestion may hand over
    TableId,        \* a bound on the tables that exist at a time
    Older,          \* the order of table ids, as a set of pairs
    Names,          \* the tables of a chunk
    Starts,         \* the flags and configurations the process is started with
    MaxAttempts,    \* RetryPolicy::max_attempts
    MaxFaults       \* a bound on crashes and failed cleanups

ASSUME DatabaseAssumption ==
    /\ SourceChunks \subseteq Chunk
    /\ IsFiniteSet(TableId)
    /\ \A t \in TableId : <<t, t>> \notin Older
    /\ IsFiniteSet(Names) /\ Names # {}
    /\ Starts \subseteq [reclaim : BOOLEAN, serve : BOOLEAN, indexing : BOOLEAN]
    /\ MaxAttempts \in Nat \ {0}
    /\ MaxFaults \in Nat
    /\ None \notin TableId

VARIABLES
    label,      \* CF_DATASETS: the dataset exists
    chunks,     \* CF_CHUNKS
    data,       \* CF_TABLES: what is there of each table
    dirty,      \* CF_DIRTY_TABLES: built, chunk not yet committed
    deleted,    \* CF_DELETED_TABLES: to be purged
    index,      \* CF_BLOCK_HASHES: the blocks found by their hash
    proc,       \* the writer and the compaction
    pending,    \* the tables a cleanup or a recovery has scanned
    boot,       \* how far the start of the process is
    lost,       \* dirty tables nobody will commit or abandon any more
    faults      \* what is left of MaxFaults

markers == <<dirty, deleted>>
vars == <<label, chunks, data, markers, index, proc, pending, boot, lost, faults>>

Proc == {"writer", "compaction"}

\* A stored chunk, the tables it refers to, and the blocks of it that were
\* indexed when they were written.
StoredChunk == [chunk : Chunk, tables : SUBSET TableId, indexed : SUBSET BlockRef]

Jobs ==
    [kind : {"Insert"}, chunk : SourceChunks] \cup [kind : {"Retain"}, from : Position]
        \cup [kind : {"Merge"}, run : SUBSET StoredChunk]

\* A job: its step in Tx::run, what it has built, and its transaction.
ProcState ==
    [pc : {"Idle", "Build", "Begin", "Callback", "Commit", "Cancel", "Abandon"}, job : Jobs \cup {None},
     built : SUBSET TableId, cur : TableId \cup {None}, snap : SUBSET StoredChunk,
     stale : BOOLEAN, attempt : 0 .. MaxAttempts]

\* The steps of DataService::start.
BootPc ==
    {"Down", "Reclaim", "Scan", "Orphans", "Drop", "DropIndex", "DropCleanup", "ReclaimAgain", "Create", "Up"}

Idle ==
    [pc |-> "Idle", job |-> None, built |-> {}, cur |-> None, snap |-> {},
     stale |-> FALSE, attempt |-> 0]

Headers(S) == {e.chunk : e \in S}

TablesOf(S) == UNION {e.tables : e \in S}

\* The tables a snapshot, a plan, a build or a scan knows of.
InUse(p) ==
    proc[p].built \cup ({proc[p].cur} \ {None}) \cup TablesOf(proc[p].snap)
        \cup (IF proc[p].job # None /\ proc[p].job.kind = "Merge" THEN TablesOf(proc[p].job.run) ELSE {})

NewTableId ==
    {t \in TableId : /\ data[t] = "None"
                     /\ t \notin dirty \cup deleted \cup TablesOf(chunks) \cup pending
                     /\ \A p \in Proc : t \notin InUse(p)}

Up == boot.pc = "Up"

\* The type of every variable.
TypeOK ==
    /\ label \in BOOLEAN
    /\ chunks \subseteq StoredChunk
    /\ data \in [TableId -> {"None", "Part", "Full"}]
    /\ dirty \subseteq TableId /\ deleted \subseteq TableId
    /\ pending \subseteq TableId /\ lost \subseteq TableId
    /\ index \subseteq BlockRef
    /\ proc \in [Proc -> ProcState]
    /\ boot \in [pc : BootPc, reclaim : BOOLEAN, serve : BOOLEAN, indexing : BOOLEAN]
    /\ faults \in 0 .. MaxFaults

Init ==
    /\ label = FALSE /\ chunks = {} /\ data = [t \in TableId |-> "None"]
    /\ dirty = {} /\ deleted = {} /\ index = {}
    /\ proc = [p \in Proc |-> Idle] /\ pending = {} /\ lost = {} /\ faults = MaxFaults
    /\ boot = [pc |-> "Down", reclaim |-> FALSE, serve |-> FALSE, indexing |-> FALSE]
-----------------------------------------------------------------------------
(* Building tables                                                         *)

Ready(p) == Up /\ boot.serve /\ proc[p].pc = "Idle"

\* write_new_chunk: ingestion hands a chunk over.
StartInsert(c) ==
    /\ Ready("writer")
    /\ proc' = [proc EXCEPT !["writer"] = [Idle EXCEPT !.pc = "Build", !.job = [kind |-> "Insert", chunk |-> c]]]
    /\ UNCHANGED <<label, chunks, data, markers, index, pending, boot, lost, faults>>

\* retain, which may clear the window (from = MaxBlock + 1), or a change of
\* the label only (from = 0): no tables are built.
StartRetain(from) ==
    /\ Ready("writer")
    /\ proc' = [proc EXCEPT !["writer"] = [Idle EXCEPT !.pc = "Begin", !.job = [kind |-> "Retain", from |-> from]]]
    /\ UNCHANGED <<label, chunks, data, markers, index, pending, boot, lost, faults>>

\* prepare_merge_plan: a run of chunks, as a snapshot shows them.
PlanMerge(lo, hi) ==
    /\ Ready("compaction")
    /\ lo.chunk.last_block < hi.chunk.first_block
    /\ LET run == {e \in chunks : e.chunk \in MergeRun(Headers(chunks), lo.chunk, hi.chunk)}
       IN  proc' = [proc EXCEPT !["compaction"] = [Idle EXCEPT !.pc = "Build", !.job = [kind |-> "Merge", run |-> run]]]
    /\ UNCHANGED <<label, chunks, data, markers, index, pending, boot, lost, faults>>

Building(p) == proc[p].pc = "Build" /\ Cardinality(proc[p].built) < Cardinality(Names)

\* Defect: the marker is left for the end of the build.
FlushTableUnmarked(p) ==
    /\ Building(p) /\ proc[p].cur = None
    /\ \E t \in NewTableId :
          /\ data' = [data EXCEPT ![t] = "Part"]
          /\ proc' = [proc EXCEPT ![p].cur = t]
    /\ UNCHANGED <<label, chunks, markers, index, pending, boot, lost, faults>>

\* TableStorage::flush: the first batch of a large table carries its marker.
FlushTable(p) ==
    /\ Building(p) /\ proc[p].cur = None
    /\ \E t \in NewTableId :
          /\ data' = [data EXCEPT ![t] = "Part"]
          /\ dirty' = dirty \cup {t}
          /\ proc' = [proc EXCEPT ![p].cur = t]
    /\ UNCHANGED <<label, chunks, deleted, index, pending, boot, lost, faults>>

\* TableBuilder::finish: the last batch, which may also be the first, and the
\* statistics, which are written to the same marked table.
FinishTable(p) ==
    /\ Building(p)
    /\ \E t \in IF proc[p].cur = None THEN NewTableId ELSE {proc[p].cur} :
          /\ data' = [data EXCEPT ![t] = "Full"]
          /\ dirty' = dirty \cup {t}
          /\ proc' = [proc EXCEPT ![p].built = @ \cup {t}, ![p].cur = None]
    /\ UNCHANGED <<label, chunks, deleted, index, pending, boot, lost, faults>>

\* An error of a builder ends the job before there is a chunk to abandon.
BuildFails(p) ==
    /\ proc[p].pc = "Build"
    /\ lost' = lost \cup proc[p].built \cup ({proc[p].cur} \ {None})
    /\ proc' = [proc EXCEPT ![p] = Idle]
    /\ UNCHANGED <<label, chunks, data, markers, index, pending, boot, faults>>

-----------------------------------------------------------------------------
(* Transactions                                                            *)

\* Defect: attempts are not counted.
BeginUncounted(p) ==
    /\ \/ proc[p].pc = "Begin"
       \/ proc[p].pc = "Build" /\ ~ Building(p)
    /\ proc' = [proc EXCEPT ![p].pc = "Callback", ![p].snap = chunks, ![p].stale = FALSE]
    /\ UNCHANGED <<label, chunks, data, markers, index, pending, boot, lost, faults>>

\* Tx::with_retry_policy: a snapshot to run the callback on.
Begin(p) ==
    /\ \/ proc[p].pc = "Begin"
       \/ proc[p].pc = "Build" /\ ~ Building(p)
    /\ proc' = [proc EXCEPT ![p].pc = "Callback", ![p].snap = chunks, ![p].stale = FALSE,
                            ![p].attempt = @ + 1]
    /\ UNCHANGED <<label, chunks, data, markers, index, pending, boot, lost, faults>>

\* The chunks the transaction of a job deletes.
Removed(job, S) ==
    CASE job.kind = "Insert" -> {e \in S : job.chunk.first_block <= e.chunk.first_block}
      [] job.kind = "Retain" -> {e \in S : e.chunk.last_block < job.from}
      [] job.kind = "Merge"  -> job.run

\* The chunk it writes, if any.
Added(p) ==
    LET job == proc[p].job
        lo == FirstChunk(Headers(job.run))
        hi == LastChunk(Headers(job.run))
    IN  CASE job.kind = "Insert" ->
               {[chunk |-> job.chunk, tables |-> proc[p].built,
                 indexed |-> IF boot.indexing THEN job.chunk.blocks ELSE {}]}
          [] job.kind = "Retain" -> {}
          [] job.kind = "Merge" ->
               {[chunk |-> MergedChunk(Headers(job.run), lo, hi), tables |-> proc[p].built,
                 indexed |-> UNION {e.indexed : e \in job.run}]}

Readable(e) == \A t \in e.tables : data[t] = "Full"

\* unindex_hashes: a fork deletes from the head down, a retention change from
\* the bottom up, and reads the tables of each deleted chunk as long as the
\* index has entries left.  (Only the writer changes the index, so it is still
\* what the snapshot shows.)
Unindexable(job, removed) ==
    \A e \in removed :
       LET before == {d \in removed : IF job.kind = "Insert" THEN e.chunk.last_block < d.chunk.last_block
                                      ELSE d.chunk.last_block < e.chunk.last_block}
       IN  index \subseteq Blocks(Headers(before)) \/ Readable(e)

\* DatasetCompaction::data_was_changed: the chunks in the range of the plan.
DataWasChanged(run, S) ==
    LET lo == FirstChunk(Headers(run)).first_block
        hi == LastChunk(Headers(run)).last_block
    IN  run # {e \in S : lo <= e.chunk.last_block /\ e.chunk.first_block <= hi}

\* An error in a job: the tables that were built for it are abandoned.
Failed(p) == IF proc[p].built = {} THEN Idle ELSE [proc[p] EXCEPT !.pc = "Abandon", !.snap = {}]

\* The callback runs on the snapshot, and reads tables as of now.
Callback(p) ==
    /\ proc[p].pc = "Callback"
    /\ LET job == proc[p].job
           snap == proc[p].snap
           accepts == /\ job.kind = "Insert" => CanInsertFork(Headers(snap), job.chunk)
                      /\ job.kind # "Merge" => Unindexable(job, Removed(job, snap))
       IN  proc' = [proc EXCEPT ![p] =
                      IF ~ accepts THEN Failed(p)
                      ELSE [@ EXCEPT !.pc = IF job.kind = "Merge" /\ DataWasChanged(job.run, snap)
                                            THEN "Cancel" ELSE "Commit"]]
    /\ UNCHANGED <<label, chunks, data, markers, index, pending, boot, lost, faults>>

\* The checks of new_chunk and retain on finality and the window refuse.
Refuse(p) ==
    /\ proc[p].pc = "Callback" /\ p = "writer"
    /\ proc' = [proc EXCEPT ![p] = Failed(p)]
    /\ UNCHANGED <<label, chunks, data, markers, index, pending, boot, lost, faults>>

Open(p) == proc[p].pc \in {"Callback", "Commit", "Cancel"}

\* The label was rewritten: the other transaction, if open, will not commit.
Committed(p) ==
    [q \in Proc |-> IF q = p THEN Idle ELSE [proc[q] EXCEPT !.stale = @ \/ Open(q)]]

SameKey(e, d) == e.chunk.last_block = d.chunk.last_block

\* Defect: the index entries of the new chunk are put first.
ApplyPutFirst(p) ==
    LET removed == Removed(proc[p].job, proc[p].snap)
        added == Added(p)
        merge == proc[p].job.kind = "Merge"
    IN  /\ chunks' = {e \in chunks : \A d \in removed \cup added : ~ SameKey(e, d)} \cup added
        /\ deleted' = deleted \cup TablesOf(removed)
        /\ dirty' = dirty \ TablesOf(added)
        /\ index' = IF merge THEN index
                    ELSE (index \cup UNION {e.indexed : e \in added}) \ Blocks(Headers(removed))

\* The staged writes of the transaction: chunks are deleted and put by key,
\* index entries of deleted chunks go before those of the new one come.
Apply(p) ==
    LET removed == Removed(proc[p].job, proc[p].snap)
        added == Added(p)
        merge == proc[p].job.kind = "Merge"
    IN  /\ chunks' = {e \in chunks : \A d \in removed \cup added : ~ SameKey(e, d)} \cup added
        /\ deleted' = deleted \cup TablesOf(removed)
        /\ dirty' = dirty \ TablesOf(added)
        /\ index' = IF merge THEN index
                    ELSE (index \ Blocks(Headers(removed))) \cup UNION {e.indexed : e \in added}

\* Defect: the compaction does not read the label for update.
CommitUntracked(p) ==
    /\ proc[p].pc = "Commit" /\ (p = "compaction" \/ ~ proc[p].stale)
    /\ Apply(p)
    /\ proc' = Committed(p)
    /\ UNCHANGED <<label, data, pending, boot, lost, faults>>

Commit(p) ==
    /\ proc[p].pc = "Commit" /\ ~ proc[p].stale
    /\ Apply(p)
    /\ proc' = Committed(p)
    /\ UNCHANGED <<label, data, pending, boot, lost, faults>>

\* A cancelled compaction commits nothing.
Cancel(p) ==
    /\ proc[p].pc = "Cancel" /\ ~ proc[p].stale
    /\ proc' = [proc EXCEPT ![p] = Failed(p)]
    /\ UNCHANGED <<label, chunks, data, markers, index, pending, boot, lost, faults>>

\* Busy or TryAgain: run again on a new snapshot, within the budget.
Retry(p) ==
    /\ proc[p].pc \in {"Commit", "Cancel"} /\ proc[p].stale
    /\ proc[p].attempt < MaxAttempts
    /\ proc' = [proc EXCEPT ![p].pc = "Begin", ![p].snap = {}, ![p].stale = FALSE]
    /\ UNCHANGED <<label, chunks, data, markers, index, pending, boot, lost, faults>>

\* TxRetryExhausted: no attempt is left, or the deadline has passed.
Exhausted(p) ==
    /\ proc[p].pc \in {"Commit", "Cancel"} /\ proc[p].stale
    /\ proc' = [proc EXCEPT ![p] = Failed(p)]
    /\ UNCHANGED <<label, chunks, data, markers, index, pending, boot, lost, faults>>

\* abandon_tables, abandon_new_chunk_tables.
Abandon(p) ==
    /\ proc[p].pc = "Abandon"
    /\ deleted' = deleted \cup proc[p].built
    /\ proc' = [proc EXCEPT ![p] = Idle]
    /\ UNCHANGED <<label, chunks, data, dirty, index, pending, boot, lost, faults>>

\* ... which may itself fail: the sweep at the next start is left.
AbandonFails(p) ==
    /\ proc[p].pc = "Abandon" /\ faults > 0
    /\ lost' = lost \cup proc[p].built
    /\ proc' = [proc EXCEPT ![p] = Idle]
    /\ faults' = faults - 1
    /\ UNCHANGED <<label, chunks, data, markers, index, pending, boot>>

-----------------------------------------------------------------------------
(* Cleanup                                                                 *)

\* Defect: the running cleanup sweeps dirty tables too.
ScanDeletedOrDirty ==
    /\ Up /\ pending = {} /\ deleted # {}
    /\ pending' = deleted \cup dirty
    /\ UNCHANGED <<label, chunks, data, markers, index, proc, boot, lost, faults>>

\* logical_cleanup, every 10 s: the deleted tables are scanned first.
ScanDeleted ==
    /\ Up /\ pending = {} /\ deleted # {}
    /\ pending' = deleted
    /\ UNCHANGED <<label, chunks, data, markers, index, proc, boot, lost, faults>>

\* Defect: the batch leaves the marker of the deletion.
PurgeTableMarked(t) ==
    /\ t \in pending
    /\ pending' = pending \ {t}
    /\ data' = [data EXCEPT ![t] = "None"]
    /\ dirty' = dirty \ {t}
    /\ lost' = lost \ {t}
    /\ UNCHANGED <<label, chunks, deleted, index, proc, boot, faults>>

\* purge_table: data and both markers in one batch.
PurgeTable(t) ==
    /\ t \in pending
    /\ pending' = pending \ {t}
    /\ data' = [data EXCEPT ![t] = "None"]
    /\ dirty' = dirty \ {t}
    /\ deleted' = deleted \ {t}
    /\ lost' = lost \ {t}
    /\ UNCHANGED <<label, chunks, index, proc, boot, faults>>

\* An error ends the pass.
CleanupFails ==
    /\ pending # {} /\ faults > 0
    /\ pending' = {}
    /\ faults' = faults - 1
    /\ UNCHANGED <<label, chunks, data, markers, index, proc, boot, lost>>

-----------------------------------------------------------------------------
(* Death and start of the process                                          *)

Crash ==
    /\ boot.pc # "Down" /\ faults > 0
    /\ faults' = faults - 1
    /\ proc' = [p \in Proc |-> Idle]
    /\ pending' = {}
    /\ lost' = dirty \ deleted
    /\ boot' = [pc |-> "Down", reclaim |-> FALSE, serve |-> FALSE, indexing |-> FALSE]
    /\ UNCHANGED <<label, chunks, data, markers, index>>

GoTo(pc) == boot' = [boot EXCEPT !.pc = pc]

\* DataService::start, with the flags and the configuration of this start.
Start(flags) ==
    /\ boot.pc = "Down"
    /\ boot' = [pc |-> IF flags.reclaim THEN "Reclaim" ELSE "Drop",
                reclaim |-> flags.reclaim, serve |-> flags.serve, indexing |-> flags.indexing]
    /\ UNCHANGED <<label, chunks, data, markers, index, proc, pending, lost, faults>>

\* Defect: tables of chunks do not count.
BelowDirtyWatermark == {t \in TableId : data[t] # "None" /\ \A u \in dirty : <<t, u>> \in Older}

\* min_live_table_id and reclaim_upper_bound.
BelowWatermark == {t \in TableId : data[t] # "None" /\ \A u \in TablesOf(chunks) \cup dirty : <<t, u>> \in Older}

AfterRecovery == IF boot.serve THEN "Create" ELSE "Up"

AfterDrop == IF boot.reclaim THEN "ReclaimAgain" ELSE AfterRecovery

\* reclaim_disk_space: files that lie below the watermark are unlinked, which
\* of them is up to RocksDB.
Reclaim ==
    /\ boot.pc \in {"Reclaim", "ReclaimAgain"}
    /\ \E gone \in SUBSET BelowWatermark :
          data' = [t \in TableId |-> IF t \in gone THEN "None" ELSE data[t]]
    /\ GoTo(IF boot.pc = "Reclaim" THEN "Scan" ELSE AfterRecovery)
    /\ UNCHANGED <<label, chunks, markers, index, proc, pending, lost, faults>>

\* purge_orphan_dirty_tables: every dirty table, one by one (PurgeTable).
ScanOrphans ==
    /\ boot.pc = "Scan"
    /\ pending' = dirty
    /\ GoTo("Orphans")
    /\ UNCHANGED <<label, chunks, data, markers, index, proc, lost, faults>>

OrphansPurged ==
    /\ boot.pc = "Orphans" /\ pending = {}
    /\ GoTo("Drop")
    /\ UNCHANGED <<label, chunks, data, markers, index, proc, pending, lost, faults>>

\* delete_dataset, if the dataset is not configured any more: label, chunks
\* and tables go in one transaction.
DropDataset ==
    /\ boot.pc = "Drop" /\ label /\ ~ boot.serve
    /\ label' = FALSE /\ chunks' = {}
    /\ deleted' = deleted \cup TablesOf(chunks)
    /\ GoTo("DropIndex")
    /\ UNCHANGED <<data, dirty, index, proc, pending, lost, faults>>

NoDrop ==
    /\ boot.pc = "Drop" /\ ~ (label /\ ~ boot.serve)
    /\ GoTo(AfterDrop)
    /\ UNCHANGED <<label, chunks, data, markers, index, proc, pending, lost, faults>>

\* purge_hash_index, a batch at a time, after a drop or before a creation.
PurgeIndex ==
    /\ \/ boot.pc = "DropIndex"
       \/ boot.pc = "Create" /\ ~ label
    /\ \E batch \in SUBSET index : batch # {} /\ index' = index \ batch
    /\ UNCHANGED <<label, chunks, data, markers, proc, pending, boot, lost, faults>>

\* The cleanup at the end of delete_dataset (PurgeTable).
DropCleanup ==
    /\ boot.pc = "DropIndex" /\ index = {}
    /\ pending' = deleted
    /\ GoTo("DropCleanup")
    /\ UNCHANGED <<label, chunks, data, markers, index, proc, lost, faults>>

Dropped ==
    /\ boot.pc = "DropCleanup" /\ pending = {}
    /\ GoTo(AfterDrop)
    /\ UNCHANGED <<label, chunks, data, markers, index, proc, pending, lost, faults>>

\* create_dataset_if_not_exists: the label of an absent dataset is written
\* once the index is purged.
Create ==
    /\ boot.pc = "Create" /\ (label \/ index = {})
    /\ label' = TRUE
    /\ GoTo("Up")
    /\ UNCHANGED <<chunks, data, markers, index, proc, pending, lost, faults>>

\* A step of the recovery fails and the next one is tried; a dataset whose
\* controller cannot be created is not served, the others are.
StartFails ==
    /\ boot.pc \in {"Drop", "DropIndex", "Create"} /\ faults > 0
    /\ faults' = faults - 1
    /\ boot' = IF boot.pc = "Create" THEN [boot EXCEPT !.pc = "Up", !.serve = FALSE]
               ELSE [boot EXCEPT !.pc = AfterDrop]
    /\ UNCHANGED <<label, chunks, data, markers, index, proc, pending, lost>>

-----------------------------------------------------------------------------

Transaction(p) ==
    \/ FlushTable(p) \/ FinishTable(p) \/ BuildFails(p)
    \/ Begin(p) \/ Callback(p) \/ Refuse(p)
    \/ Commit(p) \/ Cancel(p) \/ Retry(p) \/ Exhausted(p)
    \/ Abandon(p) \/ AbandonFails(p)

Cleanup == ScanDeleted \/ \E t \in TableId : PurgeTable(t)

Boot ==
    \/ \E flags \in Starts : Start(flags)
    \/ Reclaim \/ ScanOrphans \/ OrphansPurged \/ DropDataset \/ NoDrop
    \/ PurgeIndex \/ DropCleanup \/ Dropped \/ Create

NewJob ==
    \/ \E c \in SourceChunks : StartInsert(c)
    \/ \E from \in Position : StartRetain(from)
    \/ \E lo, hi \in chunks : PlanMerge(lo, hi)

Next ==
    \/ NewJob \/ \E p \in Proc : Transaction(p)
    \/ Cleanup \/ CleanupFails \/ Boot \/ StartFails \/ Crash

\* Calls of RocksDB return, threads run, and the cleanup task ticks.
Fairness ==
    /\ WF_vars(Boot) /\ WF_vars(Cleanup)
    /\ \A p \in Proc : WF_vars(Transaction(p))

Spec == Init /\ [][Next]_vars

FairSpec == Spec /\ Fairness

-----------------------------------------------------------------------------
(* Properties                                                              *)

\* Every table of a stored chunk is complete and nobody is going to purge it:
\* no build, abandon, cleanup or reclamation, before or after a crash, takes
\* data from a committed chunk (write_chunk, purge_table, reclaim_disk_space).
LiveReadable ==
    \A t \in TablesOf(chunks) : data[t] = "Full" /\ t \notin dirty \cup deleted \cup pending

\* Tables of a build in progress are not purged under it: the sweep of dirty
\* tables never meets a builder (purge_orphan_dirty_tables).
BuildsUntouched ==
    \A p \in Proc : /\ \A t \in proc[p].built : data[t] = "Full" /\ t \in dirty \ deleted
                    /\ proc[p].cur # None => data[proc[p].cur] = "Part" /\ proc[p].cur \in dirty \ deleted

\* Data in CF_TABLES always has somebody who knows of it: a chunk, or a marker
\* that some purge will find (TableStorage, delete_chunk, purge_table).  And a
\* dirty table belongs to a running job, or its job has failed to build or to
\* abandon it, or has died: a refused, cancelled or exhausted commit hands its
\* tables to the cleanup (new_chunk, DatasetCompaction::execute).
TablesAccounted ==
    /\ \A t \in TableId : data[t] # "None" => t \in TablesOf(chunks) \cup dirty \cup deleted
    /\ \A t \in dirty \ (deleted \cup lost) : \E p \in Proc : t \in proc[p].built \cup {proc[p].cur}

\* The index of an existing dataset finds exactly the blocks that were indexed
\* with their chunk and are still stored, through forks, merges, changes of
\* the flag, drops and re-creations (index_hashes, unindex_hashes,
\* purge_stale_hash_indexes_if_dataset_absent).
IndexExact == label => index = UNION {e.indexed : e \in chunks}

\* Tables that were given up are purged in the end (db_cleanup_task).
DeletedPurged == \A t \in TableId : t \in deleted ~> t \notin deleted

\* A job ends, with a commit or an error: conflicts are retried within the
\* budget only (RetryPolicy).
JobsEnd == \A p \in Proc : proc[p].pc # "Idle" ~> proc[p].pc = "Idle"

=============================================================================
