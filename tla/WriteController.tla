--------------------------- MODULE WriteController ---------------------------
(***************************************************************************)
(* The single writer of a dataset                                          *)
(* (hotblocks/src/dataset_controller/write_controller.rs) over the chunk   *)
(* store, with the background compaction and crashes that interleave.      *)
(*                                                                         *)
(* Every storage transaction of the writer reads and writes the dataset    *)
(* label, so two of them never overlap: a transaction is one step, taken   *)
(* at its commit.  What follows a commit is not part of it: the writer     *)
(* publishes the head, then the finalized head, in steps of their own, and *)
(* a compaction or a crash may come in between.                            *)
(*                                                                         *)
(* set_head and set_finalized_head assign a field and the watch channel    *)
(* together and nobody else reads the fields, so "head" and                *)
(* "finalized_head" stand for both; while a writer is being rebuilt they   *)
(* are the values still in the channels.                                   *)
(***************************************************************************)
EXTENDS ChunkStore

CONSTANTS
    SourceChunks,   \* the chunks ingestion may hand over
    RetainFloors,   \* the blocks retention may be asked to start at
    RetainParents,  \* the parent hashes it may expect there
    WindowSizes     \* the n of the Head(n) retention strategies in use

ASSUME InputAssumption ==
    /\ SourceChunks \subseteq Chunk
    /\ RetainFloors \subseteq Position
    /\ RetainParents \subseteq Hash \cup {None}
    /\ WindowSizes \subseteq Nat

VARIABLES
    chunks,             \* storage: the chunks of the dataset
    label_fin,          \* storage: DatasetLabel::finalized_head
    first_block,        \* writer: the logical start of the window
    parent_block_hash,  \* writer: the anchor, the parent hash of first_block
    first_chunk_head,   \* writer: the last block of the first chunk
    head,               \* writer field and watch channel
    finalized_head,     \* writer field and watch channel
    pc,                 \* what the writer does next
    todo                \* what is left to assign after a commit

store == <<chunks, label_fin>>
window == <<first_block, parent_block_hash, first_chunk_head>>
watch == <<head, finalized_head>>
vars == <<store, window, watch, pc, todo>>

OptRef == BlockRef \cup {None}
OptHash == Hash \cup {None}

\* What the writer assigns once a transaction has committed: heads first, in
\* this order, then the window; "then" is where it continues, with "floor"
\* the bound of a pending trim.
Assignments ==
    [head : OptRef, finalized_head : OptRef, first_chunk_head : OptRef,
     first_block : Position, parent_block_hash : OptHash,
     then : {"Idle", "Trim", "Boot"}, floor : Position \cup {None}]

Nothing ==
    [head |-> None, finalized_head |-> None, first_chunk_head |-> None,
     first_block |-> 0, parent_block_hash |-> None, then |-> "Idle", floor |-> None]

\* The window and the heads as they are: the base of every assignment.
Unmodified ==
    [head |-> head, finalized_head |-> finalized_head, first_chunk_head |-> first_chunk_head,
     first_block |-> first_block, parent_block_hash |-> parent_block_hash,
     then |-> "Idle", floor |-> None]

\* The type of every variable.
TypeOK ==
    /\ chunks \subseteq Chunk
    /\ label_fin \in OptRef
    /\ first_block \in Position
    /\ parent_block_hash \in OptHash
    /\ first_chunk_head \in OptRef
    /\ head \in OptRef
    /\ finalized_head \in OptRef
    /\ pc \in {"Crashed", "Down", "SetHead", "SetFin", "Boot", "Idle", "Trim"}
    /\ todo \in Assignments

-----------------------------------------------------------------------------
(* Rebuilding and losing the writer                                        *)

\* The fields of a dropped writer are gone; the channels outlive it.
DropWriter ==
    /\ first_block' = 0
    /\ parent_block_hash' = None
    /\ first_chunk_head' = None
    /\ todo' = Nothing

\* WriteController::new from the committed state, at the start of an epoch.
NewWriter ==
    /\ pc \in {"Crashed", "Down"}
    /\ LET first == FirstChunk(chunks)
           anchored == chunks # {}
       IN  /\ first_block' = IF anchored THEN first.first_block ELSE 0
           /\ parent_block_hash' = IF anchored THEN first.parent_block_hash ELSE None
           /\ first_chunk_head' = IF anchored THEN ChunkHead(first) ELSE None
           /\ todo' = [head |-> StoredHead(chunks), finalized_head |-> label_fin,
                       first_chunk_head |-> first_chunk_head', first_block |-> first_block',
                       parent_block_hash |-> parent_block_hash',
                       then |-> IF pc = "Crashed" THEN "Boot" ELSE "Idle", floor |-> None]
    /\ pc' = "SetHead"
    /\ UNCHANGED <<store, watch>>

\* An error ends the epoch; the next one builds a new writer from storage.
EndEpoch ==
    /\ pc' = "Down"
    /\ DropWriter
    /\ UNCHANGED <<store, watch>>

\* A transaction fails without committing: I/O, or its retry budget.
StorageError ==
    /\ pc \in {"Idle", "Trim"}
    /\ EndEpoch

\* The process dies and restarts: the channels start again at None.
Crash ==
    /\ pc' = "Crashed"
    /\ DropWriter
    /\ head' = None
    /\ finalized_head' = None
    /\ UNCHANGED store

-----------------------------------------------------------------------------
(* Publication, after the commit                                           *)

\* Defect: the finalized head is published before the head.
SetHeadSecond ==
    /\ pc = "SetHead"
    /\ IF finalized_head = todo.finalized_head
       THEN head' = todo.head /\ pc' = "SetFin" /\ UNCHANGED finalized_head
       ELSE finalized_head' = todo.finalized_head /\ UNCHANGED <<head, pc>>
    /\ UNCHANGED <<store, window, todo>>

SetHead ==
    /\ pc = "SetHead"
    /\ head' = todo.head
    /\ pc' = "SetFin"
    /\ UNCHANGED <<store, window, finalized_head, todo>>

SetFin ==
    /\ pc = "SetFin"
    /\ finalized_head' = todo.finalized_head
    /\ first_chunk_head' = todo.first_chunk_head
    /\ first_block' = todo.first_block
    /\ parent_block_hash' = todo.parent_block_hash
    /\ pc' = todo.then
    /\ todo' = IF todo.then = "Trim" THEN [Nothing EXCEPT !.floor = todo.floor] ELSE Nothing
    /\ UNCHANGED <<store, head>>

-----------------------------------------------------------------------------
(* Finality                                                                *)

PostHead(batch) == IF batch = None THEN StoredHead(chunks) ELSE ChunkHead(batch)

\* A report above the resulting head is clamped to that head.
Clamped(batch, report) == report.number > PostHead(batch).number

\* Defect: a report above the head is taken as it is.
EffectiveUnclamped(batch, report) == report

Effective(batch, report) == IF Clamped(batch, report) THEN PostHead(batch) ELSE report

InBatch(batch, n) == batch # None /\ batch.first_block <= n /\ n <= batch.last_block

\* The blocks that the state after the transaction carries at a reported
\* height: a batch owns its range, stored history the heights outside it.
OwnerAt(batch, n) ==
    IF InBatch(batch, n) THEN {b \in batch.blocks : b.number = n} ELSE StoredAt(chunks, n)

\* resolve_finality: whether a report, arriving with a batch of blocks or
\* alone (batch = None), advances the finalized head.
ResolveFinality(batch, report) ==
    LET effective == Effective(batch, report)
        owned == OwnerAt(batch, report.number)
    IN  IF effective.number < first_block THEN "Ignored"
        ELSE IF label_fin # None /\ effective.number < label_fin.number THEN "Ignored"
        ELSE IF label_fin # None /\ effective.number = label_fin.number
             THEN IF effective.hash = label_fin.hash THEN "Ignored" ELSE "IntegrityFault"
        ELSE IF Clamped(batch, report) \/ report \in owned THEN "Applied"
        ELSE IF owned # {} \/ StoredAt(chunks, report.number) # {} THEN "IntegrityFault"
        ELSE "Ignored"

\* finalize acts on a dataset that still is the one the writer left.
ControlledAlone ==
    /\ label_fin = finalized_head
    /\ chunks # {}
    /\ LastChunk(chunks).last_block_hash = head.hash

Finalize(report) ==
    /\ pc = "Idle"
    /\ head # None
    /\ ControlledAlone
    /\ ResolveFinality(None, report) = "Applied"
    /\ label_fin' = Effective(None, report)
    /\ todo' = [Unmodified EXCEPT !.finalized_head = Effective(None, report)]
    /\ pc' = "SetFin"
    /\ UNCHANGED <<chunks, window, watch>>

FinalizeRefused(report) ==
    /\ pc = "Idle"
    /\ head # None
    /\ \/ ~ ControlledAlone
       \/ ResolveFinality(None, report) = "IntegrityFault"
    /\ EndEpoch

-----------------------------------------------------------------------------
(* New chunks                                                              *)

WindowStart == IF chunks = {} THEN first_block ELSE FirstChunk(chunks).first_block

\* A chunk that starts inside a stored one replays a rollback resolved
\* before a compaction merged across its boundary.
StaleBoundary(chunk) ==
    \E c \in Owner(chunks, chunk.first_block) : c.first_block < chunk.first_block

\* A chunk that reaches below the finalized head has to reproduce it.
KeepsFinalized(chunk) ==
    (label_fin # None /\ chunk.first_block <= label_fin.number) =>
        /\ label_fin.number <= chunk.last_block
        /\ ReproducesPrefix(chunks, chunk, label_fin.number)

Applicable(report, chunk) ==
    /\ WindowStart <= chunk.first_block
    /\ ~ StaleBoundary(chunk)
    /\ KeepsFinalized(chunk)
    /\ report # None => ResolveFinality(chunk, report) # "IntegrityFault"
    /\ CanInsertFork(chunks, chunk)

FinalizedAfter(report, chunk) ==
    IF report # None /\ ResolveFinality(chunk, report) = "Applied"
    THEN Effective(chunk, report)
    ELSE label_fin

\* Defect: a fork that replaces the first chunk does not renew its head.
FirstHeadAfterStale(chunk) ==
    IF first_chunk_head = None THEN ChunkHead(chunk) ELSE first_chunk_head

FirstHeadAfter(chunk) ==
    IF first_chunk_head = None \/ chunk.first_block <= first_chunk_head.number
    THEN ChunkHead(chunk)
    ELSE first_chunk_head

\* Defect: off by one.
TrimFloorOffByOne(first, next_block, n) ==
    IF n # None /\ first # None /\ next_block - first.number > n THEN next_block - n + 1 ELSE None

\* trim_floor: the new floor once the window exceeds n blocks behind the tip.
TrimFloor(first, next_block, n) ==
    IF n # None /\ first # None /\ next_block - first.number > n THEN next_block - n ELSE None

\* new_chunk, in handle_ingest_msg with retain_from_head = n.
NewChunk(report, chunk, n) ==
    /\ pc = "Idle"
    /\ Applicable(report, chunk)
    /\ chunks' = InsertFork(chunks, chunk)
    /\ label_fin' = FinalizedAfter(report, chunk)
    /\ LET floor == TrimFloor(FirstHeadAfter(chunk), chunk.last_block + 1, n)
       IN  todo' = [Unmodified EXCEPT
                       !.head = ChunkHead(chunk),
                       !.finalized_head = FinalizedAfter(report, chunk),
                       !.first_chunk_head = FirstHeadAfter(chunk),
                       !.then = IF floor = None THEN "Idle" ELSE "Trim",
                       !.floor = floor]
    /\ pc' = "SetHead"
    /\ UNCHANGED <<window, watch>>

NewChunkRefused(report, chunk) ==
    /\ pc = "Idle"
    /\ ~ Applicable(report, chunk)
    /\ EndEpoch

-----------------------------------------------------------------------------
(* Retention                                                               *)

StartsAt(from, parent) == first_block = from /\ parent_block_hash = parent

\* The stored chunk that from falls into agrees with the expected parent.
ParentAgrees(from, parent) ==
    \A c \in Owner(chunks, from) : parent = None \/ ParentHash(c, from) = parent

KeepsHead(from, parent) == Owner(chunks, from) # {} /\ ParentAgrees(from, parent)

\* init_retention does not delete what contradicts the configuration: a
\* window that starts above from, or another parent at from.
Contradicts(from, parent) ==
    /\ ~ KeepsHead(from, parent)
    /\ \E c \in chunks : from <= c.last_block

\* Defect: the finalized head outlives its chunk.
FinalizedKeptAlways(from) == label_fin # None

FinalizedKept(from) ==
    label_fin # None /\ \E c \in Owner(chunks, from) : c.first_block <= label_fin.number

\* The transaction of _retain and what the writer assigns after it.  Whole
\* chunks are dropped: the one that holds from stays, and with it a finalized
\* head in or above it.
RetainTx(from, parent) ==
    LET kept == {c \in chunks : from <= c.last_block}
        fin == IF FinalizedKept(from) THEN label_fin ELSE None
        start == [Unmodified EXCEPT !.first_block = from, !.parent_block_hash = parent]
    IN  /\ IF KeepsHead(from, parent)
           THEN /\ chunks' = kept
                /\ label_fin' = fin
                /\ todo' = [start EXCEPT !.head = StoredHead(chunks),
                                         !.finalized_head = fin,
                                         !.first_chunk_head = ChunkHead(FirstChunk(kept))]
           ELSE /\ chunks' = {}
                /\ label_fin' = None
                /\ todo' = [start EXCEPT !.head = None,
                                         !.finalized_head = None,
                                         !.first_chunk_head = None]
        /\ pc' = "SetHead"
        /\ UNCHANGED <<window, watch>>

\* retain, called by the controller for its strategies.
Retain(from, parent) ==
    /\ pc = "Idle"
    /\ ~ StartsAt(from, parent)
    /\ RetainTx(from, parent)

\* The retain of handle_ingest_msg that follows a new chunk under Head(n).
Trim ==
    /\ pc = "Trim"
    /\ IF StartsAt(todo.floor, None)
       THEN pc' = "Idle" /\ todo' = Nothing /\ UNCHANGED <<store, window, watch>>
       ELSE RetainTx(todo.floor, None)

\* init_retention: DatasetController::new applies a configured FromBlock.
InitRetention(from, parent) ==
    /\ pc = "Boot"
    /\ ~ StartsAt(from, parent)
    /\ ~ Contradicts(from, parent)
    /\ RetainTx(from, parent)

\* The dataset is refused; it stays down until the next start.
InitRetentionRefused(from, parent) ==
    /\ pc = "Boot"
    /\ ~ StartsAt(from, parent)
    /\ Contradicts(from, parent)
    /\ Crash

\* No FromBlock is configured, or the window already starts there.
BootDone ==
    /\ pc = "Boot"
    /\ pc' = "Idle"
    /\ UNCHANGED <<store, window, watch, todo>>

-----------------------------------------------------------------------------
(* Fork resolution: compute_rollback answers a source's list of previous   *)
(* blocks (ascending, so a set with one hash per number) with the position *)
(* ingestion resumes at                                                    *)

Hints == {H \in SUBSET BlockRef : H # {} /\ \A a, b \in H : a.number = b.number => a = b}

\* Only the hints at or above the finalized head count.
VolatileHints(H) == {b \in H : label_fin # None => label_fin.number <= b.number}

ForkResolvable(H) ==
    /\ VolatileHints(H) # {}
    /\ \A b \in H : (label_fin # None /\ b.number = label_fin.number) => b = label_fin

\* Defect: a chunk that ends at a hinted number is taken for the ancestor.
ResumeChunksByNumber(H) == {c \in chunks : \E b \in H : c.last_block = b.number}

\* The loop over the chunks, from the highest that ends at or below the last
\* hint: it stops at a chunk whose last block is hinted, or that ends below
\* every hint.
ResumeChunks(H) ==
    {c \in chunks :
        /\ \E b \in H : c.last_block <= b.number
        /\ ChunkHead(c) \in H \/ \A b \in H : c.last_block < b.number}

ResumePosition(H) ==
    LET resume == ResumeChunks(H)
    IN  IF resume # {}
        THEN Ref(LastChunk(resume).last_block + 1, LastChunk(resume).last_block_hash)
        ELSE IF chunks # {}
        THEN Ref(FirstChunk(chunks).first_block, FirstChunk(chunks).parent_block_hash)
        ELSE Ref(first_block, parent_block_hash)

ComputeRollback(H) ==
    LET position == ResumePosition(VolatileHints(H))
    IN  [resume_from          |-> position.number,
         expected_parent_hash |-> position.hash,
         reach_at_least       |-> IF label_fin # None /\ position.number <= label_fin.number
                                  THEN label_fin.number
                                  ELSE None]

-----------------------------------------------------------------------------
(* Compaction, in the background of every step of the writer               *)

Compact(lo, hi) ==
    /\ lo.last_block < hi.first_block
    /\ chunks' = (chunks \ MergeRun(chunks, lo, hi)) \cup {MergedChunk(chunks, lo, hi)}
    /\ UNCHANGED <<label_fin, window, watch, pc, todo>>

-----------------------------------------------------------------------------
Init ==
    /\ chunks = {}
    /\ label_fin = None
    /\ head = None
    /\ finalized_head = None
    /\ pc = "Crashed"
    /\ first_block = 0
    /\ parent_block_hash = None
    /\ first_chunk_head = None
    /\ todo = Nothing

Next ==
    \/ NewWriter
    \/ StorageError
    \/ Crash
    \/ SetHead
    \/ SetFin
    \/ \E report \in BlockRef : Finalize(report) \/ FinalizeRefused(report)
    \/ \E chunk \in SourceChunks, report \in OptRef :
          \/ NewChunkRefused(report, chunk)
          \/ \E n \in WindowSizes \cup {None} : NewChunk(report, chunk, n)
    \/ \E from \in RetainFloors, parent \in RetainParents :
          \/ Retain(from, parent)
          \/ InitRetention(from, parent)
          \/ InitRetentionRefused(from, parent)
    \/ Trim
    \/ BootDone
    \/ \E lo, hi \in chunks : Compact(lo, hi)

Spec == Init /\ [][Next]_vars

-----------------------------------------------------------------------------
(* Safety                                                                  *)

Ledger == INSTANCE DatasetLedger WITH
              Positions <- Position, seg <- Blocks(chunks), fin <- label_fin

\* The writer, its compactions, crashes and restarts implement the ledger:
\* what a snapshot shows changes only by replacing a suffix above the
\* finalized block, advancing finality, trimming a prefix or a reset.
ImplementsLedger == Ledger!Spec

\* The stored chunks tile the window and link by hash, whatever forks,
\* trims and compactions did to them (new_chunk, insert_fork, _retain).
ChainLinked == Linked(chunks)

\* The finalized head of the label is a stored block: finality is only
\* advanced to blocks the committed state carries (resolve_finality), and
\* whatever drops the block drops the finalized head with it (_retain).
FinalizedStored == label_fin # None => label_fin \in Blocks(chunks)

\* Between transactions the writer's working copy is the committed state, so
\* finalize never takes its own dataset for one "controlled by multiple
\* processes" although compaction rewrites the chunks under it; and the first
\* chunk's head, which a compaction leaves stale, stays inside the first chunk,
\* so that the unsigned subtraction of trim_floor never wraps.
WriterInSync ==
    pc \in {"Idle", "Boot", "Trim"} =>
        /\ head = StoredHead(chunks) /\ finalized_head = label_fin
        /\ first_chunk_head # None =>
              /\ chunks # {}
              /\ first_chunk_head.number <= head.number
              /\ first_chunk_head.number \in FirstChunk(chunks).first_block .. FirstChunk(chunks).last_block

\* handle_ingest_msg ignores the verdict of its trim because "the floor
\* always lands inside" a chunk, Head(0) aside.
TrimKeepsHead ==
    (pc = "Trim" /\ 0 \notin WindowSizes) => Owner(chunks, todo.floor) # {}

\* A rollback is a position the writer accepts a chunk at: on a boundary of
\* the stored chunks, inside the window, anchored in what lies below, and
\* with the flush floor set when the replay starts at or below the finalized
\* head.  And it is deep enough: every stored block above the highest hint on
\* the stored chain that a higher hint contradicts is discarded.
RollbackUsable ==
    pc = "Idle" => \A H \in Hints : ForkResolvable(H) =>
        LET r == ComputeRollback(H)
        IN  /\ WindowStart <= r.resume_from
            /\ \A c \in Owner(chunks, r.resume_from) : c.first_block = r.resume_from
            /\ \A c \in chunks : c.last_block + 1 = r.resume_from =>
                                     c.last_block_hash = r.expected_parent_hash
            /\ label_fin # None =>
                  r.reach_at_least = (IF r.resume_from <= label_fin.number
                                      THEN label_fin.number ELSE None)
            /\ \A b \in VolatileHints(H) :
                  ( /\ StoredAt(chunks, b.number) \notin {{}, {b}}
                    /\ \A a \in VolatileHints(H) : a \in Blocks(chunks) => a.number < b.number )
                  => r.resume_from <= b.number

\* No step rewrites a finalized block or inserts one next to it: it leaves
\* the store only when retention moves the window past it.
FinalizedImmutable ==
    [][\A b \in BlockRef : (label_fin # None /\ b.number <= label_fin.number) =>
          \/ b \in Blocks(chunks) <=> b \in Blocks(chunks')
          \/ \A c \in chunks' : b.number < c.first_block]_vars

\* The finalized head moves forward only, and is forgotten only when
\* retention drops its block.
FinalityMonotone ==
    [][(label_fin # None /\ label_fin' # label_fin) =>
          IF label_fin' = None
          THEN \A c \in chunks' : label_fin.number < c.first_block
          ELSE label_fin.number < label_fin'.number]_vars

\* Finality is firm: what is final stays as it is and stays final.
FinalityFirm == FinalizedImmutable /\ FinalityMonotone

\* A watermark is published only when the state it tells of is committed, a
\* published finalized head never regresses to a lower one, and a subscriber
\* who sees both watermarks never sees finalized above head, also between the
\* two publications of one commit (new_chunk publishes the head first).
PublishedDurable ==
    [][/\ head' \in {head, None, StoredHead(chunks')}
       /\ finalized_head' \in {finalized_head, None, label_fin'}
       /\ (finalized_head # None /\ finalized_head' # None) =>
             finalized_head.number <= finalized_head'.number
       /\ (head' # None /\ finalized_head' # None) =>
             finalized_head'.number <= head'.number]_vars
=============================================================================
