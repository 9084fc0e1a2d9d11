---------------------------- MODULE QueryService ----------------------------
(***************************************************************************)
(* The read path of hotblocks: POST /stream and /finalized_stream.         *)
(*                                                                         *)
(* A request decides whether to wait for its first block, takes a place    *)
(* among the waiters, then a slot of the executor.  A worker opens ONE     *)
(* storage snapshot (RunningQuery::new) and writes the result chunk by     *)
(* chunk into a buffer; the response stream hands the buffer to the client *)
(* and takes a slot again for the next portion, until the query ends, its  *)
(* time is up, the service is busy or the worker fails.  Meanwhile the     *)
(* writer and the compaction keep changing the dataset.                    *)
(*                                                                         *)
(* A client follows a chain the way the API asks for: it continues after   *)
(* the last block it holds, naming that block's hash, and drops blocks on  *)
(* a 409.  Block hashes identify blocks, so the histories a source can     *)
(* serve are the sets of blocks in Chains.                                 *)
(***************************************************************************)
EXTENDS ChunkStore, FiniteSets

CONSTANTS
    Client,         \* the clients, each with at most one open request
    Chains,         \* the histories a source may serve, as sets of BlockRef
    GenesisHash,    \* the parent hash of the first block of every history
    Matching,       \* the block numbers that hold items the query selects
    Begins,         \* how a client may begin: with which endpoint, from which
                    \* block and with which parent hash
    Finalizable,    \* the block numbers a source reports final
    Ends,           \* the last blocks a query may name
    MaxWaiters,     \* WaitSlots.limit
    MaxTasks        \* QueryExecutor.max_pending_tasks

ASSUME LimitsAssumption == MaxWaiters \in Nat /\ MaxTasks \in Nat
ASSUME ClientAssumption == IsFiniteSet(Client)

VARIABLES
    chunks,         \* the chunks a snapshot taken now would show
    finalized,      \* the finalized head in the label of that snapshot
    settled,        \* the highest block that was ever finalized (history)
    head,           \* DatasetController.head_receiver
    finalized_head, \* DatasetController.finalized_head_receiver
    waiters,        \* WaitSlots.waiters
    in_flight,      \* QueryExecutor.in_flight
    orphans,        \* worker tasks whose client is gone
    req,            \* the request each client has open
    log             \* each client's endpoint, where it began, and the blocks it holds

dataset == <<chunks, finalized, settled, head, finalized_head>>
vars    == <<chunks, finalized, settled, head, finalized_head,
             waiters, in_flight, orphans, req, log>>

OptHash == Hash \cup {None}
OptNumber == BlockNumber \cup {None}

Lowest(B) == CHOOSE b \in B : \A d \in B : b.number <= d.number
Highest(B) == CHOOSE b \in B : \A d \in B : d.number <= b.number

\* The hash of the block of history P right below position n.
ParentOn(P, n) ==
    LET below == {b \in P : b.number < n}
    IN  IF below = {} THEN GenesisHash ELSE Highest(below).hash

\* The chunk that carries positions lo to hi of history P.
ChunkOf(P, lo, hi) ==
    LET B == {b \in P : lo <= b.number /\ b.number <= hi}
    IN  [first_block |-> lo, last_block |-> hi, last_block_hash |-> Highest(B).hash,
         parent_block_hash |-> ParentOn(P, lo), blocks |-> B]

ChunksOf(P) ==
    UNION {{ChunkOf(P, lo, b.number) : lo \in 0 .. b.number} : b \in P}

SourceChunks == UNION {ChunksOf(P) : P \in Chains}

Idle == [pc |-> "idle"]

\* A client that holds nothing yet.
Fresh(s) == [finalized |-> s[1], start |-> s[2], base |-> s[3], blocks |-> {}]

-----------------------------------------------------------------------------
(* The dataset under the query: the effects of the writer's transactions,  *)
(* each followed by the publication of its watermarks, and compaction.     *)

\* The writer has published what it committed, and may commit again.
Published == head = StoredHead(chunks) /\ finalized_head = finalized

\* A source serves no history without the block it has reported final.
Faithful(c) ==
    settled # None =>
        \E P \in Chains : settled \in P /\ c \in ChunksOf(P)

Insert(c) ==
    /\ Published
    /\ Faithful(c)
    /\ CanInsertFork(chunks, c)
    /\ finalized # None =>
         \/ finalized.number < c.first_block
         \/ finalized.number <= c.last_block /\ ReproducesPrefix(chunks, c, finalized.number)
    /\ chunks' = InsertFork(chunks, c)
    /\ UNCHANGED <<finalized, settled, head, finalized_head>>

Finalize(b) ==
    /\ Published
    /\ b.number \in Finalizable
    /\ finalized # None => finalized.number < b.number
    /\ finalized' = b
    /\ settled' = IF settled = None \/ settled.number < b.number THEN b ELSE settled
    /\ UNCHANGED <<chunks, head, finalized_head>>

\* Retention drops whole chunks from below, and the finalized head with its
\* block.
Retain ==
    /\ Published
    /\ chunks # {}
    /\ chunks' = chunks \ {FirstChunk(chunks)}
    /\ finalized' = IF finalized \in Blocks(chunks') THEN finalized ELSE None
    /\ UNCHANGED <<settled, head, finalized_head>>

Merge(lo, hi) ==
    /\ lo.last_block < hi.first_block
    /\ chunks' = (chunks \ MergeRun(chunks, lo, hi)) \cup {MergedChunk(chunks, lo, hi)}
    /\ UNCHANGED <<finalized, settled, head, finalized_head>>

PublishHead ==
    /\ head # StoredHead(chunks)
    /\ head' = StoredHead(chunks)
    /\ UNCHANGED <<chunks, finalized, settled, finalized_head>>

PublishFinalizedHead ==
    /\ finalized_head # finalized
    /\ finalized_head' = finalized
    /\ UNCHANGED <<chunks, finalized, settled, head>>

Dataset ==
    /\ \/ \E c \in SourceChunks : Insert(c)
       \/ \E b \in Blocks(chunks) : Finalize(b)
       \/ Retain
       \/ \E lo, hi \in chunks : Merge(lo, hi)
       \/ PublishHead
       \/ PublishFinalizedHead
    /\ UNCHANGED <<waiters, in_flight, orphans, req, log>>

-----------------------------------------------------------------------------
(* Plan::execute on one chunk                                              *)

\* Defect: the parent of a block inside a chunk is not compared.
ParentUnchecked(chunk, first, parent) == TRUE

\* check_parent_block: the parent hash the chunk knows for the first block.
ParentMatches(chunk, first, parent) == parent = None \/ ParentHash(chunk, first) = parent

\* get_block_number_predicate over the block header table.
HeaderRows(chunk, first, last) ==
    {b \in chunk.blocks : /\ first # None => first <= b.number
                          /\ last # None => b.number <= last}

\* execute_output: the blocks with items, and both ends of the range; then
\* as many of them, from the lowest, as the size limit lets through.
OutputBlocks(rows) == {b \in rows : b.number \in Matching} \cup {Lowest(rows), Highest(rows)}

UpTo(B, cut) == {b \in B : b.number <= cut.number}

-----------------------------------------------------------------------------
(* RunningQuery                                                            *)

HasNext(r) == r.next # None \/ r.left # None

\* list_chunks from the first block of the query on.
Covering(first) == {k \in chunks : first <= k.last_block}

\* Defect: the finalized head does not bound a finalized query.
LastBlockUnbounded(q) == q.end

LastBlock(q) ==
    IF q.finalized /\ (q.end = None \/ finalized.number < q.end) THEN finalized.number ELSE q.end

\* RunningQuery::new on the snapshot of this moment: how it ends, and the
\* runner it makes.  When the query starts where a chunk does, the chunk's
\* header settles the parent and the plan reads the chunk from its start.
NewOutcome(q) ==
    LET C == Covering(q.first)
        F == FirstChunk(C)
    IN  IF C = {} THEN "no_data"
        ELSE IF q.first < F.first_block THEN "range_missing"
        ELSE IF F.first_block = q.first /\ q.parent \notin {None, F.parent_block_hash}
             THEN "conflict"
        ELSE IF q.finalized /\ finalized = None THEN "no_data"
        ELSE "ok"

NewRunner(q) ==
    LET F == FirstChunk(Covering(q.first))
        aligned == F.first_block = q.first
    IN  [first |-> IF aligned THEN None ELSE q.first,
         parent |-> IF aligned THEN None ELSE q.parent,
         last |-> LastBlock(q), left |-> None,
         next |-> F, rest |-> Covering(q.first) \ {F}, buf |-> {}]

\* next_chunk: take the pending chunk and look one ahead; a gap, or the end
\* of the query, ends the iteration.
Advance(r) ==
    LET n == FirstChunk(r.rest)
        more == /\ r.rest # {}
                /\ r.next.last_block + 1 = n.first_block
                /\ r.last # None => n.first_block <= r.last
    IN  [r EXCEPT !.next = IF more THEN n ELSE None,
                  !.rest = IF more THEN @ \ {n} ELSE {}]

\* write_next_chunk reads the left-over of the previous chunk first.
CurrentChunk(r) == IF r.left # None THEN r.left.chunk ELSE r.next
CurrentFirst(r) == IF r.left # None THEN r.left.next_block ELSE r.first

\* The runner after the chunk was taken, whatever the plan returns.
Taken(r) ==
    [(IF r.left # None THEN r ELSE Advance(r))
        EXCEPT !.left = None, !.first = None, !.parent = None]

ChunkRows(r) ==
    LET k == CurrentChunk(r)
    IN  HeaderRows(k, CurrentFirst(r),
                   IF r.last # None /\ r.last < k.last_block THEN r.last ELSE None)

\* Defect: the left-over starts with the last block that was written.
WrittenOverlap(r, cut) ==
    LET k == CurrentChunk(r)
    IN  [Taken(r) EXCEPT
            !.buf = @ \cup UpTo(OutputBlocks(ChunkRows(r)), cut),
            !.left = IF cut.number < k.last_block /\ (r.last # None => cut.number < r.last)
                     THEN [chunk |-> k, next_block |-> cut.number] ELSE None]

\* What the size limit cut off is left over for the next run.
Written(r, cut) ==
    LET k == CurrentChunk(r)
    IN  [Taken(r) EXCEPT
            !.buf = @ \cup UpTo(OutputBlocks(ChunkRows(r)), cut),
            !.left = IF cut.number < k.last_block /\ (r.last # None => cut.number < r.last)
                     THEN [chunk |-> k, next_block |-> cut.number + 1] ELSE None]

-----------------------------------------------------------------------------
(* The request: QueryService::query_internal                               *)

\* Where a client goes on, and the parent hash it names.
NextFirst(c) == IF log[c].blocks = {} THEN log[c].start ELSE Highest(log[c].blocks).number + 1
NextParent(c) == IF log[c].blocks = {} THEN log[c].base ELSE Highest(log[c].blocks).hash

\* On a 409 the client gives up its last block at least; with nothing left
\* to give up it begins anew.
RollBack(c) ==
    LET B == log[c].blocks
    IN  \/ \E b \in B : b # Highest(B) /\ log' = [log EXCEPT ![c].blocks = UpTo(B, b)]
        \/ \E s \in Begins : log' = [log EXCEPT ![c] = Fresh(s)]

To(c, pc) == req' = [req EXCEPT ![c].pc = pc]
Close(c) == req' = [req EXCEPT ![c] = Idle]
Deliver(c) == log' = [log EXCEPT ![c].blocks = @ \cup req[c].runner.buf]

\* is_long_poll: the watermark the client's endpoint looks at.
TargetHead(c) == IF log[c].finalized THEN finalized_head ELSE head

Ask(c) ==
    /\ req[c] = Idle
    /\ NextFirst(c) \in BlockNumber
    /\ \E end \in {e \in Ends : e # None => NextFirst(c) <= e} :
         LET first  == NextFirst(c)
             parent == NextParent(c)
             target == TargetHead(c)
             open(pc) == req' = [req EXCEPT ![c] =
                            [pc |-> pc, first |-> first, parent |-> parent, end |-> end,
                             finalized |-> log[c].finalized, streaming |-> FALSE,
                             outcome |-> "ok", runner |-> None]]
         IN  \/ /\ target # None /\ first <= target.number
                /\ open("get_slot") /\ UNCHANGED log
             \/ /\ target # None /\ first = target.number + 1
                /\ parent \notin {None, target.hash}
                /\ RollBack(c) /\ UNCHANGED req
             \/ /\ target # None => \/ target.number + 1 < first
                                    \/ /\ target.number + 1 = first
                                       /\ parent \in {None, target.hash}
                /\ open("wait_slot") /\ UNCHANGED log
    /\ UNCHANGED <<dataset, waiters, in_flight, orphans>>

\* WaitSlots::get: count first, then look; a slot over the limit is dropped.
GetWaitSlot(c) ==
    /\ req[c].pc = "wait_slot"
    /\ waiters' = waiters + 1
    /\ To(c, IF waiters < MaxWaiters THEN "waiting" ELSE "wait_refused")
    /\ UNCHANGED <<dataset, in_flight, orphans, log>>

DropWaitSlot(c) ==
    /\ req[c].pc = "wait_refused"
    /\ waiters' = waiters - 1
    /\ Close(c)
    /\ UNCHANGED <<dataset, in_flight, orphans, log>>

\* wait_for_block / wait_for_finalized_block
BlockArrived(c) ==
    /\ req[c].pc = "waiting"
    /\ TargetHead(c) # None /\ req[c].first <= TargetHead(c).number
    /\ waiters' = waiters - 1
    /\ To(c, "get_slot")
    /\ UNCHANGED <<dataset, in_flight, orphans, log>>

\* Defect: the wait has no time limit.
WaitForever(c) ==
    /\ req[c].pc = "waiting" /\ TargetHead(c) # None /\ req[c].first <= TargetHead(c).number
    /\ waiters' = waiters - 1
    /\ Close(c)
    /\ UNCHANGED <<dataset, in_flight, orphans, log>>

\* The wait of at most five seconds is over: 204.
WaitTimesOut(c) ==
    /\ req[c].pc = "waiting"
    /\ waiters' = waiters - 1
    /\ Close(c)
    /\ UNCHANGED <<dataset, in_flight, orphans, log>>

-----------------------------------------------------------------------------
(* QueryExecutor and the worker task                                       *)

\* Defect: the slot being taken counts against its own limit.
GetSlotCountsItself(c) ==
    /\ req[c].pc = "get_slot"
    /\ in_flight' = in_flight + 1
    /\ To(c, IF in_flight + 1 < MaxTasks THEN "task" ELSE "refused")
    /\ UNCHANGED <<dataset, waiters, orphans, log>>

GetSlot(c) ==
    /\ req[c].pc = "get_slot"
    /\ in_flight' = in_flight + 1
    /\ To(c, IF in_flight < MaxTasks THEN "task" ELSE "refused")
    /\ UNCHANGED <<dataset, waiters, orphans, log>>

\* Busy: 503 for a new query; a stream ends with what it has written.
Busy(c) ==
    /\ req[c].pc = "refused"
    /\ in_flight' = in_flight - 1
    /\ IF req[c].streaming THEN Deliver(c) ELSE UNCHANGED log
    /\ Close(c)
    /\ UNCHANGED <<dataset, waiters, orphans>>

\* The task ends with this outcome; the slot is still held.
Finish(c, outcome) ==
    req' = [req EXCEPT ![c].pc = "finishing", ![c].outcome = outcome]

\* The first task opens the snapshot.
OpenRunner(c) ==
    /\ req[c].pc = "task" /\ req[c].runner = None
    /\ LET q == req[c]
       IN  IF NewOutcome(q) = "ok"
           THEN req' = [req EXCEPT ![c].runner = NewRunner(q)]
           ELSE Finish(c, NewOutcome(q))
    /\ UNCHANGED <<dataset, waiters, in_flight, orphans, log>>

\* write_next_chunk within next_run: the loop goes on while there are chunks,
\* the buffer is small and the time estimate allows it.
WriteNextChunk(c) ==
    /\ req[c].pc = "task" /\ req[c].runner # None
    /\ LET r == req[c].runner
           keep(s) == \E pc \in (IF HasNext(s) THEN {"task", "finishing"} ELSE {"finishing"}) :
                         req' = [req EXCEPT ![c].runner = s, ![c].pc = pc]
       IN  IF ~ ParentMatches(CurrentChunk(r), CurrentFirst(r), r.parent)
           THEN Finish(c, "conflict")
           ELSE IF ChunkRows(r) = {} THEN keep(Taken(r))
           ELSE \E cut \in OutputBlocks(ChunkRows(r)) : keep(Written(r, cut))
    /\ UNCHANGED <<dataset, waiters, in_flight, orphans, log>>

\* A table the query asks for does not exist in the chunk, or a read fails.
ExecutionFails(c) ==
    /\ req[c].pc = "task" /\ req[c].runner # None
    /\ Finish(c, "failed")
    /\ UNCHANGED <<dataset, waiters, in_flight, orphans, log>>

\* catch_unwind: the runner is lost.
WorkerPanics(c) ==
    /\ req[c].pc = "task"
    /\ Finish(c, "panicked")
    /\ UNCHANGED <<dataset, waiters, in_flight, orphans, log>>

\* QuerySlot::run drops the slot, then wakes the caller.
DropSlot(c) ==
    /\ req[c].pc = "finishing"
    /\ in_flight' = in_flight - 1
    /\ To(c, "reply")
    /\ UNCHANGED <<dataset, waiters, orphans, log>>

\* The task of a client that is gone runs to its end all the same.
OrphanEnds ==
    /\ orphans > 0
    /\ orphans' = orphans - 1
    /\ in_flight' = in_flight - 1
    /\ UNCHANGED <<dataset, waiters, req, log>>

-----------------------------------------------------------------------------
(* QueryResponse and stream_query_response                                 *)

\* The first task answered: an error response, or a response to stream.
FirstReply(c) ==
    /\ req[c].pc = "reply" /\ ~ req[c].streaming
    /\ \/ /\ req[c].outcome = "ok"
          /\ req' = [req EXCEPT ![c].streaming = TRUE, ![c].pc = "stream"]
          /\ UNCHANGED log
       \/ req[c].outcome = "conflict" /\ RollBack(c) /\ Close(c)
       \/ req[c].outcome \notin {"ok", "conflict"} /\ Close(c) /\ UNCHANGED log
    /\ UNCHANGED <<dataset, waiters, in_flight, orphans>>

\* next_data_pack, before it needs a worker.
NextDataPack(c) ==
    /\ req[c].pc = "stream"
    /\ LET r == req[c].runner
       IN  \/ Deliver(c) /\ Close(c)      \* no chunk is left, or the time limit
          \/ /\ HasNext(r) /\ r.buf # {}
             /\ Deliver(c)
             /\ req' = [req EXCEPT ![c].runner.buf = {}]
          \/ /\ HasNext(r) /\ r.buf = {}
             /\ To(c, "get_slot")
             /\ UNCHANGED log
    /\ UNCHANGED <<dataset, waiters, in_flight, orphans>>

\* next_data_pack, after the worker: a failed run ends the stream with what
\* is buffered, a panic aborts it.
NextReply(c) ==
    /\ req[c].pc = "reply" /\ req[c].streaming
    /\ LET more == req[c].outcome = "ok" /\ HasNext(req[c].runner)
       IN  /\ IF req[c].outcome = "panicked" THEN UNCHANGED log ELSE Deliver(c)
           /\ IF more THEN req' = [req EXCEPT ![c].runner.buf = {}, ![c].pc = "stream"]
              ELSE Close(c)
    /\ UNCHANGED <<dataset, waiters, in_flight, orphans>>

\* Defect: a task dropped with its client takes its slot along.
DisconnectLeaks(c) ==
    /\ req[c].pc \in {"waiting", "task", "finishing", "reply", "stream"}
    /\ waiters' = IF req[c].pc = "waiting" THEN waiters - 1 ELSE waiters
    /\ Close(c)
    /\ UNCHANGED <<dataset, in_flight, orphans, log>>

\* The client goes away: the future is dropped at its await.
Disconnect(c) ==
    /\ req[c].pc \in {"waiting", "task", "finishing", "reply", "stream"}
    /\ waiters' = IF req[c].pc = "waiting" THEN waiters - 1 ELSE waiters
    /\ orphans' = IF req[c].pc \in {"task", "finishing"} THEN orphans + 1 ELSE orphans
    /\ Close(c)
    /\ UNCHANGED <<dataset, in_flight, log>>

-----------------------------------------------------------------------------
Init ==
    /\ chunks = {} /\ finalized = None /\ settled = None
    /\ head = None /\ finalized_head = None
    /\ waiters = 0 /\ in_flight = 0 /\ orphans = 0
    /\ req = [c \in Client |-> Idle]
    /\ log \in [Client -> {Fresh(s) : s \in Begins}]

\* What a request does by itself once it is open.
Serve(c) ==
    \/ GetWaitSlot(c) \/ DropWaitSlot(c) \/ BlockArrived(c) \/ WaitTimesOut(c)
    \/ GetSlot(c) \/ Busy(c) \/ OpenRunner(c) \/ WriteNextChunk(c)
    \/ DropSlot(c) \/ FirstReply(c) \/ NextDataPack(c) \/ NextReply(c)

Next ==
    \/ Dataset
    \/ OrphanEnds
    \/ \E c \in Client :
          Ask(c) \/ Serve(c) \/ ExecutionFails(c) \/ WorkerPanics(c) \/ Disconnect(c)

Spec == Init /\ [][Next]_vars

\* Timers fire, the worker pool and the runtime run every task.
Fairness == WF_vars(OrphanEnds) /\ \A c \in Client : WF_vars(Serve(c))

FairSpec == Spec /\ Fairness

-----------------------------------------------------------------------------
(* Properties                                                              *)

\* The fields of a running query hold what their Rust types allow.
TypeOK ==
    /\ \A k \in chunks : k \in Chunk
    /\ {finalized, settled, head, finalized_head} \subseteq BlockRef \cup {None}
    /\ waiters \in Nat /\ in_flight \in Nat /\ orphans \in Nat
    /\ \A c \in Client : req[c] # Idle =>
          /\ req[c].first \in BlockNumber /\ req[c].end \in OptNumber
          /\ req[c].runner # None => req[c].runner.last \in OptNumber

\* Across all the responses it stitches together, whatever forks, trims and
\* compactions happen between and during them, a client that names the hash
\* of its last block holds blocks of one history, with none of the blocks
\* that matter to it missing in between.
FollowsOneChain ==
    \A c \in Client : log[c].blocks # {} =>
        \E P \in Chains :
            /\ log[c].blocks \subseteq P
            /\ log[c].base \in {None, ParentOn(P, log[c].start)}
            /\ {b \in P : /\ b.number \in Matching
                          /\ log[c].start <= b.number
                          /\ b.number <= Highest(log[c].blocks).number} \subseteq log[c].blocks

\* What /finalized_stream hands out has been finalized.
FinalizedOnly ==
    \A c \in Client : log[c].finalized /\ log[c].blocks # {} =>
        /\ settled # None
        /\ \E P \in Chains : /\ settled \in P
                            /\ log[c].blocks \subseteq {b \in P : b.number <= settled.number}

\* The blocks in the buffer come after the blocks already handed out.
NeverRepeats ==
    \A c \in Client : req[c] # Idle /\ req[c].runner # None =>
        \A b \in req[c].runner.buf, d \in log[c].blocks : d.number < b.number

Holders == {c \in Client : req[c].pc \in {"task", "finishing"}}
InPc(pc) == {c \in Client : req[c].pc = pc}

\* Slots neither leak nor are handed out twice, through refusals, failures,
\* panics and disconnects.
SlotsBalanced ==
    /\ in_flight = Cardinality(Holders) + orphans + Cardinality(InPc("refused"))
    /\ Cardinality(Holders) + orphans <= MaxTasks
    /\ waiters = Cardinality(InPc("waiting")) + Cardinality(InPc("wait_refused"))
    /\ Cardinality(InPc("waiting")) <= MaxWaiters

\* A request is refused only for the requests of others: the task that just
\* answered a client never stands in the way of that client's next task.
RefusedForOthers ==
    [][\A c \in Client : req[c].pc = "get_slot" /\ req'[c].pc = "refused" =>
          MaxTasks <= orphans + Cardinality(Holders \cup InPc("refused"))]_vars

\* Every request is answered.
Answered == \A c \in Client : req[c] # Idle ~> req[c] = Idle
=============================================================================
