-------------------------- MODULE DatasetController --------------------------
(***************************************************************************)
(* One dataset end to end: a source whose chain grows, forks and           *)
(* finalizes, the ingest task (ingest_generic.rs), its channel of capacity *)
(* one, the write epochs of the controller (dataset_controller.rs) with    *)
(* their retention changes, and the writer of module WriteController,      *)
(* whose actions are the steps the controller takes.                       *)
(*                                                                         *)
(* The source is honest: it serves one chain at a time, never reverts what *)
(* it reported as finalized, and a hash names one block with one ancestry  *)
(* (it is the pair of the branch that introduced the block and its height).*)
(* The chain has no holes (WriteController treats those).                  *)
(***************************************************************************)
EXTENDS WriteController, Sequences

CONSTANTS
    Configurations,   \* the dataset configurations to start from
    Strategies,   \* the strategies requested through the API
    ForkFloor,    \* the lowest height the source may still revert
    MaxReorgs,    \* bound: reorganisations of the source
    Budgets       \* bounds: reorganisations; retention requests; crashes,
                  \* storage errors and failures of ingestion

Branch == 0 .. MaxReorgs

Budget == [reorgs : Branch, changes : Nat, faults : Nat]

Strategy ==
    [kind : {"FromBlock"}, number : Position, parent_hash : OptHash]
        \cup [kind : {"Head"}, n : Nat] \cup {[kind |-> "None"]}

\* RetentionConfig and what DataService::start makes of it: only an "Api"
\* dataset takes requests, starts without a strategy and may have a cap.
Configuration ==
    {c \in [strategy : Strategy, api : BOOLEAN, max_blocks : Nat \cup {None}] :
        /\ c.api => c.strategy.kind = "None"
        /\ c.max_blocks # None => c.api}

ASSUME ControllerAssumption ==
    /\ Hash = Branch \X (-1 .. MaxBlock)
    /\ \A c \in Configurations : c \in Configuration
    /\ \A s \in Strategies : s \in Strategy
    /\ ForkFloor \in Nat \ {0}   \* the chains of a network share block 0
    /\ MaxReorgs \in Nat
    /\ \A b \in Budgets : b \in Budget

\* A channel with a chunk in it is not empty.
ASSUME MessageAssumption == None \notin [kind : {"NewChunk"}, report : OptRef, chunk : Chunk]

VARIABLES
    config,     \* the configuration of the dataset
    src,        \* the chain of the source: the branch of block h is src[h + 1]
    src_fin,    \* the height the source has finalized, or None
    retention,  \* watch channel: the requested strategy
    changed,    \* the controller has not seen the current strategy
    ctl,        \* State of write_epoch; "Start" before it, "Spawn" at spawn_ingest
    keep,       \* the "head: Option<u64>" of the State
    ing,        \* the ingest task, or None
    chan,       \* the message in the channel, or None
    answer,     \* the Rollback sent to the ingest task, or None
    budget      \* what is left of the bounds

source == <<src, src_fin>>
world == <<config, source>>
request == <<retention, changed>>
session == <<ing, chan, answer>>
control == <<ctl, keep>>
sysvars == <<world, vars, request, control, session, budget>>

-----------------------------------------------------------------------------
(* The source                                                              *)

Tip == Len(src) - 1

HashAt(h) == <<IF h < 0 THEN 0 ELSE src[h + 1], h>>

SourceRef(h) == Ref(h, HashAt(h))

Extend ==
    /\ Tip < MaxBlock
    /\ src' = Append(src, src[Len(src)])
    /\ UNCHANGED <<config, vars, src_fin, request, control, session, budget>>

\* A new branch replaces the blocks from height h on; it is no shorter.
Reorg(h) ==
    /\ budget.reorgs > 0
    /\ ForkFloor <= h /\ h <= Tip /\ (src_fin # None => src_fin < h)
    /\ src' = [i \in 1 .. Len(src) |-> IF i <= h THEN src[i] ELSE MaxReorgs - budget.reorgs + 1]
    /\ budget' = [budget EXCEPT !.reorgs = @ - 1]
    /\ UNCHANGED <<config, vars, src_fin, request, control, session>>

SourceFinalizes(h) ==
    /\ h <= Tip /\ (src_fin # None => src_fin < h)
    /\ src_fin' = h
    /\ UNCHANGED <<config, vars, src, request, control, session, budget>>

-----------------------------------------------------------------------------
(* The ingest task                                                         *)

\* A task spawned or repositioned at block n, with the expected parent.
Positioned(n, parent, floor) ==
    [state |-> "Run", first_block |-> n, blocks |-> {}, parent |-> None, fin |-> None,
     floor |-> floor, pos |-> n, pos_hash |-> parent, canonical |-> FALSE]

Running == ing # None /\ ing.state = "Run"

\* The position of the task is on the chain of the source.
Consistent ==
    ing.pos_hash = None \/ (ing.pos <= Tip + 1 /\ ing.pos_hash = HashAt(ing.pos - 1))

\* push_block; the source marks blocks final that it knew to be when the
\* stream began (standard.rs takes no report for a report of block 0).
PushBlock(is_final) ==
    /\ Running
    /\ ing.pos <= Tip /\ Consistent
    /\ is_final => ing.pos = 0 \/ (src_fin # None /\ ing.pos <= src_fin)
    /\ ing.pos = 0 => is_final
    /\ LET block == SourceRef(ing.pos)
       IN  ing' = [ing EXCEPT !.blocks = @ \cup {block},
                              !.parent = IF ing.blocks = {} THEN HashAt(ing.pos - 1) ELSE @,
                              !.fin = IF is_final THEN block ELSE @,
                              !.pos = @ + 1, !.pos_hash = block.hash, !.canonical = TRUE]
    /\ UNCHANGED <<world, vars, request, control, chan, answer, budget>>

\* Defect: the flush floor is ignored.
WithheldNever == FALSE

\* A chunk may not end below the flush floor.
Withheld == ing.floor # None /\ ing.pos - 1 < ing.floor

\* flush, at the row bound, at a change of the data mask or on MaybeOnHead;
\* sending waits for room in the channel.
Flush ==
    /\ Running
    /\ ing.blocks # {} /\ ~ Withheld
    /\ chan = None
    /\ chan' = [kind |-> "NewChunk", report |-> ing.fin,
                chunk |-> [first_block |-> ing.first_block, last_block |-> ing.pos - 1,
                           last_block_hash |-> ing.pos_hash, parent_block_hash |-> ing.parent,
                           blocks |-> ing.blocks]]
    /\ ing' = [ing EXCEPT !.blocks = {}, !.first_block = ing.pos, !.floor = None]
    /\ UNCHANGED <<world, vars, request, control, answer, budget>>

\* A change of the data mask while the buffer is withheld, or any failure of
\* the task; the channel closes behind what is in it.
IngestFails ==
    /\ Running
    /\ budget.faults > 0
    /\ ing' = [ing EXCEPT !.state = "Failed"]
    /\ budget' = [budget EXCEPT !.faults = @ - 1]
    /\ UNCHANGED <<world, vars, request, control, chan, answer>>

\* Defect: a report is taken from a source whose chain the position left.
ReportFinalityUnanchored ==
    /\ Running
    /\ src_fin # None /\ ing.pos # 0 /\ ing.pos_hash # None
    /\ ing.fin # SourceRef(src_fin)
    /\ ing' = [ing EXCEPT !.fin = SourceRef(src_fin)]
    /\ IF src_fin < ing.first_block
       THEN chan = None /\ chan' = [kind |-> "FinalizedHead", report |-> SourceRef(src_fin)]
       ELSE UNCHANGED chan
    /\ UNCHANGED <<world, vars, request, control, answer, budget>>

\* DataEvent::FinalizedHead: announced with a stream, so from a consistent
\* position, one that streamed a block when the report lies above it; only
\* sent on when the buffer does not hold the block.
ReportFinality ==
    /\ Running
    /\ src_fin # None /\ ing.pos # 0 /\ ing.pos_hash # None /\ Consistent
    /\ ing.canonical \/ src_fin < ing.pos
    /\ ing.fin # SourceRef(src_fin)
    /\ ing' = [ing EXCEPT !.fin = SourceRef(src_fin)]
    /\ IF src_fin < ing.first_block
       THEN chan = None /\ chan' = [kind |-> "FinalizedHead", report |-> SourceRef(src_fin)]
       ELSE UNCHANGED chan
    /\ UNCHANGED <<world, vars, request, control, answer, budget>>

\* handle_fork, first half: the source lists its blocks from "low" up to the
\* position it was asked for.
ReceiveFork(low) ==
    /\ Running
    /\ ing.pos <= Tip + 1 /\ ~ Consistent
    /\ low < ing.pos
    /\ chan = None
    /\ chan' = [kind |-> "Fork", hints |-> {SourceRef(h) : h \in low .. ing.pos - 1}]
    /\ ing' = [ing EXCEPT !.state = "Await", !.blocks = {}]
    /\ UNCHANGED <<world, vars, request, control, answer, budget>>

\* handle_fork, second half.
GetRollback ==
    /\ ing # None /\ ing.state = "Await"
    /\ answer # None
    /\ ing' = Positioned(answer.resume_from, answer.expected_parent_hash, answer.reach_at_least)
    /\ answer' = None
    /\ UNCHANGED <<world, vars, request, control, chan, budget>>

-----------------------------------------------------------------------------
(* The controller                                                          *)

DropIngest == ing' = None /\ chan' = None /\ answer' = None

\* An error leaves write_epoch.
EpochEnds == ctl' = "Start" /\ keep' = None /\ DropIngest

\* clamp_floor
ClampFloor(s) ==
    IF config.max_blocks # None /\ s.number < first_block
    THEN [number |-> first_block, parent_hash |-> None]
    ELSE [number |-> s.number, parent_hash |-> s.parent_hash]

\* retain, which does nothing when the window already starts there.
ApplyFloor(f) ==
    IF StartsAt(f.number, f.parent_hash)
    THEN UNCHANGED vars
    ELSE RetainTx(f.number, f.parent_hash)

StartEpoch ==
    /\ pc = "Idle" /\ ctl = "Start"
    /\ changed' = FALSE
    /\ CASE retention.kind = "FromBlock" ->
              /\ ApplyFloor(ClampFloor(retention))
              /\ ctl' = "Init" /\ keep' = config.max_blocks
         [] retention.kind = "Head" ->
              /\ ctl' = "Init" /\ keep' = retention.n
              /\ UNCHANGED vars
         [] retention.kind = "None" ->
              /\ IF head # None THEN ctl' = "Init" /\ keep' = config.max_blocks
                                ELSE ctl' = "Idle" /\ keep' = None
              /\ UNCHANGED vars
    /\ UNCHANGED <<world, retention, session, budget>>

InitState ==
    /\ pc = "Idle" /\ ctl = "Init"
    /\ ctl' = IF keep # None THEN "HeadProbe" ELSE "Spawn"
    /\ UNCHANGED <<world, vars, request, keep, session, budget>>

\* fetch_chain_top answered: "top" is at most the tip of the source.
HeadProbe(top) ==
    /\ pc = "Idle" /\ ctl = "HeadProbe" /\ ~ changed
    /\ top <= Tip
    /\ LET known == IF head # None /\ head.number > top THEN head.number ELSE top
           floor == IF known > keep THEN known - keep ELSE 0
       IN  IF floor > first_block THEN RetainTx(floor, None) ELSE UNCHANGED vars
    /\ ctl' = "Spawn"
    /\ UNCHANGED <<world, request, keep, session, budget>>

\* spawn_ingest at the next block of the writer.
SpawnIngest ==
    /\ pc = "Idle" /\ ctl = "Spawn"
    /\ ing' = IF head # None THEN Positioned(head.number + 1, head.hash, None)
                             ELSE Positioned(first_block, parent_block_hash, None)
    /\ chan' = None /\ answer' = None
    /\ ctl' = "Ingest"
    /\ UNCHANGED <<world, vars, request, keep, budget>>

\* The biased select prefers a retention change to a message.
Receives(kind) ==
    pc = "Idle" /\ ctl = "Ingest" /\ ~ changed /\ chan # None /\ chan.kind = kind

HandleNewChunk ==
    /\ Receives("NewChunk")
    /\ \/ /\ NewChunk(chan.report, chan.chunk, keep)
          /\ chan' = None
          /\ UNCHANGED <<control, ing, answer>>
       \/ NewChunkRefused(chan.report, chan.chunk) /\ EpochEnds
    /\ UNCHANGED <<world, request, budget>>

\* finalize does nothing without a head or with a report that tells nothing new.
HandleFinalizedHead ==
    /\ Receives("FinalizedHead")
    /\ \/ /\ \/ Finalize(chan.report)
             \/ /\ head # None => ControlledAlone /\ ResolveFinality(None, chan.report) = "Ignored"
                /\ UNCHANGED vars
          /\ chan' = None
          /\ UNCHANGED <<control, ing, answer>>
       \/ FinalizeRefused(chan.report) /\ EpochEnds
    /\ UNCHANGED <<world, request, budget>>

\* Defect: the rollback is computed and not sent.
HandleForkSilent ==
    /\ Receives("Fork")
    /\ \/ /\ ForkResolvable(chan.hints)
          /\ chan' = None
          /\ UNCHANGED <<vars, control, ing, answer>>
       \/ /\ ~ ForkResolvable(chan.hints)
          /\ EndEpoch /\ EpochEnds
    /\ UNCHANGED <<world, request, budget>>

HandleFork ==
    /\ Receives("Fork")
    /\ \/ /\ ForkResolvable(chan.hints)
          /\ answer' = ComputeRollback(chan.hints)
          /\ chan' = None
          /\ UNCHANGED <<vars, control, ing>>
       \/ /\ ~ ForkResolvable(chan.hints)
          /\ EndEpoch /\ EpochEnds
    /\ UNCHANGED <<world, request, budget>>

\* The channel is drained and closed: the ingest task failed.
IngestClosed ==
    /\ pc = "Idle" /\ ctl = "Ingest" /\ ~ changed
    /\ chan = None /\ ing.state = "Failed"
    /\ ctl' = "IngestPause"
    /\ DropIngest
    /\ UNCHANGED <<world, vars, request, keep, budget>>

PauseOver ==
    /\ pc = "Idle" /\ ctl = "IngestPause" /\ ~ changed
    /\ ctl' = "Init"
    /\ UNCHANGED <<world, vars, request, keep, session, budget>>

\* Defect: the ingest task survives a retention that cleared the window.
KeptHeadAlways(f) == TRUE

\* What retain answers: the head survived.
KeptHead(f) == StartsAt(f.number, f.parent_hash) \/ KeepsHead(f.number, f.parent_hash)

\* A retain that keeps the head lets a running ingest go on.
HandleRetentionChange ==
    /\ pc = "Idle" /\ ctl \in {"HeadProbe", "Ingest", "IngestPause", "Idle"}
    /\ changed /\ changed' = FALSE
    /\ CASE retention.kind = "FromBlock" ->
              /\ ApplyFloor(ClampFloor(retention))
              /\ IF ctl = "Ingest" /\ KeptHead(ClampFloor(retention))
                 THEN UNCHANGED <<control, session>>
                 ELSE ctl' = "Init" /\ keep' = config.max_blocks /\ DropIngest
         [] retention.kind = "Head" ->
              /\ IF ctl = "HeadProbe" \/ (ctl = "Ingest" /\ keep # None)
                 THEN keep' = retention.n /\ UNCHANGED <<ctl, session>>
                 ELSE ctl' = "Init" /\ keep' = retention.n /\ DropIngest
              /\ UNCHANGED vars
         [] retention.kind = "None" ->
              /\ ctl' = "Idle" /\ keep' = None /\ DropIngest
              /\ UNCHANGED vars
    /\ UNCHANGED <<world, retention, budget>>

\* Steps of the writer the controller waits for.
WriterStep ==
    /\ NewWriter \/ SetHead \/ SetFin \/ Trim
    /\ UNCHANGED <<world, request, control, session, budget>>

\* DatasetController::new applies a configured FromBlock.
BootStep ==
    /\ IF config.strategy.kind = "FromBlock" /\ ~ StartsAt(config.strategy.number, config.strategy.parent_hash)
       THEN \/ InitRetention(config.strategy.number, config.strategy.parent_hash)
            \/ InitRetentionRefused(config.strategy.number, config.strategy.parent_hash)
       ELSE BootDone
    /\ UNCHANGED <<world, request, control, session, budget>>

-----------------------------------------------------------------------------
(* The environment                                                         *)

\* set_retention of the API, DatasetController::retain
RequestRetention(s) ==
    /\ config.api /\ budget.changes > 0
    /\ retention' = s /\ changed' = TRUE
    /\ budget' = [budget EXCEPT !.changes = @ - 1]
    /\ UNCHANGED <<world, vars, control, session>>

Fault ==
    /\ budget.faults > 0
    /\ budget' = [budget EXCEPT !.faults = @ - 1]
    /\ \/ StorageError /\ UNCHANGED request
       \/ Crash /\ retention' = config.strategy /\ changed' = FALSE
    /\ EpochEnds
    /\ UNCHANGED world

Compaction ==
    /\ \E lo, hi \in chunks : Compact(lo, hi)
    /\ UNCHANGED <<world, request, control, session, budget>>

-----------------------------------------------------------------------------
SysInit ==
    /\ Init
    /\ src = <<0>> /\ src_fin = None
    /\ config \in Configurations
    /\ retention = config.strategy /\ changed = FALSE
    /\ ctl = "Start" /\ keep = None
    /\ ing = None /\ chan = None /\ answer = None
    /\ budget \in Budgets

SourceStep == Extend \/ \E h \in BlockNumber : Reorg(h) \/ SourceFinalizes(h)

IngestStep ==
    \/ \E is_final \in BOOLEAN : PushBlock(is_final)
    \/ Flush
    \/ ReportFinality
    \/ \E low \in BlockNumber : ReceiveFork(low)
    \/ GetRollback

ControllerStep ==
    \/ WriterStep
    \/ BootStep
    \/ StartEpoch
    \/ InitState
    \/ \E top \in BlockNumber : HeadProbe(top)
    \/ SpawnIngest
    \/ HandleNewChunk
    \/ HandleFinalizedHead
    \/ HandleFork
    \/ IngestClosed
    \/ PauseOver
    \/ HandleRetentionChange

SysNext ==
    \/ SourceStep
    \/ IngestStep
    \/ IngestFails
    \/ ControllerStep
    \/ \E s \in Strategies : RequestRetention(s)
    \/ Fault
    \/ Compaction

SysSpec == SysInit /\ [][SysNext]_sysvars

\* Both tasks run on a runtime that polls whatever is ready: each takes steps
\* as long as it has one.  At the tip the source ends its stream and the task
\* flushes (MaybeOnHead).
LiveSpec == SysSpec /\ WF_sysvars(IngestStep) /\ WF_sysvars(ControllerStep)

-----------------------------------------------------------------------------
(* Properties                                                              *)

IngestTask ==
    [state : {"Run", "Await", "Failed"}, first_block : Position, blocks : SUBSET BlockRef,
     parent : OptHash, fin : OptRef, floor : BlockNumber \cup {None},
     pos : Position, pos_hash : OptHash, canonical : BOOLEAN]

Rollback ==
    [resume_from : Position, expected_parent_hash : OptHash,
     reach_at_least : BlockNumber \cup {None}]

\* The buffer of an ingest task is a run of blocks that ends at its position.
Buffered(t) ==
    /\ t.first_block <= t.pos
    /\ \A b \in t.blocks : t.first_block <= b.number /\ b.number < t.pos
    /\ \A b, d \in t.blocks : b.number = d.number => b = d
    /\ t.blocks # {} => /\ t.parent \in Hash
                       /\ \E b \in t.blocks : b = Ref(t.pos - 1, t.pos_hash)

Message(m) ==
    \/ m.kind = "NewChunk" /\ m.chunk \in ChunkHeader /\ ValidChunk(m.chunk) /\ m.report \in OptRef
    \/ m.kind = "FinalizedHead" /\ m.report \in BlockRef
    \/ m.kind = "Fork" /\ m.hints \subseteq BlockRef

\* The type of every variable; what the task sends is a well-formed chunk.
SysTypeOK ==
    /\ config \in Configuration
    /\ src \in Seq(Branch) /\ Len(src) \in 1 .. MaxBlock + 1
    /\ src_fin # None => src_fin \in 0 .. Tip
    /\ retention \in Strategy /\ changed \in BOOLEAN
    /\ ctl \in {"Start", "Init", "HeadProbe", "Spawn", "Ingest", "IngestPause", "Idle"}
    /\ keep \in Nat \cup {None} /\ (ctl = "HeadProbe" => keep # None)
    /\ ing # None => ing \in IngestTask /\ Buffered(ing)
    /\ chan # None => Message(chan)
    /\ answer \in Rollback \cup {None}
    /\ budget \in Budget

\* An honest source is never blamed: a chunk is refused only because a
\* compaction or a trim overtook the rollback it replays (new_chunk's
\* StaleRollbackBoundary and BelowRetainedWindow); a finality report and a
\* list of fork hints are never refused.
HonestNeverBlamed ==
    (pc = "Idle" /\ ctl = "Ingest" /\ ~ changed /\ chan # None) =>
        CASE chan.kind = "NewChunk" ->
               \/ Applicable(chan.report, chan.chunk)
               \/ StaleBoundary(chan.chunk)
               \/ chan.chunk.first_block < WindowStart
          [] chan.kind = "FinalizedHead" ->
               head # None => ControlledAlone /\ ResolveFinality(None, chan.report) # "IntegrityFault"
          [] chan.kind = "Fork" -> ForkResolvable(chan.hints)

\* The finalized head the service commits is a block the source finalized, or
\* block 0, also when a report above the head was clamped to it
\* (resolve_finality).
FinalityIsTheSources ==
    label_fin # None =>
        /\ label_fin.number = 0 \/ (src_fin # None /\ label_fin.number <= src_fin)
        /\ label_fin = SourceRef(label_fin.number)

\* Every block from the start of the window to the head is stored: a change
\* of retention never leaves a task behind that goes on above a window that
\* starts anew (handle_retention_change).
WindowComplete ==
    (pc = "Idle" /\ head # None) =>
        \A h \in first_block .. head.number : StoredAt(chunks, h) # {}

AtTip ==
    \/ head = SourceRef(Tip)
    \/ Tip < first_block
    \/ retention.kind = "None" /\ ctl = "Idle"

\* Once the source holds still the head of the dataset becomes, and stays, the
\* tip of the source, through forks, refused replays, restarts and retention
\* changes (LIV-1 and LIV-9 of spec/07-liveness.md), unless retention asks for
\* no ingestion or for blocks the source does not have yet.  No task waits
\* forever for a rollback that does not come (handle_fork).
CatchesUp == <>[]AtTip

-----------------------------------------------------------------------------
(* What the documentation says and the code does not do                    *)

\* WP-6b of spec/03-write-path.md: a fork below the window ends in a reset, so
\* ingestion gets past it.  compute_rollback answers it with the start of the
\* window, where the source reports the same fork again.
DeepForkResolved == <>[]AtTip
=============================================================================
