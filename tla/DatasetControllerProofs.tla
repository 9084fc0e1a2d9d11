----------------------- MODULE DatasetControllerProofs -----------------------
(***************************************************************************)
(* The dataset as a whole keeps what its writer promises: every step of    *)
(* the source, the ingest task, the channel and the controller is a step   *)
(* of the writer or leaves it alone, for every chain length, configuration *)
(* and number of forks, requests and faults.                               *)
(***************************************************************************)
EXTENDS DatasetController, WriteControllerProofs

SysInv == StoreInv /\ SysTypeOK

-----------------------------------------------------------------------------
(* Fields                                                                  *)

LEMMA StrategyFields ==
    ASSUME NEW s \in Strategy
    PROVE  /\ s.kind \in {"FromBlock", "Head", "None"}
           /\ s.kind = "FromBlock" => s.number \in Position /\ s.parent_hash \in OptHash
           /\ s.kind = "Head" => s.n \in Nat
  BY DEF Strategy

LEMMA HashAtType ==
    ASSUME SysTypeOK, NEW h \in -1 .. Tip
    PROVE  HashAt(h) \in Hash
  <1>1. Hash = Branch \X (-1 .. MaxBlock) /\ 0 \in Branch
    BY ControllerAssumption DEF Branch
  <1>2. h \in -1 .. MaxBlock
    BY MaxBlockAssumption DEF SysTypeOK, Tip
  <1>3. h >= 0 => src[h + 1] \in Branch
    BY DEF SysTypeOK, Tip
  <1> QED BY <1>1, <1>2, <1>3 DEF HashAt

LEMMA SourceRefType ==
    ASSUME SysTypeOK, NEW h \in 0 .. Tip
    PROVE  SourceRef(h) \in BlockRef
  <1>1. h \in -1 .. Tip /\ h \in BlockNumber
    BY MaxBlockAssumption DEF SysTypeOK, Tip, BlockNumber
  <1> QED BY <1>1, HashAtType DEF SourceRef, Ref, BlockRef

LEMMA RollbackType ==
    ASSUME StoreInv, NEW H \in SUBSET BlockRef
    PROVE  ComputeRollback(H) \in Rollback
  <1> DEFINE V == VolatileHints(H)
             resume == ResumeChunks(V)
             p == ResumePosition(V)
  <1>1. chunks \in SUBSET Chunk /\ resume \in SUBSET Chunk /\ label_fin \in OptRef
        /\ first_block \in Position /\ parent_block_hash \in OptHash
    BY DEF StoreInv, TypeOK, ResumeChunks
  <1>2. p.number \in Position /\ p.hash \in OptHash
    <2>1. CASE resume # {}
      <3>1. LastChunk(resume) \in Chunk
        BY <1>1, <2>1, ChunkEnds
      <3>2. LastChunk(resume).last_block + 1 \in Position /\ LastChunk(resume).last_block_hash \in OptHash
        BY <3>1, ChunkFields, MaxBlockAssumption DEF Position, OptHash
      <3> QED BY <2>1, <3>2 DEF ResumePosition, Ref
    <2>2. CASE resume = {} /\ chunks # {}
      <3>1. FirstChunk(chunks) \in Chunk
        BY <1>1, <2>2, ChunkEnds
      <3>2. FirstChunk(chunks).first_block \in Position /\ FirstChunk(chunks).parent_block_hash \in OptHash
        BY <3>1, ChunkFields, MaxBlockAssumption DEF Position, OptHash
      <3> QED BY <2>2, <3>2 DEF ResumePosition, Ref
    <2>3. CASE resume = {} /\ chunks = {}
      BY <1>1, <2>3 DEF ResumePosition, Ref
    <2> QED BY <2>1, <2>2, <2>3
  <1>3. label_fin # None => label_fin.number \in BlockNumber
    BY <1>1 DEF OptRef, BlockRef
  <1> QED BY <1>2, <1>3 DEF ComputeRollback, Rollback

-----------------------------------------------------------------------------
(* Every step is a step of the writer, or leaves it alone                  *)

LEMMA FloorIsOther ==
    ASSUME SysInv, retention.kind = "FromBlock", pc = "Idle", ApplyFloor(ClampFloor(retention))
    PROVE  [OtherNext]_vars
  <1>1. retention.number \in Position /\ retention.parent_hash \in OptHash
    BY StrategyFields DEF SysInv, SysTypeOK
  <1>2. ClampFloor(retention).number \in Position /\ ClampFloor(retention).parent_hash \in OptHash
    BY <1>1 DEF ClampFloor, SysInv, StoreInv, TypeOK, OptHash
  <1> QED BY <1>2 DEF ApplyFloor, OtherNext, Retain

LEMMA HeadProbeIsOther ==
    ASSUME SysInv, NEW top \in BlockNumber, HeadProbe(top)
    PROVE  [OtherNext]_vars
  <1> DEFINE known == IF head # None /\ head.number > top THEN head.number ELSE top
             floor == IF known > keep THEN known - keep ELSE 0
  <1>1. keep \in Nat
    BY NoneAssumption DEF HeadProbe, SysInv, SysTypeOK
  <1>2. known \in BlockNumber
    BY DEF SysInv, StoreInv, TypeOK, OptRef, BlockRef
  <1>3. floor \in Position
    BY <1>1, <1>2, MaxBlockAssumption DEF BlockNumber, Position
  <1>4. pc = "Idle" /\ IF floor > first_block THEN RetainTx(floor, None) ELSE UNCHANGED vars
    BY DEF HeadProbe
  <1>5. first_block \in Position
    BY DEF SysInv, StoreInv, TypeOK
  <1>6. floor > first_block => ~ StartsAt(floor, None)
    BY <1>3, <1>5, MaxBlockAssumption DEF StartsAt, Position
  <1> HIDE DEF floor
  <1> QED BY <1>3, <1>4, <1>6 DEF OtherNext, Retain, OptHash

LEMMA FinalizedHeadIsOther ==
    ASSUME SysInv, HandleFinalizedHead
    PROVE  [OtherNext]_vars
  <1>1. chan.report \in BlockRef
    BY Zenon DEF HandleFinalizedHead, Receives, SysInv, SysTypeOK, Message
  <1>2. Finalize(chan.report) \/ UNCHANGED vars \/ FinalizeRefused(chan.report)
    BY DEF HandleFinalizedHead
  <1> QED BY <1>1, <1>2 DEF OtherNext

LEMMA BootIsOther ==
    ASSUME SysInv, BootStep
    PROVE  [OtherNext]_vars
  <1>1. config.strategy \in Strategy
    BY DEF SysInv, SysTypeOK, Configuration
  <1>2. config.strategy.kind = "FromBlock" =>
           config.strategy.number \in Position /\ config.strategy.parent_hash \in OptHash
    BY <1>1, StrategyFields
  <1> QED BY <1>2 DEF BootStep, OtherNext

\* The controller accepts the chunk in the channel.
AcceptsChunk ==
    /\ Receives("NewChunk")
    /\ NewChunk(chan.report, chan.chunk, keep)
    /\ chan' = None
    /\ UNCHANGED <<control, ing, answer>>

\* Every step of the dataset is a step of the writer with inputs of the right
\* type, or no step of it.
LEMMA SysStepIsOther == SysInv /\ [SysNext]_sysvars => [OtherNext]_vars \/ AcceptsChunk
  <1> SUFFICES ASSUME SysInv, [SysNext]_sysvars PROVE [OtherNext]_vars \/ AcceptsChunk
    OBVIOUS
  <1>1. CASE SourceStep \/ IngestStep \/ IngestFails \/ \E s \in Strategies : RequestRetention(s)
    BY <1>1, Zenon DEF SourceStep, Extend, Reorg, SourceFinalizes, IngestStep, PushBlock, Flush, ReportFinality,
                ReceiveFork, GetRollback, IngestFails, RequestRetention
  <1>2. CASE InitState \/ SpawnIngest \/ IngestClosed \/ PauseOver
    BY <1>2 DEF InitState, SpawnIngest, IngestClosed, PauseOver
  <1>3. CASE StartEpoch
    <2>1. retention.kind = "FromBlock" => ApplyFloor(ClampFloor(retention)) /\ pc = "Idle"
      BY <1>3 DEF StartEpoch
    <2>2. retention.kind \in {"Head", "None"} => UNCHANGED vars
      BY <1>3, Zenon DEF StartEpoch
    <2> QED BY <2>1, <2>2, FloorIsOther, StrategyFields, Zenon DEF SysInv, SysTypeOK
  <1>4. CASE HandleRetentionChange
    <2>1. retention.kind = "FromBlock" => ApplyFloor(ClampFloor(retention)) /\ pc = "Idle"
      BY <1>4 DEF HandleRetentionChange
    <2>2. retention.kind \in {"Head", "None"} => UNCHANGED vars
      BY <1>4, Zenon DEF HandleRetentionChange
    <2> QED BY <2>1, <2>2, FloorIsOther, StrategyFields DEF SysInv, SysTypeOK
  <1>5. CASE \E top \in BlockNumber : HeadProbe(top)
    BY <1>5, HeadProbeIsOther
  <1>6. CASE WriterStep
    BY <1>6 DEF WriterStep, OtherNext
  <1>7. CASE HandleFork
    <2>1. UNCHANGED vars \/ (EndEpoch /\ pc = "Idle")
      BY <1>7 DEF HandleFork, Receives
    <2> QED BY <2>1 DEF OtherNext, StorageError
  <1>8. CASE Fault
    BY <1>8 DEF Fault, OtherNext
  <1>9. CASE Compaction
    BY <1>9 DEF Compaction, OtherNext
  <1>10. CASE UNCHANGED sysvars
    BY <1>10 DEF sysvars
  <1>11. CASE HandleNewChunk
    <2>1. AcceptsChunk \/ NewChunkRefused(chan.report, chan.chunk)
      BY <1>11 DEF HandleNewChunk, AcceptsChunk
    <2>2. chan.chunk \in Chunk /\ chan.report \in OptRef
      BY <1>11, Zenon DEF HandleNewChunk, Receives, SysInv, SysTypeOK, Message, Chunk
    <2> QED BY <2>1, <2>2 DEF OtherNext
  <1> QED BY <1>1, <1>2, <1>3, <1>4, <1>5, <1>6, <1>7, <1>8, <1>9, <1>10, <1>11,
             FinalizedHeadIsOther, BootIsOther, Zenon
          DEF SysNext, ControllerStep

LEMMA SysStepIsOpen == SysInv /\ [SysNext]_sysvars => [OpenNext]_vars
  <1> SUFFICES ASSUME SysInv, [SysNext]_sysvars PROVE [OpenNext]_vars
    OBVIOUS
  <1>1. CASE [OtherNext]_vars
    BY <1>1, Zenon DEF OtherNext, OpenNext
  <1>2. CASE AcceptsChunk
    <2>1. chan.chunk \in Chunk /\ chan.report \in OptRef /\ keep \in Nat \cup {None}
      BY <1>2 DEF AcceptsChunk, Receives, SysInv, SysTypeOK, Message, Chunk
    <2> QED BY <1>2, <2>1 DEF AcceptsChunk, OpenNext
  <1> QED BY <1>1, <1>2, SysStepIsOther

-----------------------------------------------------------------------------
(* The types of the controller                                             *)

LEMMA PositionedType ==
    ASSUME NEW n \in Position, NEW parent \in OptHash, NEW floor \in BlockNumber \cup {None}
    PROVE  Positioned(n, parent, floor) \in IngestTask /\ Buffered(Positioned(n, parent, floor))
  BY DEF Positioned, IngestTask, Buffered, OptHash, OptRef, Position

LEMMA SourceTypeStep ==
    ASSUME SysTypeOK, SourceStep
    PROVE  SysTypeOK'
  <1>1. CASE Extend
    <2>1. src[Len(src)] \in Branch
      BY DEF SysTypeOK
    <2>2. src' \in Seq(Branch) /\ Len(src') = Len(src) + 1
      BY <1>1, <2>1 DEF Extend, SysTypeOK
    <2>3. Len(src') \in 1 .. MaxBlock + 1 /\ Tip' = Tip + 1
      BY <1>1, <2>2, MaxBlockAssumption DEF Extend, SysTypeOK, Tip
    <2>4. (src_fin # None => src_fin \in 0 .. Tip)'
      BY <1>1, <2>3 DEF Extend, SysTypeOK, Tip
    <2> QED BY <1>1, <2>2, <2>3, <2>4, Zenon DEF Extend, SysTypeOK, vars, request, control, session
  <1>2. ASSUME NEW h \in BlockNumber, Reorg(h)
        PROVE  SysTypeOK'
    <2>1. budget.reorgs \in 1 .. MaxReorgs /\ MaxReorgs \in Nat
      BY <1>2, ControllerAssumption DEF Reorg, SysTypeOK, Branch, Budget
    <2>2. MaxReorgs - budget.reorgs + 1 \in Branch /\ budget.reorgs - 1 \in Branch
      BY <2>1 DEF Branch
    <2>3. budget' \in Budget
      BY <1>2, <2>2 DEF Reorg, SysTypeOK, Budget
    <2>4. src' \in Seq(Branch) /\ Len(src') = Len(src)
      BY <1>2, <2>2 DEF Reorg, SysTypeOK
    <2> QED BY <1>2, <2>3, <2>4 DEF Reorg, SysTypeOK, Tip, vars, request, control, session
  <1>3. ASSUME NEW h \in BlockNumber, SourceFinalizes(h)
        PROVE  SysTypeOK'
    BY <1>3 DEF SourceFinalizes, SysTypeOK, Tip, BlockNumber, vars, request, control, session
  <1> QED BY <1>1, <1>2, <1>3 DEF SourceStep

LEMMA PushBlockType ==
    ASSUME SysTypeOK, NEW is_final \in BOOLEAN, PushBlock(is_final)
    PROVE  SysTypeOK'
  <1> DEFINE block == SourceRef(ing.pos)
  <1>1. ing \in IngestTask /\ Buffered(ing) /\ ing.pos \in 0 .. Tip
    BY DEF PushBlock, Running, SysTypeOK, IngestTask, Position
  <1>2. block \in BlockRef /\ block.number = ing.pos
    BY <1>1, SourceRefType, Zenon DEF SourceRef, Ref
  <1>3. HashAt(ing.pos - 1) \in Hash
    BY <1>1, HashAtType DEF SysTypeOK, Tip
  <1>4. /\ ing'.state = ing.state /\ ing'.first_block = ing.first_block
        /\ ing'.blocks = ing.blocks \cup {block}
        /\ ing'.parent = (IF ing.blocks = {} THEN HashAt(ing.pos - 1) ELSE ing.parent)
        /\ ing'.pos = ing.pos + 1 /\ ing'.pos_hash = block.hash
        /\ ing' \in IngestTask
    <2>1. ing.pos + 1 \in Position
      BY <1>1, MaxBlockAssumption DEF SysTypeOK, Tip, Position
    <2>2. block.hash \in Hash
      BY <1>2, Zenon DEF BlockRef
    <2> HIDE DEF block
    <2> QED BY <1>1, <1>2, <1>3, <2>1, <2>2, Zenon DEF PushBlock, IngestTask, OptRef, OptHash, block
  <1>5. Buffered(ing')
    <2>1. ing.first_block \in Int /\ ing.pos \in Int /\ \A b \in ing.blocks : b.number \in Int
      BY <1>1 DEF IngestTask, Position, BlockRef, BlockNumber
    <2>2. /\ ing'.first_block <= ing'.pos
          /\ \A b \in ing'.blocks : ing'.first_block <= b.number /\ b.number < ing'.pos
      BY <1>1, <1>2, <1>4, <2>1 DEF Buffered
    <2>3. \A b, d \in ing'.blocks : b.number = d.number => b = d
      BY <1>1, <1>2, <1>4, <2>1 DEF Buffered
    <2>4. ing'.parent \in Hash
      BY <1>1, <1>3, <1>4 DEF Buffered
    <2>5. block = Ref(ing'.pos - 1, ing'.pos_hash)
      BY <1>4, <2>1 DEF SourceRef, Ref
    <2> QED BY <1>4, <2>2, <2>3, <2>4, <2>5, Zenon DEF Buffered
  <1> QED BY <1>4, <1>5 DEF PushBlock, SysTypeOK, world, source, vars, request, control, Tip

\* What flush sends is a well-formed chunk.
LEMMA FlushedChunk ==
    ASSUME SysTypeOK, Flush
    PROVE  Message(chan') /\ chan' # None
  <1> DEFINE c == [first_block |-> ing.first_block, last_block |-> ing.pos - 1,
                   last_block_hash |-> ing.pos_hash, parent_block_hash |-> ing.parent,
                   blocks |-> ing.blocks]
  <1>1. ing \in IngestTask /\ Buffered(ing) /\ ing.blocks # {}
    BY DEF Flush, Running, SysTypeOK
  <1>2. PICK last \in ing.blocks : last = Ref(ing.pos - 1, ing.pos_hash)
    BY <1>1 DEF Buffered
  <1>3. last \in BlockRef /\ ing.blocks \subseteq BlockRef /\ ing.first_block <= last.number
    BY <1>1, <1>2 DEF IngestTask, Buffered
  <1>4. ing.pos - 1 \in BlockNumber /\ ing.pos_hash \in Hash /\ ing.first_block \in BlockNumber
    BY <1>1, <1>2, <1>3, MaxBlockAssumption DEF Ref, BlockRef, BlockNumber, IngestTask, Position
  <1>5. c \in ChunkHeader
    BY <1>1, <1>3, <1>4, Zenon DEF ChunkHeader, Buffered
  <1>6. ValidChunk(c)
    <2>1. \A b \in ing.blocks : b.number \in Int
      BY <1>3 DEF BlockRef, BlockNumber
    <2>2. c.first_block <= c.last_block /\ Ref(c.last_block, c.last_block_hash) \in c.blocks
      BY <1>2, <1>3, Zenon DEF Ref
    <2>3. \A b \in c.blocks : c.first_block <= b.number /\ b.number <= c.last_block
      BY <1>1, <1>4, <2>1 DEF Buffered, BlockNumber, IngestTask, Position
    <2>4. \A b, d \in c.blocks : b.number = d.number => b = d
      BY <1>1, Zenon DEF Buffered
    <2> HIDE DEF c
    <2> QED BY <2>2, <2>3, <2>4, Zenon DEF ValidChunk
  <1>7. chan'.kind = "NewChunk" /\ chan'.chunk = c /\ chan'.report = ing.fin
    BY DEF Flush
  <1>8. chan' = [kind |-> "NewChunk", report |-> ing.fin, chunk |-> c] /\ ing.fin \in OptRef /\ c \in Chunk
    BY <1>1, <1>5, <1>6 DEF Flush, IngestTask, Chunk
  <1>9. chan' # None
    BY <1>8, MessageAssumption
  <1> QED BY <1>1, <1>5, <1>6, <1>7, <1>9, Zenon DEF Message, IngestTask

LEMMA FlushType ==
    ASSUME SysTypeOK, Flush
    PROVE  SysTypeOK'
  <1>1. ing \in IngestTask /\ Buffered(ing)
    BY DEF Flush, Running, SysTypeOK
  <1>2. /\ ing' \in IngestTask
        /\ ing'.blocks = {} /\ ing'.first_block = ing.pos /\ ing'.pos = ing.pos
    BY <1>1, Zenon DEF Flush, IngestTask
  <1>3. Buffered(ing')
    BY <1>1, <1>2 DEF Buffered, IngestTask, Position
  <1>4. Message(chan')
    BY FlushedChunk
  <1> QED BY <1>2, <1>3, <1>4 DEF Flush, SysTypeOK, world, source, vars, request, control, Tip

LEMMA IngestTypeStep ==
    ASSUME SysTypeOK, IngestStep \/ IngestFails
    PROVE  SysTypeOK'
  <1>1. CASE ReportFinality
    <2>1. ing \in IngestTask /\ Buffered(ing) /\ SourceRef(src_fin) \in BlockRef
      BY <1>1, SourceRefType DEF ReportFinality, Running, SysTypeOK
    <2>2. ing' \in IngestTask /\ Buffered(ing')
      BY <1>1, <2>1 DEF ReportFinality, IngestTask, Buffered, OptRef
    <2>3. chan' # None => Message(chan')
      BY <1>1, <2>1 DEF ReportFinality, SysTypeOK, Message
    <2> QED BY <1>1, <2>2, <2>3 DEF ReportFinality, SysTypeOK, world, source, vars, request, control, Tip
  <1>2. ASSUME NEW low \in BlockNumber, ReceiveFork(low)
        PROVE  SysTypeOK'
    <2>1. ing \in IngestTask /\ Buffered(ing) /\ ing.pos <= Tip + 1
      BY <1>2 DEF ReceiveFork, Running, SysTypeOK
    <2>2. \A h \in low .. ing.pos - 1 : SourceRef(h) \in BlockRef
      <3> SUFFICES ASSUME NEW h \in low .. ing.pos - 1 PROVE SourceRef(h) \in BlockRef
        OBVIOUS
      <3>1. h \in 0 .. Tip
        BY <2>1 DEF BlockNumber, IngestTask, Position, SysTypeOK, Tip
      <3> QED BY <3>1, SourceRefType
    <2>3. Message(chan')
      BY <1>2, <2>2 DEF ReceiveFork, Message
    <2>4. ing' \in IngestTask /\ Buffered(ing')
      BY <1>2, <2>1, Zenon DEF ReceiveFork, IngestTask, Buffered
    <2> QED BY <1>2, <2>3, <2>4 DEF ReceiveFork, SysTypeOK, world, source, vars, request, control, Tip
  <1>3. CASE GetRollback
    <2>1. answer \in Rollback
      BY <1>3, Zenon DEF GetRollback, SysTypeOK
    <2>2. ing' \in IngestTask /\ Buffered(ing')
      BY <1>3, <2>1, PositionedType DEF GetRollback, Rollback
    <2> QED BY <1>3, <2>2, Zenon DEF GetRollback, SysTypeOK, world, source, vars, request, control, Tip
  <1>4. CASE IngestFails
    <2>1. ing \in IngestTask /\ Buffered(ing)
      BY <1>4 DEF IngestFails, Running, SysTypeOK
    <2>2. ing' \in IngestTask /\ Buffered(ing')
      BY <1>4, <2>1 DEF IngestFails, IngestTask, Buffered
    <2>3. budget' \in Budget
      BY <1>4 DEF IngestFails, SysTypeOK, Budget
    <2> QED BY <1>4, <2>2, <2>3 DEF IngestFails, SysTypeOK, world, source, vars, request, control, Tip
  <1> QED BY <1>1, <1>2, <1>3, <1>4, PushBlockType, FlushType DEF IngestStep

LEMMA ChangeTypeStep ==
    ASSUME SysTypeOK, StartEpoch \/ HandleRetentionChange
    PROVE  SysTypeOK'
  <1>1. retention \in Strategy /\ config.max_blocks \in Nat \cup {None}
    BY Zenon DEF SysTypeOK, Configuration
  <1>2. /\ retention.kind \in {"FromBlock", "Head", "None"}
        /\ retention.kind = "Head" => retention.n \in Nat
    BY <1>1, StrategyFields
  <1>3. /\ ctl' \in {"Start", "Init", "HeadProbe", "Spawn", "Ingest", "IngestPause", "Idle"}
        /\ keep' \in Nat \cup {None}
        /\ ctl' = "HeadProbe" => keep' # None
        /\ ing' \in {ing, None} /\ chan' \in {chan, None} /\ answer' \in {answer, None}
    <2>1. CASE StartEpoch
      BY <1>1, <1>2, <2>1, Zenon DEF StartEpoch, SysTypeOK, session
    <2>2. CASE HandleRetentionChange
      <3>1. CASE retention.kind = "FromBlock"
        BY <1>1, <2>2, <3>1 DEF HandleRetentionChange, SysTypeOK, DropIngest, session, control
      <3>2. CASE retention.kind = "Head"
        BY <1>2, <2>2, <3>2, NoneAssumption DEF HandleRetentionChange, SysTypeOK, DropIngest, session
      <3>3. CASE retention.kind = "None"
        BY <2>2, <3>3 DEF HandleRetentionChange, SysTypeOK, DropIngest
      <3> QED BY <1>2, <3>1, <3>2, <3>3
    <2> QED BY <2>1, <2>2
  <1>4. changed' = FALSE /\ UNCHANGED <<world, retention, budget>>
    BY Zenon DEF StartEpoch, HandleRetentionChange
  <1> QED BY <1>3, <1>4, Zenon DEF SysTypeOK, world, source, Tip

LEMMA ControllerTypeStep ==
    ASSUME SysInv, ControllerStep
    PROVE  SysTypeOK'
  <1> USE DEF SysInv
  <1>1. CASE WriterStep \/ BootStep
    BY <1>1, Zenon DEF WriterStep, BootStep, SysTypeOK, world, source, request, control, session, Tip
  <1>2. CASE InitState
    BY <1>2, Zenon DEF InitState, SysTypeOK, world, source, request, session, Tip
  <1>3. ASSUME NEW top \in BlockNumber, HeadProbe(top)
        PROVE  SysTypeOK'
    BY <1>3, Zenon DEF HeadProbe, SysTypeOK, world, source, request, session, Tip
  <1>4. CASE SpawnIngest
    <2>1. head # None => head.number + 1 \in Position /\ head.hash \in OptHash
      BY MaxBlockAssumption DEF StoreInv, TypeOK, OptRef, BlockRef, BlockNumber, Position, OptHash
    <2>2. first_block \in Position /\ parent_block_hash \in OptHash
      BY DEF StoreInv, TypeOK
    <2>3. ing' \in IngestTask /\ Buffered(ing')
      BY <1>4, <2>1, <2>2, PositionedType, Zenon DEF SpawnIngest
    <2> QED BY <1>4, <2>3, Zenon DEF SpawnIngest, SysTypeOK, world, source, request, Tip
  <1>5. CASE HandleNewChunk
    BY <1>5, Zenon DEF HandleNewChunk, EpochEnds, DropIngest, SysTypeOK, world, source, request, control, Tip
  <1>6. CASE HandleFinalizedHead
    BY <1>6, Zenon DEF HandleFinalizedHead, EpochEnds, DropIngest, SysTypeOK, world, source, request, control, Tip
  <1>7. CASE HandleFork
    <2>1. chan.hints \in SUBSET BlockRef
      BY <1>7, Zenon DEF HandleFork, Receives, SysTypeOK, Message
    <2>2. answer' \in Rollback \cup {None}
      BY <1>7, <2>1, RollbackType, Zenon DEF HandleFork, EpochEnds, DropIngest
    <2> QED BY <1>7, <2>2, Zenon DEF HandleFork, EpochEnds, DropIngest, SysTypeOK, world, source, request,
                              control, Tip
  <1>8. CASE IngestClosed \/ PauseOver
    BY <1>8, Zenon DEF IngestClosed, PauseOver, DropIngest, SysTypeOK, world, source, request, session, Tip
  <1> QED BY <1>1, <1>2, <1>3, <1>4, <1>5, <1>6, <1>7, <1>8, ChangeTypeStep, SMTT(20) DEF ControllerStep

LEMMA SysTypeStep == SysInv /\ [SysNext]_sysvars => SysTypeOK'
  <1> SUFFICES ASSUME SysInv, [SysNext]_sysvars PROVE SysTypeOK'
    OBVIOUS
  <1>1. ASSUME NEW s \in Strategies, RequestRetention(s)
        PROVE  SysTypeOK'
    <2>1. s \in Strategy
      BY ControllerAssumption
    <2>2. budget' \in Budget
      BY <1>1 DEF RequestRetention, SysInv, SysTypeOK, Budget
    <2> QED BY <1>1, <2>1, <2>2 DEF RequestRetention, SysInv, SysTypeOK, world, source, control, session, Tip
  <1>2. CASE Fault
    <2>1. budget' \in Budget
      BY <1>2 DEF Fault, SysInv, SysTypeOK, Budget
    <2>2. retention' \in Strategy /\ changed' \in BOOLEAN
      BY <1>2, Zenon DEF Fault, SysInv, SysTypeOK, Configuration, request
    <2> QED BY <1>2, <2>1, <2>2 DEF Fault, EpochEnds, DropIngest, SysInv, SysTypeOK, world, source, Tip
  <1>3. CASE Compaction
    BY <1>3, Zenon DEF Compaction, SysInv, SysTypeOK, world, source, request, control, session, Tip
  <1>4. CASE UNCHANGED sysvars
    BY <1>4, Zenon DEF sysvars, SysInv, SysTypeOK, world, source, request, control, session, Tip
  <1> QED BY <1>1, <1>2, <1>3, <1>4, SourceTypeStep, IngestTypeStep, ControllerTypeStep
          DEF SysNext, SysInv

-----------------------------------------------------------------------------
(* What the dataset promises                                               *)

LEMMA SysInitInv == SysInit => SysInv
  <1> SUFFICES ASSUME SysInit PROVE SysInv
    OBVIOUS
  <1>1. StoreInv
    BY InitStoreInv DEF SysInit
  <1>2. config \in Configuration /\ retention \in Strategy
    BY ControllerAssumption DEF SysInit, Configuration
  <1>3. /\ src \in Seq(Branch) /\ Len(src) \in 1 .. MaxBlock + 1
        /\ budget \in Budget
    BY ControllerAssumption, MaxBlockAssumption DEF SysInit, Branch
  <1> QED BY <1>1, <1>2, <1>3, Zenon DEF SysInit, SysInv, SysTypeOK

LEMMA SysInvariant == SysSpec => []SysInv
  <1>1. SysInv /\ [SysNext]_sysvars => SysInv'
    BY SysStepIsOpen, SysTypeStep, StepStoreInv DEF SysInv
  <1> QED BY <1>1, SysInitInv, PTL DEF SysSpec

\* The variables keep their types, and whatever ingestion puts into the
\* channel is a well-formed chunk (flush, handle_fork, compute_rollback).
THEOREM ControllerTypeCorrect == SysSpec => []SysTypeOK
  <1>1. SysInv => SysTypeOK
    BY DEF SysInv
  <1> QED BY <1>1, SysInvariant, PTL

\* Under every order of ingestion, forks, retention changes, probes, epoch
\* restarts, compactions and crashes the stored chunks stay linked and the
\* finalized head stored (write_epoch over new_chunk, finalize and _retain).
THEOREM ControllerKeepsChain == SysSpec => [](ChainLinked /\ FinalizedStored)
  <1>1. SysInv => ChainLinked /\ FinalizedStored
    BY DEF SysInv, StoreInv
  <1> QED BY <1>1, SysInvariant, PTL

\* The whole dataset implements the ledger: what a snapshot shows changes
\* only in the ways DatasetLedger lists, whatever the two tasks do.
THEOREM ControllerImplementsLedger == SysSpec => ImplementsLedger
  <1>1. SysInit => Ledger!Init
    BY DEF SysInit, Init, Ledger!Init, Blocks
  <1>2. SysInv /\ [SysNext]_sysvars => [Ledger!Next]_<<Blocks(chunks), label_fin>>
    BY SysStepIsOpen, LedgerStep DEF SysInv
  <1> QED BY <1>1, <1>2, SysInvariant, PTL DEF SysSpec, ImplementsLedger, Ledger!Spec

\* No step of the dataset rewrites a finalized block (write_epoch).
THEOREM ControllerKeepsFinalized == SysSpec => FinalizedImmutable
  <1>1. SysInv /\ [SysNext]_sysvars =>
           [\A b \in BlockRef : (label_fin # None /\ b.number <= label_fin.number) =>
               \/ b \in Blocks(chunks) <=> b \in Blocks(chunks')
               \/ \A c \in chunks' : b.number < c.first_block]_vars
    BY SysStepIsOpen, FinalityStep, Zenon DEF SysInv
  <1> QED BY <1>1, SysInvariant, PTL DEF SysSpec, FinalizedImmutable
=============================================================================
