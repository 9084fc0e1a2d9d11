------------------------ MODULE DatasetWindowProofs -------------------------
(***************************************************************************)
(* The window of a dataset has no holes.  The ingest task, its channel and *)
(* its answer live inside one epoch of the controller; whatever the task   *)
(* delivers next starts at or below the block the store continues at; so   *)
(* every chunk the writer accepts closes up with the ones below it.        *)
(***************************************************************************)
EXTENDS DatasetControllerProofs

\* The logical start of the window, as the writer has it or is about to.
Start == IF pc \in {"SetHead", "SetFin"} THEN todo.first_block ELSE first_block

\* The block the store continues at.
NextBlock == IF chunks = {} THEN Start ELSE StoredHead(chunks).number + 1

\* A block for every height from the first to the last.
Dense(blocks, first, last) == \A h \in first .. last : \E b \in blocks : b.number = h

Pending(kind) == chan # None /\ chan.kind = kind

Booting == pc \in {"Crashed", "Down", "Boot"} \/ (pc \in {"SetHead", "SetFin"} /\ todo.then = "Boot")

\* The task, its channel and its answer live and die with the Ingest state,
\* and no epoch is open while a writer is rebuilt.
SessionInv ==
    /\ ctl # "Ingest" => ing = None /\ chan = None /\ answer = None
    /\ Booting => ctl = "Start"
    /\ Pending("Fork") => ing.state = "Await"
    /\ answer # None => chan = None /\ ing.state = "Await"

\* Whatever the task delivers next starts at or below the block the store
\* continues at, and has no holes.
NextInv ==
    /\ Pending("NewChunk") =>
          /\ ing.state # "Await"
          /\ chan.chunk.first_block <= NextBlock
          /\ Dense(chan.chunk.blocks, chan.chunk.first_block, chan.chunk.last_block)
          /\ ing.first_block = chan.chunk.last_block + 1
    /\ answer # None => answer.resume_from <= NextBlock
    /\ (ing # None /\ ing.state # "Await") =>
          /\ Dense(ing.blocks, ing.first_block, ing.pos - 1)
          /\ Pending("NewChunk") \/ ing.first_block <= NextBlock

\* The chunks reach down to the start of the window, without a hole.
CoverInv ==
    chunks # {} =>
        /\ pc \notin {"Crashed", "Down"} => FirstChunk(chunks).first_block <= Start
        /\ \A h \in FirstChunk(chunks).first_block .. StoredHead(chunks).number : StoredAt(chunks, h) # {}

-----------------------------------------------------------------------------
(* The window                                                              *)

LEMMA NextBlockType ==
    ASSUME StoreInv
    PROVE  Start \in Nat /\ NextBlock \in Nat
  <1>1. Start \in Nat
    BY DEF StoreInv, TypeOK, Assignments, Position, Start
  <1>2. chunks # {} => StoredHead(chunks).number \in Nat
    BY StoredHeadTop DEF StoreInv, TypeOK
  <1> QED BY <1>1, <1>2 DEF NextBlock

LEMMA NextBlockStays ==
    ASSUME StoreInv'
    PROVE  NextBlock' \in Nat
  <1>1. Start' \in Nat
    BY DEF StoreInv, TypeOK, Assignments, Position, Start
  <1>2. chunks' # {} => StoredHead(chunks').number \in Nat
    BY StoredHeadTop DEF StoreInv, TypeOK
  <1> QED BY <1>1, <1>2 DEF NextBlock

\* The steps that neither touch the chunks nor move the window.
LEMMA QuietStep ==
    ASSUME StoreInv,
           \/ SetHead \/ SetFin \/ BootDone \/ UNCHANGED vars
           \/ Trim /\ StartsAt(todo.floor, None)
           \/ \E report \in BlockRef : Finalize(report)
    PROVE  /\ chunks' = chunks /\ Start' = Start /\ NextBlock' = NextBlock
           /\ pc \in {"Crashed", "Down"} <=> pc' \in {"Crashed", "Down"}
           /\ Booting' => Booting
  <1>1. CASE SetHead
    BY <1>1 DEF SetHead, store, window, Start, NextBlock, Booting
  <1>2. CASE SetFin
    <2>1. /\ pc = "SetFin" /\ pc' = todo.then /\ pc' \in {"Idle", "Trim", "Boot"}
          /\ first_block' = todo.first_block /\ chunks' = chunks
      BY <1>2 DEF SetFin, store, StoreInv, TypeOK, Assignments
    <2> QED BY <2>1 DEF Start, NextBlock, Booting
  <1>3. CASE BootDone \/ (Trim /\ StartsAt(todo.floor, None))
    <2>1. pc \in {"Boot", "Trim"} /\ pc' = "Idle" /\ first_block' = first_block /\ chunks' = chunks
      BY <1>3 DEF BootDone, Trim, store, window
    <2> QED BY <2>1 DEF Start, NextBlock, Booting
  <1>4. ASSUME NEW report, Finalize(report)
        PROVE  /\ pc = "Idle" /\ pc' = "SetFin" /\ chunks' = chunks
               /\ todo'.first_block = first_block /\ todo'.then = "Idle"
    BY <1>4 DEF Finalize, Unmodified
  <1>5. ASSUME NEW report, Finalize(report)
        PROVE  Start' = Start /\ NextBlock' = NextBlock /\ ~ Booting'
    BY <1>4, <1>5 DEF Start, NextBlock, Booting
  <1>6. CASE UNCHANGED vars
    BY <1>6 DEF vars, store, window, Start, NextBlock, Booting
  <1> QED BY <1>1, <1>2, <1>3, <1>4, <1>5, <1>6

\* Retention keeps the head and what lies above its floor, or starts anew
\* at its floor.
LEMMA RetainWindow ==
    ASSUME StoreInv, CoverInv, NEW from \in Position, NEW parent, RetainTx(from, parent)
    PROVE  /\ CoverInv' /\ ~ Booting'
           /\ KeepsHead(from, parent) => NextBlock' = NextBlock
           /\ ~ KeepsHead(from, parent) => NextBlock' = from
  <1> DEFINE kept == {c \in chunks : from <= c.last_block}
  <1>1. chunks \in SUBSET Chunk /\ Linked(chunks) /\ from \in Int
    BY DEF StoreInv, TypeOK, ChainLinked, Position
  <1>2. pc' = "SetHead" /\ todo'.first_block = from /\ todo'.then = "Idle"
    BY Zenon DEF RetainTx, Unmodified
  <1>3. Start' = from /\ ~ Booting'
    BY <1>2 DEF Start, Booting
  <1>4. CASE KeepsHead(from, parent)
    <2>1. PICK o \in Owner(chunks, from) : TRUE
      BY <1>4 DEF KeepsHead
    <2>2. chunks' = kept
      BY <1>4 DEF RetainTx
    <2>3. LastChunk(kept) = LastChunk(chunks) /\ FirstChunk(kept) = o /\ o \in kept
          /\ Blocks(kept) = {b \in Blocks(chunks) : o.first_block <= b.number}
      BY <1>1, RetainEnds, RetainedSuffix
    <2> HIDE DEF kept
    <2>4. chunks # {} /\ kept # {} /\ o \in Chunk /\ o.first_block <= from
      BY <1>1, <2>1, <2>3 DEF Owner
    <2>5. StoredHead(kept) = StoredHead(chunks)
      BY <2>3, <2>4 DEF StoredHead
    <2>6. FirstChunk(chunks).first_block <= o.first_block /\ FirstChunk(chunks) \in Chunk
      BY <1>1, <2>1, <2>4, FirstChunkStart, ChunkEnds DEF Owner
    <2>7. StoredHead(chunks).number \in Nat
      BY <1>1, <2>4, StoredHeadTop
    <2>8. ASSUME NEW h \in o.first_block .. StoredHead(chunks).number
          PROVE  StoredAt(kept, h) # {}
      <3>1. h \in FirstChunk(chunks).first_block .. StoredHead(chunks).number /\ o.first_block <= h
        BY <2>4, <2>6, <2>7, <2>8, ChunkSpan
      <3>2. PICK b \in Blocks(chunks) : b.number = h
        BY <2>4, <3>1 DEF CoverInv, StoredAt
      <3> QED BY <2>3, <3>1, <3>2 DEF StoredAt
    <2>9. CoverInv'
      BY <1>3, <2>2, <2>3, <2>4, <2>5, <2>8 DEF CoverInv
    <2> QED BY <1>3, <1>4, <2>2, <2>4, <2>5, <2>9 DEF NextBlock
  <1>5. CASE ~ KeepsHead(from, parent)
    <2>1. chunks' = {}
      BY <1>5 DEF RetainTx
    <2> QED BY <1>3, <1>5, <2>1 DEF CoverInv, NextBlock
  <1> QED BY <1>4, <1>5

LEMMA CompactWindow ==
    ASSUME WriterInv, CoverInv, NEW lo \in chunks, NEW hi \in chunks, Compact(lo, hi)
    PROVE  CoverInv' /\ NextBlock' = NextBlock
  <1>1. pc' = pc /\ Start' = Start
    BY DEF Compact, window, Start
  <1>2. /\ chunks # {} /\ chunks' # {} /\ StoredHead(chunks') = StoredHead(chunks)
        /\ FirstChunk(chunks').first_block = FirstChunk(chunks).first_block
    BY CompactEnds
  <1>3. Blocks(chunks') = Blocks(chunks)
    BY CompactStore DEF WriterInv
  <1> QED BY <1>1, <1>2, <1>3 DEF CoverInv, NextBlock, StoredAt

\* A chunk without holes that starts at or below the next block leaves none.
LEMMA InsertWindow ==
    ASSUME WriterInv, CoverInv, NEW chunk \in Chunk, NEW report, NEW n, NewChunk(report, chunk, n),
           chunk.first_block <= NextBlock, Dense(chunk.blocks, chunk.first_block, chunk.last_block)
    PROVE  CoverInv' /\ NextBlock' = chunk.last_block + 1
  <1> DEFINE after == InsertFork(chunks, chunk)
             first == FirstChunk(chunks)
  <1>1. /\ chunks \in SUBSET Chunk /\ Linked(chunks) /\ first_block \in Nat
        /\ pc = "Idle" /\ CanInsertFork(chunks, chunk)
        /\ chunks' = after /\ pc' = "SetHead" /\ todo'.first_block = first_block
    BY DEF WriterInv, StoreInv, TypeOK, ChainLinked, Position, NewChunk, Applicable, Unmodified
  <1>2. Start' = first_block /\ Start = first_block
    BY <1>1 DEF Start
  <1>3. after \in SUBSET Chunk /\ after # {} /\ StoredHead(after).number = chunk.last_block
    BY <1>1, ForkHead, Zenon DEF WriterInv
  <1>4. chunks # {} => first \in chunks /\ first \in Chunk /\ first.first_block <= first_block
    BY <1>1, <1>2, ChunkEnds DEF CoverInv
  <1> USE <1>1, <1>2, <1>3, <1>4
  <1>5. FirstChunk(after).first_block <= first_block
    <2>1. CASE ForkSurvivors(chunks, chunk) # {}
      BY <2>1, ForkEnds, Zenon DEF ForkSurvivors
    <2>2. CASE ForkSurvivors(chunks, chunk) = {} /\ chunks # {}
      <3>1. chunk.first_block <= first.first_block
        BY <2>2, ChunkSpan DEF ForkSurvivors
      <3> QED BY <2>2, <3>1, ForkEnds, ChunkSpan
    <2>3. CASE chunks = {}
      BY <2>3, ForkEnds, Zenon DEF ForkSurvivors, NextBlock
    <2> QED BY <2>1, <2>2, <2>3
  <1>6. ASSUME NEW h \in FirstChunk(after).first_block .. chunk.last_block
        PROVE  StoredAt(after, h) # {}
    <2>1. FirstChunk(after) \in Chunk /\ h \in Int
      BY ChunkEnds, ChunkSpan
    <2>2. CASE chunk.first_block <= h
      <3>1. PICK b \in chunk.blocks : b.number = h
        BY <1>6, <2>1, <2>2, ChunkSpan, SMTT(20) DEF Dense
      <3> QED BY <3>1, Zenon DEF StoredAt, Blocks, InsertFork
    <2>3. CASE h < chunk.first_block
      <3>1. ForkSurvivors(chunks, chunk) # {}
        BY <1>6, <2>1, <2>3, ForkEnds, ChunkSpan, SMTT(20)
      <3>2. chunks # {} /\ FirstChunk(after) = first
        BY <3>1, ForkEnds, Zenon DEF ForkSurvivors
      <3>3. chunk.first_block <= StoredHead(chunks).number + 1 /\ StoredHead(chunks).number \in Nat
        BY <3>2, StoredHeadTop, Zenon DEF NextBlock
      <3>4. h \in first.first_block .. StoredHead(chunks).number
        BY <1>6, <2>1, <2>3, <3>2, <3>3, ChunkSpan, SMTT(20)
      <3>5. PICK b \in Blocks(chunks) : b.number = h
        BY <3>2, <3>4, Zenon DEF CoverInv, StoredAt
      <3>6. b \in Blocks(after)
        BY <2>3, <3>5, InsertForkBlocks, Zenon
      <3> QED BY <3>5, <3>6, Zenon DEF StoredAt
    <2> QED BY <2>1, <2>2, <2>3, ChunkSpan, SMTT(20)
  <1> HIDE DEF after
  <1>7. NextBlock' = chunk.last_block + 1
    BY DEF NextBlock
  <1> QED BY <1>5, <1>6, <1>7 DEF CoverInv

LEMMA CoverStep ==
    ASSUME WriterInv, CoverInv, [OtherNext]_vars
    PROVE  CoverInv'
  <1>1. StoreInv
    BY DEF WriterInv
  <1>2. ASSUME chunks' = chunks, Start' = Start,
               pc \in {"Crashed", "Down"} <=> pc' \in {"Crashed", "Down"}
        PROVE  CoverInv'
    BY <1>2 DEF CoverInv
  <1>3. CASE \/ SetHead \/ SetFin \/ BootDone \/ UNCHANGED vars
             \/ Trim /\ StartsAt(todo.floor, None)
             \/ \E report \in BlockRef : Finalize(report)
    BY <1>1, <1>2, <1>3, QuietStep
  <1>4. CASE NewWriter
    <2>1. /\ pc' = "SetHead" /\ chunks' = chunks
          /\ chunks # {} => todo'.first_block = FirstChunk(chunks).first_block
      BY <1>4, Zenon DEF NewWriter, store
    <2>2. Start' = todo'.first_block
      BY <2>1 DEF Start
    <2>3. chunks # {} => FirstChunk(chunks).first_block \in Nat
      BY <1>1, ChunkEnds, ChunkFields, Zenon DEF StoreInv, TypeOK
    <2> QED BY <2>1, <2>2, <2>3 DEF CoverInv
  <1>5. ASSUME chunks' = chunks, pc' \in {"Crashed", "Down"}
        PROVE  CoverInv'
    BY <1>5 DEF CoverInv
  <1>6. CASE \/ StorageError \/ Crash
             \/ \E report \in BlockRef : FinalizeRefused(report)
             \/ \E chunk \in Chunk, report \in OptRef : NewChunkRefused(report, chunk)
             \/ \E from \in Position, parent \in OptHash : InitRetentionRefused(from, parent)
    <2>1. chunks' = chunks /\ pc' \in {"Crashed", "Down"}
      BY <1>6 DEF StorageError, Crash, FinalizeRefused, NewChunkRefused, InitRetentionRefused, EndEpoch, store
    <2> QED BY <1>5, <2>1
  <1>7. CASE Trim /\ ~ StartsAt(todo.floor, None)
    <2>1. RetainTx(todo.floor, None) /\ todo.floor \in Position
      BY <1>1, <1>7 DEF Trim, StoreInv, FloorPending
    <2> QED BY <1>1, <2>1, RetainWindow
  <1>8. ASSUME NEW from \in Position, NEW parent, Retain(from, parent) \/ InitRetention(from, parent)
        PROVE  CoverInv'
    BY <1>1, <1>8, RetainWindow DEF Retain, InitRetention
  <1> QED BY <1>3, <1>4, <1>6, <1>7, <1>8, CompactWindow DEF OtherNext

-----------------------------------------------------------------------------
(* The session                                                             *)

\* What the messages of a session carry.
LEMMA SessionFields ==
    ASSUME SysTypeOK
    PROVE  /\ Pending("NewChunk") => chan.chunk \in Chunk /\ chan.report \in OptRef
           /\ answer # None => answer.resume_from \in Nat
           /\ ing # None => ing.first_block \in Nat /\ ing.pos \in Nat
  BY DEF SysTypeOK, Pending, Message, Chunk, Rollback, IngestTask, Position

LEMMA NoSession ==
    ASSUME ing' = None, chan' = None, answer' = None
    PROVE  NextInv' /\ ((Booting' => ctl' = "Start") => SessionInv')
  BY DEF SessionInv, NextInv, Pending

\* A session outlives every step that does not move the next block down.
LEMMA SameSession ==
    ASSUME SysInv, StoreInv', SessionInv, NextInv, UNCHANGED <<session, ctl>>,
           NextBlock <= NextBlock', Booting' => Booting
    PROVE  SessionInv' /\ NextInv'
  <1>1. ing' = ing /\ chan' = chan /\ answer' = answer /\ ctl' = ctl
    BY DEF session
  <1> USE <1>1
  <1>2. NextBlock \in Nat /\ NextBlock' \in Nat
    BY NextBlockType, NextBlockStays DEF SysInv
  <1>3. \A n \in Nat : n <= NextBlock => n <= NextBlock'
    BY <1>2
  <1>4. (Pending("NewChunk")' <=> Pending("NewChunk")) /\ (Pending("Fork")' <=> Pending("Fork"))
    BY DEF Pending
  <1>5. /\ Pending("NewChunk") => chan.chunk.first_block \in Nat
        /\ answer # None => answer.resume_from \in Nat
        /\ ing # None => ing.first_block \in Nat
    BY SessionFields, ChunkFields, Zenon DEF SysInv
  <1>6. SessionInv'
    BY <1>4 DEF SessionInv
  <1> QED BY <1>3, <1>4, <1>5, <1>6, Zenon DEF NextInv

\* The steps of the ingest task.
LEMMA IngestSession ==
    ASSUME SysInv, SessionInv, NextInv, IngestStep \/ IngestFails
    PROVE  SessionInv' /\ NextInv'
  <1>1. /\ NextBlock' = NextBlock /\ Booting' = Booting /\ ctl' = ctl
        /\ ing # None /\ ctl = "Ingest"
    BY Zenon DEF SessionInv, IngestStep, IngestFails, PushBlock, Flush, ReportFinality, ReceiveFork, GetRollback, Running,
           vars, store, window, control, NextBlock, Start, Booting
  <1>2. ing \in IngestTask /\ ing.first_block \in Nat /\ ing.pos \in Nat
    BY <1>1, SessionFields, Zenon DEF SysInv, SysTypeOK
  <1> USE <1>1, <1>2
  <1>3. CASE Running
    <2>1. ing.state = "Run" /\ answer = None /\ ~ Pending("Fork")
      BY <1>3 DEF Running, SessionInv
    <2> USE <2>1
    <2>2. ASSUME NEW is_final \in BOOLEAN, PushBlock(is_final)
          PROVE  SessionInv' /\ NextInv'
      <3>1. /\ ing'.state = ing.state /\ ing'.first_block = ing.first_block /\ ing'.pos = ing.pos + 1
            /\ ing'.blocks = ing.blocks \cup {SourceRef(ing.pos)}
            /\ chan' = chan /\ answer' = answer
        BY <2>2 DEF PushBlock, IngestTask
      <3>2. Dense(ing'.blocks, ing'.first_block, ing'.pos - 1)
        <4> SUFFICES ASSUME NEW h \in ing.first_block .. ing.pos
                     PROVE  \E b \in ing'.blocks : b.number = h
          <5>1. ing'.first_block .. ing'.pos - 1 = ing.first_block .. ing.pos
            BY <3>1
          <5> QED BY <5>1, Zenon DEF Dense
        <4>1. CASE h = ing.pos
          <5>1. SourceRef(ing.pos).number = ing.pos
            BY DEF SourceRef, Ref
          <5> QED BY <3>1, <4>1, <5>1
        <4>2. CASE h # ing.pos
          <5>1. h \in ing.first_block .. ing.pos - 1
            BY <4>2
          <5> QED BY <3>1, <5>1, Zenon DEF NextInv, Dense
        <4> QED BY <4>1, <4>2, Zenon
      <3> QED BY <3>1, <3>2, Zenon DEF SessionInv, NextInv, Pending
    <2>3. CASE Flush
      <3>1. /\ chan'.kind = "NewChunk" /\ chan'.chunk.first_block = ing.first_block
            /\ chan'.chunk.last_block = ing.pos - 1 /\ chan'.chunk.blocks = ing.blocks
            /\ ing'.state = "Run" /\ ing'.blocks = {} /\ ing'.first_block = ing.pos /\ ing'.pos = ing.pos
            /\ chan = None /\ answer' = answer
        BY <2>3 DEF Flush, IngestTask
      <3>2. Dense(ing'.blocks, ing'.first_block, ing'.pos - 1)
        BY <3>1 DEF Dense
      <3>3. ing.first_block <= NextBlock /\ Dense(ing.blocks, ing.first_block, ing.pos - 1)
        BY <3>1, Zenon DEF NextInv, Pending
      <3>4. ing'.first_block = chan'.chunk.last_block + 1
        BY <3>1
      <3>5. /\ chan'.chunk.first_block <= NextBlock'
            /\ Dense(chan'.chunk.blocks, chan'.chunk.first_block, chan'.chunk.last_block)
        BY <3>1, <3>3, Zenon
      <3>6. SessionInv'
        BY <3>1 DEF SessionInv, Pending
      <3>7. Pending("NewChunk")'
        BY <2>3, <3>1, FlushedChunk, Zenon DEF Pending, SysInv
      <3> QED BY <3>1, <3>2, <3>4, <3>5, <3>6, <3>7, Zenon DEF NextInv
    <2>4. CASE ReportFinality \/ IngestFails
      <3>1. /\ ing'.state # "Await" /\ ing'.blocks = ing.blocks /\ ing'.first_block = ing.first_block
            /\ ing'.pos = ing.pos /\ answer' = answer
            /\ chan' = chan \/ (chan = None /\ chan'.kind = "FinalizedHead")
        BY <2>4 DEF ReportFinality, IngestFails, IngestTask
      <3>2. /\ Pending("NewChunk")' <=> Pending("NewChunk")
            /\ ~ Pending("Fork")'
            /\ Pending("NewChunk") => chan' = chan
        BY <3>1 DEF Pending
      <3> QED BY <3>1, <3>2, Zenon DEF SessionInv, NextInv
    <2>5. ASSUME NEW low \in BlockNumber, ReceiveFork(low)
          PROVE  SessionInv' /\ NextInv'
      <3>1. chan'.kind = "Fork" /\ ing'.state = "Await" /\ answer' = answer
        BY <2>5 DEF ReceiveFork, IngestTask
      <3> QED BY <3>1, Zenon DEF SessionInv, NextInv, Pending
    <2> QED BY <1>3, <2>2, <2>3, <2>4, <2>5 DEF IngestStep, GetRollback, Running
  <1>4. CASE GetRollback
    <2>1. /\ answer # None /\ chan = None /\ chan' = None /\ answer' = None
          /\ ing' = Positioned(answer.resume_from, answer.expected_parent_hash, answer.reach_at_least)
      BY <1>4 DEF GetRollback, SessionInv
    <2>2. /\ ing'.state = "Run" /\ ing'.first_block = answer.resume_from /\ ing'.pos = answer.resume_from
          /\ answer.resume_from \in Nat /\ answer.resume_from <= NextBlock
      BY <2>1, SessionFields, Zenon DEF Positioned, NextInv, SysInv
    <2>3. Dense(ing'.blocks, ing'.first_block, ing'.pos - 1)
      BY <2>2 DEF Dense
    <2> QED BY <2>1, <2>2, <2>3, Zenon DEF SessionInv, NextInv, Pending
  <1> QED BY <1>3, <1>4, Zenon DEF IngestStep, IngestFails, PushBlock, Flush, ReportFinality, ReceiveFork

\* A trim keeps the head, or was to keep nothing and starts anew above it.
LEMMA TrimNext ==
    ASSUME WriterInv, CoverInv, Trim
    PROVE  NextBlock <= NextBlock' /\ (Booting' => Booting)
  <1>1. StoreInv /\ chunks \in SUBSET Chunk /\ Linked(chunks) /\ NextBlock \in Nat
    BY NextBlockType DEF WriterInv, StoreInv, TypeOK, ChainLinked
  <1> USE <1>1
  <1>2. CASE StartsAt(todo.floor, None)
    BY <1>2, QuietStep
  <1>3. CASE ~ StartsAt(todo.floor, None)
    <2>1. /\ RetainTx(todo.floor, None) /\ todo.floor \in Position /\ todo.floor \in Nat
          /\ chunks # {} /\ FirstChunk(chunks).first_block <= todo.floor
      BY <1>3 DEF Trim, WriterInv, StoreInv, FloorPending, FloorInv, Position
    <2>2. CASE KeepsHead(todo.floor, None)
      BY <2>1, <2>2, RetainWindow
    <2>3. CASE ~ KeepsHead(todo.floor, None)
      <3>1. Owner(chunks, todo.floor) = {}
        BY <2>3 DEF KeepsHead, ParentAgrees
      <3>2. ~ (todo.floor <= LastChunk(chunks).last_block)
        BY <2>1, <3>1, TileOwner
      <3>3. StoredHead(chunks).number = LastChunk(chunks).last_block /\ StoredHead(chunks).number \in Nat
        BY <2>1, StoredHeadTop
      <3>4. NextBlock' = todo.floor /\ ~ Booting'
        BY <2>1, <2>3, RetainWindow, Zenon
      <3> QED BY <2>1, <3>2, <3>3, <3>4 DEF NextBlock
    <2> QED BY <2>2, <2>3
  <1> QED BY <1>2, <1>3

LEMMA RollbackNext ==
    ASSUME StoreInv, pc = "Idle", NEW H \in SUBSET BlockRef
    PROVE  ComputeRollback(H).resume_from <= NextBlock
  <1> DEFINE resume == ResumeChunks(VolatileHints(H))
  <1>1. chunks \in SUBSET Chunk /\ resume \in SUBSET chunks /\ first_block \in Nat
    BY DEF StoreInv, TypeOK, ResumeChunks, Position
  <1>2. ComputeRollback(H).resume_from = ResumePosition(VolatileHints(H)).number
    BY Zenon DEF ComputeRollback
  <1> USE <1>1, <1>2
  <1>3. CASE resume # {}
    <2>1. LastChunk(resume) \in chunks /\ LastChunk(resume) \in Chunk
      BY <1>3, ChunkEnds, Zenon
    <2>2. ResumePosition(VolatileHints(H)).number = LastChunk(resume).last_block + 1
      BY <1>3, Zenon DEF ResumePosition, Ref
    <2> HIDE DEF resume
    <2>3. LastChunk(resume).last_block <= LastChunk(chunks).last_block /\ LastChunk(chunks) \in Chunk
      BY <2>1, ChunkEnds, Zenon
    <2>4. chunks # {} /\ NextBlock = LastChunk(chunks).last_block + 1
      BY <2>1, StoredHeadTop, Zenon DEF NextBlock
    <2> QED BY <2>1, <2>2, <2>3, <2>4, ChunkSpan, SMTT(20)
  <1>4. CASE resume = {} /\ chunks # {}
    <2>1. /\ FirstChunk(chunks) \in Chunk /\ LastChunk(chunks) \in Chunk
          /\ FirstChunk(chunks).last_block <= LastChunk(chunks).last_block
      BY <1>4, ChunkEnds, Zenon
    <2>2. ResumePosition(VolatileHints(H)).number = FirstChunk(chunks).first_block
      BY <1>4, Zenon DEF ResumePosition, Ref
    <2>3. NextBlock = LastChunk(chunks).last_block + 1
      BY <1>4, StoredHeadTop, Zenon DEF NextBlock
    <2> QED BY <2>1, <2>2, <2>3, ChunkSpan
  <1>5. CASE resume = {} /\ chunks = {}
    <2>1. NextBlock = first_block /\ ResumePosition(VolatileHints(H)).number = first_block
      BY <1>5, Zenon DEF NextBlock, Start, ResumePosition, Ref
    <2> QED BY <2>1, SMTT(20)
  <1> QED BY <1>3, <1>4, <1>5, Zenon

FlowInv == SysInv /\ WriterInv /\ SessionInv /\ NextInv /\ CoverInv

\* A session survives a retention that keeps the head.
LEMMA RetentionSession ==
    ASSUME FlowInv, StoreInv', StartEpoch \/ HandleRetentionChange
    PROVE  SessionInv' /\ NextInv'
  <1> DEFINE f == ClampFloor(retention)
  <1>1. SysInv /\ StoreInv /\ CoverInv /\ WriterInv /\ SessionInv /\ NextInv /\ pc = "Idle" /\ retention \in Strategy
    BY Zenon DEF FlowInv, SysInv, SysTypeOK, StartEpoch, HandleRetentionChange
  <1> USE <1>1
  <1>2. retention.kind = "FromBlock" => f.number \in Position
    BY StrategyFields, Zenon DEF ClampFloor, StoreInv, TypeOK
  <1>3. /\ retention.kind = "FromBlock" => ApplyFloor(f)
        /\ retention.kind # "FromBlock" => UNCHANGED vars
    BY StrategyFields, Zenon DEF StartEpoch, HandleRetentionChange
  <1>4. UNCHANGED vars => ~ Booting' /\ NextBlock' = NextBlock
    BY Zenon DEF vars, Booting, store, window, NextBlock, Start
  <1>5. /\ ~ Booting'
        /\ KeptHead(f) \/ retention.kind # "FromBlock" => NextBlock' = NextBlock
    BY <1>2, <1>3, <1>4, RetainWindow, Zenon DEF ApplyFloor, KeptHead
  <1>6. \/ ing' = None /\ chan' = None /\ answer' = None
        \/ UNCHANGED <<session, ctl>> /\ (KeptHead(f) \/ retention.kind # "FromBlock")
    <2>1. CASE StartEpoch
      BY <2>1 DEF StartEpoch, SessionInv, session
    <2>2. CASE HandleRetentionChange /\ retention.kind = "FromBlock"
      BY <2>2, Zenon DEF HandleRetentionChange, DropIngest, control
    <2>3. CASE HandleRetentionChange /\ retention.kind # "FromBlock"
      BY <2>3, StrategyFields, Zenon DEF HandleRetentionChange, DropIngest
    <2> QED BY <2>1, <2>2, <2>3, Zenon
  <1>7. NextBlock \in Nat
    BY NextBlockType
  <1> HIDE DEF f
  <1>8. CASE ing' = None /\ chan' = None /\ answer' = None
    BY <1>5, <1>8, NoSession
  <1>9. CASE UNCHANGED <<session, ctl>> /\ (KeptHead(f) \/ retention.kind # "FromBlock")
    BY <1>5, <1>7, <1>9, SameSession
  <1> QED BY <1>6, <1>8, <1>9

\* The messages the controller takes from the channel.
LEMMA MessageSession ==
    ASSUME FlowInv, StoreInv', HandleNewChunk \/ HandleFinalizedHead \/ HandleFork
    PROVE  SessionInv' /\ NextInv'
  <1>1. SysInv /\ StoreInv /\ SysTypeOK /\ WriterInv /\ SessionInv /\ NextInv /\ CoverInv
    BY SMTT(20) DEF FlowInv, SysInv
  <1>2. pc = "Idle" /\ ctl = "Ingest"
    BY Zenon DEF HandleNewChunk, HandleFinalizedHead, HandleFork, Receives
  <1> USE <1>1, <1>2
  <1>3. ASSUME EpochEnds
        PROVE  SessionInv' /\ NextInv'
    BY <1>3, NoSession, SMTT(20) DEF EpochEnds, DropIngest
  <1>4. CASE HandleNewChunk /\ ~ EpochEnds
    <2>1. /\ Pending("NewChunk") /\ NewChunk(chan.report, chan.chunk, keep)
          /\ chan' = None /\ ing' = ing /\ answer' = answer /\ ctl' = ctl
      BY <1>4, Zenon DEF HandleNewChunk, Receives, Pending, control
    <2> USE <2>1
    <2>2. chan.chunk \in Chunk
      BY SessionFields, Zenon
    <2>3. NextBlock' = chan.chunk.last_block + 1
      BY <2>2, InsertWindow, Zenon DEF NextInv
    <2>4. pc' = "SetHead" /\ todo'.then \in {"Idle", "Trim"}
      BY DEF NewChunk, Unmodified
    <2>5. answer' = None
      BY Zenon DEF SessionInv, Pending
    <2>6. SessionInv'
      BY <2>4, <2>5, Zenon DEF SessionInv, Booting, Pending
    <2>7. ing # None =>
             ing.first_block <= NextBlock' /\ Dense(ing.blocks, ing.first_block, ing.pos - 1)
      BY <2>2, <2>3, ChunkSpan, SMTT(20) DEF NextInv
    <2> QED BY <2>5, <2>6, <2>7, Zenon DEF NextInv, Pending
  <1>5. CASE HandleFinalizedHead /\ ~ EpochEnds
    <2>1. /\ Pending("FinalizedHead") /\ chan.report \in BlockRef
          /\ Finalize(chan.report) \/ UNCHANGED vars
          /\ chan' = None /\ ing' = ing /\ answer' = answer /\ ctl' = ctl
      BY <1>5, Zenon DEF HandleFinalizedHead, Receives, Pending, control, SysTypeOK, Message
    <2> USE <2>1
    <2>2. NextBlock' = NextBlock /\ ~ Booting
      BY QuietStep, Zenon DEF Booting
    <2>3. ~ Booting'
      BY <2>2, QuietStep, Zenon
    <2>4. answer = None /\ ~ Pending("NewChunk")
      BY Zenon DEF SessionInv, Pending
    <2> QED BY <2>2, <2>3, <2>4, Zenon DEF SessionInv, NextInv, Pending
  <1>6. CASE HandleFork /\ ~ EpochEnds
    <2>1. /\ Pending("Fork") /\ chan.hints \in SUBSET BlockRef /\ UNCHANGED vars
          /\ answer' = ComputeRollback(chan.hints) /\ chan' = None /\ ing' = ing /\ ctl' = ctl
      BY <1>6, Zenon DEF HandleFork, Receives, Pending, control, SysTypeOK, Message
    <2> USE <2>1
    <2>2. NextBlock' = NextBlock /\ ~ Booting'
      BY Zenon DEF vars, store, window, NextBlock, Start, Booting
    <2>3. answer'.resume_from <= NextBlock' /\ ing'.state = "Await"
      BY <2>2, RollbackNext, Zenon DEF SessionInv
    <2> QED BY <2>2, <2>3, Zenon DEF SessionInv, NextInv, Pending
  <1> QED BY <1>3, <1>4, <1>5, <1>6

LEMMA ControllerSession ==
    ASSUME FlowInv, StoreInv', ControllerStep
    PROVE  SessionInv' /\ NextInv'
  <1>1. SysInv /\ StoreInv /\ WriterInv /\ SessionInv /\ NextInv /\ CoverInv /\ NextBlock \in Nat
    BY NextBlockType DEF FlowInv, SysInv
  <1>2. ASSUME ctl # "Ingest", UNCHANGED session, Booting' => ctl' = "Start"
        PROVE  SessionInv' /\ NextInv'
    BY <1>1, <1>2, NoSession, Zenon DEF SessionInv, session
  <1>3. ASSUME pc = "Idle", UNCHANGED vars
        PROVE  ~ Booting' /\ NextBlock' = NextBlock
    BY <1>3 DEF vars, Booting, store, window, NextBlock, Start
  <1>4. ASSUME WriterStep, NewWriter
        PROVE  SessionInv' /\ NextInv'
    BY <1>1, <1>2, <1>4, Zenon DEF WriterStep, NewWriter, SessionInv, Booting, control
  <1>5. ASSUME WriterStep, SetHead \/ SetFin \/ Trim
        PROVE  SessionInv' /\ NextInv'
    <2>1. NextBlock <= NextBlock' /\ (Booting' => Booting)
      BY <1>1, <1>5, QuietStep, TrimNext
    <2> QED BY <1>1, <1>5, <2>1, SameSession, Zenon DEF WriterStep, control
  <1>6. CASE BootStep
    <2>1. pc = "Boot" /\ UNCHANGED <<session, control>>
      BY <1>6, Zenon DEF BootStep, InitRetention, InitRetentionRefused, BootDone
    <2> QED BY <1>1, <1>2, <2>1, Zenon DEF SessionInv, Booting, control
  <1>7. CASE InitState \/ PauseOver
    BY <1>2, <1>3, <1>7, Zenon DEF InitState, PauseOver
  <1>8. ASSUME NEW top \in BlockNumber, HeadProbe(top)
        PROVE  SessionInv' /\ NextInv'
    <2>1. ctl = "HeadProbe" /\ pc = "Idle" /\ UNCHANGED session
      BY <1>8, Zenon DEF HeadProbe
    <2>2. ~ Booting'
      <3>1. UNCHANGED vars \/ \E floor : RetainTx(floor, None)
        BY <1>8, Zenon DEF HeadProbe
      <3>2. ASSUME NEW floor, RetainTx(floor, None) PROVE pc' = "SetHead" /\ todo'.then = "Idle"
        BY <3>2, Zenon DEF RetainTx, Unmodified
      <3> QED BY <1>3, <2>1, <3>1, <3>2 DEF Booting
    <2> QED BY <1>2, <2>1, <2>2
  <1>9. CASE SpawnIngest
    <2>1. /\ pc = "Idle" /\ UNCHANGED vars /\ chan' = None /\ answer' = None /\ ctl' = "Ingest"
          /\ head = StoredHead(chunks)
      BY <1>1, <1>9, Zenon DEF SpawnIngest, WriterInv, SyncInv
    <2>2. head # None <=> chunks # {}
      BY <1>1, <2>1, StoredHeadTop, Zenon DEF StoredHead, StoreInv, TypeOK
    <2>3. \E parent : ing' = Positioned(NextBlock, parent, None)
      BY <1>9, <2>1, <2>2, Zenon DEF SpawnIngest, NextBlock, Start
    <2>4. ing'.first_block = NextBlock /\ ing'.pos = NextBlock /\ ing'.state = "Run"
      BY <2>3 DEF Positioned
    <2>5. Dense(ing'.blocks, ing'.first_block, ing'.pos - 1)
      BY <1>1, <2>4 DEF Dense
    <2>6. /\ NextBlock' = NextBlock /\ NextBlock \in Nat
          /\ ~ Pending("NewChunk")' /\ ~ Pending("Fork")' /\ ~ Booting'
      BY <1>1, <1>3, <2>1, Zenon DEF Pending, Booting, vars
    <2>7. SessionInv'
      BY <2>1, <2>4, <2>6, Zenon DEF SessionInv
    <2>8. NextInv'
      BY <2>1, <2>4, <2>5, <2>6 DEF NextInv
    <2> QED BY <2>7, <2>8, SMTT(20)
  <1>10. CASE IngestClosed
    BY <1>3, <1>10, NoSession, Zenon DEF IngestClosed, DropIngest
  <1> QED BY <1>4, <1>5, <1>6, <1>7, <1>8, <1>9, <1>10, RetentionSession, MessageSession, Zenon
          DEF ControllerStep, WriterStep

LEMMA StepFlowInv == FlowInv /\ [SysNext]_sysvars => FlowInv'
  <1> SUFFICES ASSUME FlowInv, [SysNext]_sysvars PROVE FlowInv'
    OBVIOUS
  <1>1. SysInv /\ StoreInv /\ WriterInv /\ SessionInv /\ NextInv /\ CoverInv /\ NextBlock \in Nat
    BY NextBlockType DEF FlowInv, SysInv
  <1>2. [OpenNext]_vars /\ SysTypeOK'
    BY <1>1, SysStepIsOpen, SysTypeStep
  <1>3. WriterInv' /\ StoreInv' /\ SysInv'
    BY <1>1, <1>2, StepWriterInv, Zenon DEF WriterInv, SysInv
  <1>4. CoverInv'
    <2>1. CASE AcceptsChunk
      <3>1. Pending("NewChunk") /\ NewChunk(chan.report, chan.chunk, keep)
        BY <2>1, Zenon DEF AcceptsChunk, Receives, Pending
      <3>2. chan.chunk \in Chunk
        BY <1>1, <3>1, SessionFields, Zenon DEF SysInv
      <3> QED BY <1>1, <3>1, <3>2, InsertWindow, Zenon DEF NextInv
    <2> QED BY <1>1, <2>1, CoverStep, SysStepIsOther, SMTT(20)
  <1>5. SessionInv' /\ NextInv'
    <2>1. ASSUME UNCHANGED <<vars, session, control>>
          PROVE  SessionInv' /\ NextInv'
      <3>1. NextBlock' = NextBlock /\ Booting' = Booting
        BY <2>1, Zenon DEF vars, store, window, NextBlock, Start, Booting
      <3> QED BY <1>1, <1>3, <2>1, <3>1, SameSession DEF control
    <2>2. CASE SourceStep \/ (\E s \in Strategies : RequestRetention(s)) \/ UNCHANGED sysvars
      BY <2>1, <2>2 DEF SourceStep, Extend, Reorg, SourceFinalizes, RequestRetention, sysvars
    <2>3. CASE Fault
      BY <2>3, NoSession DEF Fault, EpochEnds, DropIngest
    <2>4. CASE Compaction
      <3>1. NextBlock' = NextBlock /\ Booting' = Booting
        BY <1>1, <2>4, CompactWindow, Zenon DEF Compaction, Compact, Booting
      <3> QED BY <1>1, <1>3, <2>4, <3>1, SameSession DEF Compaction, control
    <2> QED BY <1>1, <1>3, <2>2, <2>3, <2>4, IngestSession, ControllerSession, Zenon DEF SysNext
  <1> QED BY <1>3, <1>4, <1>5 DEF FlowInv

LEMMA FlowInvariant == SysSpec => []FlowInv
  <1>1. SysInit => FlowInv
    <2> SUFFICES ASSUME SysInit PROVE FlowInv
      OBVIOUS
    <2>1. SysInv /\ WriterInv
      BY SysInitInv, InitWriterInv DEF SysInit
    <2> QED BY <2>1, Zenon DEF SysInit, Init, FlowInv, SessionInv, NextInv, CoverInv, Pending
  <1> QED BY <1>1, StepFlowInv, PTL DEF SysSpec

\* Every block from the start of the window to the head is stored, whatever
\* retention is asked for and whenever (handle_retention_change, spawn_ingest,
\* compute_rollback): no task goes on above a window that starts anew.
THEOREM WindowStaysComplete == SysSpec => []WindowComplete
  <1>1. FlowInv => WindowComplete
    <2> SUFFICES ASSUME FlowInv, pc = "Idle", head # None, NEW h \in first_block .. head.number
                 PROVE  StoredAt(chunks, h) # {}
      BY SMTT(20) DEF WindowComplete
    <2>1. head = StoredHead(chunks) /\ CoverInv /\ first_block \in Nat /\ chunks \in SUBSET Chunk
      BY DEF FlowInv, WriterInv, SyncInv, StoreInv, TypeOK, Position
    <2>2. chunks # {} /\ FirstChunk(chunks) \in Chunk
      BY <2>1, ChunkEnds DEF StoredHead
    <2>3. FirstChunk(chunks).first_block <= first_block /\ StoredHead(chunks).number \in Nat
      BY <2>1, <2>2, StoredHeadTop, Zenon DEF CoverInv, Start
    <2>4. h \in FirstChunk(chunks).first_block .. StoredHead(chunks).number
      BY <2>1, <2>2, <2>3, ChunkSpan
    <2> QED BY <2>1, <2>2, <2>4 DEF CoverInv
  <1> QED BY <1>1, FlowInvariant, PTL

\* The controller's writer stays in step with the store and publishes only
\* what is committed, under every schedule of the two tasks.
THEOREM ControllerStaysInSync == SysSpec => []WriterInSync
  <1>1. FlowInv => WriterInSync
    BY SyncedWriter DEF FlowInv
  <1> QED BY <1>1, FlowInvariant, PTL

\* A rollback is always one the writer can take, in the whole dataset.
THEOREM ControllerRollbackUsable == SysSpec => []RollbackUsable
  <1>1. FlowInv => RollbackUsable
    BY RollbackFits DEF FlowInv, SysInv
  <1> QED BY <1>1, FlowInvariant, PTL

-----------------------------------------------------------------------------
(* Trims in the whole dataset                                              *)

\* No configuration and no request asks for a window of no blocks.
NonEmpty(s) == s.kind = "Head" => s.n # 0
NoEmptyWindow ==
    /\ \A s \in Strategies : NonEmpty(s)
    /\ \A c \in Configurations : NonEmpty(c.strategy) /\ c.max_blocks # 0

\* The size of the window comes from the configuration or from a request.
KeepInv ==
    /\ NonEmpty(retention) /\ NonEmpty(config.strategy)
    /\ config.max_blocks # 0 /\ keep # 0

LEMMA KeepStep ==
    ASSUME NoEmptyWindow, SysTypeOK, KeepInv, [SysNext]_sysvars
    PROVE  KeepInv'
  <1>1. retention.kind \in {"FromBlock", "Head", "None"} /\ None # 0
    BY StrategyFields, NoneAssumption DEF SysTypeOK
  <1>2. CASE StartEpoch \/ HandleRetentionChange
    <2>1. keep' \in {keep, None, config.max_blocks} \/ (retention.kind = "Head" /\ keep' = retention.n)
      <3>1. CASE StartEpoch
        BY <1>1, <3>1, Zenon DEF StartEpoch
      <3>2. CASE HandleRetentionChange
        BY <1>1, <3>2, Zenon DEF HandleRetentionChange, control
      <3> QED BY <1>2, <3>1, <3>2, Zenon
    <2>2. UNCHANGED <<world, retention>>
      BY <1>2, Zenon DEF StartEpoch, HandleRetentionChange
    <2> QED BY <1>1, <2>1, <2>2, Zenon DEF KeepInv, NonEmpty, world
  <1>3. ASSUME NEW s \in Strategies, RequestRetention(s)
        PROVE  KeepInv'
    BY <1>3 DEF RequestRetention, NoEmptyWindow, KeepInv, world, control
  <1>4. CASE Fault
    BY <1>1, <1>4 DEF Fault, EpochEnds, KeepInv, world, request
  <1>5. ASSUME SourceStep \/ IngestStep \/ IngestFails \/ Compaction \/ WriterStep \/ BootStep \/ InitState
               \/ (\E top \in BlockNumber : HeadProbe(top)) \/ SpawnIngest \/ HandleNewChunk
               \/ HandleFinalizedHead \/ HandleFork \/ IngestClosed \/ PauseOver \/ UNCHANGED sysvars
        PROVE  KeepInv'
    <2>1. UNCHANGED <<config, retention>> /\ keep' \in {keep, None}
      <3>1. CASE SourceStep \/ IngestStep \/ IngestFails
        BY <3>1, Zenon DEF SourceStep, Extend, Reorg, SourceFinalizes, IngestStep, IngestFails, PushBlock, Flush,
                    ReportFinality, ReceiveFork, GetRollback, world, request, control
      <3>2. CASE Compaction \/ WriterStep \/ BootStep \/ InitState \/ (\E top \in BlockNumber : HeadProbe(top))
                 \/ SpawnIngest \/ IngestClosed \/ PauseOver \/ UNCHANGED sysvars
        BY <3>2, Zenon DEF Compaction, WriterStep, BootStep, InitState, HeadProbe, SpawnIngest, IngestClosed, PauseOver,
                    sysvars, world, request, control
      <3>3. CASE HandleNewChunk \/ HandleFinalizedHead \/ HandleFork
        BY <3>3, Zenon DEF HandleNewChunk, HandleFinalizedHead, HandleFork, EpochEnds, world, request, control
      <3> QED BY <1>5, <3>1, <3>2, <3>3
    <2> QED BY <1>1, <2>1, Zenon DEF KeepInv
  <1> QED BY <1>2, <1>3, <1>4, <1>5, Zenon DEF SysNext, ControllerStep

\* As long as nobody asks for a window of no blocks, the floor of a trim lies
\* in a stored chunk in the whole dataset too: the controller may ignore what
\* retain answers (handle_ingest_msg).
THEOREM ControllerTrimsLandInside == NoEmptyWindow /\ SysSpec => []TrimKeepsHead
  <1> SUFFICES ASSUME NoEmptyWindow PROVE SysSpec => []TrimKeepsHead
    OBVIOUS
  <1>1. SysInit => KeepInv /\ FloorInv(1)
    BY NoneAssumption DEF SysInit, Init, NoEmptyWindow, KeepInv, FloorInv
  <1>2. FlowInv /\ KeepInv /\ [SysNext]_sysvars => KeepInv'
    BY KeepStep, Zenon DEF FlowInv, SysInv
  <1>3. FlowInv /\ KeepInv /\ FloorInv(1) /\ [SysNext]_sysvars => FloorInv(1)'
    <2> SUFFICES ASSUME FlowInv, KeepInv, FloorInv(1), [SysNext]_sysvars PROVE FloorInv(1)'
      OBVIOUS
    <2>1. SysInv /\ WriterInv /\ keep \in Nat \cup {None}
      BY Zenon DEF FlowInv, SysInv, SysTypeOK
    <2>2. CASE AcceptsChunk
      <3>1. Pending("NewChunk") /\ NewChunk(chan.report, chan.chunk, keep)
        BY <2>2 DEF AcceptsChunk, Receives, Pending
      <3>2. chan.chunk \in Chunk /\ chan.report \in OptRef
        BY <2>1, <3>1, SessionFields, Zenon DEF SysInv
      <3> QED BY <2>1, <3>1, <3>2, NewFloor DEF KeepInv
    <2> QED BY <2>1, <2>2, FloorStep, SysStepIsOther, Zenon
  <1>4. FlowInv /\ FloorInv(1) => TrimKeepsHead
    BY FloorInside DEF FlowInv
  <1> QED BY <1>1, <1>2, <1>3, <1>4, FlowInvariant, PTL DEF SysSpec

=============================================================================
