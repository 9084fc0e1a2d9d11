------------------------ MODULE WriteControllerProofs ------------------------
(***************************************************************************)
(* Proofs about the writer, for every chain, hash set, source and          *)
(* retention policy.                                                       *)
(***************************************************************************)
EXTENDS WriteController, ChunkStoreProofs

\* A trim that is still to be run has its floor.
FloorPending ==
    (pc = "Trim" \/ (pc \in {"SetHead", "SetFin"} /\ todo.then = "Trim")) => todo.floor \in Position

\* The inductive invariant: what a transaction may rely on when it starts.
StoreInv ==
    /\ TypeOK
    /\ FloorPending
    /\ ChainLinked
    /\ FinalizedStored

\* The steps of the writer whatever a source hands over and whatever
\* retention asks for.
OpenNext ==
    \/ NewWriter \/ StorageError \/ Crash \/ SetHead \/ SetFin \/ Trim \/ BootDone
    \/ \E report \in BlockRef : Finalize(report) \/ FinalizeRefused(report)
    \/ \E chunk \in Chunk, report \in OptRef :
          \/ NewChunkRefused(report, chunk)
          \/ \E n \in Nat \cup {None} : NewChunk(report, chunk, n)
    \/ \E from \in Position, parent \in OptHash :
          \/ Retain(from, parent)
          \/ InitRetention(from, parent)
          \/ InitRetentionRefused(from, parent)
    \/ \E lo, hi \in chunks : Compact(lo, hi)

LEMMA NextIsOpen == [Next]_vars => [OpenNext]_vars
  <1> SUFFICES ASSUME [Next]_vars PROVE [OpenNext]_vars
    OBVIOUS
  <1>1. /\ SourceChunks \subseteq Chunk /\ RetainFloors \subseteq Position
        /\ RetainParents \subseteq OptHash /\ WindowSizes \subseteq Nat
    BY InputAssumption DEF OptHash
  <1> QED BY <1>1 DEF Next, OpenNext

-----------------------------------------------------------------------------
(* Types                                                                   *)

LEMMA NothingType == Nothing \in Assignments
  BY MaxBlockAssumption DEF Nothing, Assignments, OptRef, OptHash, Position

LEMMA UnmodifiedType == TypeOK => Unmodified \in Assignments
  BY DEF TypeOK, Unmodified, Assignments

LEMMA ChunkHeadType ==
    ASSUME NEW c \in Chunk
    PROVE  ChunkHead(c) \in BlockRef
  BY ChunkFields

LEMMA StoredHeadType ==
    ASSUME NEW S \in SUBSET Chunk
    PROVE  /\ StoredHead(S) \in OptRef
           /\ S # {} => StoredHead(S) \in Blocks(S)
  <1>1. CASE S = {}
    BY <1>1 DEF StoredHead, OptRef
  <1>2. CASE S # {}
    <2>1. LastChunk(S) \in S
      BY <1>2, ChunkEnds
    <2>2. ChunkHead(LastChunk(S)) \in LastChunk(S).blocks
      BY <2>1, ChunkFields
    <2> QED BY <1>2, <2>1, <2>2, ChunkHeadType DEF StoredHead, OptRef, Blocks
  <1> QED BY <1>1, <1>2

\* A report that is applied makes a block of the resulting state final, above
\* the finalized block there was: first for a batch, then for a report alone.
LEMMA AppliedInBatch ==
    ASSUME StoreInv, NEW chunk \in Chunk, NEW report \in BlockRef,
           CanInsertFork(chunks, chunk), ResolveFinality(chunk, report) = "Applied"
    PROVE  /\ Effective(chunk, report) \in BlockRef
           /\ Effective(chunk, report) \in Blocks(InsertFork(chunks, chunk))
           /\ label_fin # None => label_fin.number < Effective(chunk, report).number
  <1> DEFINE e == Effective(chunk, report)
             after == InsertFork(chunks, chunk)
  <1>1. chunk # None
    BY NoneAssumption
  <1>2. PostHead(chunk) = ChunkHead(chunk) /\ ChunkHead(chunk) \in BlockRef
    BY <1>1, ChunkHeadType DEF PostHead
  <1>3. e \in BlockRef
    BY <1>2 DEF Effective
  <1>4. label_fin # None => label_fin.number < e.number
    BY <1>3 DEF ResolveFinality, StoreInv, TypeOK, OptRef, BlockRef, BlockNumber
  <1>5. chunk.blocks \subseteq Blocks(after)
    BY DEF InsertFork, Blocks
  <1>6. e \in Blocks(after)
    <2>1. CASE Clamped(chunk, report)
      BY <1>2, <1>5, <2>1, ChunkFields DEF Effective
    <2>2. CASE ~ Clamped(chunk, report)
      <3>1. e = report /\ report \in OwnerAt(chunk, report.number)
        BY <2>2 DEF Effective, ResolveFinality
      <3>2. CASE InBatch(chunk, report.number)
        BY <1>5, <3>1, <3>2 DEF OwnerAt
      <3>3. CASE ~ InBatch(chunk, report.number)
        <4>1. report \in Blocks(chunks)
          BY <3>1, <3>3 DEF OwnerAt, StoredAt
        <4>2. report.number < chunk.first_block
          BY <1>1, <1>2, <2>2, <3>3, ChunkSpan, HeadNumber DEF Clamped, InBatch, BlockRef, BlockNumber
        <4> QED BY <3>1, <4>1, <4>2, InsertForkBlocks DEF StoreInv, TypeOK
      <3> QED BY <3>2, <3>3
    <2> QED BY <2>1, <2>2
  <1> QED BY <1>3, <1>4, <1>6

LEMMA AppliedAlone ==
    ASSUME StoreInv, NEW report \in BlockRef, chunks # {},
           ResolveFinality(None, report) = "Applied"
    PROVE  /\ Effective(None, report) \in BlockRef
           /\ Effective(None, report) \in Blocks(chunks)
           /\ label_fin # None => label_fin.number < Effective(None, report).number
  <1> DEFINE e == Effective(None, report)
  <1>1. PostHead(None) = StoredHead(chunks)
    BY DEF PostHead
  <1>2. StoredHead(chunks) \in Blocks(chunks)
    BY StoredHeadType DEF StoreInv, TypeOK
  <1>3. \A b \in Blocks(chunks) : b \in BlockRef
    BY ChunkFields DEF Blocks, StoreInv, TypeOK
  <1>4. e \in BlockRef
    BY <1>1, <1>2, <1>3 DEF Effective
  <1>5. label_fin # None => label_fin.number < e.number
    BY <1>4 DEF ResolveFinality, StoreInv, TypeOK, OptRef, BlockRef, BlockNumber
  <1>6. e \in Blocks(chunks)
    <2>1. CASE Clamped(None, report)
      BY <1>1, <1>2, <2>1 DEF Effective
    <2>2. CASE ~ Clamped(None, report)
      BY <2>2 DEF Effective, ResolveFinality, OwnerAt, InBatch, StoredAt
    <2> QED BY <2>1, <2>2
  <1> QED BY <1>4, <1>5, <1>6

-----------------------------------------------------------------------------
(* What the transactions do to the store                                   *)

\* A chunk the writer accepts leaves the finalized prefix as it was.
LEMMA AcceptedKeepsPrefix ==
    ASSUME StoreInv, NEW chunk \in Chunk, KeepsFinalized(chunk), CanInsertFork(chunks, chunk),
           label_fin # None
    PROVE  {b \in Blocks(InsertFork(chunks, chunk)) : b.number <= label_fin.number}
              = {b \in Blocks(chunks) : b.number <= label_fin.number}
  <1> DEFINE after == InsertFork(chunks, chunk)
             below == {b \in Blocks(chunks) : b.number < chunk.first_block}
             F == label_fin.number
  <1>1. chunks \in SUBSET Chunk /\ F \in Nat /\ chunk.first_block \in Nat
    BY ChunkSpan DEF StoreInv, TypeOK, OptRef, BlockRef, BlockNumber
  <1>2. /\ {b \in Blocks(after) : b.number < chunk.first_block} = below
        /\ {b \in Blocks(after) : chunk.first_block <= b.number} = chunk.blocks
    BY <1>1, InsertForkBlocks
  <1>3. (\A b \in Blocks(after) : b.number \in Nat) /\ (\A b \in Blocks(chunks) : b.number \in Nat)
    <2>1. after \in SUBSET Chunk
      BY <1>1 DEF InsertFork, ForkSurvivors
    <2> QED BY <1>1, <2>1, ChunkFields DEF Blocks
  <1>4. CASE F < chunk.first_block
    BY <1>1, <1>2, <1>3, <1>4
  <1>5. CASE chunk.first_block <= F
    <2>1. {b \in chunk.blocks : b.number <= F}
             = {b \in Blocks(chunks) : chunk.first_block <= b.number /\ b.number <= F}
      BY <1>5 DEF KeepsFinalized, ReproducesPrefix
    <2> QED BY <1>1, <1>2, <1>3, <1>5, <2>1
  <1> QED BY <1>1, <1>4, <1>5

LEMMA NewChunkStore ==
    ASSUME StoreInv, NEW chunk \in Chunk, NEW report \in OptRef, NEW n,
           NewChunk(report, chunk, n)
    PROVE  /\ chunks' \in SUBSET Chunk
           /\ label_fin' \in OptRef
           /\ Linked(chunks')
           /\ FinalizedStored'
           /\ Ledger!Replace(chunk.first_block)
  <1>1. chunk \in Chunk /\ chunks \in SUBSET Chunk /\ Linked(chunks)
    BY DEF StoreInv, TypeOK, ChainLinked
  <1>2. /\ Applicable(report, chunk)
        /\ chunks' = InsertFork(chunks, chunk)
        /\ label_fin' = FinalizedAfter(report, chunk)
    BY DEF NewChunk
  <1>3. CanInsertFork(chunks, chunk) /\ KeepsFinalized(chunk)
    BY <1>2 DEF Applicable
  <1>4. chunks' \in SUBSET Chunk /\ Linked(chunks')
    BY <1>1, <1>2, <1>3, InsertForkLinked
  <1>5. label_fin # None =>
           {b \in Blocks(chunks') : b.number <= label_fin.number}
              = {b \in Blocks(chunks) : b.number <= label_fin.number}
    BY <1>1, <1>2, <1>3, AcceptedKeepsPrefix
  <1>6. \/ label_fin' = label_fin
        \/ /\ label_fin' \in BlockRef
           /\ label_fin' \in Blocks(chunks')
           /\ label_fin # None => label_fin.number < label_fin'.number
    <2>1. CASE report # None /\ ResolveFinality(chunk, report) = "Applied"
      BY <1>1, <1>2, <1>3, <2>1, AppliedInBatch DEF FinalizedAfter, OptRef
    <2>2. CASE ~ (report # None /\ ResolveFinality(chunk, report) = "Applied")
      BY <1>2, <2>2 DEF FinalizedAfter
    <2> QED BY <2>1, <2>2
  <1>7. label_fin # None => label_fin \in Blocks(chunks')
    <2> HAVE label_fin # None
    <2>1. label_fin \in Blocks(chunks) /\ label_fin.number <= label_fin.number
      BY DEF StoreInv, FinalizedStored, TypeOK, OptRef, BlockRef, BlockNumber
    <2> QED BY <1>5, <2>1
  <1>8. label_fin' \in OptRef /\ FinalizedStored'
    BY <1>6, <1>7 DEF StoreInv, TypeOK, FinalizedStored, OptRef
  <1>9. Ledger!Replace(chunk.first_block)
    <2>1. {b \in Blocks(chunks') : b.number < chunk.first_block}
             = {b \in Blocks(chunks) : b.number < chunk.first_block}
      BY <1>1, <1>2, <1>3, InsertForkBlocks
    <2>2. \E b \in Blocks(chunks') : chunk.first_block <= b.number
      <3>1. ChunkHead(chunk) \in Blocks(chunks')
        BY <1>1, <1>2, ChunkFields DEF InsertFork, Blocks
      <3> QED BY <1>1, <3>1, ChunkSpan, HeadNumber
    <2>3. \A b, d \in Blocks(chunks') : b.number = d.number => b = d
      BY <1>4, BlocksFunctional
    <2>4. Ledger!FinalizedPart(Blocks(chunks')) = Ledger!FinalizedPart(Blocks(chunks))
      BY <1>5 DEF Ledger!FinalizedPart
    <2>5. Ledger!FinAdvances
      BY <1>6 DEF Ledger!FinAdvances
    <2> QED BY <2>1, <2>2, <2>3, <2>4, <2>5 DEF Ledger!Replace
  <1> QED BY <1>1, <1>4, <1>8, <1>9

LEMMA RetainStore ==
    ASSUME StoreInv, NEW from \in Position, NEW parent, RetainTx(from, parent)
    PROVE  /\ chunks' \in SUBSET Chunk
           /\ label_fin' \in OptRef
           /\ Linked(chunks')
           /\ FinalizedStored'
           /\ \/ Ledger!Reset
              \/ \E p \in Position : Ledger!Trim(p)
  <1>1. chunks \in SUBSET Chunk /\ Linked(chunks) /\ label_fin \in OptRef /\ from \in Int
    BY DEF StoreInv, TypeOK, ChainLinked, Position
  <1>2. CASE ~ KeepsHead(from, parent)
    <2>1. chunks' = {} /\ label_fin' = None
      BY <1>2 DEF RetainTx
    <2>2. Linked({}) /\ Blocks({}) = {}
      BY DEF Linked, Blocks
    <2> QED BY <2>1, <2>2 DEF Ledger!Reset, FinalizedStored, OptRef
  <1>3. CASE KeepsHead(from, parent)
    <2> DEFINE kept == {c \in chunks : from <= c.last_block}
    <2>1. chunks' = kept /\ label_fin' = IF FinalizedKept(from) THEN label_fin ELSE None
      BY <1>3 DEF RetainTx
    <2>2. PICK o \in Owner(chunks, from) : TRUE
      BY <1>3 DEF KeepsHead
    <2>3. /\ o \in kept /\ Linked(kept)
          /\ \A c \in kept : o.first_block <= c.first_block
          /\ Blocks(kept) = {b \in Blocks(chunks) : o.first_block <= b.number}
      BY <1>1, RetainedSuffix
    <2>4. o.first_block \in Position
      BY <1>1, <2>3, ChunkFields, MaxBlockAssumption DEF Position
    <2>5. \A c \in Owner(chunks, from) : c = o
      BY <1>1, ChunkSpan DEF Owner, Linked
    <2>6. FinalizedKept(from) <=> (label_fin # None /\ o.first_block <= label_fin.number)
      BY <2>2, <2>5 DEF FinalizedKept
    <2>7. Ledger!Trim(o.first_block)
      BY <2>1, <2>3, <2>6 DEF Ledger!Trim
    <2>8. FinalizedStored'
      BY <2>1, <2>3, <2>6 DEF FinalizedStored, StoreInv
    <2>9. label_fin' \in OptRef
      BY <1>1, <2>1 DEF OptRef
    <2> QED BY <1>1, <2>1, <2>3, <2>4, <2>7, <2>8, <2>9, Zenon
  <1> QED BY <1>2, <1>3

LEMMA CompactStore ==
    ASSUME StoreInv, NEW lo \in chunks, NEW hi \in chunks, Compact(lo, hi)
    PROVE  /\ chunks' \in SUBSET Chunk
           /\ Linked(chunks')
           /\ Blocks(chunks') = Blocks(chunks)
  <1>1. chunks \in SUBSET Chunk /\ Linked(chunks)
    BY DEF StoreInv, TypeOK, ChainLinked
  <1>2. /\ lo.last_block < hi.first_block
        /\ chunks' = (chunks \ MergeRun(chunks, lo, hi)) \cup {MergedChunk(chunks, lo, hi)}
    BY DEF Compact
  <1> QED BY <1>1, <1>2, MergeLinked

-----------------------------------------------------------------------------
(* Types of the steps that assign the writer's fields                      *)

LEMMA TrimFloorType ==
    ASSUME NEW first \in OptRef, NEW next_block \in Position, NEW n \in Nat \cup {None}
    PROVE  TrimFloor(first, next_block, n) \in Position \cup {None}
  BY MaxBlockAssumption, NoneAssumption
     DEF TrimFloor, Position, OptRef, BlockRef, BlockNumber

LEMMA NewWriterType ==
    ASSUME StoreInv, NewWriter
    PROVE  TypeOK' /\ FloorPending'
  <1>1. chunks \in SUBSET Chunk /\ label_fin \in OptRef
    BY DEF StoreInv, TypeOK
  <1>2. /\ first_block' \in Position
        /\ parent_block_hash' \in OptHash
        /\ first_chunk_head' \in OptRef
    <2>1. CASE chunks = {}
      BY <2>1, MaxBlockAssumption, SMTT(20) DEF NewWriter, Position, OptHash, OptRef
    <2>2. CASE chunks # {}
      <3>1. FirstChunk(chunks) \in Chunk
        BY <1>1, <2>2, ChunkEnds
      <3> QED BY <2>2, <3>1, ChunkFields, ChunkHeadType, MaxBlockAssumption
              DEF NewWriter, Position, OptHash, OptRef
    <2> QED BY <2>1, <2>2
  <1>3. StoredHead(chunks) \in OptRef
    BY <1>1, StoredHeadType
  <1>4. todo' \in Assignments /\ todo'.then # "Trim"
    BY <1>1, <1>2, <1>3 DEF NewWriter, Assignments
  <1> QED BY <1>2, <1>4 DEF NewWriter, StoreInv, TypeOK, FloorPending, store, watch

LEMMA NewChunkType ==
    ASSUME StoreInv, NEW chunk \in Chunk, NEW report \in OptRef,
           NEW n \in Nat \cup {None}, NewChunk(report, chunk, n)
    PROVE  TypeOK' /\ FloorPending'
  <1>1. /\ chunk \in Chunk /\ chunks' \in SUBSET Chunk /\ label_fin' \in OptRef
        /\ label_fin' = FinalizedAfter(report, chunk)
    BY NewChunkStore, Zenon DEF NewChunk
  <1>2. ChunkHead(chunk) \in OptRef /\ FirstHeadAfter(chunk) \in OptRef
    BY <1>1, ChunkHeadType DEF FirstHeadAfter, StoreInv, TypeOK, OptRef
  <1> DEFINE floor == TrimFloor(FirstHeadAfter(chunk), chunk.last_block + 1, n)
  <1>3. floor \in Position \cup {None}
    <2>1. chunk.last_block + 1 \in Position
      BY <1>1, ChunkFields, MaxBlockAssumption DEF Position
    <2> QED BY <1>2, <2>1, TrimFloorType
  <1>4. todo' = [Unmodified EXCEPT !.head = ChunkHead(chunk),
                                   !.finalized_head = FinalizedAfter(report, chunk),
                                   !.first_chunk_head = FirstHeadAfter(chunk),
                                   !.then = IF floor = None THEN "Idle" ELSE "Trim",
                                   !.floor = floor]
    BY DEF NewChunk
  <1> HIDE DEF floor
  <1>5. Unmodified \in Assignments
    BY UnmodifiedType DEF StoreInv
  <1>6. todo' \in Assignments /\ (todo'.then = "Trim" => todo'.floor \in Position)
    BY <1>1, <1>2, <1>3, <1>4, <1>5, Zenon DEF Assignments
  <1>7. pc' = "SetHead" /\ UNCHANGED <<window, watch>>
    BY DEF NewChunk
  <1> QED BY <1>1, <1>6, <1>7 DEF StoreInv, TypeOK, FloorPending, window, watch

LEMMA RetainType ==
    ASSUME StoreInv, NEW from \in Position, NEW parent \in OptHash, RetainTx(from, parent)
    PROVE  TypeOK' /\ FloorPending'
  <1>1. chunks \in SUBSET Chunk /\ chunks' \in SUBSET Chunk /\ label_fin' \in OptRef
    BY RetainStore DEF StoreInv, TypeOK
  <1>2. Unmodified \in Assignments /\ Unmodified.then = "Idle"
    BY UnmodifiedType DEF StoreInv, Unmodified
  <1> DEFINE kept == {c \in chunks : from <= c.last_block}
             start == [Unmodified EXCEPT !.first_block = from, !.parent_block_hash = parent]
  <1>3. start \in Assignments /\ start.then = "Idle"
    BY <1>2, Zenon DEF Assignments
  <1>4. todo' \in Assignments /\ todo'.then = "Idle"
    <2>1. CASE ~ KeepsHead(from, parent)
      <3>1. todo' = [start EXCEPT !.head = None, !.finalized_head = None, !.first_chunk_head = None]
        BY <2>1 DEF RetainTx
      <3> HIDE DEF start
      <3> QED BY <1>3, <3>1, Zenon DEF Assignments, OptRef
    <2>2. CASE KeepsHead(from, parent)
      <3>1. todo' = [start EXCEPT !.head = StoredHead(chunks), !.finalized_head = label_fin',
                                  !.first_chunk_head = ChunkHead(FirstChunk(kept))]
        BY <2>2, Zenon DEF RetainTx
      <3>2. kept # {}
        BY <2>2 DEF KeepsHead, Owner
      <3>3. FirstChunk(kept) \in Chunk
        BY <1>1, <3>2, ChunkEnds
      <3>4. StoredHead(chunks) \in OptRef /\ ChunkHead(FirstChunk(kept)) \in OptRef
        BY <1>1, <3>3, StoredHeadType, ChunkHeadType DEF OptRef
      <3> HIDE DEF start, kept
      <3> QED BY <1>1, <1>3, <3>1, <3>4, Zenon DEF Assignments
    <2> QED BY <2>1, <2>2
  <1>5. pc' = "SetHead" /\ UNCHANGED <<window, watch>>
    BY DEF RetainTx
  <1> QED BY <1>1, <1>4, <1>5 DEF StoreInv, TypeOK, FloorPending, window, watch

-----------------------------------------------------------------------------
(* The invariant                                                           *)

LEMMA InitStoreInv == Init => StoreInv
  <1> SUFFICES ASSUME Init PROVE StoreInv
    OBVIOUS
  <1>1. TypeOK /\ FloorPending
    BY NothingType, MaxBlockAssumption DEF Init, TypeOK, FloorPending, OptRef, OptHash, Position
  <1>2. ChainLinked /\ FinalizedStored
    BY DEF Init, ChainLinked, Linked, FinalizedStored
  <1> QED BY <1>1, <1>2 DEF StoreInv

\* Steps that leave the store alone only have to keep the types.
LEMMA StoreUnchanged ==
    ASSUME StoreInv, UNCHANGED store, TypeOK', FloorPending'
    PROVE  StoreInv'
  BY DEF StoreInv, store, ChainLinked, FinalizedStored

LEMMA DropWriterInv ==
    ASSUME StoreInv, DropWriter, UNCHANGED store, pc' \in {"Down", "Crashed"},
           head' \in OptRef, finalized_head' \in OptRef
    PROVE  StoreInv'
  <1>1. TypeOK' /\ FloorPending'
    BY NothingType, MaxBlockAssumption
       DEF StoreInv, TypeOK, FloorPending, DropWriter, store, OptRef, OptHash, Position
  <1> QED BY <1>1, StoreUnchanged

LEMMA EndEpochInv == ASSUME StoreInv, EndEpoch PROVE StoreInv'
  BY DropWriterInv DEF EndEpoch, StoreInv, TypeOK, store, watch

LEMMA CrashInv == ASSUME StoreInv, Crash PROVE StoreInv'
  BY DropWriterInv DEF Crash, OptRef

LEMMA StepStoreInv == StoreInv /\ [OpenNext]_vars => StoreInv'
  <1> SUFFICES ASSUME StoreInv, [OpenNext]_vars PROVE StoreInv'
    OBVIOUS
  <1>1. CASE NewWriter
    BY <1>1, NewWriterType, StoreUnchanged, Zenon DEF NewWriter, store
  <1>2. CASE StorageError
    BY <1>2, EndEpochInv DEF StorageError
  <1>3. CASE Crash
    BY <1>3, CrashInv
  <1>4. CASE SetHead
    <2>1. TypeOK' /\ FloorPending'
      BY <1>4 DEF SetHead, StoreInv, TypeOK, FloorPending, Assignments, store, window
    <2> QED BY <1>4, <2>1, StoreUnchanged DEF SetHead, store
  <1>5. CASE SetFin
    <2>1. [Nothing EXCEPT !.floor = todo.floor] \in Assignments
      BY NothingType DEF StoreInv, TypeOK, Assignments
    <2>2. todo' \in Assignments /\ (todo.then = "Trim" => todo'.floor = todo.floor)
      BY <1>5, <2>1, NothingType DEF SetFin, Nothing
    <2>3. TypeOK'
      BY <1>5, <2>2 DEF SetFin, StoreInv, TypeOK, Assignments, store
    <2>4. FloorPending'
      BY <1>5, <2>2 DEF SetFin, StoreInv, TypeOK, FloorPending, Assignments
    <2> QED BY <1>5, <2>3, <2>4, StoreUnchanged DEF SetFin, store
  <1>6. ASSUME NEW report \in BlockRef, Finalize(report)
        PROVE  StoreInv'
    <2>1. /\ Effective(None, report) \in BlockRef
          /\ Effective(None, report) \in Blocks(chunks)
      BY <1>6, AppliedAlone DEF Finalize, ControlledAlone
    <2>2. Unmodified \in Assignments /\ Unmodified.then = "Idle"
      BY UnmodifiedType DEF StoreInv, Unmodified
    <2>3. todo' \in Assignments /\ todo'.then = "Idle"
      BY <1>6, <2>1, <2>2 DEF Finalize, Assignments, OptRef
    <2>4. TypeOK' /\ FloorPending'
      BY <1>6, <2>1, <2>3 DEF Finalize, StoreInv, TypeOK, FloorPending, OptRef, window, watch
    <2>5. ChainLinked' /\ FinalizedStored'
      BY <1>6, <2>1 DEF Finalize, StoreInv, ChainLinked, FinalizedStored
    <2> QED BY <2>4, <2>5 DEF StoreInv
  <1>7. ASSUME NEW report \in BlockRef, FinalizeRefused(report)
        PROVE  StoreInv'
    BY <1>7, EndEpochInv DEF FinalizeRefused
  <1>8. ASSUME NEW chunk \in Chunk, NEW report \in OptRef, NewChunkRefused(report, chunk)
        PROVE  StoreInv'
    BY <1>8, EndEpochInv DEF NewChunkRefused
  <1>9. ASSUME NEW chunk \in Chunk, NEW report \in OptRef,
               NEW n \in Nat \cup {None}, NewChunk(report, chunk, n)
        PROVE  StoreInv'
    BY <1>9, NewChunkStore, NewChunkType DEF StoreInv, ChainLinked
  <1>10. ASSUME NEW from \in Position, NEW parent \in OptHash, RetainTx(from, parent)
         PROVE  StoreInv'
    BY <1>10, RetainStore, RetainType DEF StoreInv, ChainLinked
  <1>11. ASSUME NEW from \in Position, NEW parent \in OptHash,
                \/ Retain(from, parent)
                \/ InitRetention(from, parent)
                \/ InitRetentionRefused(from, parent)
         PROVE  StoreInv'
    BY <1>10, <1>11, CrashInv DEF Retain, InitRetention, InitRetentionRefused
  <1>12. CASE Trim
    <2>1. todo.floor \in Position /\ None \in OptHash
      BY <1>12 DEF Trim, StoreInv, FloorPending, OptHash
    <2>2. CASE StartsAt(todo.floor, None)
      <3>1. TypeOK' /\ FloorPending'
        BY <1>12, <2>2, NothingType DEF Trim, StoreInv, TypeOK, FloorPending, store, window, watch
      <3> QED BY <1>12, <2>2, <3>1, StoreUnchanged DEF Trim, store
    <2>3. CASE ~ StartsAt(todo.floor, None)
      BY <1>10, <1>12, <2>1, <2>3 DEF Trim
    <2> QED BY <2>2, <2>3
  <1>13. CASE BootDone
    <2>1. TypeOK' /\ FloorPending'
      BY <1>13 DEF BootDone, StoreInv, TypeOK, FloorPending, store, window, watch
    <2> QED BY <1>13, <2>1, StoreUnchanged DEF BootDone, store
  <1>14. ASSUME NEW lo \in chunks, NEW hi \in chunks, Compact(lo, hi)
         PROVE  StoreInv'
    <2>1. TypeOK' /\ FloorPending'
      BY <1>14, CompactStore, Zenon DEF Compact, StoreInv, TypeOK, FloorPending, window, watch
    <2> QED BY <1>14, <2>1, CompactStore DEF Compact, StoreInv, ChainLinked, FinalizedStored
  <1>15. CASE UNCHANGED vars
    BY <1>15 DEF vars, store, window, watch, StoreInv, TypeOK, FloorPending, ChainLinked, FinalizedStored
  <1> QED BY <1>1, <1>2, <1>3, <1>4, <1>5, <1>6, <1>7, <1>8, <1>9, <1>11, <1>12, <1>13, <1>14, <1>15
          DEF OpenNext

\* The store invariant holds in every state of every writer.
THEOREM StoreInvariant == Spec => []StoreInv
  BY InitStoreInv, StepStoreInv, NextIsOpen, PTL DEF Spec

\* The variables keep their types, the trim arithmetic of trim_floor included.
THEOREM TypeCorrect == Spec => []TypeOK
  <1>1. StoreInv => TypeOK
    BY DEF StoreInv
  <1> QED BY <1>1, StoreInvariant, PTL

\* Whatever forks, trims and compactions do (new_chunk, insert_fork, _retain,
\* DatasetCompaction), the stored chunks tile the window and link by hash.
THEOREM ChainAlwaysLinked == Spec => []ChainLinked
  <1>1. StoreInv => ChainLinked
    BY DEF StoreInv
  <1> QED BY <1>1, StoreInvariant, PTL

\* The finalized head of the label always names a stored block
\* (resolve_finality, _retain).
THEOREM FinalizedAlwaysStored == Spec => []FinalizedStored
  <1>1. StoreInv => FinalizedStored
    BY DEF StoreInv
  <1> QED BY <1>1, StoreInvariant, PTL

-----------------------------------------------------------------------------
(* The ledger                                                              *)

\* Every step of the writer, a compaction or a crash is a ledger step or
\* leaves the ledger alone.
LEMMA LedgerStep ==
    StoreInv /\ [OpenNext]_vars => [Ledger!Next]_<<Blocks(chunks), label_fin>>
  <1> SUFFICES ASSUME StoreInv, [OpenNext]_vars
               PROVE  Ledger!Next \/ (Blocks(chunks') = Blocks(chunks) /\ label_fin' = label_fin)
    OBVIOUS
  <1>1. CASE UNCHANGED store
    BY <1>1 DEF store
  <1>2. ASSUME NEW report \in BlockRef, Finalize(report)
        PROVE  Ledger!Next
    <2>1. Ledger!FinAdvances /\ Blocks(chunks') = Blocks(chunks)
      BY <1>2, AppliedAlone DEF Finalize, ControlledAlone, Ledger!FinAdvances
    <2> QED BY <2>1 DEF Ledger!Next, Ledger!Finalize
  <1>3. ASSUME NEW chunk \in Chunk, NEW report \in OptRef, NEW n, NewChunk(report, chunk, n)
        PROVE  Ledger!Next
    <2>1. chunk \in Chunk /\ Ledger!Replace(chunk.first_block)
      BY <1>3, NewChunkStore
    <2>2. chunk.first_block \in Position
      BY <2>1, ChunkFields, MaxBlockAssumption DEF Position
    <2> QED BY <2>1, <2>2 DEF Ledger!Next
  <1>4. ASSUME NEW from \in Position, NEW parent, RetainTx(from, parent)
        PROVE  Ledger!Next
    BY <1>4, RetainStore DEF Ledger!Next
  <1>5. ASSUME NEW from \in Position, NEW parent, Retain(from, parent) \/ InitRetention(from, parent)
        PROVE  Ledger!Next
    BY <1>4, <1>5 DEF Retain, InitRetention
  <1>6. ASSUME Trim, ~ UNCHANGED store
        PROVE  Ledger!Next
    <2>1. todo.floor \in Position
      BY <1>6 DEF Trim, StoreInv, FloorPending
    <2> QED BY <1>4, <1>6, <2>1 DEF Trim
  <1>7. ASSUME NEW lo \in chunks, NEW hi \in chunks, Compact(lo, hi)
        PROVE  Blocks(chunks') = Blocks(chunks) /\ label_fin' = label_fin
    BY <1>7, CompactStore DEF Compact
  <1>8. ASSUME \/ NewWriter \/ StorageError \/ Crash \/ SetHead \/ SetFin \/ BootDone
               \/ UNCHANGED vars
               \/ \E report \in BlockRef : FinalizeRefused(report)
               \/ \E chunk \in Chunk, report \in OptRef : NewChunkRefused(report, chunk)
               \/ \E from \in Position, parent \in OptHash : InitRetentionRefused(from, parent)
        PROVE  UNCHANGED store
    BY <1>8 DEF NewWriter, StorageError, Crash, SetHead, SetFin, BootDone, vars, FinalizeRefused,
                NewChunkRefused, InitRetentionRefused, EndEpoch, store
  <1> QED BY <1>1, <1>2, <1>3, <1>5, <1>6, <1>7, <1>8 DEF OpenNext

\* The detailed writer implements the ledger: what a snapshot shows changes
\* only by replacing a suffix above the finalized block, advancing finality,
\* trimming a prefix or a reset (write_controller.rs against its promise).
THEOREM WriterImplementsLedger == Spec => ImplementsLedger
  <1>1. Init => Ledger!Init
    BY DEF Init, Ledger!Init, Blocks
  <1> QED BY <1>1, StoreInvariant, LedgerStep, NextIsOpen, PTL DEF Spec, ImplementsLedger, Ledger!Spec

-----------------------------------------------------------------------------
(* Finality                                                                *)

LEMMA RetainedFinality ==
    ASSUME StoreInv, NEW from \in Position, NEW parent, RetainTx(from, parent), label_fin # None
    PROVE  /\ \A b \in BlockRef :
                 \/ b \in Blocks(chunks) <=> b \in Blocks(chunks')
                 \/ \A c \in chunks' : b.number < c.first_block
           /\ \/ label_fin' = label_fin
              \/ label_fin' = None /\ \A c \in chunks' : label_fin.number < c.first_block
  <1>1. chunks \in SUBSET Chunk /\ Linked(chunks) /\ label_fin \in BlockRef /\ from \in Int
    BY DEF StoreInv, TypeOK, ChainLinked, Position, OptRef
  <1>2. CASE ~ KeepsHead(from, parent)
    BY <1>2 DEF RetainTx
  <1>3. CASE KeepsHead(from, parent)
    <2> DEFINE kept == {c \in chunks : from <= c.last_block}
    <2>1. chunks' = kept /\ label_fin' = IF FinalizedKept(from) THEN label_fin ELSE None
      BY <1>3 DEF RetainTx
    <2>2. PICK o \in Owner(chunks, from) : TRUE
      BY <1>3 DEF KeepsHead
    <2>3. /\ o \in kept /\ Linked(kept)
          /\ \A c \in kept : o.first_block <= c.first_block
          /\ Blocks(kept) = {b \in Blocks(chunks) : o.first_block <= b.number}
      BY <1>1, RetainedSuffix
    <2>4. o.first_block \in Nat /\ \A c \in kept : c.first_block \in Nat
      BY <1>1, <2>3, ChunkFields, Zenon
    <2>5. ASSUME NEW b \in BlockRef
          PROVE  \/ b \in Blocks(chunks) <=> b \in Blocks(kept)
                 \/ \A c \in kept : b.number < c.first_block
      BY <2>3, <2>4 DEF BlockRef, BlockNumber
    <2>6. ~ FinalizedKept(from) => \A c \in kept : label_fin.number < c.first_block
      BY <1>1, <2>2, <2>3, <2>4 DEF FinalizedKept, BlockRef, BlockNumber
    <2> QED BY <2>1, <2>5, <2>6
  <1> QED BY <1>2, <1>3

\* One step neither rewrites the finalized prefix nor moves finality back.
LEMMA FinalityStep ==
    ASSUME StoreInv, [OpenNext]_vars, label_fin # None
    PROVE  /\ \A b \in BlockRef : b.number <= label_fin.number =>
                 \/ b \in Blocks(chunks) <=> b \in Blocks(chunks')
                 \/ \A c \in chunks' : b.number < c.first_block
           /\ \/ label_fin' = label_fin
              \/ label_fin' = None /\ \A c \in chunks' : label_fin.number < c.first_block
              \/ label_fin' # None /\ label_fin.number < label_fin'.number
  <1>1. CASE UNCHANGED store
    BY <1>1 DEF store
  <1>2. ASSUME NEW report \in BlockRef, Finalize(report)
        PROVE  /\ chunks' = chunks
               /\ label_fin' # None /\ label_fin.number < label_fin'.number
    BY <1>2, AppliedAlone, NoneAssumption DEF Finalize, ControlledAlone
  <1>3. ASSUME NEW chunk \in Chunk, NEW report \in OptRef, NEW n, NewChunk(report, chunk, n)
        PROVE  /\ \A b \in BlockRef : b.number <= label_fin.number =>
                     (b \in Blocks(chunks) <=> b \in Blocks(chunks'))
               /\ \/ label_fin' = label_fin
                  \/ label_fin' # None /\ label_fin.number < label_fin'.number
    <2>1. Ledger!Replace(chunk.first_block) /\ FinalizedStored' /\ chunks' \in SUBSET Chunk
      BY <1>3, NewChunkStore
    <2>2. {b \in Blocks(chunks') : b.number <= label_fin.number}
             = {b \in Blocks(chunks) : b.number <= label_fin.number}
      BY <2>1 DEF Ledger!Replace, Ledger!FinalizedPart
    <2>3. \/ label_fin' = label_fin
          \/ label_fin' \in Blocks(chunks') /\ label_fin.number < label_fin'.number
      BY <2>1 DEF Ledger!Replace, Ledger!FinAdvances
    <2>4. \A b \in Blocks(chunks') : b # None
      BY <2>1, ChunkFields, NoneAssumption DEF Blocks
    <2> QED BY <2>2, <2>3, <2>4
  <1>4. ASSUME NEW from \in Position, NEW parent, Retain(from, parent) \/ InitRetention(from, parent)
        PROVE  RetainTx(from, parent) /\ from \in Position
    BY <1>4 DEF Retain, InitRetention
  <1>5. ASSUME Trim, ~ UNCHANGED store
        PROVE  RetainTx(todo.floor, None) /\ todo.floor \in Position
    BY <1>5 DEF Trim, StoreInv, FloorPending
  <1>6. ASSUME NEW lo \in chunks, NEW hi \in chunks, Compact(lo, hi)
        PROVE  Blocks(chunks') = Blocks(chunks) /\ label_fin' = label_fin
    BY <1>6, CompactStore DEF Compact
  <1>7. ASSUME \/ NewWriter \/ StorageError \/ Crash \/ SetHead \/ SetFin \/ BootDone
               \/ UNCHANGED vars
               \/ \E report \in BlockRef : FinalizeRefused(report)
               \/ \E chunk \in Chunk, report \in OptRef : NewChunkRefused(report, chunk)
               \/ \E from \in Position, parent \in OptHash : InitRetentionRefused(from, parent)
        PROVE  UNCHANGED store
    BY <1>7 DEF NewWriter, StorageError, Crash, SetHead, SetFin, BootDone, vars, FinalizeRefused,
                NewChunkRefused, InitRetentionRefused, EndEpoch, store
  <1> QED BY <1>1, <1>2, <1>3, <1>4, <1>5, <1>6, <1>7, RetainedFinality, Zenon DEF OpenNext

\* No step rewrites a finalized block or inserts one next to it
\* (validate_finalized_prefix, insert_fork, _retain, DatasetCompaction).
THEOREM FinalizedNeverRewritten == Spec => FinalizedImmutable
  <1>1. StoreInv /\ [OpenNext]_vars =>
           [\A b \in BlockRef : (label_fin # None /\ b.number <= label_fin.number) =>
               \/ b \in Blocks(chunks) <=> b \in Blocks(chunks')
               \/ \A c \in chunks' : b.number < c.first_block]_vars
    BY FinalityStep
  <1> QED BY <1>1, StoreInvariant, NextIsOpen, PTL DEF Spec, FinalizedImmutable

\* The finalized head only moves forward, and is forgotten only together with
\* its block (resolve_finality, _retain).
THEOREM FinalityNeverRegresses == Spec => FinalityMonotone
  <1>1. StoreInv /\ [OpenNext]_vars =>
           [(label_fin # None /\ label_fin' # label_fin) =>
               IF label_fin' = None
               THEN \A c \in chunks' : label_fin.number < c.first_block
               ELSE label_fin.number < label_fin'.number]_vars
    BY FinalityStep
  <1> QED BY <1>1, StoreInvariant, NextIsOpen, PTL DEF Spec, FinalityMonotone

\* Finality is firm, for every chain length, hash set, window and schedule.
THEOREM FinalityIsFirm == Spec => FinalityFirm
  BY FinalizedNeverRewritten, FinalityNeverRegresses, SMTT(20) DEF FinalityFirm

-----------------------------------------------------------------------------
(* The writer's copy of the committed state                                *)

\* The head of the first chunk as the writer remembers it: a block number of
\* the first chunk, though a compaction may have moved that chunk's end.
FirstHeadOf(S, f) ==
    IF S = {} THEN f = None
    ELSE f # None /\ f.number \in FirstChunk(S).first_block .. FirstChunk(S).last_block

\* What the writer has published, and what it is about to assign, agrees with
\* what is committed.
SyncInv ==
    /\ pc \in {"SetHead", "SetFin"} =>
          todo.head = StoredHead(chunks) /\ todo.finalized_head = label_fin
    /\ pc \in {"SetFin", "Idle", "Boot", "Trim", "Down"} => head = StoredHead(chunks)
    /\ pc \in {"Idle", "Boot", "Trim", "Down"} => finalized_head = label_fin
    /\ pc = "Crashed" => finalized_head = None

\* The writer's copy of the first chunk's head.
FirstHeadInv ==
    /\ pc \in {"SetHead", "SetFin"} => FirstHeadOf(chunks, todo.first_chunk_head)
    /\ pc \in {"Idle", "Boot", "Trim"} => FirstHeadOf(chunks, first_chunk_head)

\* A published finalized head is no higher than the committed one, and than
\* the head, committed or published.
FinInv ==
    finalized_head # None =>
        /\ label_fin # None => finalized_head.number <= label_fin.number
        /\ chunks # {} => finalized_head.number <= StoredHead(chunks).number
        /\ head # None => finalized_head.number <= head.number

\* A trim to come has a floor in the window, k blocks or more below its end.
FloorInv(k) ==
    (pc = "Trim" \/ (pc \in {"SetHead", "SetFin"} /\ todo.then = "Trim")) =>
        /\ chunks # {}
        /\ FirstChunk(chunks).first_block <= todo.floor
        /\ todo.floor + k <= StoredHead(chunks).number + 1

WriterInv == StoreInv /\ SyncInv /\ FirstHeadInv /\ FinInv /\ FloorInv(0)

-----------------------------------------------------------------------------
(* Rollbacks                                                               *)

\* compute_rollback resumes on a boundary of the stored chunks, deep enough
\* for every hint that contradicts them.
LEMMA ResumeFits ==
    ASSUME StoreInv, NEW V \in SUBSET BlockRef
    PROVE  LET p == ResumePosition(V)
           IN  /\ WindowStart <= p.number
               /\ \A c \in Owner(chunks, p.number) : c.first_block = p.number
               /\ \A c \in chunks : c.last_block + 1 = p.number => c.last_block_hash = p.hash
               /\ \A b \in V :
                     ( /\ StoredAt(chunks, b.number) # {}
                       /\ \A a \in V : a \in Blocks(chunks) => a.number < b.number )
                     => p.number <= b.number
  <1> DEFINE p == ResumePosition(V)
             first == FirstChunk(chunks)
             last == LastChunk(ResumeChunks(V))
  <1>1. chunks \in SUBSET Chunk /\ Linked(chunks) /\ first_block \in Nat
    BY DEF StoreInv, TypeOK, ChainLinked, Position
  <1>2. \A b \in V : b.number \in Nat
    BY DEF BlockRef, BlockNumber
  <1>3. chunks # {} => /\ first \in chunks /\ WindowStart = first.first_block
                       /\ \A c \in chunks : first.first_block <= c.first_block
    BY <1>1, ChunkEnds, FirstChunkStart DEF WindowStart
  <1>4. ResumeChunks(V) # {} =>
           /\ last \in chunks /\ p.number = last.last_block + 1 /\ p.hash = last.last_block_hash
           /\ ChunkHead(last) \in V \/ \A b \in V : last.last_block < b.number
    <2> HAVE ResumeChunks(V) # {}
    <2>1. ResumeChunks(V) \in SUBSET Chunk
      BY <1>1 DEF ResumeChunks
    <2>2. last \in ResumeChunks(V)
      BY <2>1, ChunkEnds
    <2>3. p.number = last.last_block + 1 /\ p.hash = last.last_block_hash
      BY DEF ResumePosition, Ref
    <2> HIDE DEF last, p
    <2> QED BY <2>2, <2>3, Zenon DEF ResumeChunks
  <1>5. ResumeChunks(V) = {} /\ chunks # {} =>
           p.number = first.first_block /\ p.hash = first.parent_block_hash
    BY Zenon DEF ResumePosition, Ref
  <1>6. chunks = {} => p.number = first_block /\ WindowStart = first_block
    BY Zenon DEF ResumePosition, ResumeChunks, WindowStart, Ref
  <1> HIDE DEF p, first, last
  <1>7. \A c \in chunks : c \in Chunk
    BY <1>1
  <1>8. CASE ResumeChunks(V) # {}
    <2>1. /\ last \in Chunk /\ first \in Chunk /\ last \in chunks /\ first \in chunks
          /\ ChunkHead(last) \in Blocks(chunks) /\ ChunkHead(last).number = last.last_block
      BY <1>1, <1>3, <1>4, <1>8, ChunkFields DEF Blocks
    <2>2. WindowStart <= p.number
      BY <1>3, <1>4, <1>8, <2>1, ChunkSpan
    <2>3. \A c \in chunks : c = last \/ c.last_block < last.first_block \/ last.last_block < c.first_block
      BY <1>1, <2>1 DEF Linked
    <2>4. \A c \in Owner(chunks, p.number) : c.first_block = p.number
      BY <1>4, <1>7, <1>8, <2>1, <2>3, ChunkSpan DEF Owner
    <2>5. \A c \in chunks : c.last_block + 1 = p.number => c = last
      BY <1>4, <1>7, <1>8, <2>1, <2>3, ChunkSpan
    <2>6. ASSUME NEW b \in V, \A a \in V : a \in Blocks(chunks) => a.number < b.number
          PROVE  p.number <= b.number
      BY <1>2, <1>4, <1>8, <2>1, <2>6, ChunkSpan
    <2> QED BY <1>4, <1>8, <2>2, <2>4, <2>5, <2>6, Zenon DEF p
  <1>9. CASE ResumeChunks(V) = {} /\ chunks # {}
    <2>1. first \in Chunk /\ first \in chunks /\ p.number = first.first_block /\ WindowStart = p.number
      BY <1>1, <1>3, <1>5, <1>9
    <2>2. p.number \in Nat /\ WindowStart <= p.number
      BY <2>1, ChunkSpan
    <2>3. \A c \in chunks : p.number <= c.first_block
      BY <1>3, <1>9, <2>1
    <2>4. \A c \in Owner(chunks, p.number) : c.first_block = p.number
      BY <1>7, <2>2, <2>3, ChunkSpan DEF Owner
    <2>5. \A c \in chunks : c.last_block + 1 # p.number
      BY <1>7, <2>2, <2>3, ChunkSpan
    <2>6. ASSUME NEW b \in V, StoredAt(chunks, b.number) # {}
          PROVE  p.number <= b.number
      <3>1. PICK c \in chunks, d \in BlockRef : d \in c.blocks /\ d.number = b.number
        BY <1>7, <2>6, ChunkFields DEF StoredAt, Blocks
      <3> QED BY <1>7, <2>2, <2>3, <3>1, ChunkFields
    <2> QED BY <2>2, <2>4, <2>5, <2>6, Zenon DEF p
  <1>10. CASE chunks = {}
    <2>1. Owner(chunks, p.number) = {} /\ \A b \in V : StoredAt(chunks, b.number) = {}
      BY <1>10 DEF Owner, StoredAt, Blocks
    <2>2. WindowStart <= p.number
      BY <1>1, <1>6, <1>10
    <2> QED BY <1>10, <2>1, <2>2, Zenon DEF p
  <1> QED BY <1>8, <1>9, <1>10, Zenon

\* A rollback is usable in every state of the store.
LEMMA RollbackFits == StoreInv => RollbackUsable
  <1> SUFFICES ASSUME StoreInv, NEW H \in Hints
               PROVE  LET r == ComputeRollback(H)
                      IN  /\ WindowStart <= r.resume_from
                          /\ \A c \in Owner(chunks, r.resume_from) : c.first_block = r.resume_from
                          /\ \A c \in chunks : c.last_block + 1 = r.resume_from =>
                                                   c.last_block_hash = r.expected_parent_hash
                          /\ label_fin # None =>
                                r.reach_at_least = (IF r.resume_from <= label_fin.number
                                                    THEN label_fin.number ELSE None)
                          /\ \A b \in VolatileHints(H) :
                                ( /\ StoredAt(chunks, b.number) \notin {{}, {b}}
                                  /\ \A a \in VolatileHints(H) : a \in Blocks(chunks) => a.number < b.number )
                                => r.resume_from <= b.number
    BY Zenon DEF RollbackUsable
  <1> DEFINE V == VolatileHints(H)
             r == ComputeRollback(H)
  <1>1. V \in SUBSET BlockRef
    BY DEF VolatileHints, Hints
  <1>2. /\ r.resume_from = ResumePosition(V).number /\ r.expected_parent_hash = ResumePosition(V).hash
        /\ label_fin # None =>
              r.reach_at_least = (IF r.resume_from <= label_fin.number THEN label_fin.number ELSE None)
    BY Zenon DEF ComputeRollback
  <1> HIDE DEF r, V
  <1> QED BY <1>1, <1>2, ResumeFits, Zenon DEF r, V

\* Whatever forks, trims and compactions left, the answer to a source's list
\* of previous blocks is a position the writer accepts a chunk at
\* (compute_rollback against new_chunk).
THEOREM RollbackAlwaysUsable == Spec => []RollbackUsable
  BY RollbackFits, StoreInvariant, PTL

-----------------------------------------------------------------------------
(* What is published, and what the writer remembers                        *)

LEMMA StoredHeadTop ==
    ASSUME NEW S \in SUBSET Chunk, S # {}
    PROVE  /\ LastChunk(S) \in Chunk /\ StoredHead(S) = ChunkHead(LastChunk(S))
           /\ StoredHead(S) # None
           /\ StoredHead(S).number \in Nat /\ StoredHead(S).number = LastChunk(S).last_block
           /\ \A b \in Blocks(S) : b.number <= StoredHead(S).number
  <1>1. LastChunk(S) \in S /\ \A c \in S : c.last_block <= LastChunk(S).last_block
    BY ChunkEnds
  <1>2. StoredHead(S) = ChunkHead(LastChunk(S)) /\ ChunkHead(LastChunk(S)) \in BlockRef
    BY <1>1, ChunkHeadType DEF StoredHead
  <1>3. ASSUME NEW b \in Blocks(S) PROVE b.number <= LastChunk(S).last_block
    <2>1. PICK c \in S : b \in c.blocks
      BY DEF Blocks
    <2>2. c \in Chunk /\ LastChunk(S) \in Chunk
      BY <1>1
    <2> QED BY <1>1, <2>1, <2>2, ChunkFields
  <1> QED BY <1>1, <1>2, <1>3, ChunkSpan, HeadNumber, NoneAssumption

\* The steps that assign and publish, and those that lose the writer.
LEMMA PublishStep ==
    ASSUME WriterInv, UNCHANGED store,
           \/ NewWriter \/ SetHead \/ SetFin \/ BootDone \/ UNCHANGED vars
           \/ Trim /\ StartsAt(todo.floor, None)
    PROVE  SyncInv' /\ FirstHeadInv' /\ FinInv'
  <1>1. chunks' = chunks /\ label_fin' = label_fin /\ chunks \in SUBSET Chunk
    BY DEF store, WriterInv, StoreInv, TypeOK
  <1>2. CASE NewWriter
    <2>1. /\ pc \in {"Crashed", "Down"} /\ pc' = "SetHead" /\ head' = head /\ finalized_head' = finalized_head
          /\ todo'.head = StoredHead(chunks) /\ todo'.finalized_head = label_fin
          /\ todo'.first_chunk_head = IF chunks # {} THEN ChunkHead(FirstChunk(chunks)) ELSE None
      BY <1>2, Zenon DEF NewWriter, watch
    <2>2. chunks # {} => FirstChunk(chunks) \in Chunk
      BY <1>1, ChunkEnds
    <2>3. FirstHeadOf(chunks, todo'.first_chunk_head)
      BY <1>1, <2>1, <2>2, ChunkSpan, HeadNumber, ChunkHeadType, NoneAssumption DEF FirstHeadOf
    <2> QED BY <1>1, <2>1, <2>3, Zenon DEF WriterInv, SyncInv, FirstHeadInv, FinInv
  <1>3. CASE SetHead
    <2>1. /\ pc = "SetHead" /\ pc' = "SetFin" /\ head' = todo.head /\ finalized_head' = finalized_head
          /\ todo' = todo
      BY <1>3 DEF SetHead
    <2>2. chunks = {} => StoredHead(chunks) = None
      BY DEF StoredHead
    <2> QED BY <1>1, <2>1, <2>2, Zenon DEF WriterInv, SyncInv, FirstHeadInv, FinInv
  <1>4. CASE SetFin
    <2>1. /\ pc = "SetFin" /\ pc' \in {"Idle", "Trim", "Boot"} /\ head' = head
          /\ finalized_head' = todo.finalized_head /\ first_chunk_head' = todo.first_chunk_head
      BY <1>4 DEF SetFin, WriterInv, StoreInv, TypeOK, Assignments
    <2>2. label_fin # None => /\ label_fin \in Blocks(chunks) /\ chunks # {} /\ label_fin.number \in Nat
                              /\ label_fin.number <= StoredHead(chunks).number
      BY <1>1, StoredHeadTop
         DEF WriterInv, StoreInv, FinalizedStored, TypeOK, OptRef, BlockRef, BlockNumber, Blocks
    <2>3. FinInv'
      BY <1>1, <2>1, <2>2 DEF WriterInv, SyncInv, FinInv
    <2> QED BY <1>1, <2>1, <2>3, Zenon DEF WriterInv, SyncInv, FirstHeadInv
  <1>5. CASE BootDone \/ UNCHANGED vars \/ (Trim /\ StartsAt(todo.floor, None))
    <2>1. /\ head' = head /\ finalized_head' = finalized_head /\ first_chunk_head' = first_chunk_head
          /\ (pc' = pc /\ todo' = todo) \/ (pc \in {"Boot", "Trim"} /\ pc' = "Idle")
      BY <1>5 DEF BootDone, Trim, vars, window, watch
    <2> QED BY <1>1, <2>1, Zenon DEF WriterInv, SyncInv, FirstHeadInv, FinInv
  <1> QED BY <1>2, <1>3, <1>4, <1>5

LEMMA LoseWriterStep ==
    ASSUME WriterInv, Crash \/ (pc \in {"Idle", "Trim"} /\ EndEpoch)
    PROVE  SyncInv' /\ FirstHeadInv' /\ FinInv'
  <1>1. chunks' = chunks /\ label_fin' = label_fin
    BY DEF Crash, EndEpoch, store
  <1>2. \/ pc' = "Crashed" /\ head' = None /\ finalized_head' = None
        \/ pc' = "Down" /\ pc \in {"Idle", "Trim"} /\ head' = head /\ finalized_head' = finalized_head
    BY SMTT(20) DEF Crash, EndEpoch, watch
  <1> QED BY <1>1, <1>2, Zenon DEF WriterInv, SyncInv, FirstHeadInv, FinInv

LEMMA FinalizeStep ==
    ASSUME WriterInv, NEW report \in BlockRef, Finalize(report)
    PROVE  SyncInv' /\ FirstHeadInv' /\ FinInv'
  <1>1. /\ chunks' = chunks /\ label_fin' = Effective(None, report) /\ pc = "Idle" /\ pc' = "SetFin"
        /\ head' = head /\ finalized_head' = finalized_head
        /\ todo'.head = head /\ todo'.first_chunk_head = first_chunk_head /\ todo'.finalized_head = label_fin'
    BY DEF Finalize, Unmodified, watch
  <1>2. label_fin # None => label_fin.number < label_fin'.number /\ label_fin.number \in Nat
                            /\ label_fin'.number \in Nat
    BY <1>1, AppliedAlone
       DEF Finalize, ControlledAlone, WriterInv, StoreInv, TypeOK, OptRef, BlockRef, BlockNumber
  <1>3. FinInv'
    BY <1>1, <1>2 DEF WriterInv, SyncInv, FinInv
  <1> QED BY <1>1, <1>3, Zenon DEF WriterInv, SyncInv, FirstHeadInv

\* A new chunk, or a fork that replaces the first chunk, has its head.
LEMMA FirstHeadKept ==
    ASSUME WriterInv, pc = "Idle", NEW chunk \in Chunk, CanInsertFork(chunks, chunk), ~ StaleBoundary(chunk)
    PROVE  FirstHeadOf(InsertFork(chunks, chunk), FirstHeadAfter(chunk))
  <1> DEFINE after == InsertFork(chunks, chunk)
             first == FirstChunk(chunks)
  <1>1. chunks \in SUBSET Chunk /\ Linked(chunks) /\ FirstHeadOf(chunks, first_chunk_head) /\ after # {}
    BY DEF WriterInv, StoreInv, TypeOK, ChainLinked, FirstHeadInv, InsertFork
  <1>2. ChunkHead(chunk) # None /\ ChunkHead(chunk).number \in chunk.first_block .. chunk.last_block
    BY ChunkSpan, HeadNumber, ChunkHeadType, NoneAssumption
  <1>3. CASE ForkSurvivors(chunks, chunk) = {}
    <2>1. FirstChunk(after) = chunk
      BY <1>1, <1>3, ForkEnds
    <2>2. FirstHeadAfter(chunk) = ChunkHead(chunk)
      <3>1. CASE chunks = {}
        BY <1>1, <3>1, SMTT(20) DEF FirstHeadOf, FirstHeadAfter
      <3>2. CASE chunks # {}
        <4>1. first \in chunks /\ first \in Chunk
          BY <1>1, <3>2, ChunkEnds
        <4>2. chunk.first_block <= first.first_block
          BY <1>3, <4>1, ChunkSpan DEF ForkSurvivors
        <4> QED BY <1>1, <3>2, <4>1, <4>2, ChunkSpan DEF FirstHeadOf, FirstHeadAfter
      <3> QED BY <3>1, <3>2
    <2> QED BY <1>1, <1>2, <2>1, <2>2 DEF FirstHeadOf
  <1>4. CASE ForkSurvivors(chunks, chunk) # {}
    <2>1. FirstChunk(after) = first /\ chunks # {} /\ first \in chunks /\ first \in Chunk
      BY <1>1, <1>4, ForkEnds, ChunkEnds, SMTT(20) DEF ForkSurvivors
    <2>2. first.first_block < chunk.first_block
      BY <1>1, <1>4, <2>1, FirstChunkStart, ChunkSpan DEF ForkSurvivors
    <2>3. first.last_block < chunk.first_block
      BY <2>1, <2>2, ChunkSpan, SMTT(20) DEF StaleBoundary, Owner
    <2>4. FirstHeadAfter(chunk) = first_chunk_head
      BY <1>1, <2>1, <2>3, ChunkSpan, SMTT(20) DEF FirstHeadOf, FirstHeadAfter
    <2> QED BY <1>1, <2>1, <2>4 DEF FirstHeadOf
  <1> QED BY <1>3, <1>4

\* The head after an accepted chunk is the chunk's.
LEMMA ForkHead ==
    ASSUME StoreInv, NEW chunk \in Chunk, CanInsertFork(chunks, chunk)
    PROVE  LET after == InsertFork(chunks, chunk)
           IN  /\ after \in SUBSET Chunk /\ after # {}
               /\ StoredHead(after) = ChunkHead(chunk)
               /\ StoredHead(after).number = chunk.last_block /\ chunk.last_block \in Nat
  <1> DEFINE after == InsertFork(chunks, chunk)
  <1>1. chunks \in SUBSET Chunk /\ Linked(chunks)
    BY DEF StoreInv, TypeOK, ChainLinked
  <1>2. after \in SUBSET Chunk /\ LastChunk(after) = chunk
    BY <1>1, ForkEnds, InsertForkLinked
  <1>3. after # {}
    BY DEF InsertFork
  <1> HIDE DEF after
  <1>4. StoredHead(after) = ChunkHead(chunk) /\ StoredHead(after).number = chunk.last_block
    BY <1>2, <1>3, StoredHeadTop, SMTT(20)
  <1> QED BY <1>2, <1>3, <1>4, ChunkFields, Zenon DEF after

LEMMA InsertStep ==
    ASSUME WriterInv, NEW chunk \in Chunk, NEW report \in OptRef, NEW n, NewChunk(report, chunk, n)
    PROVE  SyncInv' /\ FirstHeadInv' /\ FinInv'
  <1>1. /\ chunks' = InsertFork(chunks, chunk) /\ pc = "Idle" /\ pc' = "SetHead"
        /\ head' = head /\ finalized_head' = finalized_head
        /\ todo'.head = ChunkHead(chunk) /\ todo'.finalized_head = label_fin'
        /\ todo'.first_chunk_head = FirstHeadAfter(chunk)
    BY DEF NewChunk, Unmodified, watch
  <1>2. CanInsertFork(chunks, chunk) /\ ~ StaleBoundary(chunk) /\ KeepsFinalized(chunk)
    BY DEF NewChunk, Applicable
  <1>3. FirstHeadOf(chunks', todo'.first_chunk_head)
    BY <1>1, <1>2, FirstHeadKept, SMTT(20)
  <1>4. StoredHead(chunks') = ChunkHead(chunk) /\ StoredHead(chunks').number = chunk.last_block
    BY <1>1, <1>2, ForkHead, Zenon DEF WriterInv
  <1>5. finalized_head = label_fin /\ head = StoredHead(chunks)
    BY <1>1 DEF WriterInv, SyncInv
  <1>6. label_fin # None =>
           /\ label_fin.number \in Nat /\ label_fin.number <= chunk.last_block
           /\ label_fin' # None => label_fin.number <= label_fin'.number
    <2> HAVE label_fin # None
    <2>1. label_fin \in BlockRef /\ label_fin.number \in Nat
      BY SMTT(20) DEF WriterInv, StoreInv, TypeOK, OptRef, BlockRef, BlockNumber
    <2>2. label_fin.number <= chunk.last_block
      BY <1>2, <2>1, ChunkSpan DEF KeepsFinalized
    <2>3. Ledger!FinAdvances /\ chunks' \in SUBSET Chunk
      BY NewChunkStore DEF WriterInv, Ledger!Replace
    <2>4. label_fin' = label_fin \/ (label_fin' \in Blocks(chunks') /\ label_fin.number < label_fin'.number)
      BY <2>3 DEF Ledger!FinAdvances
    <2>5. \A b \in Blocks(chunks') : b.number \in Nat
      BY <2>3, ChunkFields, Zenon DEF Blocks
    <2> QED BY <2>1, <2>2, <2>4, <2>5
  <1>7. FinInv'
    BY <1>1, <1>4, <1>5, <1>6, Zenon DEF WriterInv, FinInv
  <1> QED BY <1>1, <1>3, <1>4, <1>7, Zenon DEF SyncInv, FirstHeadInv

LEMMA RetainStep ==
    ASSUME WriterInv, NEW from \in Position, NEW parent, RetainTx(from, parent),
           pc \in {"Idle", "Trim", "Boot"}
    PROVE  SyncInv' /\ FirstHeadInv' /\ FinInv'
  <1> DEFINE kept == {c \in chunks : from <= c.last_block}
  <1>1. /\ pc' = "SetHead" /\ head' = head /\ finalized_head' = finalized_head
        /\ todo'.finalized_head = label_fin'
    BY Zenon DEF RetainTx, Unmodified, watch
  <1>2. /\ head = StoredHead(chunks) /\ finalized_head = label_fin
        /\ chunks \in SUBSET Chunk /\ Linked(chunks) /\ from \in Int
    BY SMTT(20) DEF WriterInv, SyncInv, StoreInv, TypeOK, ChainLinked, Position
  <1>3. CASE KeepsHead(from, parent)
    <2>1. PICK o \in Owner(chunks, from) : TRUE
      BY <1>3 DEF KeepsHead
    <2>2. /\ chunks' = kept /\ todo'.head = StoredHead(chunks)
          /\ todo'.first_chunk_head = ChunkHead(FirstChunk(kept))
          /\ label_fin' = label_fin \/ label_fin' = None
      BY <1>3, Zenon DEF RetainTx, Unmodified
    <2>3. LastChunk(kept) = LastChunk(chunks) /\ FirstChunk(kept) = o /\ o \in kept /\ o \in Chunk
      BY <1>2, RetainEnds, RetainedSuffix, Zenon
    <2> HIDE DEF kept
    <2>4. StoredHead(chunks') = StoredHead(chunks)
      BY <2>2, <2>3, SMTT(20) DEF StoredHead, Owner
    <2>5. FirstHeadOf(chunks', todo'.first_chunk_head)
      BY <2>2, <2>3, ChunkSpan, HeadNumber, ChunkHeadType, NoneAssumption, SMTT(20) DEF FirstHeadOf
    <2>6. FinInv'
      BY <1>1, <2>1, <2>2, <2>4, Zenon DEF WriterInv, FinInv, Owner
    <2> QED BY <1>1, <2>2, <2>4, <2>5, <2>6, Zenon DEF SyncInv, FirstHeadInv
  <1>4. CASE ~ KeepsHead(from, parent)
    <2>1. /\ chunks' = {} /\ label_fin' = None /\ todo'.head = None /\ todo'.first_chunk_head = None
      BY <1>4, Zenon DEF RetainTx, Unmodified
    <2>2. StoredHead(chunks') = None
      BY <2>1 DEF StoredHead
    <2> QED BY <1>1, <2>1, <2>2, Zenon DEF WriterInv, SyncInv, FirstHeadInv, FirstHeadOf, FinInv
  <1> QED BY <1>3, <1>4

\* A compaction moves neither the head nor the start of the window, and the
\* end of the first chunk only up.
LEMMA CompactEnds ==
    ASSUME WriterInv, NEW lo \in chunks, NEW hi \in chunks, Compact(lo, hi)
    PROVE  /\ chunks # {} /\ chunks' # {} /\ chunks' \in SUBSET Chunk
           /\ StoredHead(chunks') = StoredHead(chunks)
           /\ FirstChunk(chunks') \in Chunk /\ FirstChunk(chunks) \in Chunk
           /\ FirstChunk(chunks').first_block = FirstChunk(chunks).first_block
           /\ FirstChunk(chunks).last_block <= FirstChunk(chunks').last_block
  <1>1. /\ chunks \in SUBSET Chunk /\ Linked(chunks) /\ lo.last_block < hi.first_block /\ chunks # {}
        /\ chunks' = (chunks \ MergeRun(chunks, lo, hi)) \cup {MergedChunk(chunks, lo, hi)}
    BY DEF WriterInv, StoreInv, TypeOK, ChainLinked, Compact
  <1>2. chunks' \in SUBSET Chunk /\ chunks' # {}
    BY <1>1, CompactStore DEF WriterInv
  <1>3. FirstChunk(chunks') \in Chunk /\ FirstChunk(chunks) \in Chunk
    BY <1>1, <1>2, ChunkEnds, Zenon
  <1>4. /\ ChunkHead(LastChunk(chunks')) = ChunkHead(LastChunk(chunks))
        /\ FirstChunk(chunks').first_block = FirstChunk(chunks).first_block
        /\ FirstChunk(chunks).last_block <= FirstChunk(chunks').last_block
    BY <1>1, MergeEnds, Zenon
  <1> QED BY <1>1, <1>2, <1>3, <1>4, Zenon DEF StoredHead

LEMMA CompactStep ==
    ASSUME WriterInv, NEW lo \in chunks, NEW hi \in chunks, Compact(lo, hi)
    PROVE  SyncInv' /\ FirstHeadInv' /\ FinInv'
  <1>1. /\ label_fin' = label_fin /\ head' = head /\ finalized_head' = finalized_head
        /\ pc' = pc /\ todo' = todo /\ first_chunk_head' = first_chunk_head
    BY DEF Compact, window, watch
  <1>2. /\ chunks # {} /\ chunks' # {} /\ StoredHead(chunks') = StoredHead(chunks)
        /\ \A f \in OptRef : FirstHeadOf(chunks, f) => FirstHeadOf(chunks', f)
    <2>1. \A f \in OptRef : FirstHeadOf(chunks, f) => FirstHeadOf(chunks', f)
      BY CompactEnds, ChunkSpan DEF FirstHeadOf, OptRef, BlockRef, BlockNumber
    <2> QED BY <2>1, CompactEnds, Zenon
  <1>3. first_chunk_head \in OptRef /\ todo.first_chunk_head \in OptRef
    BY DEF WriterInv, StoreInv, TypeOK, Assignments
  <1> QED BY <1>1, <1>2, <1>3, Zenon DEF WriterInv, SyncInv, FirstHeadInv, FinInv

-----------------------------------------------------------------------------
(* Trims                                                                   *)

\* What OpenNext allows besides accepting a chunk.
OtherNext ==
    \/ NewWriter \/ StorageError \/ Crash \/ SetHead \/ SetFin \/ Trim \/ BootDone
    \/ \E report \in BlockRef : Finalize(report) \/ FinalizeRefused(report)
    \/ \E chunk \in Chunk, report \in OptRef : NewChunkRefused(report, chunk)
    \/ \E from \in Position, parent \in OptHash :
          \/ Retain(from, parent)
          \/ InitRetention(from, parent)
          \/ InitRetentionRefused(from, parent)
    \/ \E lo, hi \in chunks : Compact(lo, hi)

\* A Head(n) trim, n at least k, leaves k blocks or more above its floor.
LEMMA NewFloor ==
    ASSUME WriterInv, NEW chunk \in Chunk, NEW report \in OptRef, NEW n \in Nat \cup {None},
           NewChunk(report, chunk, n), NEW k \in Nat, n # None => k <= n
    PROVE  FloorInv(k)'
  <1> SUFFICES ASSUME todo'.then = "Trim"
               PROVE  /\ chunks' # {}
                      /\ FirstChunk(chunks').first_block <= todo'.floor
                      /\ todo'.floor + k <= StoredHead(chunks').number + 1
    BY DEF NewChunk, FloorInv
  <1> DEFINE first == FirstHeadAfter(chunk)
             next_block == chunk.last_block + 1
  <1>1. /\ pc = "Idle" /\ CanInsertFork(chunks, chunk) /\ ~ StaleBoundary(chunk)
        /\ chunks' = InsertFork(chunks, chunk)
    BY DEF NewChunk, Applicable
  <1>2. TrimFloor(first, next_block, n) # None /\ todo'.floor = TrimFloor(first, next_block, n)
    BY DEF NewChunk, Unmodified
  <1>3. FirstHeadOf(chunks', first)
    BY <1>1, FirstHeadKept, Zenon
  <1>4. /\ chunks' \in SUBSET Chunk /\ chunks' # {}
        /\ StoredHead(chunks').number = chunk.last_block /\ chunk.last_block \in Nat
    BY <1>1, ForkHead DEF WriterInv
  <1>5. FirstChunk(chunks') \in Chunk
    BY <1>4, ChunkEnds, SMTT(20)
  <1>6. /\ FirstChunk(chunks').first_block \in Nat
        /\ FirstChunk(chunks').first_block <= first.number /\ first.number \in Int
    BY <1>3, <1>4, <1>5, ChunkSpan, SMTT(20) DEF FirstHeadOf
  <1>7. n # None /\ next_block - first.number > n /\ todo'.floor = next_block - n /\ n \in Nat
    BY <1>2, Zenon DEF TrimFloor
  <1> QED BY <1>4, <1>6, <1>7

LEMMA FloorStep ==
    ASSUME WriterInv, [OtherNext]_vars, NEW k, FloorInv(k)
    PROVE  FloorInv(k)'
  <1>1. CASE SetHead
    BY <1>1 DEF SetHead, FloorInv, store
  <1>2. CASE SetFin
    <2>1. pc' = todo.then /\ todo.then \in {"Idle", "Trim", "Boot"} /\ chunks' = chunks
          /\ (todo.then = "Trim" => todo'.floor = todo.floor)
      BY <1>2, NothingType DEF SetFin, store, WriterInv, StoreInv, TypeOK, Assignments, Nothing
    <2> QED BY <1>2, <2>1 DEF SetFin, FloorInv
  <1>3. CASE NewWriter
    <2>1. pc' = "SetHead" /\ todo'.then # "Trim"
      BY <1>3, Zenon DEF NewWriter
    <2> QED BY <2>1 DEF FloorInv
  <1>4. ASSUME NEW from, NEW parent, RetainTx(from, parent)
        PROVE  FloorInv(k)'
    <2>1. pc' = "SetHead" /\ todo'.then = "Idle"
      BY <1>4, Zenon DEF RetainTx, Unmodified
    <2> QED BY <2>1 DEF FloorInv
  <1>5. ASSUME NEW report, Finalize(report)
        PROVE  FloorInv(k)'
    <2>1. pc' = "SetFin" /\ todo'.then = "Idle"
      BY <1>5 DEF Finalize, Unmodified
    <2> QED BY <2>1 DEF FloorInv
  <1>6. ASSUME NEW lo \in chunks, NEW hi \in chunks, Compact(lo, hi)
        PROVE  FloorInv(k)'
    <2>1. pc' = pc /\ todo' = todo
      BY <1>6 DEF Compact
    <2>2. /\ chunks' # {} /\ StoredHead(chunks') = StoredHead(chunks)
          /\ FirstChunk(chunks').first_block = FirstChunk(chunks).first_block
      BY <1>6, CompactEnds
    <2> QED BY <2>1, <2>2 DEF FloorInv
  <1>7. ASSUME pc' \in {"Idle", "Down", "Crashed"}
        PROVE  FloorInv(k)'
    BY <1>7, Zenon DEF FloorInv
  <1>8. CASE UNCHANGED vars
    BY <1>8 DEF vars, store, FloorInv
  <1> QED BY <1>1, <1>2, <1>3, <1>4, <1>5, <1>6, <1>7, <1>8, Zenon
          DEF OtherNext, StorageError, Crash, Trim, BootDone, FinalizeRefused, NewChunkRefused, EndEpoch,
              Retain, InitRetention, InitRetentionRefused

-----------------------------------------------------------------------------
(* What the writer promises                                                *)

LEMMA InitWriterInv == Init => WriterInv
  BY InitStoreInv, Zenon DEF Init, WriterInv, SyncInv, FirstHeadInv, FinInv, FloorInv

LEMMA StepWriterInv == WriterInv /\ [OpenNext]_vars => WriterInv'
  <1> DEFINE Kept == SyncInv' /\ FirstHeadInv' /\ FinInv'
  <1> SUFFICES ASSUME WriterInv, [OpenNext]_vars PROVE Kept
    <2>1. ASSUME WriterInv, [OpenNext]_vars PROVE FloorInv(0)'
      <3>1. [OtherNext]_vars \/ \E chunk \in Chunk, report \in OptRef, n \in Nat \cup {None} :
                                  NewChunk(report, chunk, n)
        BY <2>1, Zenon DEF OpenNext, OtherNext
      <3> QED BY <2>1, <3>1, FloorStep, NewFloor DEF WriterInv
    <2> QED BY <2>1, StepStoreInv DEF WriterInv
  <1>1. CASE NewWriter \/ SetHead \/ SetFin \/ BootDone \/ UNCHANGED vars
    <2>1. UNCHANGED store
      BY <1>1 DEF NewWriter, SetHead, SetFin, BootDone, vars, store
    <2> QED BY <1>1, <2>1, PublishStep
  <1>2. ASSUME \/ StorageError \/ Crash
               \/ \E report \in BlockRef : FinalizeRefused(report)
               \/ \E chunk \in Chunk, report \in OptRef : NewChunkRefused(report, chunk)
               \/ \E from \in Position, parent \in OptHash : InitRetentionRefused(from, parent)
        PROVE  Kept
    <2>1. Crash \/ (pc \in {"Idle", "Trim"} /\ EndEpoch)
      BY <1>2 DEF StorageError, FinalizeRefused, NewChunkRefused, InitRetentionRefused
    <2> QED BY <2>1, LoseWriterStep
  <1>3. CASE Trim
    <2>1. CASE StartsAt(todo.floor, None)
      BY <1>3, <2>1, PublishStep, Zenon DEF Trim
    <2>2. CASE ~ StartsAt(todo.floor, None)
      BY <1>3, <2>2, RetainStep DEF Trim, WriterInv, StoreInv, FloorPending
    <2> QED BY <2>1, <2>2
  <1>4. ASSUME NEW from \in Position, NEW parent, Retain(from, parent) \/ InitRetention(from, parent)
        PROVE  Kept
    BY <1>4, RetainStep DEF Retain, InitRetention
  <1> QED BY <1>1, <1>2, <1>3, <1>4, FinalizeStep, InsertStep, CompactStep, Zenon DEF OpenNext

\* What the writer knows and publishes is what is committed.
THEOREM WriterInvariant == Spec => []WriterInv
  BY InitWriterInv, StepWriterInv, NextIsOpen, PTL DEF Spec

LEMMA SyncedWriter == WriterInv => WriterInSync
  <1> SUFFICES ASSUME WriterInv, pc \in {"Idle", "Boot", "Trim"}, first_chunk_head # None
               PROVE  /\ chunks # {}
                      /\ first_chunk_head.number <= StoredHead(chunks).number
                      /\ first_chunk_head.number
                            \in FirstChunk(chunks).first_block .. FirstChunk(chunks).last_block
    BY Zenon DEF WriterInSync, WriterInv, SyncInv
  <1>1. FirstHeadOf(chunks, first_chunk_head) /\ chunks \in SUBSET Chunk /\ chunks # {}
    BY Zenon DEF WriterInv, FirstHeadInv, FirstHeadOf, StoreInv, TypeOK
  <1>2. /\ FirstChunk(chunks) \in Chunk /\ LastChunk(chunks) \in Chunk
        /\ FirstChunk(chunks).last_block <= LastChunk(chunks).last_block
    BY <1>1, ChunkEnds
  <1> QED BY <1>1, <1>2, StoredHeadTop, ChunkSpan, SMTT(20) DEF FirstHeadOf

\* Between transactions the writer's working copy is the committed state, and
\* its first chunk's head lies in the first chunk (set_head, set_finalized_head,
\* first_chunk_head), whatever compactions, crashes and retention did.
THEOREM WriterStaysInSync == Spec => []WriterInSync
  BY WriterInvariant, SyncedWriter, PTL

LEMMA PublishedStep ==
    ASSUME WriterInv, WriterInv', [OpenNext]_vars
    PROVE  /\ head' \in {head, None, StoredHead(chunks')}
           /\ finalized_head' \in {finalized_head, None, label_fin'}
           /\ (finalized_head # None /\ finalized_head' # None) =>
                 finalized_head.number <= finalized_head'.number
           /\ (head' # None /\ finalized_head' # None) =>
                 finalized_head'.number <= head'.number
  <1>1. ASSUME NEW from, NEW parent, RetainTx(from, parent)
        PROVE  UNCHANGED watch
    BY <1>1 DEF RetainTx
  <1>2. ASSUME ~ SetHead, ~ SetFin
        PROVE  UNCHANGED watch \/ (head' = None /\ finalized_head' = None)
    BY <1>1, <1>2, Zenon
       DEF OpenNext, NewWriter, StorageError, Crash, Trim, BootDone, Finalize, FinalizeRefused,
           NewChunkRefused, NewChunk, Retain, InitRetention, InitRetentionRefused, EndEpoch, Compact, vars
  <1>3. /\ head' \in {head, None, StoredHead(chunks')}
        /\ finalized_head' \in {finalized_head, None, label_fin'}
    BY <1>2 DEF SetHead, SetFin, watch, WriterInv, SyncInv, store
  <1>4. (head' # None /\ finalized_head' # None) => finalized_head'.number <= head'.number
    BY DEF WriterInv, FinInv
  <1>5. ASSUME finalized_head # None, finalized_head' # None
        PROVE  finalized_head.number <= finalized_head'.number
    <2>1. finalized_head.number \in Nat
      BY <1>5 DEF WriterInv, StoreInv, TypeOK, OptRef, BlockRef, BlockNumber
    <2>2. CASE finalized_head' = finalized_head
      BY <2>1, <2>2
    <2>3. CASE finalized_head' # finalized_head
      <3>1. SetFin
        BY <1>2, <1>5, <2>3 DEF SetHead, watch
      <3>2. finalized_head' = label_fin
        BY <3>1 DEF SetFin, WriterInv, SyncInv
      <3> QED BY <1>5, <3>2, Zenon DEF WriterInv, FinInv
    <2> QED BY <2>2, <2>3
  <1> QED BY <1>3, <1>4, <1>5

\* A watermark tells of committed state only, the finalized one never
\* regresses, and it never stands above the head, also between the two
\* publications of a commit (set_head before set_finalized_head).
THEOREM PublishedStaysDurable == Spec => PublishedDurable
  <1>1. WriterInv /\ WriterInv' /\ [OpenNext]_vars =>
           [/\ head' \in {head, None, StoredHead(chunks')}
            /\ finalized_head' \in {finalized_head, None, label_fin'}
            /\ (finalized_head # None /\ finalized_head' # None) =>
                  finalized_head.number <= finalized_head'.number
            /\ (head' # None /\ finalized_head' # None) =>
                  finalized_head'.number <= head'.number]_vars
    BY PublishedStep
  <1> QED BY <1>1, WriterInvariant, NextIsOpen, PTL DEF Spec, PublishedDurable

LEMMA FloorInside == WriterInv /\ FloorInv(1) => TrimKeepsHead
  <1> SUFFICES ASSUME WriterInv, FloorInv(1), pc = "Trim" PROVE Owner(chunks, todo.floor) # {}
    BY DEF TrimKeepsHead
  <1>1. /\ chunks \in SUBSET Chunk /\ Linked(chunks) /\ chunks # {} /\ todo.floor \in Nat
        /\ FirstChunk(chunks).first_block <= todo.floor
        /\ todo.floor + 1 <= StoredHead(chunks).number + 1
    BY DEF WriterInv, StoreInv, TypeOK, ChainLinked, FloorPending, FloorInv, Position
  <1> QED BY <1>1, StoredHeadTop, TileOwner

\* The floor of a Head(n) trim lies in a stored chunk, Head(0) aside, so that
\* the trim never resets the dataset (trim_floor, handle_ingest_msg).
THEOREM TrimsLandInside == Spec => []TrimKeepsHead
  <1>1. CASE 0 \in WindowSizes
    <2>1. TrimKeepsHead
      BY <1>1 DEF TrimKeepsHead
    <2> QED BY <2>1, PTL
  <1>2. CASE 0 \notin WindowSizes
    <2>1. Init => FloorInv(1)
      BY DEF Init, FloorInv
    <2>2. WriterInv /\ FloorInv(1) /\ [Next]_vars => FloorInv(1)'
      <3> SUFFICES ASSUME WriterInv, FloorInv(1), [Next]_vars PROVE FloorInv(1)'
        OBVIOUS
      <3>1. /\ SourceChunks \subseteq Chunk /\ RetainFloors \subseteq Position
            /\ RetainParents \subseteq OptHash
        BY InputAssumption DEF OptHash
      <3>2. [OtherNext]_vars \/ \E chunk \in SourceChunks, report \in OptRef, n \in WindowSizes \cup {None} :
                                   NewChunk(report, chunk, n)
        BY <3>1, Zenon DEF Next, OtherNext
      <3>3. \A n \in WindowSizes : n \in Nat /\ 1 <= n
        BY <1>2, InputAssumption
      <3> QED BY <3>1, <3>2, <3>3, FloorStep, NewFloor, Zenon
    <2>3. WriterInv /\ FloorInv(1) => TrimKeepsHead
      BY FloorInside
    <2> QED BY <2>1, <2>2, <2>3, WriterInvariant, PTL DEF Spec
  <1> QED BY <1>1, <1>2

=============================================================================
