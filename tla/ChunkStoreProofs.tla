-------------------------- MODULE ChunkStoreProofs --------------------------
(***************************************************************************)
(* What the chunk store's writes preserve, for every chain and hash set:   *)
(* the facts about insert_fork, whole-chunk retention and compaction that  *)
(* the proofs about the writer rest on.                                    *)
(***************************************************************************)
EXTENDS ChunkStore, TLAPS

\* The fields of a chunk.
LEMMA ChunkFields ==
    ASSUME NEW c \in Chunk
    PROVE  /\ c.first_block \in Nat /\ c.last_block \in Nat
           /\ c.first_block <= c.last_block /\ c.last_block <= MaxBlock
           /\ c.last_block_hash \in Hash /\ c.parent_block_hash \in Hash
           /\ c.blocks \subseteq BlockRef
           /\ ChunkHead(c) \in c.blocks
           /\ ChunkHead(c).number = c.last_block
           /\ ChunkHead(c).hash = c.last_block_hash
           /\ \A b \in c.blocks : /\ b.number \in Nat
                                  /\ c.first_block <= b.number
                                  /\ b.number <= c.last_block
           /\ \A b, d \in c.blocks : b.number = d.number => b = d
  BY MaxBlockAssumption
     DEF Chunk, ChunkHeader, ValidChunk, ChunkHead, Ref, BlockRef, BlockNumber

\* The two facts most proofs need of it.
LEMMA ChunkSpan ==
    ASSUME NEW c \in Chunk
    PROVE  /\ c.first_block \in Nat /\ c.last_block \in Nat
           /\ c.first_block <= c.last_block
  BY ChunkFields, Zenon

LEMMA HeadNumber ==
    ASSUME NEW c \in Chunk
    PROVE  ChunkHead(c).number = c.last_block
  BY ChunkFields, Zenon

\* FirstChunk and LastChunk pick the ends of a nonempty store.
LEMMA ChunkEnds ==
    ASSUME NEW S \in SUBSET Chunk, S # {}
    PROVE  /\ FirstChunk(S) \in S
           /\ \A d \in S : FirstChunk(S).last_block <= d.last_block
           /\ LastChunk(S) \in S
           /\ \A d \in S : d.last_block <= LastChunk(S).last_block
  <1> DEFINE lasts == {c.last_block : c \in S}
             rests == {MaxBlock - c.last_block : c \in S}
  <1>1. \E c \in S : \A d \in S : c.last_block <= d.last_block
    <2>1. lasts \in SUBSET BlockNumber /\ lasts # {}
      BY ChunkFields DEF BlockNumber
    <2>2. PICK m \in lasts : \A n \in lasts : m <= n
      BY <2>1, OrderAssumption, Zenon
    <2> QED BY <2>2
  <1>2. \E c \in S : \A d \in S : d.last_block <= c.last_block
    <2>1. rests \in SUBSET BlockNumber /\ rests # {}
      BY ChunkFields, MaxBlockAssumption DEF BlockNumber
    <2>2. PICK m \in rests : \A n \in rests : m <= n
      BY <2>1, OrderAssumption, Zenon
    <2>3. PICK c \in S : m = MaxBlock - c.last_block
      BY <2>2
    <2>4. ASSUME NEW d \in S PROVE d.last_block <= c.last_block
      <3>1. MaxBlock - c.last_block <= MaxBlock - d.last_block
        BY <2>2, <2>3
      <3>2. c.last_block \in Nat /\ d.last_block \in Nat
        BY ChunkFields
      <3> QED BY <3>1, <3>2, MaxBlockAssumption
    <2> QED BY <2>4
  <1> QED BY <1>1, <1>2 DEF FirstChunk, LastChunk

\* The first chunk of a linked store also starts lowest.
LEMMA FirstChunkStart ==
    ASSUME NEW S \in SUBSET Chunk, Linked(S), S # {}
    PROVE  \A d \in S : FirstChunk(S).first_block <= d.first_block
  BY ChunkEnds, ChunkFields DEF Linked

\* Blocks of a linked store are unique per number.
LEMMA BlocksFunctional ==
    ASSUME NEW S \in SUBSET Chunk, Linked(S)
    PROVE  \A b, d \in Blocks(S) : b.number = d.number => b = d
  <1> SUFFICES ASSUME NEW b \in Blocks(S), NEW d \in Blocks(S), b.number = d.number
               PROVE  b = d
    OBVIOUS
  <1>1. PICK x \in S : b \in x.blocks
    BY DEF Blocks
  <1>2. PICK y \in S : d \in y.blocks
    BY DEF Blocks
  <1>3. x = y
    BY <1>1, <1>2, ChunkFields DEF Linked
  <1> QED BY <1>1, <1>2, <1>3, ChunkFields

-----------------------------------------------------------------------------
(* insert_fork                                                             *)

\* Everything insert_fork keeps ends right below the new chunk.
LEMMA SurvivorsBelow ==
    ASSUME NEW S \in SUBSET Chunk, NEW chunk \in Chunk, CanInsertFork(S, chunk)
    PROVE  \A c \in ForkSurvivors(S, chunk) : c.last_block < chunk.first_block
  <1> DEFINE below == ForkSurvivors(S, chunk)
  <1> SUFFICES ASSUME NEW c \in below PROVE c.last_block < chunk.first_block
    OBVIOUS
  <1>1. below \in SUBSET Chunk /\ below # {}
    BY DEF ForkSurvivors
  <1>2. LastChunk(below) \in Chunk /\ c.last_block <= LastChunk(below).last_block
    BY <1>1, ChunkEnds
  <1>3. LastChunk(below).last_block + 1 = chunk.first_block
    BY <1>1 DEF CanInsertFork
  <1>4. c \in Chunk
    BY <1>1
  <1> QED BY <1>2, <1>3, <1>4, ChunkFields

\* insert_fork keeps the chain linked.
LEMMA InsertForkLinked ==
    ASSUME NEW S \in SUBSET Chunk, NEW chunk \in Chunk, Linked(S), CanInsertFork(S, chunk)
    PROVE  /\ InsertFork(S, chunk) \in SUBSET Chunk
           /\ Linked(InsertFork(S, chunk))
  <1> DEFINE below == ForkSurvivors(S, chunk)
             after == InsertFork(S, chunk)
  <1>1. below \in SUBSET Chunk /\ below \subseteq S /\ after = below \cup {chunk}
    BY DEF ForkSurvivors, InsertFork
  <1>2. after \in SUBSET Chunk
    BY <1>1
  <1>3. \A c \in below : c.last_block < chunk.first_block
    BY SurvivorsBelow
  <1>4. \A c, d \in after : c = d \/ c.last_block < d.first_block \/ d.last_block < c.first_block
    BY <1>1, <1>3 DEF Linked
  <1>5. ASSUME NEW c \in after
        PROVE  \/ \A d \in after : c.first_block <= d.first_block
               \/ \E d \in after : /\ d.last_block + 1 = c.first_block
                                   /\ d.last_block_hash = c.parent_block_hash
    <2>1. CASE c = chunk /\ below = {}
      BY <1>1, <2>1, ChunkFields
    <2>2. CASE c = chunk /\ below # {}
      <3>1. LastChunk(below) \in below
        BY <1>1, <2>2, ChunkEnds
      <3> QED BY <1>1, <2>2, <3>1 DEF CanInsertFork
    <2>3. CASE c \in below
      <3>1. CASE \A d \in S : c.first_block <= d.first_block
        <4>1. c.first_block <= chunk.first_block
          BY <1>1, <1>3, <2>3, ChunkFields
        <4> QED BY <1>1, <3>1, <4>1
      <3>2. CASE \E d \in S : /\ d.last_block + 1 = c.first_block
                              /\ d.last_block_hash = c.parent_block_hash
        <4>1. PICK d \in S : /\ d.last_block + 1 = c.first_block
                             /\ d.last_block_hash = c.parent_block_hash
          BY <3>2
        <4>2. d.first_block < chunk.first_block
          BY <1>1, <1>3, <2>3, <4>1, ChunkFields
        <4> QED BY <1>1, <4>1, <4>2 DEF ForkSurvivors
      <3> QED BY <1>1, <2>3, <3>1, <3>2 DEF Linked
    <2> QED BY <1>1, <2>1, <2>2, <2>3
  <1> QED BY <1>2, <1>4, <1>5 DEF Linked

\* Below the new chunk insert_fork changes no block; from its start on the
\* blocks are exactly the new ones.
LEMMA InsertForkBlocks ==
    ASSUME NEW S \in SUBSET Chunk, NEW chunk \in Chunk, CanInsertFork(S, chunk)
    PROVE  /\ {b \in Blocks(InsertFork(S, chunk)) : b.number < chunk.first_block}
                = {b \in Blocks(S) : b.number < chunk.first_block}
           /\ {b \in Blocks(InsertFork(S, chunk)) : chunk.first_block <= b.number} = chunk.blocks
  <1> DEFINE below == ForkSurvivors(S, chunk)
             after == InsertFork(S, chunk)
  <1>1. below \in SUBSET Chunk /\ below \subseteq S /\ after = below \cup {chunk}
    BY DEF ForkSurvivors, InsertFork
  <1>2. \A c \in below : c.last_block < chunk.first_block
    BY SurvivorsBelow
  <1>3. Blocks(after) = Blocks(below) \cup chunk.blocks
    BY <1>1 DEF Blocks
  <1>4. \A b \in Blocks(below) : b \in Blocks(S) /\ b.number \in Nat /\ b.number < chunk.first_block
    <2> SUFFICES ASSUME NEW b \in Blocks(below)
                 PROVE  b \in Blocks(S) /\ b.number \in Nat /\ b.number < chunk.first_block
      OBVIOUS
    <2>1. PICK c \in below : b \in c.blocks
      BY DEF Blocks
    <2>2. b.number \in Nat /\ b.number <= c.last_block /\ c.last_block \in Nat
      BY <1>1, <2>1, ChunkFields
    <2> QED BY <1>1, <1>2, <2>1, <2>2, ChunkFields DEF Blocks
  <1>5. ASSUME NEW b \in Blocks(S), b.number < chunk.first_block
        PROVE  b \in Blocks(below)
    <2>1. PICK c \in S : b \in c.blocks
      BY DEF Blocks
    <2>2. c.first_block < chunk.first_block
      BY <1>5, <2>1, ChunkFields
    <2> QED BY <2>1, <2>2 DEF ForkSurvivors, Blocks
  <1>6. \A b \in chunk.blocks : b.number \in Nat /\ chunk.first_block <= b.number
    BY ChunkFields
  <1>7. chunk.first_block \in Nat
    BY ChunkFields
  <1>8. {b \in Blocks(after) : b.number < chunk.first_block}
           = {b \in Blocks(S) : b.number < chunk.first_block}
    BY <1>3, <1>4, <1>5, <1>6, <1>7
  <1>9. {b \in Blocks(after) : chunk.first_block <= b.number} = chunk.blocks
    BY <1>3, <1>4, <1>6, <1>7
  <1> QED BY <1>8, <1>9

-----------------------------------------------------------------------------
(* Retention and compaction                                                *)

\* The chunks that end at or above from, when one of them holds from, are a
\* linked suffix of the store that starts with that chunk.
LEMMA RetainedSuffix ==
    ASSUME NEW S \in SUBSET Chunk, Linked(S), NEW from \in Int, NEW o \in Owner(S, from)
    PROVE  LET kept == {c \in S : from <= c.last_block}
           IN  /\ o \in kept
               /\ Linked(kept)
               /\ \A c \in kept : o.first_block <= c.first_block
               /\ \A c \in S \ kept : c.last_block < o.first_block
               /\ Blocks(kept) = {b \in Blocks(S) : o.first_block <= b.number}
  <1> DEFINE kept == {c \in S : from <= c.last_block}
  <1>1. o \in S /\ o.first_block <= from /\ from <= o.last_block
    BY DEF Owner
  <1>2. \A c \in S : c \in Chunk
    OBVIOUS
  <1>3. \A c \in kept : o.first_block <= c.first_block
    BY <1>1, <1>2, ChunkFields DEF Linked
  <1>4. \A c \in S \ kept : c.last_block < o.first_block
    BY <1>1, <1>2, ChunkFields DEF Linked
  <1>5. Linked(kept)
    <2>1. ASSUME NEW c \in kept, c # o
          PROVE  \E d \in kept : /\ d.last_block + 1 = c.first_block
                                 /\ d.last_block_hash = c.parent_block_hash
      <3>1. o.last_block < c.first_block
        BY <1>1, <1>2, <1>3, <2>1, ChunkFields DEF Linked
      <3>2. PICK d \in S : /\ d.last_block + 1 = c.first_block
                           /\ d.last_block_hash = c.parent_block_hash
        BY <1>1, <1>2, <2>1, <3>1, ChunkFields DEF Linked
      <3>3. from <= d.last_block
        BY <1>1, <1>2, <3>1, <3>2, ChunkFields
      <3> QED BY <3>2, <3>3
    <2> QED BY <1>1, <1>3, <2>1 DEF Linked
  <1>6. Blocks(kept) = {b \in Blocks(S) : o.first_block <= b.number}
    <2>1. ASSUME NEW b \in Blocks(kept)
          PROVE  b \in Blocks(S) /\ o.first_block <= b.number
      <3>1. PICK c \in kept : b \in c.blocks
        BY DEF Blocks
      <3>2. b.number \in Nat /\ c.first_block <= b.number /\ c.first_block \in Nat
        BY <1>2, <3>1, ChunkFields
      <3> QED BY <1>1, <1>2, <1>3, <3>1, <3>2, ChunkFields DEF Blocks
    <2>2. ASSUME NEW b \in Blocks(S), o.first_block <= b.number
          PROVE  b \in Blocks(kept)
      <3>1. PICK c \in S : b \in c.blocks
        BY DEF Blocks
      <3>2. b.number \in Nat /\ b.number <= c.last_block /\ c.last_block \in Nat
        BY <1>2, <3>1, ChunkFields
      <3>3. c \in kept
        BY <1>1, <1>2, <1>4, <2>2, <3>1, <3>2, ChunkFields
      <3> QED BY <3>1, <3>3 DEF Blocks
    <2> QED BY <2>1, <2>2
  <1> QED BY <1>1, <1>3, <1>4, <1>5, <1>6

\* Compaction replaces a run of chunks by one chunk with the same blocks, and
\* keeps the chain linked.
LEMMA MergeLinked ==
    ASSUME NEW S \in SUBSET Chunk, Linked(S), NEW lo \in S, NEW hi \in S,
           lo.last_block < hi.first_block
    PROVE  LET after == (S \ MergeRun(S, lo, hi)) \cup {MergedChunk(S, lo, hi)}
           IN  /\ after \in SUBSET Chunk
               /\ Linked(after)
               /\ Blocks(after) = Blocks(S)
  <1> DEFINE run == MergeRun(S, lo, hi)
             m == MergedChunk(S, lo, hi)
             after == (S \ run) \cup {m}
  <1>1. \A c \in S : c \in Chunk
    OBVIOUS
  <1>2. run \subseteq S /\ lo \in run /\ hi \in run
    BY <1>1, ChunkFields DEF MergeRun
  <1>3. \A c \in run : lo.first_block <= c.first_block /\ c.last_block <= hi.last_block
    BY DEF MergeRun
  <1>4. /\ m.first_block = lo.first_block /\ m.last_block = hi.last_block
        /\ m.last_block_hash = hi.last_block_hash
        /\ m.parent_block_hash = lo.parent_block_hash
        /\ m.blocks = Blocks(run)
    BY DEF MergedChunk
  <1>5. m \in Chunk
    <2>1. Linked(S) /\ run \in SUBSET Chunk
      BY <1>2
    <2>2. \A b \in Blocks(run) : b \in BlockRef /\ lo.first_block <= b.number /\ b.number <= hi.last_block
      <3> SUFFICES ASSUME NEW b \in Blocks(run)
                   PROVE  b \in BlockRef /\ lo.first_block <= b.number /\ b.number <= hi.last_block
        OBVIOUS
      <3>1. PICK c \in run : b \in c.blocks
        BY DEF Blocks
      <3>2. c \in Chunk /\ lo \in Chunk /\ hi \in Chunk
        BY <2>1
      <3> QED BY <1>3, <3>1, <3>2, ChunkFields
    <2>3. \A b, d \in Blocks(run) : b.number = d.number => b = d
      <3>1. \A b \in Blocks(run) : b \in Blocks(S)
        BY <1>2 DEF Blocks
      <3> QED BY <3>1, BlocksFunctional
    <2>4. Ref(hi.last_block, hi.last_block_hash) \in Blocks(run)
      BY <1>1, <1>2, ChunkFields DEF Blocks, ChunkHead
    <2>5. ValidChunk(m)
      <3>1. lo.first_block <= hi.last_block
        BY <1>1, ChunkFields
      <3> QED BY <1>4, <2>2, <2>3, <2>4, <3>1 DEF ValidChunk
    <2>6. m \in ChunkHeader
      <3>1. lo \in ChunkHeader /\ hi \in ChunkHeader
        BY <1>1 DEF Chunk
      <3> QED BY <2>2, <3>1 DEF MergedChunk, ChunkHeader
    <2> QED BY <2>5, <2>6 DEF Chunk
  <1>6. \A c \in S \ run : c.last_block < lo.first_block \/ hi.last_block < c.first_block
    <2> SUFFICES ASSUME NEW c \in S \ run
                 PROVE  c.last_block < lo.first_block \/ hi.last_block < c.first_block
      OBVIOUS
    <2>1. c \in Chunk /\ lo \in Chunk /\ hi \in Chunk /\ c # lo /\ c # hi
      BY <1>2
    <2>2. c.first_block < lo.first_block \/ hi.last_block < c.last_block
      BY <2>1, ChunkFields DEF MergeRun
    <2> QED BY <2>1, <2>2, ChunkFields DEF Linked
  <1>7. \A c, d \in after : c = d \/ c.last_block < d.first_block \/ d.last_block < c.first_block
    BY <1>4, <1>6 DEF Linked
  <1>8. ASSUME NEW c \in after
        PROVE  \/ \A d \in after : c.first_block <= d.first_block
               \/ \E d \in after : /\ d.last_block + 1 = c.first_block
                                   /\ d.last_block_hash = c.parent_block_hash
    <2>1. CASE c = m
      <3>1. CASE \A d \in S : lo.first_block <= d.first_block
        BY <1>1, <1>4, <2>1, <3>1, ChunkFields
      <3>2. CASE \E d \in S : /\ d.last_block + 1 = lo.first_block
                              /\ d.last_block_hash = lo.parent_block_hash
        <4>1. PICK d \in S : /\ d.last_block + 1 = lo.first_block
                             /\ d.last_block_hash = lo.parent_block_hash
          BY <3>2
        <4>2. d \notin run
          BY <1>1, <1>3, <4>1, ChunkFields
        <4> QED BY <1>4, <2>1, <4>1, <4>2
      <3> QED BY <3>1, <3>2 DEF Linked
    <2>2. CASE c \in S \ run
      <3>1. CASE \A d \in S : c.first_block <= d.first_block
        BY <1>4, <2>2, <3>1, <1>1, ChunkFields
      <3>2. CASE \E d \in S : /\ d.last_block + 1 = c.first_block
                              /\ d.last_block_hash = c.parent_block_hash
        <4>1. PICK d \in S : /\ d.last_block + 1 = c.first_block
                             /\ d.last_block_hash = c.parent_block_hash
          BY <3>2
        <4>2. CASE d \notin run
          BY <4>1, <4>2
        <4>3. CASE d \in run
          <5>1. d = hi
            BY <1>1, <1>2, <1>3, <1>6, <2>2, <4>1, <4>3, ChunkFields DEF Linked
          <5> QED BY <1>4, <4>1, <5>1
        <4> QED BY <4>2, <4>3
      <3> QED BY <2>2, <3>1, <3>2 DEF Linked
    <2> QED BY <2>1, <2>2
  <1>9. Blocks(after) = Blocks(S)
    BY <1>2, <1>4 DEF Blocks
  <1> QED BY <1>5, <1>7, <1>8, <1>9 DEF Linked

-----------------------------------------------------------------------------
(* The ends of the window                                                  *)

\* The first and the last chunk of a linked store are the only ones there.
LEMMA EndUnique ==
    ASSUME NEW S \in SUBSET Chunk, Linked(S), NEW c \in S
    PROVE  /\ (\A d \in S : c.last_block <= d.last_block) => FirstChunk(S) = c
           /\ (\A d \in S : d.last_block <= c.last_block) => LastChunk(S) = c
  BY ChunkEnds, ChunkFields DEF Linked

\* A linked store has no hole between its ends.
LEMMA TileOwner ==
    ASSUME NEW S \in SUBSET Chunk, Linked(S), S # {}, NEW n \in Nat,
           FirstChunk(S).first_block <= n, n <= LastChunk(S).last_block
    PROVE  Owner(S, n) # {}
  <1> DEFINE above == {c \in S : n <= c.last_block}
             low == FirstChunk(above)
  <1>1. low \in above /\ \A d \in above : low.last_block <= d.last_block
    BY ChunkEnds
  <1>2. \A c \in S : c \in Chunk
    OBVIOUS
  <1> HIDE DEF low
  <1>3. ASSUME n < low.first_block PROVE FALSE
    <2>1. FirstChunk(S) \in S
      BY ChunkEnds
    <2>2. PICK d \in S : d.last_block + 1 = low.first_block
      BY <1>1, <1>2, <1>3, <2>1, ChunkFields DEF Linked
    <2> QED BY <1>1, <1>2, <1>3, <2>2, ChunkFields
  <1> QED BY <1>1, <1>2, <1>3, ChunkFields DEF Owner

LEMMA ForkEnds ==
    ASSUME NEW S \in SUBSET Chunk, Linked(S), NEW chunk \in Chunk, CanInsertFork(S, chunk)
    PROVE  /\ LastChunk(InsertFork(S, chunk)) = chunk
           /\ ForkSurvivors(S, chunk) = {} => FirstChunk(InsertFork(S, chunk)) = chunk
           /\ ForkSurvivors(S, chunk) # {} => FirstChunk(InsertFork(S, chunk)) = FirstChunk(S)
  <1> DEFINE below == ForkSurvivors(S, chunk)
             after == InsertFork(S, chunk)
  <1>1. /\ after \in SUBSET Chunk /\ Linked(after) /\ after = below \cup {chunk}
        /\ \A c \in below : c \in S /\ c.last_block < chunk.first_block
    BY InsertForkLinked, SurvivorsBelow DEF InsertFork, ForkSurvivors
  <1>2. \A c \in below : c.last_block <= chunk.last_block
    BY <1>1, ChunkFields
  <1>3. below # {} => FirstChunk(S) \in below /\ \A d \in below : FirstChunk(S).last_block <= d.last_block
    BY <1>1, ChunkEnds, FirstChunkStart, ChunkFields DEF ForkSurvivors
  <1> HIDE DEF below, after
  <1>4. chunk.last_block <= chunk.last_block
    BY ChunkFields
  <1> QED BY <1>1, <1>2, <1>3, <1>4, EndUnique DEF below, after

LEMMA RetainEnds ==
    ASSUME NEW S \in SUBSET Chunk, Linked(S), NEW from \in Int, NEW o \in Owner(S, from)
    PROVE  LET kept == {c \in S : from <= c.last_block}
           IN  LastChunk(kept) = LastChunk(S) /\ FirstChunk(kept) = o
  <1> DEFINE kept == {c \in S : from <= c.last_block}
  <1>1. o \in kept /\ Linked(kept) /\ kept \in SUBSET Chunk /\ o \in S
    BY RetainedSuffix, Zenon DEF Owner
  <1>2. \A c \in kept : o.last_block <= c.last_block
    BY <1>1, ChunkFields DEF Linked, Owner
  <1>3. LastChunk(S) \in kept /\ \A c \in kept : c.last_block <= LastChunk(S).last_block
    BY <1>1, ChunkEnds, ChunkFields
  <1> HIDE DEF kept
  <1> QED BY <1>1, <1>2, <1>3, EndUnique DEF kept

LEMMA MergeEnds ==
    ASSUME NEW S \in SUBSET Chunk, Linked(S), NEW lo \in S, NEW hi \in S,
           lo.last_block < hi.first_block
    PROVE  LET after == (S \ MergeRun(S, lo, hi)) \cup {MergedChunk(S, lo, hi)}
           IN  /\ ChunkHead(LastChunk(after)) = ChunkHead(LastChunk(S))
               /\ FirstChunk(after).first_block = FirstChunk(S).first_block
               /\ FirstChunk(S).last_block <= FirstChunk(after).last_block
  <1> DEFINE run == MergeRun(S, lo, hi)
             m == MergedChunk(S, lo, hi)
             after == (S \ run) \cup {m}
             first == FirstChunk(S)
             last == LastChunk(S)
  <1>1. after \in SUBSET Chunk /\ Linked(after)
    BY MergeLinked
  <1>2. /\ m.first_block = lo.first_block /\ m.last_block = hi.last_block
        /\ m.last_block_hash = hi.last_block_hash
    BY DEF MergedChunk
  <1>3. /\ first \in S /\ \A d \in S : first.last_block <= d.last_block /\ first.first_block <= d.first_block
        /\ last \in S /\ \A d \in S : d.last_block <= last.last_block
    BY ChunkEnds, FirstChunkStart
  <1>4. \A c \in S : c \in Chunk
    OBVIOUS
  <1>5. first \in run => first = lo
    BY <1>3, <1>4, ChunkFields DEF MergeRun, Linked
  <1>6. last \in run => last = hi
    BY <1>3, <1>4, ChunkFields DEF MergeRun, Linked
  <1> HIDE DEF m, run, first, last
  <1>7. \A d \in after : d.last_block <= last.last_block
    BY <1>2, <1>3
  <1>8. ChunkHead(LastChunk(after)) = ChunkHead(last)
    <2>1. CASE last \in run
      <3>1. LastChunk(after) = m
        BY <1>1, <1>2, <1>6, <1>7, <2>1, EndUnique
      <3> QED BY <1>2, <1>6, <2>1, <3>1 DEF ChunkHead
    <2>2. CASE last \notin run
      BY <1>1, <1>3, <1>7, <2>2, EndUnique
    <2> QED BY <2>1, <2>2
  <1>9. FirstChunk(after).first_block = first.first_block /\ first.last_block <= FirstChunk(after).last_block
    <2>1. FirstChunk(after) \in after /\ \A d \in after : FirstChunk(after).first_block <= d.first_block
      BY <1>1, ChunkEnds, FirstChunkStart, Zenon
    <2>2. \A d \in after : first.first_block <= d.first_block /\ first.last_block <= d.last_block
      BY <1>2, <1>3
    <2>3. first \in after \/ m.first_block = first.first_block
      BY <1>2, <1>3, <1>5
    <2>4. FirstChunk(after).first_block \in Nat /\ first.first_block \in Nat
      BY <1>1, <1>3, <2>1, ChunkFields
    <2>5. FirstChunk(after).first_block <= first.first_block
      BY <2>1, <2>3
    <2> HIDE DEF after
    <2> QED BY <2>1, <2>2, <2>4, <2>5
  <1> QED BY <1>8, <1>9 DEF m, run, first, last
=============================================================================
