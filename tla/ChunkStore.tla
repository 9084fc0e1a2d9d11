----------------------------- MODULE ChunkStore -----------------------------
(***************************************************************************)
(* The chunks of one dataset as crates/storage keeps them, and the reads   *)
(* and validations a storage transaction runs over them.                   *)
(*                                                                         *)
(* CF_CHUNKS maps (dataset, last_block) to a chunk.  Its keys order the    *)
(* chunks by last_block, and here the column family is the set S of its    *)
(* chunks.  A chunk carries its header fields and, as "blocks", the        *)
(* (number, hash) pairs of its blocks table; numbers may have holes        *)
(* (slot-numbered chains), the last block is always a block.  The          *)
(* parent_hash column needs no field of its own: ingestion refuses a block *)
(* that does not link to the one before it, so the parent of a row is the  *)
(* row below it, or the chunk's parent_block_hash.                         *)
(***************************************************************************)
EXTENDS Integers

CONSTANTS
    MaxBlock,   \* the largest block number a source serves (a model bound)
    Hash,       \* block hashes: opaque strings chosen by the source
    None        \* the Rust Option::None

ASSUME MaxBlockAssumption == MaxBlock \in Nat

BlockNumber == 0 .. MaxBlock

\* Block numbers are well ordered.  This is true of every natural MaxBlock, and
\* BlockNumbersOrdered (QueryServiceProofs) derives it from the one above; the
\* proofs about the store cite it in this form, so that the library's theory
\* of well-founded relations is not part of every one of their obligations.
ASSUME OrderAssumption ==
    \A T \in SUBSET BlockNumber : T # {} => \E m \in T : \A n \in T : m <= n

\* A bound on positions: the position after the last block exists too.
Position == 0 .. MaxBlock + 1

BlockRef == [number : BlockNumber, hash : Hash]

Ref(n, h) == [number |-> n, hash |-> h]

ChunkHeader ==
    [first_block : BlockNumber, last_block : BlockNumber, last_block_hash : Hash,
     parent_block_hash : Hash, blocks : SUBSET BlockRef]

\* What a chunk written by the ingest task or by a compaction looks like
\* (validate_chunk and the construction of NewChunk).
ValidChunk(c) ==
    /\ c.first_block <= c.last_block
    /\ Ref(c.last_block, c.last_block_hash) \in c.blocks
    /\ \A b \in c.blocks : c.first_block <= b.number /\ b.number <= c.last_block
    /\ \A b, d \in c.blocks : b.number = d.number => b = d

Chunk == {c \in ChunkHeader : ValidChunk(c)}

ASSUME NoneAssumption ==
    None \notin BlockRef /\ None \notin Hash /\ None \notin Int /\ None \notin Chunk

-----------------------------------------------------------------------------
(* Reads                                                                   *)

ChunkHead(c) == Ref(c.last_block, c.last_block_hash)

FirstChunk(S) == CHOOSE c \in S : \A d \in S : c.last_block <= d.last_block

LastChunk(S) == CHOOSE c \in S : \A d \in S : d.last_block <= c.last_block

\* The head a snapshot shows: the last block of the last chunk.
StoredHead(S) == IF S = {} THEN None ELSE ChunkHead(LastChunk(S))

\* Every block the dataset stores.
Blocks(S) == UNION {c.blocks : c \in S}

\* list_chunks(n, Some(n)).next(): the chunk whose range holds n, if any.
Owner(S, n) == {c \in S : c.first_block <= n /\ n <= c.last_block}

\* find_stored_block_hash / find_block_hash_in_chunk: the blocks at height n.
StoredAt(S, n) == {b \in Blocks(S) : b.number = n}

\* validate_parent_block_hash: the parent hash a chunk knows for position n
\* of its range (n may be a hole: the first row at or above it decides).
ParentHash(c, n) ==
    LET below == {b \in c.blocks : b.number < n}
    IN  IF below = {} THEN c.parent_block_hash
        ELSE (CHOOSE b \in below : \A d \in below : d.number <= b.number).hash

-----------------------------------------------------------------------------
(* Writes                                                                  *)

\* Tx::insert_fork keeps the chunks that start below the new one; the
\* highest of them must end right below it, with the hash it links to.
ForkSurvivors(S, chunk) == {c \in S : c.first_block < chunk.first_block}

\* Defect: the hash link to the survivor is not checked.
CanInsertForkUnlinked(S, chunk) ==
    LET below == ForkSurvivors(S, chunk)
    IN  below # {} => LastChunk(below).last_block + 1 = chunk.first_block

CanInsertFork(S, chunk) ==
    LET below == ForkSurvivors(S, chunk)
    IN  below # {} => /\ LastChunk(below).last_block + 1 = chunk.first_block
                      /\ LastChunk(below).last_block_hash = chunk.parent_block_hash

InsertFork(S, chunk) == ForkSurvivors(S, chunk) \cup {chunk}

\* Defect: only the block at up_to itself is compared.
ReproducesBoundary(S, chunk, up_to) ==
    {b \in chunk.blocks : b.number = up_to} = StoredAt(S, up_to)

\* Tx::validate_finalized_prefix: over [chunk.first_block, up_to] the chunk
\* carries exactly the blocks stored there.
ReproducesPrefix(S, chunk, up_to) ==
    {b \in chunk.blocks : b.number <= up_to}
        = {b \in Blocks(S) : chunk.first_block <= b.number /\ b.number <= up_to}

\* DatasetCompaction: the adjacent chunks from lo to hi, and the chunk that
\* takes their place.
MergeRun(S, lo, hi) ==
    {c \in S : lo.first_block <= c.first_block /\ c.last_block <= hi.last_block}

MergedChunk(S, lo, hi) ==
    [first_block       |-> lo.first_block,
     last_block        |-> hi.last_block,
     last_block_hash   |-> hi.last_block_hash,
     parent_block_hash |-> lo.parent_block_hash,
     blocks            |-> Blocks(MergeRun(S, lo, hi))]

-----------------------------------------------------------------------------
(* What a well-formed window is                                            *)

\* Chunks tile the window without gap or overlap, and each links by hash to
\* the one below it.
Linked(S) ==
    /\ \A c, d \in S : c = d \/ c.last_block < d.first_block \/ d.last_block < c.first_block
    /\ \A c \in S : \/ \A d \in S : c.first_block <= d.first_block
                    \/ \E d \in S : /\ d.last_block + 1 = c.first_block
                                    /\ d.last_block_hash = c.parent_block_hash
=============================================================================
