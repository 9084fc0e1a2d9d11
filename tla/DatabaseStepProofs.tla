------------------------- MODULE DatabaseStepProofs -------------------------
(***************************************************************************)
(* The inductive invariant of the storage of a dataset, what a commit does *)
(* to the stored chunks and to the hash index, and the steps that touch no *)
(* table of a job: the cleanup, the start of the process, a crash, and the *)
(* control steps of a job.  For every chain, set of tables, order of table *)
(* ids, start configuration and retry budget.                              *)
(***************************************************************************)
EXTENDS Database, ChunkStoreProofs

\* The tables a job has under way.
Mine(p) == proc[p].built \cup ({proc[p].cur} \ {None})

\* Jobs run only while the dataset is served, and a dataset that has no label
\* has no chunks.
ServedInv ==
    /\ \A p \in Proc : proc[p].pc # "Idle" => Up /\ boot.serve
    /\ Up /\ boot.serve => label
    /\ boot.pc = "DropIndex" => ~ label
    /\ ~ label => chunks = {}

\* What a job knows at each of its steps.
JobOK(r, S) ==
    /\ r.pc = "Idle" => r.built = {} /\ r.cur = None
    /\ r.pc # "Idle" => r.job \in Jobs
    /\ r.cur # None => r.pc = "Build" /\ Cardinality(r.built) < Cardinality(Names)
    /\ r.pc \in {"Build", "Begin"} => r.attempt < MaxAttempts
    /\ r.pc \in {"Callback", "Commit", "Cancel"} /\ ~ r.stale => r.snap = S

\* A merge has at least two chunks.
Several(run) == \E e, d \in run : e.chunk.last_block < d.chunk.last_block

\* What the kind of a job adds to it: a retention change builds no table, a
\* merge has several chunks, and a callback that was passed has accepted
\* the snapshot.
KindOK(r) ==
    r.pc # "Idle" =>
       /\ r.job.kind = "Retain" => r.built = {} /\ r.pc # "Build"
       /\ r.job.kind = "Merge" => Several(r.job.run)
       /\ r.pc = "Commit" /\ r.job.kind = "Insert" => CanInsertFork(Headers(r.snap), r.job.chunk)
       /\ r.pc = "Commit" /\ r.job.kind = "Merge" => ~ DataWasChanged(r.job.run, r.snap)

JobInv == \A p \in Proc : JobOK(proc[p], chunks)

KindInv == \A p \in Proc : KindOK(proc[p])

\* A scan holds tables that are marked.
ScanInv == pending \subseteq IF boot.pc = "Orphans" THEN dirty ELSE deleted

\* No table belongs to two: a chunk, another chunk, a job.
OwnedOnce ==
    /\ Mine("writer") \cap Mine("compaction") = {}
    /\ \A e, d \in chunks : e # d => e.tables \cap d.tables = {}

TableInv == ScanInv /\ OwnedOnce /\ LiveReadable /\ BuildsUntouched /\ TablesAccounted

\* The stored chunks are a linked chain, one entry for each, and index no
\* blocks but their own.
Sound(S) ==
    /\ Linked(Headers(S))
    /\ \A e, d \in S : e.chunk = d.chunk => e = d
    /\ \A e \in S : e.indexed \subseteq e.chunk.blocks

ChunkInv == Sound(chunks)

\* The inductive invariant.
DbInv == TypeOK /\ ServedInv /\ JobInv /\ KindInv /\ TableInv /\ ChunkInv /\ IndexExact

-----------------------------------------------------------------------------
(* The staged writes of a transaction, on any sound set of chunks          *)

\* Chunks are deleted and put by their key.
Put(S, removed, added) == {e \in S : \A d \in removed \cup added : ~ SameKey(e, d)} \cup added

\* A suffix of a linked chain is linked.
LEMMA RetainLinked ==
    ASSUME NEW S \in SUBSET Chunk, Linked(S), NEW from \in Int
    PROVE  Linked({c \in S : from <= c.last_block})
  <1> DEFINE kept == {c \in S : from <= c.last_block}
  <1>1. \A c \in S : c \in Chunk
    OBVIOUS
  <1>2. \A c, d \in kept : c = d \/ c.last_block < d.first_block \/ d.last_block < c.first_block
    BY DEF Linked
  <1>3. ASSUME NEW c \in kept
        PROVE  \/ \A d \in kept : c.first_block <= d.first_block
               \/ \E d \in kept : /\ d.last_block + 1 = c.first_block
                                  /\ d.last_block_hash = c.parent_block_hash
    <2>1. CASE \A d \in S : c.first_block <= d.first_block
      BY <2>1
    <2>2. CASE \E d \in S : /\ d.last_block + 1 = c.first_block
                            /\ d.last_block_hash = c.parent_block_hash
      <3>1. PICK d \in S : /\ d.last_block + 1 = c.first_block
                           /\ d.last_block_hash = c.parent_block_hash
        BY <2>2
      <3>2. CASE d \in kept
        BY <3>1, <3>2
      <3>3. CASE d \notin kept
        <4>1. ASSUME NEW e \in kept PROVE c.first_block <= e.first_block
          <5>1. e \in Chunk /\ d \in Chunk /\ c \in Chunk /\ e # d
            BY <3>3, <1>1
          <5>2. e.last_block < d.first_block \/ d.last_block < e.first_block
            BY <5>1 DEF Linked
          <5> QED BY <3>1, <3>3, <5>1, <5>2, ChunkFields
        <4> QED BY <4>1
      <3> QED BY <3>2, <3>3
    <2> QED BY <2>1, <2>2 DEF Linked
  <1> QED BY <1>2, <1>3 DEF Linked

\* What an entry of CF_CHUNKS holds.
LEMMA EntryFields ==
    ASSUME NEW e \in StoredChunk
    PROVE  /\ e.chunk \in Chunk /\ e.tables \subseteq TableId /\ e.indexed \subseteq BlockRef
           /\ e.chunk.first_block \in Nat /\ e.chunk.last_block \in Nat
           /\ e.chunk.first_block <= e.chunk.last_block
  BY ChunkFields DEF StoredChunk

LEMMA HeadersType ==
    ASSUME NEW S \in SUBSET StoredChunk
    PROVE  Headers(S) \in SUBSET Chunk
  BY DEF Headers, StoredChunk

\* The entries of a sound store are apart.
LEMMA EntriesApart ==
    ASSUME NEW S \in SUBSET StoredChunk, Sound(S)
    PROVE  \A e, d \in S : \/ e = d
                           \/ e.chunk.last_block < d.chunk.first_block
                           \/ d.chunk.last_block < e.chunk.first_block
  BY DEF Sound, Linked, Headers

\* Deletions and puts by key do what they mean if a put meets no other chunk's
\* key (delete_chunk, write_chunk).
LEMMA PutReplaces ==
    ASSUME NEW S \in SUBSET StoredChunk, Sound(S), NEW removed \in SUBSET S,
           NEW added \in SUBSET StoredChunk,
           \A a \in added, e \in S \ removed : e.chunk.last_block # a.chunk.last_block
    PROVE  Put(S, removed, added) = (S \ removed) \cup added
  <1>1. ASSUME NEW e \in S, NEW d \in removed, SameKey(e, d)
        PROVE  e = d
    <2>1. e \in StoredChunk /\ d \in StoredChunk /\ d \in S
      OBVIOUS
    <2> QED BY <1>1, <2>1, EntriesApart, EntryFields DEF SameKey
  <1>2. \A d \in removed : SameKey(d, d)
    BY DEF SameKey
  <1>3. \A e \in S \ removed, d \in removed \cup added : ~ SameKey(e, d)
    BY <1>1 DEF SameKey
  <1> QED BY <1>2, <1>3 DEF Put

\* Taking the blocks of deleted chunks out of the index leaves exactly those
\* of the other chunks (unindex_hashes).
LEMMA UnindexExact ==
    ASSUME NEW S \in SUBSET StoredChunk, Sound(S), NEW removed \in SUBSET S
    PROVE  (UNION {e.indexed : e \in S}) \ Blocks(Headers(removed))
              = UNION {e.indexed : e \in S \ removed}
  <1>1. ASSUME NEW x, NEW e \in S \ removed, x \in e.indexed
        PROVE  x \notin Blocks(Headers(removed))
    <2> SUFFICES ASSUME NEW d \in removed, x \in d.chunk.blocks PROVE FALSE
      BY DEF Blocks, Headers
    <2>1. e \in S /\ d \in S /\ e # d /\ x \in e.chunk.blocks
      BY <1>1 DEF Sound
    <2>2. e.chunk \in Chunk /\ d.chunk \in Chunk
      BY <2>1, EntryFields
    <2>3. /\ e.chunk.first_block <= x.number /\ x.number <= e.chunk.last_block
          /\ d.chunk.first_block <= x.number /\ x.number <= d.chunk.last_block
          /\ x.number \in Nat
      BY <2>1, <2>2, ChunkFields DEF BlockRef, BlockNumber
    <2>4. /\ e.chunk.first_block \in Nat /\ e.chunk.last_block \in Nat
          /\ d.chunk.first_block \in Nat /\ d.chunk.last_block \in Nat
      BY <2>2, ChunkFields
    <2> QED BY <2>1, <2>3, <2>4, EntriesApart
  <1>2. ASSUME NEW x, NEW e \in removed, x \in e.indexed
        PROVE  x \in Blocks(Headers(removed))
    <2>1. x \in e.chunk.blocks
      BY <1>2 DEF Sound
    <2> QED BY <2>1 DEF Blocks, Headers
  <1>3. \A x : x \in UNION {e.indexed : e \in S \ removed} => x \notin Blocks(Headers(removed))
    BY <1>1
  <1>4. \A x : x \in UNION {e.indexed : e \in removed} => x \in Blocks(Headers(removed))
    BY <1>2
  <1>5. UNION {e.indexed : e \in S}
           = (UNION {e.indexed : e \in S \ removed}) \cup (UNION {e.indexed : e \in removed})
    OBVIOUS
  <1> QED BY <1>3, <1>4, <1>5

\* The writes of an insertion.
LEMMA PutInsert ==
    ASSUME NEW S \in SUBSET StoredChunk, Sound(S), NEW a \in StoredChunk,
           a.indexed \subseteq a.chunk.blocks, CanInsertFork(Headers(S), a.chunk)
    PROVE  LET removed == {e \in S : a.chunk.first_block <= e.chunk.first_block}
               after == (S \ removed) \cup {a}
           IN  /\ Put(S, removed, {a}) = after
               /\ Headers(after) = InsertFork(Headers(S), a.chunk)
               /\ Sound(after)
  <1> DEFINE removed == {e \in S : a.chunk.first_block <= e.chunk.first_block}
             after == (S \ removed) \cup {a}
  <1>1. Headers(S) \in SUBSET Chunk /\ a.chunk \in Chunk /\ Linked(Headers(S))
    BY HeadersType, EntryFields DEF Sound
  <1>2. \A e \in S : e.chunk.first_block \in Nat /\ e.chunk.last_block \in Nat /\ e.chunk \in Headers(S)
    BY EntryFields DEF Headers
  <1>3. a.chunk.first_block \in Nat /\ a.chunk.last_block \in Nat /\ a.chunk.first_block <= a.chunk.last_block
    BY EntryFields
  <1>4. \A e \in S \ removed : e.chunk \in ForkSurvivors(Headers(S), a.chunk)
    BY <1>2, <1>3 DEF ForkSurvivors
  <1>5. \A e \in S \ removed : e.chunk.last_block < a.chunk.first_block
    BY <1>1, <1>4, SurvivorsBelow
  <1>6. \A e \in S \ removed : e.chunk.last_block # a.chunk.last_block
    BY <1>2, <1>3, <1>5
  <1>7. Put(S, removed, {a}) = after
    BY <1>6, PutReplaces
  <1>8. \A c \in ForkSurvivors(Headers(S), a.chunk) : \E e \in S \ removed : c = e.chunk
    BY <1>2, <1>3 DEF ForkSurvivors, Headers
  <1>9. Headers(after) = InsertFork(Headers(S), a.chunk)
    BY <1>4, <1>8 DEF Headers, InsertFork
  <1>10. Linked(Headers(after))
    BY <1>1, <1>9, InsertForkLinked
  <1>11. Sound(after)
    BY <1>6, <1>10 DEF Sound
  <1> QED BY <1>7, <1>9, <1>11, Zenon

\* The writes of a change of retention.
LEMMA PutRetain ==
    ASSUME NEW S \in SUBSET StoredChunk, Sound(S), NEW from \in Int
    PROVE  LET removed == {e \in S : e.chunk.last_block < from}
               after == S \ removed
           IN  /\ Put(S, removed, {}) = after
               /\ Headers(after) = {c \in Headers(S) : from <= c.last_block}
               /\ Sound(after)
  <1> DEFINE removed == {e \in S : e.chunk.last_block < from}
             after == S \ removed
  <1>1. Put(S, removed, {}) = after
    BY PutReplaces
  <1>2. \A e \in S : e.chunk.last_block \in Nat
    BY EntryFields
  <1>3. Headers(after) = {c \in Headers(S) : from <= c.last_block}
    BY <1>2 DEF Headers
  <1>4. Headers(S) \in SUBSET Chunk /\ Linked(Headers(S))
    BY HeadersType DEF Sound
  <1>5. Linked(Headers(after))
    BY <1>3, <1>4, RetainLinked
  <1> QED BY <1>1, <1>3, <1>5 DEF Sound

\* The ends of a run of chunks that is all there is in its range: the run is
\* what lies between them, and they are different.
LEMMA RunEnds ==
    ASSUME NEW S \in SUBSET StoredChunk, Sound(S), NEW run, ~ DataWasChanged(run, S),
           Several(run)
    PROVE  LET lo == FirstChunk(Headers(run))
               hi == LastChunk(Headers(run))
           IN  /\ run \subseteq S
               /\ lo \in Headers(run) /\ hi \in Headers(run)
               /\ lo.last_block < hi.first_block
               /\ MergeRun(Headers(S), lo, hi) = Headers(run)
               /\ MergeRun(Headers(run), lo, hi) = Headers(run)
  <1> DEFINE lo == FirstChunk(Headers(run))
             hi == LastChunk(Headers(run))
  <1>1. run = {e \in S : lo.first_block <= e.chunk.last_block /\ e.chunk.first_block <= hi.last_block}
    BY DEF DataWasChanged
  <1>2. run \subseteq S
    BY <1>1
  <1>3. Headers(run) \in SUBSET Chunk /\ Headers(run) # {}
    BY <1>2, HeadersType DEF Headers, Several
  <1>4. /\ lo \in Headers(run) /\ \A c \in Headers(run) : lo.last_block <= c.last_block
        /\ hi \in Headers(run) /\ \A c \in Headers(run) : c.last_block <= hi.last_block
    BY <1>3, ChunkEnds
  <1>5. \A c \in Headers(S) : /\ c \in Chunk /\ c.first_block \in Nat /\ c.last_block \in Nat
                              /\ c.first_block <= c.last_block
    BY HeadersType, ChunkFields
  <1>6. Headers(run) \subseteq Headers(S)
    BY <1>2 DEF Headers
  <1>7. \A c, d \in Headers(S) : c = d \/ c.last_block < d.first_block \/ d.last_block < c.first_block
    BY DEF Sound, Linked
  <1>8. \A c \in Headers(S) : c \in Headers(run) <=>
                                lo.first_block <= c.last_block /\ c.first_block <= hi.last_block
    <2>1. ASSUME NEW e \in S
          PROVE  e.chunk \in Headers(run) <=> e \in run
      BY <1>2 DEF Headers, Sound
    <2> QED BY <1>1, <2>1, Zenon DEF Headers
  <1>9. lo.last_block < hi.first_block
    <2>1. PICK e \in run, d \in run : e.chunk.last_block < d.chunk.last_block
      BY DEF Several
    <2>2. e.chunk \in Headers(run) /\ d.chunk \in Headers(run)
      BY DEF Headers
    <2>3. lo.last_block <= e.chunk.last_block /\ d.chunk.last_block <= hi.last_block
      BY <1>4, <2>2
    <2>4. lo # hi
      BY <1>4, <1>5, <1>6, <2>1, <2>2, <2>3
    <2>5. lo.last_block <= hi.last_block
      BY <1>4
    <2> QED BY <1>4, <1>5, <1>6, <1>7, <2>4, <2>5
  <1>10. ASSUME NEW c \in Headers(S)
         PROVE  c \in Headers(run) <=> lo.first_block <= c.first_block /\ c.last_block <= hi.last_block
    <2>1. lo \in Headers(S) /\ hi \in Headers(S)
      BY <1>4, <1>6
    <2>2. ASSUME c \in Headers(run)
          PROVE  lo.first_block <= c.first_block /\ c.last_block <= hi.last_block
      <3>1. lo.last_block <= c.last_block /\ c.last_block <= hi.last_block
        BY <1>4, <2>2
      <3>2. c = lo \/ lo.last_block < c.first_block
        BY <1>5, <1>7, <2>1, <3>1
      <3> QED BY <1>5, <2>1, <3>1, <3>2
    <2>3. ASSUME lo.first_block <= c.first_block, c.last_block <= hi.last_block
          PROVE  c \in Headers(run)
      BY <1>5, <1>8, <2>1, <2>3
    <2> QED BY <2>2, <2>3
  <1>11. MergeRun(Headers(S), lo, hi) = Headers(run)
    BY <1>6, <1>10 DEF MergeRun
  <1>12. MergeRun(Headers(run), lo, hi) = Headers(run)
    BY <1>6, <1>10 DEF MergeRun
  <1> QED BY <1>2, <1>4, <1>9, <1>11, <1>12

\* The entry a compaction puts for the chunks of a run.
MergedEntry(run, tables) ==
    [chunk |-> MergedChunk(Headers(run), FirstChunk(Headers(run)), LastChunk(Headers(run))),
     tables |-> tables, indexed |-> UNION {e.indexed : e \in run}]

\* What the writes of a compaction come to.
MergePut(S, run, tables) ==
    LET lo == FirstChunk(Headers(run))
        hi == LastChunk(Headers(run))
        a == MergedEntry(run, tables)
        after == (S \ run) \cup {a}
    IN  /\ run \subseteq S /\ a \in StoredChunk
        /\ Put(S, run, {a}) = after
        /\ Headers(after) = (Headers(S) \ MergeRun(Headers(S), lo, hi)) \cup {MergedChunk(Headers(S), lo, hi)}
        /\ Sound(after)
        /\ UNION {e.indexed : e \in after} = UNION {e.indexed : e \in S}

LEMMA PutMerge ==
    ASSUME NEW S \in SUBSET StoredChunk, Sound(S), NEW run, ~ DataWasChanged(run, S), Several(run),
           NEW tables \in SUBSET TableId
    PROVE  MergePut(S, run, tables)
  <1> DEFINE lo == FirstChunk(Headers(run))
             hi == LastChunk(Headers(run))
             m == MergedChunk(Headers(S), lo, hi)
             a == MergedEntry(run, tables)
             after == (S \ run) \cup {a}
  <1>1. /\ run \subseteq S
        /\ lo \in Headers(run) /\ hi \in Headers(run)
        /\ lo.last_block < hi.first_block
        /\ MergeRun(Headers(S), lo, hi) = Headers(run)
        /\ MergeRun(Headers(run), lo, hi) = Headers(run)
    BY RunEnds, SMTT(20)
  <1>2. /\ a.chunk = m /\ a.chunk.last_block = hi.last_block /\ a.chunk.blocks = Blocks(Headers(run))
        /\ a.tables = tables /\ a.indexed = UNION {e.indexed : e \in run}
        /\ a = [chunk |-> a.chunk, tables |-> a.tables, indexed |-> a.indexed]
    <2>1. MergedChunk(Headers(run), lo, hi) = m
      BY <1>1, Zenon DEF MergedChunk
    <2>2. m.last_block = hi.last_block /\ m.blocks = Blocks(Headers(run))
      BY <1>1 DEF MergedChunk
    <2> HIDE DEF m
    <2> QED BY <2>1, <2>2 DEF MergedEntry
  <1> HIDE DEF a
  <1>3. Headers(S) \in SUBSET Chunk /\ Linked(Headers(S)) /\ lo \in Headers(S) /\ hi \in Headers(S)
    BY <1>1, HeadersType, Zenon DEF Sound, Headers
  <1>4. /\ (Headers(S) \ Headers(run)) \cup {m} \in SUBSET Chunk
        /\ Linked((Headers(S) \ Headers(run)) \cup {m})
    BY <1>1, <1>3, MergeLinked, Zenon
  <1> HIDE DEF m, lo, hi
  <1>5. a \in StoredChunk
    <2>1. UNION {e.indexed : e \in run} \subseteq BlockRef
      BY <1>1, EntryFields
    <2> QED BY <1>2, <1>4, <2>1 DEF StoredChunk
  <1>6. \A e \in S \ run : e.chunk \notin Headers(run)
    BY <1>1 DEF Headers, Sound
  <1>7. Headers(after) = (Headers(S) \ Headers(run)) \cup {m}
    BY <1>1, <1>2, <1>6, Zenon DEF Headers
  <1>8. \A e \in S \ run : e.chunk.last_block # a.chunk.last_block
    <2> SUFFICES ASSUME NEW e \in S \ run, e.chunk.last_block = hi.last_block PROVE FALSE
      BY <1>2, Zenon
    <2>1. e.chunk \in Headers(S) /\ e.chunk # hi
      BY <1>1, <1>6, Zenon DEF Headers
    <2>2. e.chunk \in Chunk /\ hi \in Chunk
      BY <1>3, <2>1
    <2> QED BY <1>3, <2>1, <2>2, ChunkFields DEF Linked
  <1>9. Put(S, run, {a}) = after
    BY <1>1, <1>5, <1>8, PutReplaces, SMTT(20)
  <1>10. a.indexed \subseteq a.chunk.blocks
    BY <1>1, <1>2 DEF Sound, Blocks, Headers
  <1>11. Sound(after)
    <2>1. \A e \in S \ run : e.chunk # a.chunk
      BY <1>8
    <2>2. \A e, d \in after : e.chunk = d.chunk => e = d
      BY <2>1 DEF Sound
    <2>3. \A e \in after : e.indexed \subseteq e.chunk.blocks
      BY <1>10 DEF Sound
    <2> QED BY <1>4, <1>7, <2>2, <2>3, Zenon DEF Sound
  <1>12. UNION {e.indexed : e \in after} = UNION {e.indexed : e \in S}
    BY <1>1, <1>2
  <1> QED BY <1>1, <1>5, <1>7, <1>9, <1>11, <1>12, Zenon DEF MergePut, m, a, lo, hi

-----------------------------------------------------------------------------
(* A commit                                                                *)

\* The write of a job on the headers, in one piece.
WholeWrite(job) ==
    \/ /\ job.kind = "Insert" /\ job.chunk \in SourceChunks
       /\ CanInsertFork(Headers(chunks), job.chunk)
       /\ Headers(chunks') = InsertFork(Headers(chunks), job.chunk)
    \/ /\ job.kind = "Retain" /\ job.from \in Position
       /\ Headers(chunks') = {c \in Headers(chunks) : job.from <= c.last_block}
    \/ /\ job.kind = "Merge"
       /\ \E lo, hi \in Headers(chunks) :
             /\ lo.last_block < hi.first_block
             /\ Headers(chunks') = (Headers(chunks) \ MergeRun(Headers(chunks), lo, hi))
                                       \cup {MergedChunk(Headers(chunks), lo, hi)}

LEMMA CommitEffect ==
    ASSUME DbInv, NEW p \in Proc, Commit(p)
    PROVE  LET removed == Removed(proc[p].job, chunks)
               added == Added(p)
           IN  /\ label
               /\ removed \subseteq chunks /\ added \subseteq StoredChunk
               /\ chunks' = (chunks \ removed) \cup added
               /\ \A a \in added : a.tables = proc[p].built
               /\ TablesOf(added) = proc[p].built
               /\ deleted' = deleted \cup TablesOf(removed)
               /\ dirty' = dirty \ proc[p].built
               /\ Sound(chunks')
               /\ index' = UNION {e.indexed : e \in chunks'}
               /\ label' = label /\ WholeWrite(proc[p].job)
  <1> DEFINE job == proc[p].job
             built == proc[p].built
             removed == Removed(job, chunks)
             added == Added(p)
  <1>1. /\ proc[p].pc = "Commit" /\ ~ proc[p].stale
        /\ proc[p].snap = chunks /\ job \in Jobs /\ label /\ label' = label
        /\ built \in SUBSET TableId
        /\ chunks \in SUBSET StoredChunk /\ Sound(chunks)
        /\ index = UNION {e.indexed : e \in chunks}
    <2>1. proc[p].pc = "Commit" /\ ~ proc[p].stale /\ Apply(p) /\ label' = label
      BY DEF Commit
    <2>2. proc[p].snap = chunks /\ job \in Jobs
      BY <2>1 DEF DbInv, JobInv, JobOK
    <2>3. label
      BY <2>1 DEF DbInv, ServedInv
    <2>4. built \in SUBSET TableId /\ chunks \in SUBSET StoredChunk
      BY SMTT(20) DEF DbInv, TypeOK, ProcState
    <2> QED BY <2>1, <2>2, <2>3, <2>4 DEF DbInv, ChunkInv, IndexExact
  <1>2. /\ chunks' = Put(chunks, removed, added)
        /\ deleted' = deleted \cup TablesOf(removed)
        /\ dirty' = dirty \ TablesOf(added)
        /\ index' = IF job.kind = "Merge" THEN index
                    ELSE (index \ Blocks(Headers(removed))) \cup UNION {e.indexed : e \in added}
    BY <1>1, Zenon DEF Commit, Apply, Put
  <1>3. CASE job.kind = "Insert"
    <2> DEFINE a == [chunk |-> job.chunk, tables |-> built,
                     indexed |-> IF boot.indexing THEN job.chunk.blocks ELSE {}]
    <2>1. job.chunk \in SourceChunks /\ job.chunk \in Chunk
      BY <1>1, <1>3, DatabaseAssumption DEF Jobs
    <2>2. added = {a} /\ removed = {e \in chunks : a.chunk.first_block <= e.chunk.first_block}
      BY <1>3, SMTT(20) DEF Added, Removed
    <2>3. a \in StoredChunk /\ a.indexed \subseteq a.chunk.blocks /\ a.tables = built /\ a.chunk = job.chunk
      BY <1>1, <2>1, ChunkFields, Zenon DEF StoredChunk
    <2>4. CanInsertFork(Headers(chunks), a.chunk)
      BY <1>1, <1>3, Zenon DEF DbInv, KindInv, KindOK
    <2> HIDE DEF a, job, built, removed, added
    <2>5. /\ chunks' = (chunks \ removed) \cup added /\ Sound(chunks')
          /\ Headers(chunks') = InsertFork(Headers(chunks), a.chunk)
      BY <1>1, <1>2, <2>2, <2>3, <2>4, PutInsert, Zenon
    <2>6. removed \subseteq chunks /\ TablesOf(added) = built
      BY <2>2, <2>3 DEF TablesOf
    <2>7. index' = UNION {e.indexed : e \in chunks'}
      <3>1. index' = (UNION {e.indexed : e \in chunks \ removed}) \cup UNION {e.indexed : e \in added}
        BY <1>1, <1>2, <1>3, <2>6, UnindexExact
      <3> QED BY <2>5, <3>1
    <2>9. WholeWrite(job)
      BY <1>3, <2>1, <2>3, <2>4, <2>5, Zenon DEF WholeWrite
    <2> QED BY <1>1, <1>2, <2>2, <2>3, <2>5, <2>6, <2>7, <2>9, Zenon DEF job, built, removed, added
  <1>4. CASE job.kind = "Retain"
    <2>1. job.from \in Position /\ job.from \in Int
      BY <1>1, <1>4 DEF Jobs, Position
    <2>2. added = {} /\ removed = {e \in chunks : e.chunk.last_block < job.from}
      BY <1>4 DEF Added, Removed
    <2>3. built = {} /\ TablesOf(added) = {}
      BY <1>1, <1>4, <2>2, Zenon DEF DbInv, KindInv, KindOK, TablesOf
    <2> HIDE DEF job, built, removed, added
    <2>4. /\ chunks' = chunks \ removed /\ Sound(chunks')
          /\ Headers(chunks') = {c \in Headers(chunks) : job.from <= c.last_block}
      BY <1>1, <1>2, <2>1, <2>2, PutRetain, Zenon
    <2>5. index' = UNION {e.indexed : e \in chunks'}
      <3>1. index' = UNION {e.indexed : e \in chunks \ removed}
        BY <1>1, <1>2, <1>4, <2>2, UnindexExact
      <3> QED BY <2>4, <3>1, Zenon
    <2>7. WholeWrite(job)
      BY <1>4, <2>1, <2>4, Zenon DEF WholeWrite
    <2> QED BY <1>1, <1>2, <2>2, <2>3, <2>4, <2>5, <2>7, Zenon DEF job, built, removed, added
  <1>5. CASE job.kind = "Merge"
    <2> DEFINE lo == FirstChunk(Headers(job.run))
               hi == LastChunk(Headers(job.run))
               a == MergedEntry(job.run, built)
    <2>1. ~ DataWasChanged(job.run, chunks) /\ Several(job.run)
      BY <1>1, <1>5 DEF DbInv, KindInv, KindOK
    <2>2. added = {a} /\ removed = job.run /\ a.tables = built
      BY <1>5 DEF Added, Removed, MergedEntry
    <2> HIDE DEF job, built, removed, added
    <2>3. /\ job.run \subseteq chunks /\ a \in StoredChunk
          /\ chunks' = (chunks \ removed) \cup added /\ Sound(chunks')
          /\ Headers(chunks') = (Headers(chunks) \ MergeRun(Headers(chunks), lo, hi))
                                   \cup {MergedChunk(Headers(chunks), lo, hi)}
          /\ UNION {e.indexed : e \in chunks'} = UNION {e.indexed : e \in chunks}
      <3>1. /\ job.run \subseteq chunks /\ a \in StoredChunk
            /\ Put(chunks, job.run, {a}) = (chunks \ job.run) \cup {a}
            /\ Headers((chunks \ job.run) \cup {a})
                  = (Headers(chunks) \ MergeRun(Headers(chunks), lo, hi))
                       \cup {MergedChunk(Headers(chunks), lo, hi)}
            /\ Sound((chunks \ job.run) \cup {a})
            /\ UNION {e.indexed : e \in (chunks \ job.run) \cup {a}} = UNION {e.indexed : e \in chunks}
        <4>1. MergePut(chunks, job.run, built)
          BY <1>1, <2>1, PutMerge, Zenon
        <4> QED BY <4>1, Zenon DEF MergePut
      <3> HIDE DEF a, lo, hi
      <3> QED BY <1>2, <2>2, <3>1, Zenon
    <2>4. lo \in Headers(chunks) /\ hi \in Headers(chunks) /\ lo.last_block < hi.first_block
      <3>1. lo \in Headers(job.run) /\ hi \in Headers(job.run) /\ lo.last_block < hi.first_block
        BY <1>1, <2>1, RunEnds, SMTT(20)
      <3> QED BY <2>3, <3>1, Zenon DEF Headers
    <2> HIDE DEF a, lo, hi
    <2>5. removed \subseteq chunks /\ TablesOf(added) = built
      BY <2>2, <2>3 DEF TablesOf
    <2>7. WholeWrite(job)
      BY <1>5, <2>3, <2>4, Zenon DEF WholeWrite
    <2> QED BY <1>1, <1>2, <1>5, <2>2, <2>3, <2>5, <2>7, Zenon DEF job, built, removed, added
  <1>6. job.kind \in {"Insert", "Retain", "Merge"}
    BY <1>1 DEF Jobs
  <1> QED BY <1>3, <1>4, <1>5, <1>6, Zenon


-----------------------------------------------------------------------------
(* Steps that leave the jobs alone                                         *)

\* A job that does not run has nothing.
LEMMA IdleState ==
    /\ Idle \in ProcState /\ Idle.pc = "Idle" /\ Idle.built = {} /\ Idle.cur = None
    /\ Idle.snap = {} /\ Idle.stale = FALSE /\ Idle.attempt = 0
  BY DatabaseAssumption DEF Idle, ProcState

\* The faults that are left.
LEMMA FaultsLeft ==
    ASSUME DbInv
    PROVE  /\ faults \in 0 .. MaxFaults
           /\ faults' = faults \/ (faults > 0 /\ faults' = faults - 1) => faults' \in 0 .. MaxFaults
  <1>1. faults \in 0 .. MaxFaults /\ MaxFaults \in Nat
    BY DatabaseAssumption DEF DbInv, TypeOK
  <1> QED BY <1>1

LEMMA InitInv == Init => DbInv
  <1> SUFFICES ASSUME Init PROVE DbInv
    OBVIOUS
  <1>1. \A p \in Proc : proc[p] = Idle
    BY DEF Init
  <1>2. Idle \in ProcState /\ boot \in [pc : BootPc, reclaim : BOOLEAN, serve : BOOLEAN, indexing : BOOLEAN]
    BY DatabaseAssumption DEF Init, Idle, ProcState, BootPc
  <1>3. TypeOK
    <2>1. proc \in [Proc -> ProcState] /\ data \in [TableId -> {"None", "Part", "Full"}]
      BY <1>2 DEF Init
    <2>2. faults \in 0 .. MaxFaults
      BY DatabaseAssumption DEF Init
    <2>3. label \in BOOLEAN /\ chunks = {} /\ dirty = {} /\ deleted = {} /\ pending = {} /\ lost = {} /\ index = {}
      BY Zenon DEF Init
    <2> QED BY <1>2, <2>1, <2>2, <2>3 DEF TypeOK
  <1>4. ServedInv /\ JobInv /\ KindInv
    BY <1>1, Zenon DEF Init, ServedInv, JobInv, JobOK, KindInv, KindOK, Idle, Up
  <1>5. TableInv
    <2>1. \A p \in Proc : proc[p].built = {} /\ proc[p].cur = None /\ Mine(p) = {}
      BY <1>1 DEF Idle, Mine
    <2>2. ScanInv /\ OwnedOnce
      BY <2>1 DEF Init, ScanInv, OwnedOnce, Proc
    <2>3. LiveReadable /\ BuildsUntouched /\ TablesAccounted
      BY <2>1, Zenon DEF Init, LiveReadable, BuildsUntouched, TablesAccounted, TablesOf
    <2> QED BY <2>2, <2>3 DEF TableInv
  <1>6. ChunkInv /\ IndexExact
    BY Zenon DEF Init, ChunkInv, Sound, Linked, Headers, IndexExact
  <1> QED BY <1>3, <1>4, <1>5, <1>6 DEF DbInv

LEMMA SameChunks ==
    ASSUME ChunkInv, UNCHANGED chunks
    PROVE  ChunkInv'
  BY Zenon DEF ChunkInv, Sound, Linked, Headers

LEMMA SameIndex ==
    ASSUME IndexExact, UNCHANGED <<label, chunks, index>>
    PROVE  IndexExact'
  BY DEF IndexExact

LEMMA SameJobs ==
    ASSUME JobInv, KindInv, UNCHANGED <<proc, chunks>>
    PROVE  JobInv' /\ KindInv'
  <1>1. JobInv'
    BY DEF JobInv
  <1>2. KindInv'
    BY DEF KindInv
  <1> QED BY <1>1, <1>2

LEMMA SameTables ==
    ASSUME OwnedOnce, LiveReadable, BuildsUntouched, TablesAccounted,
           UNCHANGED <<chunks, data, markers, proc, lost>>, pending' \subseteq dirty \cup deleted
    PROVE  OwnedOnce' /\ LiveReadable' /\ BuildsUntouched' /\ TablesAccounted'
  <1>1. chunks' = chunks /\ data' = data /\ dirty' = dirty /\ deleted' = deleted /\ proc' = proc /\ lost' = lost
    BY DEF markers
  <1> USE <1>1
  <1>2. OwnedOnce'
    BY DEF OwnedOnce, Mine
  <1>3. LiveReadable'
    BY DEF LiveReadable, TablesOf
  <1>4. BuildsUntouched'
    BY DEF BuildsUntouched
  <1>5. TablesAccounted'
    BY DEF TablesAccounted, TablesOf
  <1> QED BY <1>2, <1>3, <1>4, <1>5

\* The cleanup and the end of a pass.
LEMMA ScanStep ==
    ASSUME DbInv, ScanDeleted \/ CleanupFails
    PROVE  DbInv'
  <1>1. UNCHANGED <<label, chunks, data, markers, index, proc, boot, lost>> /\ pending' \in {deleted, {}}
    BY DEF ScanDeleted, CleanupFails
  <1>2. chunks' = chunks /\ data' = data /\ dirty' = dirty /\ deleted' = deleted /\ proc' = proc /\ lost' = lost
        /\ label' = label /\ index' = index /\ boot' = boot
    BY <1>1 DEF markers
  <1> USE <1>1, <1>2
  <1>3. faults' \in 0 .. MaxFaults
    BY DatabaseAssumption DEF DbInv, TypeOK, ScanDeleted, CleanupFails
  <1>4. TypeOK'
    BY <1>3, SMTT(20) DEF DbInv, TypeOK
  <1>5. ServedInv'
    BY DEF DbInv, ServedInv, Up
  <1>6. ScanInv'
    BY DEF ScanDeleted, CleanupFails, ScanInv, Up
  <1> QED BY <1>4, <1>5, <1>6, SameChunks, SameIndex, SameJobs, SameTables DEF DbInv, TableInv

\* purge_table takes what is marked: no chunk's table and no job's.
LEMMA PurgeStep ==
    ASSUME DbInv, NEW t \in TableId, PurgeTable(t)
    PROVE  DbInv'
  <1>1. /\ t \in pending /\ pending' = pending \ {t} /\ data' = [data EXCEPT ![t] = "None"]
        /\ dirty' = dirty \ {t} /\ deleted' = deleted \ {t} /\ lost' = lost \ {t}
        /\ label' = label /\ chunks' = chunks /\ index' = index /\ proc' = proc /\ boot' = boot
        /\ faults' = faults
    BY DEF PurgeTable
  <1> USE <1>1
  <1>2. TypeOK'
    BY DEF DbInv, TypeOK
  <1>3. ServedInv'
    BY DEF DbInv, ServedInv, Up
  <1>4. ScanInv'
    BY DEF DbInv, TableInv, ScanInv
  <1>5. OwnedOnce'
    BY DEF DbInv, TableInv, OwnedOnce, Mine
  <1>6. \A u \in TableId : u # t => data'[u] = data[u]
    BY DEF DbInv, TypeOK
  <1>7. TablesOf(chunks) \subseteq TableId
    BY DEF DbInv, TypeOK, TablesOf, StoredChunk
  <1>8. LiveReadable'
    BY <1>6, <1>7 DEF DbInv, TableInv, LiveReadable, TablesOf
  <1>9. \A p \in Proc : t \notin proc[p].built /\ t # proc[p].cur
    <2>1. CASE boot.pc = "Orphans"
      BY <2>1, DatabaseAssumption, Zenon DEF DbInv, ServedInv, JobInv, JobOK, Up
    <2>2. CASE boot.pc # "Orphans"
      BY <2>2, DatabaseAssumption DEF DbInv, TableInv, ScanInv, BuildsUntouched
    <2> QED BY <2>1, <2>2, SMTT(20)
  <1>10. \A p \in Proc : proc[p].built \subseteq TableId /\ proc[p].cur \in TableId \cup {None}
    BY DEF DbInv, TypeOK, ProcState
  <1>11. BuildsUntouched'
    BY <1>6, <1>9, <1>10 DEF DbInv, TableInv, BuildsUntouched
  <1>12. TablesAccounted'
    <2>1. data'[t] = "None"
      BY DEF DbInv, TypeOK
    <2>2. \A u \in TableId : data'[u] # "None" => u \in TablesOf(chunks') \cup dirty' \cup deleted'
      BY <1>6, <2>1, SMTT(20) DEF DbInv, TableInv, TablesAccounted
    <2> QED BY <2>2 DEF DbInv, TableInv, TablesAccounted
  <1> QED BY <1>2, <1>3, <1>4, <1>5, <1>8, <1>11, <1>12, SameChunks, SameIndex, SameJobs DEF DbInv, TableInv

\* No job runs while the process starts.
LEMMA IdleAtBoot ==
    ASSUME DbInv, ~ Up
    PROVE  \A p \in Proc : proc[p].pc = "Idle" /\ proc[p].built = {} /\ proc[p].cur = None
  BY Zenon DEF DbInv, ServedInv, JobInv, JobOK

\* The steps of a start that only move on, or scan.
LEMMA BootStep ==
    ASSUME DbInv,
           \/ \E flags \in Starts : Start(flags)
           \/ ScanOrphans \/ OrphansPurged \/ NoDrop \/ DropCleanup \/ Dropped \/ StartFails
    PROVE  DbInv'
  <1>1. ~ Up /\ boot.pc \in BootPc
    BY DEF DbInv, TypeOK, Start, ScanOrphans, OrphansPurged, NoDrop, DropCleanup, Dropped, StartFails, Up
  <1>2. /\ label' = label /\ chunks' = chunks /\ data' = data /\ dirty' = dirty /\ deleted' = deleted
        /\ index' = index /\ proc' = proc /\ lost' = lost /\ UNCHANGED markers
    BY DEF Start, ScanOrphans, OrphansPurged, NoDrop, DropCleanup, Dropped, StartFails, markers
  <1> USE <1>2
  <1>3. faults' \in 0 .. MaxFaults
    BY DatabaseAssumption DEF DbInv, TypeOK, Start, ScanOrphans, OrphansPurged, NoDrop, DropCleanup, Dropped,
                              StartFails
  <1>4. boot' \in [pc : BootPc, reclaim : BOOLEAN, serve : BOOLEAN, indexing : BOOLEAN]
    <2>1. ASSUME NEW flags \in Starts, Start(flags)
          PROVE  boot' \in [pc : BootPc, reclaim : BOOLEAN, serve : BOOLEAN, indexing : BOOLEAN]
      <3>1. flags \in [reclaim : BOOLEAN, serve : BOOLEAN, indexing : BOOLEAN]
        BY DatabaseAssumption
      <3> QED BY <2>1, <3>1 DEF Start, BootPc
    <2>2. AfterDrop \in BootPc
      BY DEF AfterDrop, AfterRecovery, BootPc
    <2>3. ASSUME ScanOrphans \/ OrphansPurged \/ NoDrop \/ DropCleanup \/ Dropped \/ StartFails
          PROVE  boot' \in [pc : BootPc, reclaim : BOOLEAN, serve : BOOLEAN, indexing : BOOLEAN]
      <3>2. boot \in [pc : BootPc, reclaim : BOOLEAN, serve : BOOLEAN, indexing : BOOLEAN]
        BY Zenon DEF DbInv, TypeOK
      <3>1. {"Orphans", "Drop", "DropCleanup", "Up"} \subseteq BootPc
        BY DEF BootPc
      <3> HIDE DEF BootPc
      <3> QED BY <2>2, <2>3, <3>1, <3>2, Zenon DEF ScanOrphans, OrphansPurged, NoDrop, DropCleanup, Dropped,
                                      StartFails, GoTo
    <2> QED BY <2>1, <2>3
  <1>5. pending' \subseteq IF boot'.pc = "Orphans" THEN dirty ELSE deleted
    <2>1. ASSUME NEW flags \in Starts, Start(flags)
          PROVE  pending' \subseteq deleted /\ boot'.pc # "Orphans"
      BY <2>1 DEF Start, DbInv, TableInv, ScanInv
    <2>2. AfterDrop # "Orphans"
      BY DEF AfterDrop, AfterRecovery
    <2>3. ASSUME ScanOrphans PROVE pending' = dirty /\ boot'.pc = "Orphans"
      BY <2>3 DEF ScanOrphans, GoTo, DbInv, TypeOK
    <2>4. ASSUME OrphansPurged \/ NoDrop \/ DropCleanup \/ Dropped \/ StartFails
          PROVE  boot'.pc # "Orphans"
      BY <2>2, <2>4, Zenon DEF DbInv, TypeOK, OrphansPurged, NoDrop, DropCleanup, Dropped, StartFails, GoTo
    <2>5. ASSUME OrphansPurged \/ NoDrop \/ DropCleanup \/ Dropped \/ StartFails
          PROVE  pending' \subseteq deleted
      BY <2>5 DEF DbInv, TableInv, ScanInv, OrphansPurged, NoDrop, DropCleanup, Dropped, StartFails
    <2> QED BY <2>1, <2>3, <2>4, <2>5
  <1>6. TypeOK'
    <2>1. pending' \subseteq TableId
      BY <1>5 DEF DbInv, TypeOK
    <2> QED BY <1>3, <1>4, <2>1 DEF DbInv, TypeOK
  <1>7. ServedInv'
    <2>1. \A p \in Proc : proc'[p].pc = "Idle"
      BY <1>1, IdleAtBoot
    <2>2. (boot'.pc = "Up" => ~ boot'.serve) /\ boot'.pc # "DropIndex"
      <3>1. ASSUME NEW flags \in Starts, Start(flags) PROVE boot'.pc \in {"Reclaim", "Drop"}
        BY <3>1 DEF Start
      <3>2. ASSUME ScanOrphans \/ OrphansPurged \/ DropCleanup
            PROVE  boot'.pc \in {"Orphans", "Drop", "DropCleanup"}
        BY <3>2 DEF DbInv, TypeOK, ScanOrphans, OrphansPurged, DropCleanup, GoTo
      <3>3. ASSUME NoDrop \/ Dropped \/ (StartFails /\ boot.pc # "Create")
            PROVE  boot'.serve = boot.serve /\ boot'.pc = AfterDrop
        BY <3>3 DEF DbInv, TypeOK, NoDrop, Dropped, StartFails, GoTo
      <3>4. AfterDrop # "DropIndex" /\ (AfterDrop = "Up" => ~ boot.serve)
        BY DEF AfterDrop, AfterRecovery
      <3>5. ASSUME StartFails, boot.pc = "Create" PROVE boot'.pc = "Up" /\ boot'.serve = FALSE
        BY <3>5 DEF DbInv, TypeOK, StartFails
      <3> QED BY <3>1, <3>2, <3>3, <3>4, <3>5, Zenon
    <2> QED BY <2>1, <2>2, Zenon DEF DbInv, ServedInv, Up
  <1>8. ScanInv'
    BY <1>5 DEF ScanInv
  <1>9. pending' \subseteq dirty \cup deleted
    BY <1>5
  <1> QED BY <1>6, <1>7, <1>8, <1>9, SameChunks, SameIndex, SameJobs, SameTables DEF DbInv, TableInv

\* What lies below the watermark is no chunk's (reclaim_upper_bound).
LEMMA ReclaimStep ==
    ASSUME DbInv, Reclaim
    PROVE  DbInv'
  <1>1. /\ boot.pc \in {"Reclaim", "ReclaimAgain"}
        /\ boot' = [boot EXCEPT !.pc = IF boot.pc = "Reclaim" THEN "Scan" ELSE AfterRecovery]
        /\ label' = label /\ chunks' = chunks /\ dirty' = dirty /\ deleted' = deleted
        /\ index' = index /\ proc' = proc /\ pending' = pending /\ lost' = lost /\ faults' = faults
    BY DEF Reclaim, GoTo, markers
  <1> USE <1>1
  <1>2. PICK gone \in SUBSET BelowWatermark : data' = [t \in TableId |-> IF t \in gone THEN "None" ELSE data[t]]
    BY DEF Reclaim
  <1>3. \A t \in TablesOf(chunks) : t \notin gone /\ t \in TableId
    <2>1. TablesOf(chunks) \subseteq TableId
      BY DEF DbInv, TypeOK, TablesOf, StoredChunk
    <2> QED BY <2>1, DatabaseAssumption, Zenon DEF BelowWatermark
  <1>4. /\ boot' \in [pc : BootPc, reclaim : BOOLEAN, serve : BOOLEAN, indexing : BOOLEAN]
        /\ boot'.pc \in {"Scan", "Create", "Up"} /\ (boot'.pc = "Up" => ~ boot'.serve)
    BY DEF DbInv, TypeOK, AfterRecovery, BootPc
  <1>5. data' \in [TableId -> {"None", "Part", "Full"}]
    BY <1>2 DEF DbInv, TypeOK
  <1>6. TypeOK'
    BY <1>4, <1>5 DEF DbInv, TypeOK
  <1>7. \A p \in Proc : proc[p].pc = "Idle" /\ proc[p].built = {} /\ proc[p].cur = None
    BY IdleAtBoot DEF Up
  <1>8. ServedInv'
    BY <1>4, <1>7 DEF DbInv, ServedInv, Up
  <1>9. ScanInv'
    BY <1>4 DEF DbInv, TableInv, ScanInv
  <1>10. OwnedOnce'
    BY DEF DbInv, TableInv, OwnedOnce, Mine
  <1>11. LiveReadable'
    BY <1>2, <1>3 DEF DbInv, TableInv, LiveReadable, TablesOf
  <1>12. BuildsUntouched'
    BY <1>7 DEF BuildsUntouched
  <1>13. TablesAccounted'
    <2>1. \A t \in TableId : data'[t] # "None" => data[t] # "None"
      BY <1>2
    <2> QED BY <2>1 DEF DbInv, TableInv, TablesAccounted, TablesOf
  <1> QED BY <1>6, <1>8, <1>9, <1>10, <1>11, <1>12, <1>13, SameChunks, SameIndex, SameJobs DEF DbInv, TableInv

\* Jobs that do not run claim nothing.
LEMMA IdleJobs ==
    ASSUME \A p \in Proc : proc'[p].pc = "Idle" /\ proc'[p].built = {} /\ proc'[p].cur = None
    PROVE  JobInv' /\ KindInv' /\ BuildsUntouched' /\ (Mine("writer") \cap Mine("compaction") = {})'
  <1>1. JobInv' /\ KindInv'
    BY Zenon DEF JobInv, JobOK, KindInv, KindOK
  <1>2. BuildsUntouched'
    BY DEF BuildsUntouched
  <1>3. (Mine("writer") \cap Mine("compaction") = {})'
    BY DEF Mine, Proc
  <1> QED BY <1>1, <1>2, <1>3, SMTT(20)

LEMMA DropStep ==
    ASSUME DbInv, DropDataset
    PROVE  DbInv'
  <1>1. /\ boot.pc = "Drop" /\ label' = FALSE /\ chunks' = {} /\ deleted' = deleted \cup TablesOf(chunks)
        /\ boot' = [boot EXCEPT !.pc = "DropIndex"]
        /\ data' = data /\ dirty' = dirty /\ index' = index /\ proc' = proc /\ pending' = pending
        /\ lost' = lost /\ faults' = faults
    BY DEF DropDataset, GoTo
  <1> USE <1>1
  <1>2. \A p \in Proc : proc'[p].pc = "Idle" /\ proc'[p].built = {} /\ proc'[p].cur = None
    BY IdleAtBoot DEF Up
  <1>3. boot' \in [pc : BootPc, reclaim : BOOLEAN, serve : BOOLEAN, indexing : BOOLEAN] /\ boot'.pc = "DropIndex"
    BY DEF DbInv, TypeOK, BootPc
  <1>4. TypeOK'
    <2>1. TablesOf(chunks) \subseteq TableId
      BY DEF DbInv, TypeOK, TablesOf, StoredChunk
    <2> QED BY <1>3, <2>1, Zenon DEF DbInv, TypeOK
  <1>5. ServedInv'
    BY <1>2, <1>3 DEF ServedInv, Up
  <1>6. ScanInv'
    BY <1>3 DEF DbInv, TableInv, ScanInv
  <1>7. OwnedOnce'
    BY <1>2, IdleJobs DEF OwnedOnce
  <1>8. TablesOf(chunks') = {}
    BY DEF TablesOf
  <1>9. LiveReadable'
    BY <1>8 DEF LiveReadable, TablesOf
  <1>10. TablesAccounted'
    <2>1. \A t \in TableId : data'[t] # "None" => t \in dirty' \cup deleted'
      BY DEF DbInv, TableInv, TablesAccounted
    <2>2. \A t \in dirty' \ (deleted' \cup lost') : \E p \in Proc : t \in proc'[p].built \cup {proc'[p].cur}
      BY DEF DbInv, TableInv, TablesAccounted
    <2> QED BY <2>1, <2>2 DEF TablesAccounted
  <1>11. ChunkInv' /\ IndexExact'
    BY DEF ChunkInv, Sound, Linked, Headers, IndexExact
  <1> QED BY <1>2, <1>4, <1>5, <1>6, <1>7, <1>9, <1>10, <1>11, IdleJobs DEF DbInv, TableInv

\* The index is purged, and the label written, without a chunk.
LEMMA CreateStep ==
    ASSUME DbInv, PurgeIndex \/ Create
    PROVE  DbInv'
  <1>1. /\ chunks' = chunks /\ data' = data /\ dirty' = dirty /\ deleted' = deleted /\ proc' = proc
        /\ pending' = pending /\ lost' = lost /\ faults' = faults /\ UNCHANGED markers
    BY DEF PurgeIndex, Create, markers
  <1>2. boot.pc \in {"DropIndex", "Create"} /\ index' \subseteq index
    BY DEF PurgeIndex, Create
  <1>3. \/ boot' = boot /\ label' = label /\ ~ label
        \/ boot' = [boot EXCEPT !.pc = "Up"] /\ label' = TRUE /\ index' = index /\ (label \/ index = {})
    BY DEF PurgeIndex, Create, GoTo, DbInv, ServedInv
  <1>4. /\ boot' \in [pc : BootPc, reclaim : BOOLEAN, serve : BOOLEAN, indexing : BOOLEAN]
        /\ boot'.pc # "Orphans" /\ boot.pc # "Orphans" /\ boot.pc # "Up"
        /\ boot'.pc = "DropIndex" => boot' = boot
        /\ boot'.pc = "Up" => label'
    BY <1>2, <1>3 DEF DbInv, TypeOK, BootPc
  <1> USE <1>1, <1>4
  <1>5. TypeOK'
    BY <1>2, <1>3, Zenon DEF DbInv, TypeOK
  <1>6. ServedInv'
    <2>1. \A p \in Proc : proc'[p].pc = "Idle"
      BY IdleAtBoot DEF Up
    <2> QED BY <1>3, <2>1 DEF DbInv, ServedInv, Up
  <1>7. ScanInv' /\ pending' \subseteq dirty \cup deleted
    BY DEF DbInv, TableInv, ScanInv
  <1>8. IndexExact'
    <2>1. CASE ~ label
      <3>1. chunks = {}
        BY <2>1 DEF DbInv, ServedInv
      <3> QED BY <1>3, <2>1, <3>1, Zenon DEF IndexExact
    <2>2. CASE label
      BY <1>3, <2>2 DEF DbInv, IndexExact
    <2> QED BY <2>1, <2>2
  <1> QED BY <1>5, <1>6, <1>7, <1>8, SameChunks, SameJobs, SameTables DEF DbInv, TableInv

LEMMA CrashStep ==
    ASSUME DbInv, Crash
    PROVE  DbInv'
  <1>1. /\ proc' = [p \in Proc |-> Idle] /\ pending' = {} /\ lost' = dirty \ deleted
        /\ boot' = [pc |-> "Down", reclaim |-> FALSE, serve |-> FALSE, indexing |-> FALSE]
        /\ label' = label /\ chunks' = chunks /\ data' = data /\ dirty' = dirty /\ deleted' = deleted
        /\ index' = index
    BY DEF Crash, markers
  <1>2. \A p \in Proc : proc'[p].pc = "Idle" /\ proc'[p].built = {} /\ proc'[p].cur = None
    BY <1>1, Zenon DEF Idle
  <1> USE <1>1, <1>2
  <1>3. TypeOK'
    <2>1. proc' \in [Proc -> ProcState]
      <3>1. Idle \in ProcState
        BY IdleState, Zenon
      <3> QED BY <3>1, Zenon
    <2>2. boot' \in [pc : BootPc, reclaim : BOOLEAN, serve : BOOLEAN, indexing : BOOLEAN]
      BY Zenon DEF BootPc
    <2>3. faults' \in 0 .. MaxFaults
      BY FaultsLeft, Zenon DEF Crash
    <2> QED BY <2>1, <2>2, <2>3, Zenon DEF DbInv, TypeOK
  <1>4. ServedInv'
    BY Zenon DEF DbInv, ServedInv, Up
  <1>5. ScanInv'
    BY Zenon DEF ScanInv
  <1>6. OwnedOnce'
    BY IdleJobs, Zenon DEF DbInv, TableInv, OwnedOnce
  <1>7. LiveReadable' /\ TablesAccounted'
    BY Zenon DEF DbInv, TableInv, LiveReadable, TablesAccounted, TablesOf
  <1> QED BY <1>3, <1>4, <1>5, <1>6, <1>7, IdleJobs, SameChunks, SameIndex, Zenon DEF DbInv, TableInv

-----------------------------------------------------------------------------
(* Steps of a job                                                          *)

LEMMA JobUpdate ==
    ASSUME TypeOK, NEW p \in Proc, NEW r \in ProcState, proc' = [proc EXCEPT ![p] = r]
    PROVE  /\ proc' \in [Proc -> ProcState] /\ proc'[p] = r
           /\ \A q \in Proc : q # p => proc'[q] = proc[q]
  BY SMTT(20) DEF TypeOK

\* Builds that go on as they are.
LEMMA SameBuilds ==
    ASSUME BuildsUntouched, data' = data, dirty' = dirty, deleted' = deleted,
           \A q \in Proc : proc'[q].built = proc[q].built /\ proc'[q].cur = proc[q].cur
    PROVE  BuildsUntouched'
  BY DEF BuildsUntouched

\* A job that moves on without touching a table keeps the invariant if its
\* new state is in order.
LEMMA JobMoves ==
    ASSUME DbInv, NEW p \in Proc, NEW r \in ProcState, proc' = [proc EXCEPT ![p] = r],
           UNCHANGED <<label, chunks, data, markers, index, pending, boot, lost, faults>>,
           r.pc # "Idle" => Up /\ boot.serve,
           JobOK(r, chunks), KindOK(r), r.built = proc[p].built, r.cur = proc[p].cur
    PROVE  DbInv'
  <1>1. /\ label' = label /\ chunks' = chunks /\ data' = data /\ dirty' = dirty /\ deleted' = deleted
        /\ index' = index /\ pending' = pending /\ boot' = boot /\ lost' = lost /\ faults' = faults
    BY DEF markers
  <1>2. /\ proc' \in [Proc -> ProcState] /\ proc'[p] = r
        /\ \A q \in Proc : q # p => proc'[q] = proc[q]
    BY JobUpdate, Zenon DEF DbInv
  <1> USE <1>1, <1>2
  <1>3. \A q \in Proc : proc'[q].built = proc[q].built /\ proc'[q].cur = proc[q].cur
    OBVIOUS
  <1>4. TypeOK'
    BY Zenon DEF DbInv, TypeOK
  <1>5. ServedInv'
    BY DEF DbInv, ServedInv, Up
  <1>6. JobInv'
    BY DEF DbInv, JobInv
  <1>7. KindInv'
    BY DEF DbInv, KindInv
  <1>8. ScanInv'
    BY Zenon DEF DbInv, TableInv, ScanInv
  <1>9. OwnedOnce'
    BY <1>3, Zenon DEF DbInv, TableInv, OwnedOnce, Mine, Proc
  <1>10. LiveReadable'
    BY Zenon DEF DbInv, TableInv, LiveReadable, TablesOf
  <1>11. BuildsUntouched'
    BY <1>3, SameBuilds, Zenon DEF DbInv, TableInv
  <1>12. TablesAccounted'
    BY <1>3, Zenon DEF DbInv, TableInv, TablesAccounted, TablesOf
  <1> QED BY <1>4, <1>5, <1>6, <1>7, <1>8, <1>9, <1>10, <1>11, <1>12, SameChunks, SameIndex, Zenon DEF DbInv, TableInv

\* A new job.
LEMMA NewJobStep ==
    ASSUME DbInv, NewJob
    PROVE  DbInv'
  <1> DEFINE New(pc, job) == [Idle EXCEPT !.pc = pc, !.job = job]
  <1>1. ASSUME NEW p \in Proc, NEW pc \in {"Build", "Begin"}, NEW job \in Jobs,
               Ready(p), proc' = [proc EXCEPT ![p] = New(pc, job)],
               UNCHANGED <<label, chunks, data, markers, index, pending, boot, lost, faults>>,
               job.kind = "Retain" => pc = "Begin",
               job.kind = "Merge" => Several(job.run)
        PROVE  DbInv'
    <2> DEFINE r == New(pc, job)
    <2>1. /\ r.pc = pc /\ r.job = job /\ r.built = {} /\ r.cur = None /\ r.snap = {} /\ r.stale = FALSE
          /\ r.attempt = 0 /\ r \in ProcState
      <3>1. /\ Idle.built = {} /\ Idle.cur = None /\ Idle.snap = {} /\ Idle.stale = FALSE /\ Idle.attempt = 0
            /\ Idle \in ProcState
        BY IdleState, Zenon
      <3> QED BY <3>1, Zenon DEF ProcState
    <2>2. proc[p].built = {} /\ proc[p].cur = None /\ Up /\ boot.serve
      BY <1>1 DEF Ready, DbInv, JobInv, JobOK
    <2> HIDE DEF r
    <2>3. JobOK(r, chunks) /\ KindOK(r)
      BY <1>1, <2>1, DatabaseAssumption DEF JobOK, KindOK
    <2> QED BY <1>1, <2>1, <2>2, <2>3, JobMoves, Zenon DEF r
  <1>2. ASSUME NEW c \in SourceChunks, StartInsert(c) PROVE DbInv'
    <2>1. [kind |-> "Insert", chunk |-> c] \in Jobs
      BY DEF Jobs
    <2> QED BY <1>1, <1>2, <2>1, Zenon DEF StartInsert, Proc
  <1>3. ASSUME NEW from \in Position, StartRetain(from) PROVE DbInv'
    <2>1. [kind |-> "Retain", from |-> from] \in Jobs
      BY DEF Jobs
    <2> QED BY <1>1, <1>3, <2>1, Zenon DEF StartRetain, Proc
  <1>4. ASSUME NEW lo \in chunks, NEW hi \in chunks, PlanMerge(lo, hi) PROVE DbInv'
    <2> DEFINE run == {e \in chunks : e.chunk \in MergeRun(Headers(chunks), lo.chunk, hi.chunk)}
    <2>1. run \in SUBSET StoredChunk /\ lo \in StoredChunk /\ hi \in StoredChunk
      BY SMTT(20) DEF DbInv, TypeOK
    <2>2. [kind |-> "Merge", run |-> run] \in Jobs
      BY <2>1, Zenon DEF Jobs
    <2>3. lo.chunk.last_block < hi.chunk.first_block
      BY <1>4 DEF PlanMerge
    <2>4. lo.chunk.last_block < hi.chunk.last_block /\ lo.chunk.first_block <= hi.chunk.first_block
      BY <2>1, <2>3, EntryFields
    <2>5. lo \in run /\ hi \in run
      BY <2>1, <2>4, EntryFields DEF MergeRun, Headers
    <2>6. Ready("compaction") /\ proc' = [proc EXCEPT !["compaction"] = New("Build", [kind |-> "Merge", run |-> run])]
          /\ UNCHANGED <<label, chunks, data, markers, index, pending, boot, lost, faults>>
      BY <1>4 DEF PlanMerge
    <2> HIDE DEF run
    <2>7. Several(run)
      BY <2>4, <2>5, Zenon DEF Several
    <2> QED BY <1>1, <2>2, <2>6, <2>7, Zenon DEF Proc
  <1> QED BY <1>2, <1>3, <1>4 DEF NewJob

\* An error in a transaction leaves nothing behind that is not known of.
LEMMA FailedJob ==
    ASSUME DbInv, NEW p \in Proc, proc[p].pc \in {"Callback", "Commit", "Cancel"},
           proc' = [proc EXCEPT ![p] = Failed(p)],
           UNCHANGED <<label, chunks, data, markers, index, pending, boot, lost, faults>>
    PROVE  DbInv'
  <1>1. proc[p] \in ProcState /\ JobOK(proc[p], chunks) /\ KindOK(proc[p]) /\ Up /\ boot.serve
    BY DEF DbInv, TypeOK, JobInv, KindInv, ServedInv
  <1>2. proc[p].cur = None
    BY <1>1, Zenon DEF JobOK
  <1>3. CASE proc[p].built = {}
    <2>1. Failed(p) = Idle
      BY <1>3 DEF Failed
    <2>2. Idle \in ProcState /\ Idle.pc = "Idle" /\ Idle.built = {} /\ Idle.cur = None
      BY IdleState, Zenon
    <2>3. JobOK(Idle, chunks) /\ KindOK(Idle)
      BY <2>2, Zenon DEF JobOK, KindOK
    <2> QED BY <1>2, <1>3, <2>1, <2>2, <2>3, JobMoves, Zenon
  <1>4. CASE proc[p].built # {}
    <2> DEFINE r == [proc[p] EXCEPT !.pc = "Abandon", !.snap = {}]
    <2>1. Failed(p) = r
      BY <1>4 DEF Failed
    <2>2. /\ r \in ProcState /\ r.pc = "Abandon" /\ r.built = proc[p].built /\ r.cur = proc[p].cur
          /\ r.job = proc[p].job
      BY <1>1, Zenon DEF ProcState
    <2> HIDE DEF r
    <2>3. JobOK(r, chunks) /\ KindOK(r)
      BY <1>1, <1>2, <2>2, Zenon DEF JobOK, KindOK
    <2> QED BY <1>1, <2>1, <2>2, <2>3, JobMoves, Zenon
  <1> QED BY <1>3, <1>4

LEMMA FailStep ==
    ASSUME DbInv, NEW p \in Proc, Refuse(p) \/ Cancel(p) \/ Exhausted(p)
    PROVE  DbInv'
  BY FailedJob, Zenon DEF Refuse, Cancel, Exhausted

LEMMA BeginStep ==
    ASSUME DbInv, NEW p \in Proc, Begin(p)
    PROVE  DbInv'
  <1> DEFINE r == [proc[p] EXCEPT !.pc = "Callback", !.snap = chunks, !.stale = FALSE, !.attempt = @ + 1]
  <1>1. /\ proc[p] \in ProcState /\ JobOK(proc[p], chunks) /\ KindOK(proc[p]) /\ chunks \in SUBSET StoredChunk
        /\ proc \in [Proc -> ProcState]
    BY DEF DbInv, TypeOK, JobInv, KindInv
  <1> USE <1>1
  <1>2. proc[p].pc \in {"Build", "Begin"} /\ proc[p].cur = None /\ Up /\ boot.serve
    BY DEF Begin, Building, JobOK, DbInv, ServedInv
  <1>3. proc[p].attempt \in 0 .. MaxAttempts /\ proc[p].attempt + 1 \in 0 .. MaxAttempts
    BY <1>2, DatabaseAssumption DEF JobOK, ProcState
  <1>4. /\ r \in ProcState /\ r.pc = "Callback" /\ r.built = proc[p].built /\ r.cur = proc[p].cur
        /\ r.job = proc[p].job /\ r.snap = chunks
    BY <1>3, Zenon DEF ProcState
  <1>5. proc' = [proc EXCEPT ![p] = r]
    BY DEF Begin, ProcState
  <1> HIDE DEF r
  <1>6. JobOK(r, chunks) /\ KindOK(r)
    BY <1>2, <1>4, Zenon DEF JobOK, KindOK
  <1>7. UNCHANGED <<label, chunks, data, markers, index, pending, boot, lost, faults>>
    BY DEF Begin
  <1> QED BY <1>2, <1>4, <1>5, <1>6, <1>7, JobMoves, Zenon

LEMMA RetryStep ==
    ASSUME DbInv, NEW p \in Proc, Retry(p)
    PROVE  DbInv'
  <1> DEFINE r == [proc[p] EXCEPT !.pc = "Begin", !.snap = {}, !.stale = FALSE]
  <1>1. /\ proc[p] \in ProcState /\ JobOK(proc[p], chunks) /\ KindOK(proc[p])
        /\ proc \in [Proc -> ProcState]
    BY DEF DbInv, TypeOK, JobInv, KindInv
  <1> USE <1>1
  <1>2. /\ proc[p].pc \in {"Commit", "Cancel"} /\ proc[p].cur = None /\ Up /\ boot.serve
        /\ proc[p].attempt < MaxAttempts
    BY DEF Retry, JobOK, DbInv, ServedInv
  <1>3. /\ r \in ProcState /\ r.pc = "Begin" /\ r.built = proc[p].built /\ r.cur = proc[p].cur
        /\ r.job = proc[p].job /\ r.attempt = proc[p].attempt
    BY Zenon DEF ProcState
  <1>4. proc' = [proc EXCEPT ![p] = r]
    BY DEF Retry, ProcState
  <1> HIDE DEF r
  <1>5. JobOK(r, chunks) /\ KindOK(r)
    BY <1>2, <1>3, Zenon DEF JobOK, KindOK
  <1>6. UNCHANGED <<label, chunks, data, markers, index, pending, boot, lost, faults>>
    BY DEF Retry
  <1> QED BY <1>2, <1>3, <1>4, <1>5, <1>6, JobMoves, Zenon

\* A callback that accepts leaves what it has checked to the commit.
LEMMA CallbackStep ==
    ASSUME DbInv, NEW p \in Proc, Callback(p)
    PROVE  DbInv'
  <1> DEFINE job == proc[p].job
             snap == proc[p].snap
             accepts == /\ job.kind = "Insert" => CanInsertFork(Headers(snap), job.chunk)
                        /\ job.kind # "Merge" => Unindexable(job, Removed(job, snap))
             pc == IF job.kind = "Merge" /\ DataWasChanged(job.run, snap) THEN "Cancel" ELSE "Commit"
             r == [proc[p] EXCEPT !.pc = pc]
  <1>1. /\ proc[p] \in ProcState /\ JobOK(proc[p], chunks) /\ KindOK(proc[p])
        /\ proc \in [Proc -> ProcState]
    BY DEF DbInv, TypeOK, JobInv, KindInv
  <1>2. /\ proc[p].pc = "Callback" /\ Up /\ boot.serve
        /\ UNCHANGED <<label, chunks, data, markers, index, pending, boot, lost, faults>>
    BY DEF Callback, DbInv, ServedInv
  <1> USE <1>1, <1>2
  <1>3. CASE ~ accepts
    <2>1. proc' = [proc EXCEPT ![p] = Failed(p)]
      BY <1>3 DEF Callback
    <2> QED BY <2>1, FailedJob, Zenon
  <1>4. CASE accepts
    <2>1. proc' = [proc EXCEPT ![p] = r]
      BY <1>4, Zenon DEF Callback
    <2>2. pc \in {"Cancel", "Commit"} /\ (pc = "Commit" /\ job.kind = "Merge" => ~ DataWasChanged(job.run, snap))
      OBVIOUS
    <2>3. job.kind = "Insert" => CanInsertFork(Headers(snap), job.chunk)
      BY <1>4, Zenon
    <2> HIDE DEF pc, accepts
    <2>4. /\ r \in ProcState /\ r.pc = pc /\ r.built = proc[p].built /\ r.cur = proc[p].cur
          /\ r.job = job /\ r.snap = snap /\ r.stale = proc[p].stale
      BY <2>2 DEF ProcState
    <2> HIDE DEF r
    <2>5. JobOK(r, chunks)
      BY <2>2, <2>4, Zenon DEF JobOK
    <2>6. KindOK(r)
      BY <2>2, <2>3, <2>4, Zenon DEF KindOK
    <2> QED BY <2>1, <2>4, <2>5, <2>6, JobMoves, Zenon
  <1> QED BY <1>3, <1>4, Zenon
=============================================================================
