--------------------------------- MODULE Bds ---------------------------------
(***************************************************************************)
(* The ingest of the block data service: one task (grow) follows a data    *)
(* source and keeps the last blocks of the chain in memory, another        *)
(* (write_chain) saves them to Cassandra, several at a time and in any     *)
(* order, a third publishes the stored head and a fourth marks stored      *)
(* blocks final and deletes the others.  They share the chain through a    *)
(* tokio watch channel.  The process may stop at any time, on an error of  *)
(* its own too, with writes in flight; the next start rebuilds the head of *)
(* the chain from the rows.                                                *)
(***************************************************************************)
EXTENDS Integers, FiniteSets, SequencesExt

CONSTANTS
    Blocks,       \* the blocks the source ever shows
    Base,         \* the block below the first one, parent_block_hash is its hash
    Number,       \* their numbers
    Parent,       \* the parent of every block
    FirstBlock,   \* Ingest.first_block
    MinQueue,     \* Ingest.min_queue_size
    MaxQueue,     \* Ingest.max_queue_size
    MaxPending,   \* State.max_pending
    Partition,    \* CassandraStorage.partition_size
    FirstTip,     \* the branch the source shows first
    Finalizable,  \* the blocks the source may call final
    MaxStarts,    \* how often the process is started
    MaxTrouble,   \* how often the source changes its branch, and the process stops by itself
    Null

VARIABLES
    up, starts,                   \* the process
    chain, fin, blocks, stored,   \* Chain; stored is parallel to blocks
    grow, next, parent,           \* the grow task, the position of its data source
    pending, last_block,          \* write_chain: State
    writes,                       \* its saves under way
    head, setting,                \* head_update_loop: prev, the head being set
    finalized, job,               \* finalize_loop: prev, Store::finalize in progress
    news,                         \* the tasks that have not seen the last change
    rows, finals, writers,        \* Cassandra: blocks, is_final, the heads of each writer
    view, final, switches,        \* the data source: its tip, what it calls final
    left                          \* history: the blocks dropped for a fork since the start
ingest == <<chain, fin, blocks, stored>>
growing == <<grow, next, parent>>
writing == <<pending, last_block, writes>>
updating == <<head, setting>>
finalizing == <<finalized, job>>
store == <<rows, finals, writers>>
source == <<view, final, switches>>
vars == <<up, starts, ingest, growing, writing, updating, finalizing, news, store, source, left>>

-----------------------------------------------------------------------------
(* Chain *)

\* A block with everything below it.
Ancestors[b \in Blocks \cup {Base}] == IF b = Base THEN {} ELSE {b} \cup Ancestors[Parent[b]]
Ascending(bs) == SetToSortSeq(bs, LAMBDA a, b : Number[a] < Number[b])
Lowest(bs) == CHOOSE b \in bs : \A c \in bs : Number[b] <= Number[c]
Leaves == {b \in Blocks : \A c \in Blocks : Parent[c] # b}

Bisect(s, n) == 1 + Cardinality({i \in DOMAIN s : Number[s[i]] < n})
Less(n, m) == IF n > m THEN n - m ELSE 0

\* How much of the chain the block is put on.
Kept(b) ==
    LET on == {i \in DOMAIN chain : chain[i] = Parent[b]}
    IN  IF on = {} THEN 0 ELSE CHOOSE i \in on : TRUE

\* The errors of push and its assertion, at the first or a later block it pops.
PushFails(b) ==
    \/ \E i \in Kept(b) + 1 .. Len(chain) : Number[Parent[b]] > Number[chain[i]]
    \/ chain # <<>> /\ Kept(b) = 0 /\ fin
    \/ Kept(b) < Len(chain) /\ ~fin /\ Len(chain) # Len(blocks)

FinalizeAll(c) == IF Len(c) > 1 THEN <<Last(c)>> ELSE c

Push(b, is_final) ==
    LET grown == Append(SubSeq(chain, 1, Kept(b)), b)
        under == Less(Len(blocks), Len(chain) - Kept(b))
    IN  /\ chain' = IF is_final THEN FinalizeAll(grown) ELSE grown
        /\ fin' = (fin \/ is_final)
        /\ blocks' = Append(SubSeq(blocks, 1, under), b)
        /\ stored' = Append(SubSeq(stored, 1, under), FALSE)

\* mark_stored, then clean: what is stored is dropped from the front above min_size.
StoredWith(b) ==
    LET pos == Bisect(blocks, Number[b])
    IN  IF pos \in DOMAIN blocks /\ blocks[pos] = b THEN [stored EXCEPT ![pos] = TRUE] ELSE stored
Dropped(flags) ==
    Min({Less(Len(flags), MinQueue)} \cup {i - 1 : i \in {j \in DOMAIN flags : ~flags[j]}})
MarkStored(b) ==
    LET drop == IF b \in Range(blocks) THEN Dropped(StoredWith(b)) ELSE 0
    IN  /\ stored' = SubSeq(StoredWith(b), drop + 1, Len(stored))
        /\ blocks' = SubSeq(blocks, drop + 1, Len(blocks))
        /\ chain' = IF fin THEN chain ELSE SubSeq(chain, drop + 1, Len(chain))
        /\ UNCHANGED fin

FinalizeIgnored(h) == chain # <<>> => Number[h] < Number[chain[1]]
FinalizeFails(h) ==
    /\ ~FinalizeIgnored(h) /\ Number[h] <= Number[Last(chain)]
    /\ chain[Bisect(chain, Number[h])] # h
Finalize(h) ==
    /\ ~FinalizeFails(h)
    /\ \/ FinalizeIgnored(h) /\ UNCHANGED ingest
       \/ /\ ~FinalizeIgnored(h) /\ Number[h] <= Number[Last(chain)]
          /\ chain' = SubSeq(chain, Bisect(chain, Number[h]), Len(chain))
          /\ fin' = TRUE
          /\ UNCHANGED <<blocks, stored>>
       \/ /\ ~FinalizeIgnored(h) /\ Number[h] > Number[Last(chain)]
          /\ chain' = FinalizeAll(chain)
          /\ fin' = (fin \/ Len(chain) > 1)
          /\ UNCHANGED <<blocks, stored>>

\* Defect: the head is the highest stored block, whatever is missing below it.
StoredHeadHighest ==
    LET have == {i \in DOMAIN stored : stored[i]}
    IN  IF have # {} THEN blocks[Max(have)] ELSE IF blocks # <<>> THEN Parent[blocks[1]]
        ELSE IF chain # <<>> THEN Last(chain) ELSE Null
StoredHead ==
    LET missing == {i \in DOMAIN stored : ~stored[i]}
    IN  IF missing # {} THEN Parent[blocks[Min(missing)]]
        ELSE IF chain # <<>> THEN Last(chain) ELSE Null
StoredFinalizedHead ==
    LET candidates == {i \in 1 .. Len(blocks) - Len(chain) + 1 : stored[i]}
    IN  IF ~fin THEN Null
        ELSE IF Len(chain) > Len(blocks) THEN chain[1]
        ELSE IF candidates = {} THEN Null ELSE blocks[Max(candidates)]

\* compute_fork_base: from the top of the chain, with the first m blocks of prev left.
ForkBase(prev) ==
    LET base[i \in 0 .. Len(chain), m \in 0 .. Len(prev)] ==
          IF i = 0 THEN Null
          ELSE IF m > 0 /\ Number[prev[m]] < Number[chain[i]] THEN base[i - 1, m]
          ELSE LET p == Cardinality({j \in 1 .. m : Number[prev[j]] <= Number[chain[i]]})
               IN  IF p = 0 \/ prev[p] = chain[i] THEN chain[i] ELSE base[i - 1, p - 1]
    IN  base[Len(chain), Len(prev)]

-----------------------------------------------------------------------------
(* The process.  It stops with any part of the writes under way done, and  *)
(* nothing else is left of it.                                             *)

None == [b \in Blocks |-> 0]
Position(b) == next' = Number[b] + 1 /\ parent' = b

\* What the writes under way may make of the tables.
LeftByWrites ==
    \E landed \in SUBSET {b \in Blocks : writes[b] > 0}, h \in {Null, setting} :
        /\ rows' = rows \cup landed
        /\ writers' = IF h = Null THEN writers ELSE [writers EXCEPT ![starts].head = h]
        /\ UNCHANGED finals

Begin(found, marked) ==
    /\ chain' = Ascending(found)
    /\ fin' = (found \cap marked # {})
    /\ blocks' = <<>> /\ stored' = <<>>
    /\ grow' = "run"
    /\ Position(IF found = {} THEN Base ELSE Last(chain'))
    /\ pending' = None /\ writes' = None /\ last_block' = 0
    /\ head' = (IF found = {} THEN Null ELSE Last(chain')) /\ setting' = Null
    /\ finalized' = (IF fin' THEN Number[chain'[1]] ELSE Null) /\ job' = Null
    /\ news' = {} /\ left' = {}

Exit == up' = FALSE /\ LeftByWrites /\ Begin({}, {})

-----------------------------------------------------------------------------
(* The data source: a block fits its position, or the fork below it does.  *)

\* The tasks on the watch channel; grow only while it waits.
Listening == {"write", "head", "finalize"} \cup (IF grow = "wait" THEN {"grow"} ELSE {})

OnView(b) == b \in Ancestors[view] \cup {Base}
Offered == {b \in Ancestors[view] : Number[b] >= next}
NextBlock == Lowest(Offered)

\* grow on DataEvent::Block: the queue is waited for above max_size.
BlockArrives ==
    /\ up /\ grow = "run" /\ OnView(parent) /\ Offered # {}
    /\ LET b == NextBlock
           is_final == final # Null /\ Number[b] <= Number[final]
       IN  \/ PushFails(b) /\ Exit
           \/ /\ ~PushFails(b)
              /\ Push(b, is_final)
              /\ Position(b)
              /\ grow' = IF Len(blocks') <= MaxQueue THEN "run" ELSE "wait"
              /\ left' = left \cup {chain[i] : i \in Kept(b) + 1 .. Len(chain)}
              /\ news' = Listening'
              /\ UNCHANGED <<up, writing, updating, finalizing, store>>
    /\ UNCHANGED <<starts, source>>

\* DataEvent::FinalizedHead, taken when it is below the position.
\* Defect: a finalized head is applied whatever the position.
BelowPositionAlways(h) == TRUE
BelowPosition(h) == Number[h] < next
HeadFinalized ==
    /\ up /\ grow = "run" /\ final # Null /\ BelowPosition(final)
    /\ \/ FinalizeFails(final) /\ Exit
       \/ /\ Finalize(final)
          /\ news' = IF ingest' = ingest THEN news ELSE Listening
          /\ UNCHANGED <<up, growing, writing, updating, finalizing, store, left>>
    /\ UNCHANGED <<starts, source>>

\* DataEvent::Fork with some of the blocks below the position, the last of them
\* included, and handle_fork.
ForkArrives ==
    /\ up /\ grow = "run" /\ ~OnView(parent)
    /\ LET below == Ascending({b \in Ancestors[view] : Number[b] < next})
       IN  \E n \in 0 .. Less(Len(below), 1) :
             LET base == IF below = <<>> THEN Base ELSE ForkBase(SubSeq(below, n + 1, Len(below)))
             IN  \/ base = Null /\ fin /\ Exit
                 \/ /\ ~(base = Null /\ fin)
                    /\ Position(IF base = Null THEN Base ELSE base)
                    /\ UNCHANGED <<up, ingest, grow, writing, updating, finalizing, store, news, left>>
    /\ UNCHANGED <<starts, source>>

\* ChainSender::wait.
Wait ==
    /\ up /\ grow = "wait" /\ "grow" \in news
    /\ grow' = IF Len(blocks) < MaxQueue THEN "run" ELSE "wait"
    /\ news' = news \ {"grow"}
    /\ UNCHANGED <<up, starts, ingest, next, parent, writing, updating, finalizing, store, source, left>>

\* The source turns to another branch, and calls more of its branch final.
Switch(tip) ==
    /\ switches + starts <= MaxTrouble /\ tip # view
    /\ final # Null => final \in Ancestors[tip]
    /\ view' = tip /\ switches' = switches + 1
    /\ UNCHANGED <<up, starts, ingest, growing, writing, updating, finalizing, news, store, final, left>>
MakeFinal(b) ==
    /\ b \in Ancestors[view] /\ (final # Null => Number[final] < Number[b])
    /\ final' = b
    /\ UNCHANGED <<up, starts, ingest, growing, writing, updating, finalizing, news, store, view, switches, left>>

-----------------------------------------------------------------------------
(* write_chain *)

Count(bag) == FoldFunction(+, 0, bag)

\* State::find_position and State::advance on a chain.
\* Defect: goes on from the last block taken, though a fork has replaced blocks below.
FindPositionOnward(bs, flags, open) == Min({Bisect(bs, last_block + 1), Len(bs) + 1})
FindPosition(bs, flags, open) ==
    LET top == Min({Bisect(bs, last_block), Len(bs)})
        covered == {i \in 1 .. top : flags[i] \/ open[bs[i]] > 0}
    IN  IF covered = {} THEN 1 ELSE Max(covered) + 1
Taken(bs, flags, open) ==
    LET pos == FindPosition(bs, flags, open)
    IN  SubSeq(bs, pos, Min({pos + MaxPending - Count(open) - 1, Len(bs)}))
Advance(bs, flags, open, running) ==
    \E taken \in {Taken(bs, flags, open)} :
        LET more == [b \in Blocks |-> IF b \in Range(taken) THEN 1 ELSE 0]
        IN  /\ pending' = [b \in Blocks |-> open[b] + more[b]]
            /\ writes' = [b \in Blocks |-> running[b] + more[b]]
            /\ last_block' = IF taken = <<>> THEN last_block ELSE Number[Last(taken)]

\* The save of a block ends: mark_stored, State::ready, and on to the next blocks.
BlockSaved(b) ==
    /\ up /\ writes[b] > 0
    /\ rows' = rows \cup {b}
    /\ MarkStored(b)
    /\ LET open == [pending EXCEPT ![b] = 0]
       IN  /\ Advance(blocks', stored', open, [writes EXCEPT ![b] = @ - 1])
           /\ news' = (IF Len(blocks') < Len(blocks) THEN Listening ELSE news)
                        \ (IF Count(open) < MaxPending THEN {"write"} ELSE {})
    /\ UNCHANGED <<up, starts, growing, updating, finalizing, finals, writers, source, left>>

ChainChanged ==
    /\ up /\ "write" \in news /\ Count(pending) < MaxPending
    /\ Advance(blocks, stored, pending, writes)
    /\ news' = news \ {"write"}
    /\ UNCHANGED <<up, starts, ingest, growing, updating, finalizing, store, source, left>>

-----------------------------------------------------------------------------
(* head_update_loop *)

HeadChanged ==
    /\ up /\ "head" \in news /\ setting = Null
    /\ head' = StoredHead
    /\ setting' = IF StoredHead = head THEN Null ELSE StoredHead
    /\ news' = news \ {"head"}
    /\ UNCHANGED <<up, starts, ingest, growing, writing, finalizing, store, source, left>>

SetHead ==
    /\ up /\ setting # Null
    /\ writers' = [writers EXCEPT ![starts].head = setting]
    /\ setting' = Null
    /\ UNCHANGED <<up, starts, ingest, growing, writing, head, finalizing, news, rows, finals, source, left>>

-----------------------------------------------------------------------------
(* finalize_loop and CassandraStorage::finalize: partition by partition,   *)
(* from the top, its rows are listed and then marked or deleted.           *)

PartitionOf(n) == (n \div Partition) * Partition
\* split_into_partitions, in reverse: the part of the range in its last partition.
LastPart(from, to) == Max({from, PartitionOf(to)})

\* Defect: only the row expected first is taken for one of the chain.
WalkOne(expected, listed) == {expected} \cap listed
Walk(expected, listed) ==
    {b \in Ancestors[expected] \cap listed :
        \A a \in Ancestors[expected] : Number[a] > Number[b] => a \in listed}
Below(expected, walked) == IF walked = {} THEN expected ELSE Parent[Lowest(walked)]

\* Whether some of the queue below the block is not stored yet (of the specification).
Gap(to) == \E i \in DOMAIN blocks : ~stored[i] /\ Number[blocks[i]] < Number[to]

FinalizedChanged ==
    /\ up /\ "finalize" \in news /\ job = Null
    /\ LET to == StoredFinalizedHead
           from == IF finalized = Null THEN FirstBlock ELSE finalized
           same == to = Null \/ finalized = Number[to]
       IN  \/ ~same /\ from > Number[to] /\ Exit
           \/ /\ ~same => from <= Number[to]
              /\ job' = IF same THEN Null
                        ELSE [to |-> to, expected |-> to, from |-> from, end |-> Number[to],
                              gap |-> Gap(to)]
              /\ news' = news \ {"finalize"}
              /\ UNCHANGED <<up, ingest, growing, writing, updating, finalized, store, left>>
    /\ UNCHANGED <<starts, source>>

\* The rows of one partition are listed, then marked or deleted in a batch.  One
\* step: what is saved in between is not in the batch.  A missing top block is an error.
FinalizePartition ==
    /\ up /\ job # Null /\ job.end >= job.from
    /\ LET start == LastPart(job.from, job.end)
           listed == {b \in rows : Number[b] \in start .. job.end}
           walked == Walk(job.expected, listed)
           expected == Below(job.expected, walked)
           missing == PartitionOf(start) <= Number[expected] /\ Number[job.to] <= Number[expected]
       IN  \/ missing /\ Exit
           \/ /\ ~missing
              /\ rows' = rows \ (listed \ walked)
              /\ finals' = (finals \cup walked) \cap rows'
              /\ job' = [job EXCEPT !.expected = expected, !.end = start - 1]
              /\ UNCHANGED <<up, ingest, growing, writing, updating, finalized, news, writers, left>>
    /\ UNCHANGED <<starts, source>>

SetFinalizedHead ==
    /\ up /\ job # Null /\ job.end < job.from
    /\ writers' = [writers EXCEPT ![starts].final = job.to]
    /\ finalized' = Number[job.to]
    /\ job' = Null
    /\ UNCHANGED <<up, starts, ingest, growing, writing, updating, news, rows, finals, source, left>>

-----------------------------------------------------------------------------
(* The next start *)

Stop == up /\ switches + starts <= MaxTrouble /\ starts < MaxStarts /\ Exit /\ UNCHANGED <<starts, source>>

\* fetch_write_states, validate_chain_base and build_chain.
Heads(ws) == {IF ws[i].head = Null THEN ws[i].final ELSE ws[i].head : i \in DOMAIN ws} \ {Null}
Listed(ws, present) ==
    {b \in present : Number[b] >= FirstBlock /\ \E h \in Heads(ws) : Number[b] <= Number[h]}
BaseFound(listed) ==
    \E b \in listed : /\ Parent[b] = Base
                      /\ \A c \in listed : Number[c] < Number[b] => Number[Parent[c]] < FirstBlock
Tops(listed) == {b \in listed : \A c \in listed : Number[c] <= Number[b]}
HeadChain(top, listed, marked) ==
    {b \in Walk(top, listed) : \A f \in Walk(top, listed) \cap marked : Number[f] <= Number[b]}
ChainFails(found, marked) ==
    LET lowest == Lowest(found)
    IN  /\ lowest \notin marked /\ Number[Parent[lowest]] >= FirstBlock
        /\ FirstBlock # 0 \/ PartitionOf(Number[Parent[lowest]]) > PartitionOf(FirstBlock)

\* Ingest::start; an error of it ends the process again.
Start ==
    /\ ~up /\ starts < MaxStarts
    /\ starts' = starts + 1
    /\ LET listed == Listed(writers, rows)
           known == \E h \in Heads(writers) : Number[h] >= FirstBlock
           chains == {HeadChain(top, listed, finals) : top \in Tops(listed)}
       IN  \/ ~known /\ Begin({}, {}) /\ up' = TRUE
           \/ /\ known /\ BaseFound(listed)
              /\ \E found \in chains : ~ChainFails(found, finals) /\ Begin(found, finals)
              /\ up' = TRUE
           \/ /\ known
              /\ BaseFound(listed) => \E found \in chains : ChainFails(found, finals)
              /\ Begin({}, {}) /\ up' = FALSE
    /\ UNCHANGED <<store, source>>

Init ==
    /\ up = FALSE /\ starts = 0
    /\ chain = <<>> /\ fin = FALSE /\ blocks = <<>> /\ stored = <<>>
    /\ grow = "run" /\ next = FirstBlock /\ parent = Base
    /\ pending = None /\ writes = None /\ last_block = 0
    /\ head = Null /\ setting = Null /\ finalized = Null /\ job = Null /\ news = {}
    /\ rows = {} /\ finals = {} /\ writers = [i \in 1 .. MaxStarts |-> [head |-> Null, final |-> Null]]
    /\ view = FirstTip /\ final = Null /\ switches = 0
    /\ left = {}

Next ==
    \/ BlockArrives \/ HeadFinalized \/ ForkArrives \/ Wait
    \/ \E b \in Blocks : BlockSaved(b)
    \/ ChainChanged \/ HeadChanged \/ SetHead
    \/ FinalizedChanged \/ FinalizePartition \/ SetFinalizedHead
    \/ Stop \/ Start
    \/ \E b \in Leaves : Switch(b)
    \/ \E b \in Finalizable : MakeFinal(b)

Spec == Init /\ [][Next]_vars

-----------------------------------------------------------------------------
(* Properties *)

\* Whenever the process stops, the head it has published can be built again:
\* no block at or below a published head and above the final rows is missing.
HeadBacked ==
    \A h \in Heads(writers) : \A b \in Ancestors[h] :
        b \in rows \/ \E f \in finals : Number[f] >= Number[b]

\* What the chain in memory, and what the table, calls final is final for the source.
FinalForSource ==
    /\ fin => final # Null /\ chain[1] \in Ancestors[final]
    /\ finals # {} => final # Null /\ finals \subseteq Ancestors[final]

\* Finalization deletes forks only: no row of the chain it marks, if all of the
\* queue below its head was stored when it began.
ChainKept == [][\A b \in rows \ rows' : ~job.gap => b \notin Ancestors[job.to]]_vars

\* A full queue drains: no block waits for a save that nobody will make, nor a
\* task for news of what it is waiting for.  But for a fork that is left and
\* entered again while saves of its blocks are under way.
NoneForgotten ==
    LET pos == FindPosition(blocks, stored, pending)
    IN  /\ Range(blocks) \cap left = {} =>
             \A i \in DOMAIN blocks : stored[i] \/ pending[blocks[i]] > 0 \/ i >= pos
        /\ pos \in DOMAIN blocks /\ Count(pending) < MaxPending => "write" \in news
        /\ grow = "wait" /\ Len(blocks) < MaxQueue => "grow" \in news
=============================================================================
