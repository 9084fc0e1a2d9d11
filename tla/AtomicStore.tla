----------------------------- MODULE AtomicStore -----------------------------
(***************************************************************************)
(* What the storage of one dataset promises to its writer: whatever runs   *)
(* concurrently, the chunks change by whole transactions, one at a time,   *)
(* each on the chunks the one before it left.                              *)
(***************************************************************************)
EXTENDS ChunkStore

CONSTANT SourceChunks

VARIABLES
    exists,     \* the dataset has a label
    headers     \* the headers of its chunks

vars == <<exists, headers>>

Init == exists = FALSE /\ headers = {}

Create == ~ exists /\ exists' = TRUE /\ UNCHANGED headers

Insert(c) ==
    /\ exists
    /\ CanInsertFork(headers, c)
    /\ headers' = InsertFork(headers, c)
    /\ UNCHANGED exists

Retain(from) ==
    /\ exists
    /\ headers' = {c \in headers : from <= c.last_block}
    /\ UNCHANGED exists

Merge(lo, hi) ==
    /\ exists
    /\ headers' = (headers \ MergeRun(headers, lo, hi)) \cup {MergedChunk(headers, lo, hi)}
    /\ UNCHANGED exists

Drop == exists /\ exists' = FALSE /\ headers' = {}

Next ==
    \/ Create \/ Drop
    \/ \E c \in SourceChunks : Insert(c)
    \/ \E from \in Position : Retain(from)
    \/ \E lo, hi \in headers : lo.last_block < hi.first_block /\ Merge(lo, hi)

Spec == Init /\ [][Next]_vars
=============================================================================
