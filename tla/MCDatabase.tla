----------------------------- MODULE MCDatabase -----------------------------
(***************************************************************************)
(* Instances of Database for TLC.                                          *)
(***************************************************************************)
EXTENDS DatabaseAtomicity, TLC

SomeHashes == {"g", "a0", "b0", "a1", "b1"}

Solid(first, parent, hashes) ==
    LET last == first + Cardinality(DOMAIN hashes) - 1
    IN  [first_block |-> first, last_block |-> last, last_block_hash |-> hashes[last],
         parent_block_hash |-> parent, blocks |-> {Ref(n, hashes[n]) : n \in first .. last}]

\* Two blocks at height 1 above one at height 0, and another pair of them.
Forks ==
    {Solid(0, "g", 0 :> "a0"), Solid(1, "a0", 1 :> "a1"), Solid(1, "a0", 1 :> "b1"),
     Solid(0, "g", (0 :> "a0") @@ (1 :> "b1"))}

Steady == [reclaim : {FALSE}, serve : {TRUE}, indexing : {TRUE}]

Unordered == {}

ByTime == {p \in TableId \X TableId : p[1] < p[2]}

\* A chunk, one above it, and one that holds the first block again.
Replay == Forks \ {Solid(1, "a0", 1 :> "b1")}

AnyStart == [reclaim : BOOLEAN, serve : BOOLEAN, indexing : BOOLEAN]
=============================================================================
