---------------------------- MODULE DatasetLedger ----------------------------
(***************************************************************************)
(* What the write path promises of a dataset, with chunks, writers and     *)
(* watermarks abstracted away: a window of blocks and a finalized block.   *)
(* It is the state every reader's snapshot shows.  The transitions are     *)
(* the committed effects of the writer's transactions:                     *)
(*                                                                         *)
(*   Replace   a suffix is exchanged for new blocks (an append when it is  *)
(*             empty), and the finalized block may advance with it;        *)
(*   Finalize  the finalized block advances;                               *)
(*   Trim      a prefix goes, and the finalized block if it is in it;      *)
(*   Reset     the window is discarded.                                    *)
(*                                                                         *)
(* Maintenance, publication, crashes and restarts change nothing here.     *)
(***************************************************************************)
EXTENDS Integers

CONSTANTS Positions, None

VARIABLES
    seg,    \* the blocks of the window, one per number
    fin     \* the finalized block, or None

\* The blocks of S at or below the finalized block.
FinalizedPart(S) == {b \in S : fin # None /\ b.number <= fin.number}

\* The finalized block may stay, or advance to a block of the new window.
FinAdvances ==
    \/ fin' = fin
    \/ fin' \in seg' /\ (fin # None => fin.number < fin'.number)

Replace(from) ==
    /\ {b \in seg' : b.number < from} = {b \in seg : b.number < from}
    /\ \E b \in seg' : from <= b.number
    /\ \A b, d \in seg' : b.number = d.number => b = d
    /\ FinalizedPart(seg') = FinalizedPart(seg)
    /\ FinAdvances

Finalize ==
    /\ seg' = seg
    /\ FinAdvances

Trim(from) ==
    /\ seg' = {b \in seg : from <= b.number}
    /\ fin' = IF fin # None /\ from <= fin.number THEN fin ELSE None

Reset ==
    /\ seg' = {}
    /\ fin' = None

Init == seg = {} /\ fin = None

Next ==
    \/ \E from \in Positions : Replace(from) \/ Trim(from)
    \/ Finalize
    \/ Reset

Spec == Init /\ [][Next]_<<seg, fin>>
=============================================================================
