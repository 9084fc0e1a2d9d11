------------------------------- MODULE MCBds -------------------------------
(***************************************************************************)
(* Blocks 1, 2 and 3, and another block 3 on the first one: a fork that    *)
(* skips a number.                                                         *)
(***************************************************************************)
EXTENDS Bds

MCNumber == [g |-> 0, a1 |-> 1, a2 |-> 2, a3 |-> 3, b3 |-> 3]
MCParent == [a1 |-> "g", a2 |-> "a1", a3 |-> "a2", b3 |-> "a1"]
=============================================================================
