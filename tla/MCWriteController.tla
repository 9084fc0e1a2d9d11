-------------------------- MODULE MCWriteController --------------------------
(***************************************************************************)
(* Instances of WriteController for TLC.  Hashes are interchangeable.      *)
(***************************************************************************)
EXTENDS WriteController, TLC, FiniteSets

AllChunks == Chunk
AllPositions == Position
AllParents == OptHash

HashSymmetry == Permutations(Hash)
=============================================================================
