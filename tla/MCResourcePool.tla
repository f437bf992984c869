--------------------------- MODULE MCResourcePool ---------------------------
(***************************************************************************)
(* TLC instance of ResourcePool.  Ids are interchangeable.                 *)
(***************************************************************************)
EXTENDS ResourcePool, TLC

CONSTANTS i1, i2, i3
MCIds == {i1, i2, i3}
MCCommand == PoolCommand
IdSymmetry == Permutations(MCIds)
=============================================================================
