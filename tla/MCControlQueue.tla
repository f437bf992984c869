--------------------------- MODULE MCControlQueue ---------------------------
(* Small instances of ControlQueue for TLC. *)
EXTENDS ControlQueueRefinement, TLC

CONSTANTS t1, t2

MCThreads == {t1, t2}
AnySize == BOOLEAN
SmallOnly == {FALSE}
ThreadSymmetry == Permutations(MCThreads)
=============================================================================
