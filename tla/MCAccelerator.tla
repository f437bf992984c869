---------------------------- MODULE MCAccelerator ----------------------------
(* Small instance of Accelerator for TLC: one client and the kernel's       *)
(* callers, two threads each.                                                *)
EXTENDS Accelerator, TLC

CONSTANTS client, t1, t2, b1, b2
MCClients == {client}
MCThreads == {t1, t2, b1, b2}
MCOwner == [t \in MCThreads |-> IF t \in {t1, t2} THEN client ELSE Kernel]
MCSymmetry == {p \in Permutations(MCThreads) : \A t \in MCThreads : MCOwner[p[t]] = MCOwner[t]}
=============================================================================
