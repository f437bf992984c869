------------------------------ MODULE MCWinsys ------------------------------
(***************************************************************************)
(* TLC instances of Winsys: two clients with a thread each, or one client  *)
(* with two threads.                                                       *)
(***************************************************************************)
EXTENDS Winsys, TLC

CONSTANTS t1, t2, c1, c2
MCThreads == {t1, t2}
TwoClients == {c1, c2}
OwnClient == [t \in MCThreads |-> IF t = t1 THEN c1 ELSE c2]
\* The clients, each with its thread, are interchangeable.
ClientSymmetry ==
    {p \in Permutations(MCThreads \cup TwoClients) :
        \A t \in MCThreads : p[t] \in MCThreads /\ p[OwnClient[t]] = OwnClient[p[t]]}
OneClient == {c1}
SameClient == [t \in MCThreads |-> c1]
MCCommand == WinsysCommand
\* States that differ only in a command already executed, or in an answer
\* already taken, behave alike.
LiveState == <<IF backlog = 0 THEN NoCommand ELSE cmd, backlog, pushing, moved,
               IF pushing \/ moved THEN answer ELSE "err", waiting,
               tables, nextId, state, pc, locals, calls, device, ghost>>
=============================================================================
