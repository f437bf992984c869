---------------------------- MODULE MCUserClient ----------------------------
\* Instance of UserClient: two clients, two calls in flight.
EXTENDS UserClient, TLC

CONSTANTS t1, t2, c1, c2

MCSlots == {t1, t2}
MCClients == {c1, c2}
MCCommand == ClientCommand
OneGroup == {{"contexts"}, {"surfaces"}, {"probe"}}
\* States that differ only in a command already executed, or in an answer
\* already taken, behave alike.
LiveState == <<IF backlog = 0 THEN NoCommand ELSE cmd, backlog, pushing, moved,
               IF pushing \/ moved THEN answer ELSE "err", waiting, caller, timeouts,
               clients, counters, surfaces, told, probe, pc, locals, calls, mix, device,
               ghost>>
CallSymmetry == Permutations(MCSlots) \cup Permutations(MCClients)
=============================================================================
