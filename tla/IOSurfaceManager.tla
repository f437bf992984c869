-------------------------- MODULE IOSurfaceManager --------------------------
(***************************************************************************)
(* VMIOSurfaceManager: the surface table, and the clients surfaces are     *)
(* shared with.  A share names a surface id and a client id; both kinds of *)
(* id are used again, last in first out, and shares outlive either.        *)
(***************************************************************************)
EXTENDS SurfaceTable, SequencesExt

CONSTANTS
    MaxClient,      \* bound on m_next_client_id
    MaxShares       \* bound: active shares

ASSUME ClientAssumption == MaxClient \in Nat /\ MaxShares \in Nat

VARIABLES
    clients,        \* m_client_map: the registration of each client id, 0 for none
    nextClient, freeClients,    \* m_next_client_id, m_released_client_ids
    shares,         \* the active entries of m_shared_surfaces, in order
    registered      \* registrations so far

cvars == <<clients, nextClient, freeClients, shares, registered>>
vars == <<svars, cvars>>

Clients == 1 .. MaxClient

Init ==
    /\ TableInit
    /\ clients = [c \in Clients |-> 0]
    /\ nextClient = 0 /\ freeClients = <<>>
    /\ shares = <<>>
    /\ registered = 0

\* allocateClientId, and the client's entry; its surface_count stays 0.
registerClient ==
    /\ Locked
    /\ \E c \in Clients :
          /\ IF freeClients # <<>>
             THEN /\ c = Last(freeClients) /\ freeClients' = Front(freeClients)
                  /\ UNCHANGED nextClient
             ELSE c = nextClient + 1 /\ nextClient' = c /\ UNCHANGED freeClients
          /\ clients' = [clients EXCEPT ![c] = registered + 1]
    /\ registered' = registered + 1
    /\ UNCHANGED <<table, caches, torn, threads, ghosts, shares>>

\* unregisterClient and releaseClientId.  (The branch for a client that
\* still has surfaces is dead: nothing counts them.)
unregisterClient(c) ==
    /\ Locked
    /\ clients[c] # 0
    /\ clients' = [clients EXCEPT ![c] = 0]
    /\ freeClients' = Append(freeClients, c)
    /\ UNCHANGED <<table, caches, torn, threads, ghosts, nextClient, shares, registered>>

\* Mutant: the client is not looked up.
shareSurfaceUnchecked(i, c) ==
    /\ Locked
    /\ Len(shares) < MaxShares
    /\ \E o \in Objects : findSurface(i, o)
    /\ shares' = Append(shares, [id |-> i, client |-> c, obj |-> map[i], reg |-> clients[c]])
    /\ UNCHANGED <<table, props, torn, threads, ghosts, clients, nextClient, freeClients, registered>>

\* shareSurface with one allowed client: a further entry each time.
shareSurface(i, c) ==
    /\ Locked
    /\ Len(shares) < MaxShares
    /\ clients[c] # 0
    /\ \E o \in Objects : findSurface(i, o)
    /\ shares' = Append(shares, [id |-> i, client |-> c, obj |-> map[i], reg |-> clients[c]])
    /\ UNCHANGED <<table, props, torn, threads, ghosts, clients, nextClient, freeClients, registered>>

\* unshareSurface deactivates the first matching entry.
unshareSurface(i, c) ==
    /\ Locked
    /\ \E k \in DOMAIN shares :
          /\ shares[k].id = i /\ shares[k].client = c
          /\ \A m \in 1 .. k - 1 : shares[m].id # i \/ shares[m].client # c
          /\ shares' = RemoveAt(shares, k)
    /\ UNCHANGED <<table, caches, torn, threads, ghosts, clients, nextClient, freeClients, registered>>

Sharing == registerClient \/ \E c \in Clients :
              \/ unregisterClient(c)
              \/ \E i \in Ids : shareSurface(i, c) \/ unshareSurface(i, c)

\* The operations of the behaviour have ended, or its lock is lost.
Finished == (ops = MaxOps \/ stuck) /\ reader = NoReader /\ UNCHANGED vars

Next == (TableNext /\ UNCHANGED cvars) \/ Sharing \/ Finished
Spec == Init /\ [][Next]_vars

-----------------------------------------------------------------------------
\* The types of the variables.
TypeOK ==
    /\ TableTypeOK
    /\ clients \in [Clients -> 0 .. registered]
    /\ nextClient \in 0 .. MaxClient
    /\ freeClients \in Seq(Clients)
    /\ shares \in Seq([id : Ids, client : Clients, obj : Objects \cup {0}, reg : 0 .. registered])
    /\ registered \in 0 .. MaxOps

\* canClientAccessSurface answers yes for an entry whose surface is another by
\* now only when the surface it was made for no longer exists, until a
\* destruction went through a stale pointer or two threads met in the caches;
\* for one whose client is another, only when the registration has ended.  (An entry made through a stale
\* pointer names no object.)  Every entry was made for a registered client.
SharesExplained ==
    \A k \in DOMAIN shares :
        LET s == shares[k]
        IN /\ s.reg # 0
           /\ ~misled => map[s.id] = s.obj \/ s.obj = 0 \/ ~Exists(s.obj)
           /\ clients[s.client] # s.reg => clients[s.client] = 0 \/ clients[s.client] > s.reg

\* The accounts of the table are kept: well typed, counters that follow the
\* table, and the memory limit as long as nothing was evicted.
AccountsKept == TypeOK /\ CountersAgree /\ PoolLimitKept
=============================================================================
