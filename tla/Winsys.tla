------------------------------- MODULE Winsys -------------------------------
(***************************************************************************)
(* The selectors VMVirtIOGPUUserClient offers the user-space winsys for    *)
(* resources and their memory: createResource3DEx, attachBackingUser,      *)
(* detachBackingUser, resourceUnref, and what clientClose and free do.     *)
(*                                                                         *)
(* A page range is wired (prepare) while the device has its physical       *)
(* addresses; the descriptor that keeps it wired is in the client's table  *)
(* m_user_backings.  externalMethod takes no lock, so calls of a client's  *)
(* threads, and clientClose, interleave between any two accesses to the    *)
(* table.  Serial clients make one call at a time.                         *)
(***************************************************************************)
EXTENDS CommandChannel, FiniteSets

CONSTANTS
    Clients, Threads,
    ClientOf,       \* the client each thread calls through
    Serial,         \* clients do not overlap their calls
    MaxBackings,    \* MAX_USER_BACKINGS, 64
    MaxIds,         \* bound: resource ids allocated
    MaxCalls        \* bound: calls of a behaviour

ASSUME WinsysAssumption == /\ ClientOf \in [Threads -> Clients]
                           /\ Serial \in BOOLEAN
                           /\ MaxBackings \in Nat \ {0}
                           /\ MaxIds \in Nat /\ MaxCalls \in Nat

VARIABLES
    table,      \* m_user_backings of each client: [id, desc] of each slot
    wired,      \* descriptors that are prepared, <<client, call number>>
    twice,      \* descriptors completed and released when they already were
    nextId,     \* m_next_user_resource_id
    state,      \* each client: "open", "closed" (clientClose), "freed"
    pc, op, rid, desc, slot,    \* each thread's position and locals
    calls,      \* calls so far
    host,       \* resources on the device
    backing,    \* the descriptor whose pages the device has for each
    suspect,    \* ids with a command that timed out or met a backlog
    exposed     \* ids whose pages a named path unwired before the device let go

tables == <<table, wired, twice>>
locals == <<op, rid, desc, slot>>
device == <<host, backing>>
ghost == <<suspect, exposed>>
vars == <<channel, tables, nextId, state, pc, locals, calls, device, ghost>>

Slots == 1 .. MaxBackings
Ids == 1 .. MaxIds
Descs == Clients \X (1 .. MaxCalls)
NoDesc == <<>>
FreeSlot == [id |-> 0, desc |-> NoDesc]
Ops == {"create", "attach", "detach", "unref"}
WinsysCommand == [type : Ops, id : Ids, desc : Descs \cup {NoDesc}]

ASSUME WinsysCommandAssumption == WinsysCommand \subseteq Command

Init ==
    /\ ChannelInit
    /\ table = [c \in Clients |-> [s \in Slots |-> FreeSlot]]
    /\ wired = {} /\ twice = {}
    /\ nextId = 1
    /\ state = [c \in Clients |-> "open"]
    /\ pc = [t \in Threads |-> "idle"]
    /\ op = [t \in Threads |-> "create"]
    /\ rid = [t \in Threads |-> 0]
    /\ desc = [t \in Threads |-> NoDesc]
    /\ slot = [t \in Threads |-> 0]
    /\ calls = 0
    /\ host = {} /\ backing = [i \in Ids |-> NoDesc]
    /\ suspect = {} /\ exposed = {}

-----------------------------------------------------------------------------
\* Mutant: the scan takes the first free slot for the end of the table.
FindUntilFree(c, i) ==
    {s \in Slots : /\ table[c][s].id = i
                   /\ \A r \in Slots : r < s => table[c][r].id # 0}

\* findUserBacking (and, for id 0, the scan for free slots).
findUserBacking(c, i) == {s \in Slots : table[c][s].id = i}
FreeSlots(c) == findUserBacking(c, 0)
\* Mutant: the index is one too high.
OneAfterFirst(S) == (CHOOSE s \in S : \A r \in S : s <= r) + 1
First(S) == CHOOSE s \in S : \A r \in S : s <= r

InCall(c) == \E t \in Threads : ClientOf[t] = c /\ pc[t] # "idle"

\* A thread enters externalMethod.
Enter(t, o, i, where) ==
    /\ pc[t] = "idle"
    /\ state[ClientOf[t]] = "open"
    /\ Serial => ~InCall(ClientOf[t])
    /\ calls < MaxCalls
    /\ calls' = calls + 1
    /\ op' = [op EXCEPT ![t] = o]
    /\ rid' = [rid EXCEPT ![t] = i]
    /\ pc' = [pc EXCEPT ![t] = where]

\* pc, and a return to user space with the locals gone.
Go(t, where) == pc' = [pc EXCEPT ![t] = where] /\ UNCHANGED locals
Return(t) == /\ pc' = [pc EXCEPT ![t] = "idle"]
             /\ op' = [op EXCEPT ![t] = "create"]
             /\ rid' = [rid EXCEPT ![t] = 0]
             /\ desc' = [desc EXCEPT ![t] = NoDesc]
             /\ slot' = [slot EXCEPT ![t] = 0]

\* createResource3DEx: m_next_user_resource_id++ is a load and a store.
createResource3DEx(t) ==
    /\ nextId \in Ids
    /\ Enter(t, "create", nextId, "bump")
    /\ UNCHANGED <<channel, tables, nextId, state, desc, slot, device, ghost>>
Bump(t) ==
    /\ pc[t] = "bump"
    /\ nextId' = rid[t] + 1
    /\ Go(t, "send")
    /\ UNCHANGED <<channel, tables, state, calls, device, ghost>>

\* attachBackingUser: unless the client has a backing for the id, the range
\* is wired.  (When wiring or the segment walk fails nothing changes.)
attachBackingUser(t, i) ==
    /\ findUserBacking(ClientOf[t], i) = {}
    /\ Enter(t, "attach", i, "send")
    /\ LET d == <<ClientOf[t], calls + 1>>
       IN desc' = [desc EXCEPT ![t] = d] /\ wired' = wired \cup {d}
    /\ UNCHANGED <<channel, table, twice, nextId, state, slot, device, ghost>>

\* Mutant: the descriptor is dropped and DETACH_BACKING is left to UNREF.
detachNoCommand(t, i) ==
    /\ Enter(t, "detach", i, "remove")
    /\ UNCHANGED <<channel, tables, nextId, state, desc, slot, device, ghost>>

\* detachBackingUser: DETACH_BACKING first, whoever owns the resource.
detachBackingUser(t, i) ==
    /\ Enter(t, "detach", i, "send")
    /\ UNCHANGED <<channel, tables, nextId, state, desc, slot, device, ghost>>

\* resourceUnref: a backing that is still held is released before UNREF.
resourceUnref(t, i) ==
    /\ Enter(t, "unref", i,
             IF findUserBacking(ClientOf[t], i) # {} THEN "remove" ELSE "send")
    /\ UNCHANGED <<channel, tables, nextId, state, desc, slot, device, ghost>>

\* sendDisplayCommand
SendCommand(t) ==
    /\ pc[t] = "send"
    /\ Send([type |-> op[t], id |-> rid[t], desc |-> desc[t]])
    /\ suspect' = IF Quiet THEN suspect ELSE suspect \cup {rid[t]}
    /\ Go(t, "wait")
    /\ UNCHANGED <<tables, nextId, state, calls, device, exposed>>

\* submitCommand returned, with the device's answer or with a timeout.
Returned(t, ok) ==
    /\ pc[t] = "wait"
    /\ \/ Answered /\ ok = (answer # "err") /\ UNCHANGED suspect
       \/ TimedOut /\ ~ok /\ suspect' = suspect \cup {rid[t]}
    /\ UNCHANGED <<table, twice, nextId, state, calls, device, exposed>>

\* complete() and release() of the call's own descriptor.
DropOwn(t) == wired' = wired \ {desc[t]}

\* Creating and unreferencing end here; so does an attach that failed.
Finish(t) ==
    /\ \/ op[t] \in {"create", "unref"} /\ (\E ok \in BOOLEAN : Returned(t, ok)) /\ UNCHANGED wired
       \/ op[t] = "attach" /\ Returned(t, FALSE) /\ DropOwn(t)
    /\ Return(t)

\* After DETACH_BACKING the descriptor is dropped whatever the result was.
Detached(t) ==
    /\ op[t] = "detach"
    /\ \E ok \in BOOLEAN : Returned(t, ok)
    /\ Go(t, "remove")
    /\ UNCHANGED wired

Attached(t) ==
    /\ op[t] = "attach"
    /\ Returned(t, TRUE)
    /\ Go(t, "add")
    /\ UNCHANGED wired

\* addUserBacking looks for a duplicate and for a free slot; without one the
\* pages are unwired although the device has just been given them.
AddScan(t) ==
    /\ pc[t] = "add"
    /\ LET c == ClientOf[t]
       IN IF findUserBacking(c, rid[t]) = {} /\ FreeSlots(c) # {}
          THEN /\ slot' = [slot EXCEPT ![t] = First(FreeSlots(c))]
               /\ pc' = [pc EXCEPT ![t] = "store"]
               /\ UNCHANGED <<op, rid, desc, wired, exposed>>
          ELSE Return(t) /\ DropOwn(t) /\ exposed' = exposed \cup {rid[t]}
    /\ UNCHANGED <<channel, table, twice, nextId, state, calls, device, suspect>>
AddStore(t) ==
    /\ pc[t] = "store"
    /\ table' = [table EXCEPT ![ClientOf[t]][slot[t]] = [id |-> rid[t], desc |-> desc[t]]]
    /\ Return(t)
    /\ UNCHANGED <<channel, wired, twice, nextId, state, calls, device, ghost>>

\* Where removeUserBacking continues: resourceUnref still has to send UNREF.
AfterRemove(t) == IF op[t] = "unref" THEN Go(t, "send") ELSE Return(t)

\* removeUserBacking: find the slot, complete and release, clear.
RemoveFind(t) ==
    /\ pc[t] = "remove"
    /\ LET found == findUserBacking(ClientOf[t], rid[t])
       IN IF found = {} THEN AfterRemove(t)
          ELSE /\ slot' = [slot EXCEPT ![t] = First(found)]
               /\ pc' = [pc EXCEPT ![t] = "drop"]
               /\ UNCHANGED <<op, rid, desc>>
    /\ UNCHANGED <<channel, tables, nextId, state, calls, device, ghost>>

\* Descriptors of D are completed and released.
Release(D) == /\ wired' = wired \ D
              /\ twice' = twice \cup ((D \ wired) \ {NoDesc})

RemoveDrop(t) ==
    /\ pc[t] = "drop"
    /\ Release({table[ClientOf[t]][slot[t]].desc})
    /\ exposed' = IF op[t] = "unref" THEN exposed \cup {rid[t]} ELSE exposed
    /\ Go(t, "clear")
    /\ UNCHANGED <<channel, table, nextId, state, calls, device, suspect>>

\* Mutant: the slot keeps its pointer.
RemoveNoClear(t) ==
    /\ pc[t] = "clear"
    /\ AfterRemove(t)
    /\ UNCHANGED <<channel, tables, nextId, state, calls, device, ghost>>

RemoveClear(t) ==
    /\ pc[t] = "clear"
    /\ table' = [table EXCEPT ![ClientOf[t]][slot[t]] = FreeSlot]
    /\ AfterRemove(t)
    /\ UNCHANGED <<channel, wired, twice, nextId, state, calls, device, ghost>>

\* removeAllUserBackings: no DETACH or UNREF is sent.
removeAllUserBackings(c) ==
    /\ Release({table[c][s].desc : s \in Slots})
    /\ table' = [table EXCEPT ![c] = [s \in Slots |-> FreeSlot]]
    /\ exposed' = exposed \cup ({table[c][s].id : s \in Slots} \ {0})

\* The connection is closed, or its task died: calls may still be running.
clientClose(c) ==
    /\ state[c] = "open"
    /\ Serial => ~InCall(c)
    /\ state' = [state EXCEPT ![c] = "closed"]
    /\ removeAllUserBackings(c)
    /\ UNCHANGED <<channel, nextId, pc, locals, calls, device, suspect>>

\* The last reference is gone, so no call is running.
free(c) ==
    /\ state[c] = "closed"
    /\ ~InCall(c)
    /\ state' = [state EXCEPT ![c] = "freed"]
    /\ removeAllUserBackings(c)
    /\ UNCHANGED <<channel, nextId, pc, locals, calls, device, suspect>>

-----------------------------------------------------------------------------
\* The device (external).  It carries out what it can; to what it cannot it
\* answers with an error or, as the comments in createResource3DEx record,
\* with OK_NODATA all the same.
DevExecute ==
    /\ backlog > 0
    /\ LET i == cmd.id
           d == IF cmd.type = "attach" THEN cmd.desc ELSE NoDesc
           Can == CASE cmd.type = "create" -> i \notin host
                    [] cmd.type = "attach" -> i \in host /\ backing[i] = NoDesc
                    [] OTHER -> i \in host
       IN \/ /\ Can
             /\ Execute("nodata")
             /\ host' = IF cmd.type = "unref" THEN host \ {i} ELSE host \cup {i}
             /\ backing' = [backing EXCEPT ![i] = d]
          \/ /\ Can => cmd.type \in {"create", "attach"}
             /\ \E a \in {"nodata", "err"} : Execute(a)
             /\ UNCHANGED device
    /\ UNCHANGED <<tables, nextId, state, pc, locals, calls, ghost>>

DevPush == Push /\ UNCHANGED <<tables, nextId, state, pc, locals, calls, device, ghost>>

Call(t) == \/ createResource3DEx(t)
           \/ \E i \in Ids : attachBackingUser(t, i) \/ detachBackingUser(t, i) \/ resourceUnref(t, i)
Step(t) == \/ Bump(t) \/ SendCommand(t) \/ Finish(t) \/ Detached(t)
           \/ Attached(t) \/ AddScan(t) \/ AddStore(t)
           \/ RemoveFind(t) \/ RemoveDrop(t) \/ RemoveClear(t)
\* Every client is gone.
Finished == (\A c \in Clients : state[c] = "freed") /\ UNCHANGED vars
Next == \/ \E t \in Threads : Call(t) \/ Step(t)
        \/ \E c \in Clients : clientClose(c) \/ free(c)
        \/ DevExecute \/ DevPush \/ Finished
Spec == Init /\ [][Next]_vars

-----------------------------------------------------------------------------
\* The types of the variables.
TypeOK ==
    /\ ChannelTypeOK
    /\ table \in [Clients -> [Slots -> [id : Ids \cup {0}, desc : Descs \cup {NoDesc}]]]
    /\ wired \subseteq Descs /\ twice \subseteq Descs
    /\ nextId \in 1 .. MaxIds + 1
    /\ state \in [Clients -> {"open", "closed", "freed"}]
    /\ pc \in [Threads -> {"idle", "bump", "send", "wait", "add", "store", "remove", "drop", "clear"}]
    /\ op \in [Threads -> Ops]
    /\ rid \in [Threads -> Ids \cup {0}]
    /\ desc \in [Threads -> Descs \cup {NoDesc}]
    /\ slot \in [Threads -> Slots \cup {0}]
    /\ calls \in 0 .. MaxCalls
    /\ host \subseteq Ids
    /\ backing \in [Ids -> Descs \cup {NoDesc}]
    /\ suspect \subseteq Ids /\ exposed \subseteq Ids

\* Descriptors the client's table or a running call answers for; a slot that
\* removeUserBacking has released and not cleared yet no longer counts.
Dropping(c, s) == \E t \in Threads : ClientOf[t] = c /\ pc[t] = "clear" /\ slot[t] = s
Kept == {p \in Clients \X Slots : ~Dropping(p[1], p[2])}
Held == {table[p[1]][p[2]].desc : p \in Kept} \cup {desc[t] : t \in Threads}

\* Wired memory is accounted for on every path, timeouts, a full table and a
\* closed client included: a descriptor is wired exactly as long as a slot or
\* a running call holds it, and none is completed a second time.
WiredAccounted == wired = Held \ {NoDesc} /\ twice = {}

\* A client never has two backings for one resource, although the duplicate
\* check and the store are separated by a command that may time out.
OneBackingPerResource ==
    \A c \in Clients : \A s, r \in Slots :
        table[c][s].id = table[c][r].id /\ table[c][s].id # 0 => s = r

\* The backing tables and the wired pages, taken together: well typed, one slot
\* for each resource, and wired exactly while held.
BackingsAccounted == TypeOK /\ OneBackingPerResource /\ WiredAccounted

\* For a resource whose commands all met an idle queue and were answered, the
\* device is left with pages that are no longer wired only by three paths: a
\* full table, the defensive release of resourceUnref, and a closed client.
\* (The header wants descriptors held so that the commands "can rely on wiring
\* holding across calls"; this says exactly how far they can.)
DanglingExplained ==
    \A i \in host \ suspect :
        backing[i] # NoDesc /\ backing[i] \notin wired => i \in exposed

\* The comment on removeAllUserBackings: it is there against a client that
\* "dies with resources attached" leaking wired pages.  Once a client has
\* been freed none of its pages is wired.
NoWiredAfterFree ==
    \A c \in Clients : state[c] = "freed" => \A d \in wired : d[1] # c
=============================================================================
