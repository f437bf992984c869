---------------------------- MODULE ResourcePool ----------------------------
(***************************************************************************)
(* The table of host resources the kext keeps, m_resource_pool, and the    *)
(* four routines that change it: createResource2D, createResource3D,       *)
(* attachBacking (as createResource2D calls it) and deallocateResource.    *)
(* Each holds m_resource_lock from its first line to its last, so one runs *)
(* at a time; but it sends up to three commands, between which commands of *)
(* other callers reach the queue, and any of which may time out and still  *)
(* be executed by the device later.                                        *)
(***************************************************************************)
EXTENDS CommandChannel, FiniteSets

CONSTANTS
    Ids,            \* resource ids callers use
    NoId,           \* 0, the id of a free slot
    PoolSize,       \* 64
    MaxOps          \* bound: operations of a behaviour

ASSUME PoolAssumption == /\ NoId \notin Ids
                         /\ PoolSize \in Nat \ {0}
                         /\ MaxOps \in Nat

VARIABLES
    pool,       \* m_resource_pool: [id, mem] of each slot
    alive,      \* backing memory the driver allocated and still holds
    at,         \* where the owner of m_resource_lock is, or "idle"
    rid,        \* its resource_id
    mem,        \* its backing_to_attach
    other,      \* the waiting call belongs to some other caller
    last,       \* id and result of the operation that ended, until the next one
    ops,        \* operations so far; one's number names what it allocates
    host,       \* resources that exist on the device
    backing,    \* the memory the device has attached to each
    suspect,    \* ids with a command that timed out or met a backlog
    orphans     \* ids an operation gave up on without an UNREF

kext == <<pool, alive, at, rid, mem, last, ops>>
device == <<host, backing>>
ghost == <<suspect, orphans>>
vars == <<channel, kext, other, device, ghost>>

Slots == 1 .. PoolSize
FreeSlot == [id |-> NoId, mem |-> 0]
\* Memory: none, a driver allocation named by its operation, or the caller's.
Allocation == 1 .. MaxOps
CallerMem == MaxOps + 1
Memory == 0 .. CallerMem

Cmd(type, i, m) == [type |-> type, id |-> i, mem |-> m]
OtherCmd == Cmd("other", NoId, 0)
PoolCommand == [type : {"create", "attach", "unref", "other"}, id : Ids \cup {NoId}, mem : Memory]

ASSUME PoolCommandAssumption == PoolCommand \subseteq Command

Codes == {"Success", "Error", "Timeout", "BadArgument", "NoMemory", "NoSpace"}
\* No operation has ended since the running one began.
NoResult == [id |-> NoId, code |-> "Success"]

Init ==
    /\ ChannelInit
    /\ pool = [s \in Slots |-> FreeSlot]
    /\ alive = {}
    /\ at = "idle" /\ rid = NoId /\ mem = 0
    /\ other = FALSE
    /\ last = NoResult
    /\ ops = 0
    /\ host = {} /\ backing = [i \in Ids |-> 0]
    /\ suspect = {} /\ orphans = {}

-----------------------------------------------------------------------------
\* findResource
findResource(i) == \E s \in Slots : pool[s].id = i

\* Mutant: a scan that finds nothing stops at the last slot.
IsLastScanned(s) == /\ pool[s].id = NoId \/ s = PoolSize
                    /\ \A r \in Slots : r < s => pool[r].id # NoId

\* The first slot with resource_id 0.
IsFirstFree(s) == /\ pool[s].id = NoId
                  /\ \A r \in Slots : r < s => pool[r].id # NoId
PoolFull == \A s \in Slots : pool[s].id # NoId

\* A command of the lock's owner.
Submit(c) ==
    /\ Send(c)
    /\ suspect' = IF Quiet THEN suspect ELSE suspect \cup {c.id}
    /\ UNCHANGED <<other, device>>

\* The owner's call returns from submitCommand with an answer, or without.
GotAnswer == Answered /\ ~other /\ UNCHANGED <<other, device, suspect>>
GotTimeout == /\ TimedOut /\ ~other
              /\ suspect' = suspect \cup {rid}
              /\ UNCHANGED <<other, device>>

\* IOLockUnlock(m_resource_lock) and return.
Return(code) == /\ at' = "idle" /\ rid' = NoId /\ mem' = 0
                /\ last' = [id |-> rid, code |-> code]
                /\ UNCHANGED ops

\* A routine takes m_resource_lock and sends its first command.
Begin(where, i, m, type) ==
    /\ at = "idle"
    /\ ops < MaxOps
    /\ ops' = ops + 1
    /\ at' = where /\ rid' = i /\ mem' = m
    /\ last' = NoResult
    /\ Submit(Cmd(type, i, 0))
    /\ UNCHANGED <<pool, alive, orphans>>

\* createResource2D or createResource3D with an id that is in the pool.
CreateDuplicate(i) ==
    /\ at = "idle"
    /\ ops < MaxOps
    /\ findResource(i)
    /\ ops' = ops + 1
    /\ last' = [id |-> i, code |-> "BadArgument"]
    /\ UNCHANGED <<channel, pool, alive, at, rid, mem, other, device, ghost>>

\* Mutant: the duplicate check is missing.
CreateUnchecked(i, m) == Begin("create", i, m, "create")

\* createResource2D, with the caller's memory or, for m = 0, memory of its own.
createResource2D(i, m) == ~findResource(i) /\ Begin("create", i, m, "create")

\* CREATE_2D did not succeed.  (A stale answer with data ends here too, and
\* is returned as a success.)
CreateFails ==
    /\ at = "create"
    /\ \/ GotTimeout /\ Return("Timeout")
       \/ GotAnswer /\ answer = "err" /\ Return("Error")
       \/ GotAnswer /\ answer = "data" /\ Return("Success")
    /\ UNCHANGED <<pool, alive, orphans>>

\* CREATE_2D succeeded: allocate memory unless the caller brought some.
Created ==
    /\ at = "create"
    /\ GotAnswer /\ answer = "nodata"
    /\ at' = "backing"
    /\ IF mem = 0 THEN mem' = ops /\ alive' = alive \cup {ops}
                  ELSE UNCHANGED <<mem, alive>>
    /\ UNCHANGED <<pool, rid, last, ops, orphans>>

\* The allocation failed: the host resource is left behind.
CreatedNoMemory ==
    /\ at = "create"
    /\ mem = 0
    /\ GotAnswer /\ answer = "nodata"
    /\ orphans' = orphans \cup {rid}
    /\ Return("NoMemory")
    /\ UNCHANGED <<pool, alive>>

\* attachBacking: the segments of the wired memory go into ATTACH_BACKING.  The
\* wiring, with its complete() here and the second one in createResource2D, is
\* left out: a backing is memory that is allocated or released.
attachBacking ==
    /\ at = "backing"
    /\ Submit(Cmd("attach", rid, mem))
    /\ at' = "attach"
    /\ UNCHANGED <<pool, alive, rid, mem, last, ops, orphans>>

\* Memory the driver allocated is released; the caller's is not touched.
ReleaseMem == alive' = alive \ {mem}

\* attachBacking failed before it sent anything (no wiring, no segments, no
\* command buffer), or its command did: the host resource is left behind.
AttachFails ==
    /\ \/ at = "backing" /\ Return("NoMemory")
          /\ UNCHANGED <<channel, other, device, suspect>>
       \/ at = "attach" /\ GotTimeout /\ Return("Timeout")
       \/ at = "attach" /\ GotAnswer /\ answer = "err" /\ Return("Error")
    /\ ReleaseMem
    /\ orphans' = orphans \cup {rid}
    /\ UNCHANGED pool

\* The resource goes into the first free slot, with the memory it owns.
Register ==
    /\ at = "attach"
    /\ GotAnswer /\ answer # "err"
    /\ \E s \in Slots :
          /\ IsFirstFree(s)
          /\ pool' = [pool EXCEPT ![s] =
                        [id |-> rid, mem |-> IF mem = CallerMem THEN 0 ELSE mem]]
    /\ Return("Success")
    /\ UNCHANGED <<alive, orphans>>

\* No free slot: the host resource is to be dropped again ...
NoSlot ==
    /\ at = "attach"
    /\ GotAnswer /\ answer # "err"
    /\ PoolFull
    /\ at' = "full"
    /\ UNCHANGED <<pool, alive, rid, mem, last, ops, orphans>>

\* Mutant: ... and is not.
UnrefSkipped ==
    /\ at = "full"
    /\ ReleaseMem
    /\ Return("NoSpace")
    /\ UNCHANGED <<channel, other, device, ghost, pool>>

UnrefOverflow ==
    /\ at = "full"
    /\ Submit(Cmd("unref", rid, 0))
    /\ at' = "overflow"
    /\ UNCHANGED <<pool, alive, rid, mem, last, ops, orphans>>

\* ... whatever UNREF returns, the memory is released.
Overflowed ==
    /\ at = "overflow"
    /\ GotAnswer \/ GotTimeout
    /\ ReleaseMem
    /\ Return("NoSpace")
    /\ UNCHANGED <<pool, orphans>>

createResource3D(i) == ~findResource(i) /\ Begin("create3d", i, 0, "create")

\* Mutant: the response type is not looked at.
Created3DUnchecked ==
    /\ at = "create3d"
    /\ GotAnswer
    /\ \E s \in Slots : IsFirstFree(s) /\ pool' = [pool EXCEPT ![s] = [id |-> rid, mem |-> 0]]
    /\ Return("Success")
    /\ UNCHANGED <<alive, orphans>>

\* After CREATE_3D: a slot if there is one; if not (or if the temporary
\* entry cannot be allocated) the call still succeeds.
Created3D ==
    /\ at = "create3d"
    /\ GotAnswer
    /\ IF answer = "nodata"
       THEN \/ \E s \in Slots : /\ IsFirstFree(s)
                                /\ pool' = [pool EXCEPT ![s] = [id |-> rid, mem |-> 0]]
                                /\ UNCHANGED orphans
            \/ orphans' = orphans \cup {rid} /\ UNCHANGED pool
       ELSE UNCHANGED <<pool, orphans>>
    /\ Return(IF answer = "err" THEN "Error" ELSE "Success")
    /\ UNCHANGED alive

\* UNREF is sent whatever the pool says.
deallocateResource(i) == Begin("dealloc", i, 0, "unref")

\* Mutant: the backing is not released with its slot.
TombstoneLeaks ==
    /\ at = "dealloc"
    /\ GotAnswer /\ answer # "err"
    /\ pool' = [s \in Slots |-> IF pool[s].id = rid THEN FreeSlot ELSE pool[s]]
    /\ Return("Success")
    /\ UNCHANGED <<alive, orphans>>

\* UNREF succeeded: the slot becomes free and its memory is released.
Tombstone ==
    /\ at = "dealloc"
    /\ GotAnswer /\ answer # "err"
    /\ pool' = [s \in Slots |-> IF pool[s].id = rid THEN FreeSlot ELSE pool[s]]
    /\ alive' = alive \ {pool[s].mem : s \in {r \in Slots : pool[r].id = rid}}
    /\ Return("Success")
    /\ UNCHANGED orphans

\* UNREF failed, or CREATE_3D timed out: the pool stays as it is.
Fails ==
    /\ at \in {"dealloc", "create3d"}
    /\ \/ GotTimeout /\ Return("Timeout")
       \/ at = "dealloc" /\ GotAnswer /\ answer = "err" /\ Return("Error")
    /\ UNCHANGED <<pool, alive, orphans>>

-----------------------------------------------------------------------------
\* Other callers of submitCommand: scanout, transfer, flush, queries.
\* (They leave room below the bound, so it never blocks an operation.)
OtherSend == /\ ops < MaxOps
             /\ backlog + 1 < MaxBacklog
             /\ Send(OtherCmd)
             /\ other' = TRUE
             /\ UNCHANGED <<kext, device, ghost>>
OtherReturn == /\ other
               /\ Answered \/ TimedOut
               /\ other' = FALSE
               /\ UNCHANGED <<kext, device, ghost>>

\* The device (external).  Creating and attaching may fail for want of host
\* memory; an id in use, an unknown id and a second backing are errors.
Reply(a, newHost, newBacking) ==
    Execute(a) /\ host' = newHost /\ backing' = newBacking

DevExecute ==
    /\ backlog > 0
    /\ LET i == cmd.id
       IN \/ /\ cmd.type = "create" /\ i \notin host
             /\ Reply("nodata", host \cup {i}, [backing EXCEPT ![i] = 0])
          \/ /\ cmd.type = "attach" /\ i \in host /\ backing[i] = 0
             /\ Reply("nodata", host, [backing EXCEPT ![i] = cmd.mem])
          \/ /\ cmd.type = "unref" /\ i \in host
             /\ Reply("nodata", host \ {i}, [backing EXCEPT ![i] = 0])
          \/ /\ cmd.type = "unref" => i \notin host
             /\ Reply("err", host, backing)
          \/ /\ cmd.type = "other"
             /\ \E a \in {"nodata", "data"} : Reply(a, host, backing)
    /\ UNCHANGED <<kext, other, ghost>>

DevPush == Push /\ UNCHANGED <<kext, other, device, ghost>>

Owner == \/ CreateFails \/ Created \/ CreatedNoMemory \/ attachBacking
         \/ AttachFails \/ Register \/ NoSlot \/ UnrefOverflow \/ Overflowed
         \/ Created3D \/ Tombstone \/ Fails
Call == \E i \in Ids : \/ \E m \in {0, CallerMem} : createResource2D(i, m)
                       \/ CreateDuplicate(i)
                       \/ createResource3D(i)
                       \/ deallocateResource(i)
\* The behaviour's last operation has ended.
Finished == ops = MaxOps /\ at = "idle" /\ ~other /\ UNCHANGED vars
Next == Owner \/ Call \/ OtherSend \/ OtherReturn \/ DevExecute \/ DevPush \/ Finished
Spec == Init /\ [][Next]_vars

-----------------------------------------------------------------------------
\* The types of the variables.
TypeOK ==
    /\ ChannelTypeOK
    /\ pool \in [Slots -> [id : Ids \cup {NoId}, mem : Allocation \cup {0}]]
    /\ alive \subseteq Allocation
    /\ at \in {"idle", "create", "backing", "attach", "full", "overflow", "create3d", "dealloc"}
    /\ rid \in Ids \cup {NoId}
    /\ mem \in Memory
    /\ other \in BOOLEAN
    /\ last \in [id : Ids \cup {NoId}, code : Codes]
    /\ ops \in 0 .. MaxOps
    /\ host \subseteq Ids
    /\ backing \in [Ids -> Memory]
    /\ suspect \subseteq Ids /\ orphans \subseteq Ids

Tracked == {i \in Ids : findResource(i)}

\* No id is in two slots, whatever timed out: deallocateResource stops at the
\* first slot it finds, so a second one would be tracked for ever.
PoolUnique ==
    \A s, r \in Slots : pool[s].id = pool[r].id /\ pool[s].id # NoId => s = r

\* Every allocation of createResource2D is in the hands of exactly one owner,
\* the routine that is running or the slot of its resource, on every exit
\* path: none leaks, and none is released while a slot still points to it.
BackingAccounted ==
    /\ alive = {m \in Allocation : m = mem \/ \E s \in Slots : pool[s].mem = m}
    /\ \A s \in Slots : pool[s].mem # 0 => /\ pool[s].mem # mem
                                           /\ pool[s].id # NoId
    /\ \A s, r \in Slots : pool[s].mem = pool[r].mem /\ pool[s].mem # 0 => s = r

\* As long as no command for an id timed out or was sent into a backlog, the
\* id's slot is not a phantom: what the pool tracks exists on the device.
TrackedOnHost ==
    \A i \in Tracked \ suspect : at # "dealloc" \/ rid # i => i \in host

\* For such an id, the device is never left with memory that the kext has
\* released: UNREF goes before the release, on the overflow path too.
NoDanglingBacking ==
    \A i \in host \ suspect : backing[i] \in alive \cup {0, CallerMem}

\* For such an id, a resource that only the device knows of comes from one of
\* three exits: no memory for the backing, a failed attach, a 3D overflow.
OrphansExplained ==
    \A i \in host \ suspect : i \in Tracked \cup orphans \/ i = rid

\* A slot that is in use is emptied before it is used again.
LiveSlotsKept ==
    [][\A s \in Slots : pool[s].id # NoId => pool'[s] \in {pool[s], FreeSlot}]_vars

\* Pool and device agree on every id whose commands were answered in order: what
\* is tracked exists there, and what exists there has no released memory.
HostAgrees == TrackedOnHost /\ NoDanglingBacking

-----------------------------------------------------------------------------
(* What the proofs add to the properties to make them inductive.           *)

\* The owner's locals: it works on an id the pool does not track (unless it
\* is deallocating it), and the number that will name its allocation is new.
OwnerInv ==
    /\ at = "idle" <=> rid = NoId
    /\ at # "idle" => ops \in Allocation
    /\ at \in {"idle", "create3d", "dealloc"} => mem = 0
    /\ at = "create" => mem \in {0, CallerMem}
    /\ mem = CallerMem \/ mem <= ops
    /\ at \in {"create", "backing", "attach", "full", "overflow", "create3d"} =>
          \A s \in Slots : pool[s].id # rid
    /\ \A s \in Slots : pool[s].mem <= ops
    /\ at = "create" => \A s \in Slots : pool[s].mem < ops

\* Whatever the device may find in the buffer is a command for a real id.
CommandInv ==
    /\ backlog > 0 => cmd # NoCommand
    /\ cmd # NoCommand => cmd \in PoolCommand
    /\ cmd # NoCommand /\ cmd.type # "other" => cmd.id \in Ids
=============================================================================
