------------------------- MODULE ResourcePoolProofs -------------------------
(***************************************************************************)
(* Proofs about ResourcePool for any pool size, any set of ids and any     *)
(* number of operations: whatever times out, no id is in two slots and     *)
(* every allocation has exactly one owner; and for an id whose commands    *)
(* were answered in order, pool and device agree.                          *)
(***************************************************************************)
EXTENDS ResourcePool, TLAPS

\* The part of an action that is about the pool and its owner's locals; every
\* other conjunct of the invariant is about the channel and the device.
PoolState == <<pool, alive, at, rid, mem, ops>>
PoolInv == PoolUnique /\ BackingAccounted /\ OwnerInv
PoolTypes == /\ pool \in [Slots -> [id : Ids \cup {NoId}, mem : Allocation \cup {0}]]
             /\ alive \subseteq Allocation
             /\ rid \in Ids \cup {NoId}
             /\ mem \in Memory
             /\ ops \in 0 .. MaxOps

\* An action that leaves the pool and the locals alone keeps their invariant.
LEMMA PoolStutter ==
    ASSUME PoolInv, UNCHANGED PoolState
    PROVE  PoolInv'
BY DEF PoolInv, PoolState, PoolUnique, BackingAccounted, OwnerInv, Slots, Allocation, CallerMem

\* Returning without registering anything: the owner's memory is released.
LEMMA PoolReturn ==
    ASSUME PoolInv, PoolTypes, at # "idle", NEW code, Return(code),
           UNCHANGED pool, alive' = alive \ {mem}
    PROVE  PoolInv'
<1> USE PoolAssumption DEF PoolInv, PoolTypes, Return, Slots, Allocation, CallerMem, Memory
<1>1. PoolUnique'
  BY DEF PoolUnique
<1>2. BackingAccounted'
  BY DEF BackingAccounted
<1>3. OwnerInv'
  BY DEF OwnerInv
<1> QED BY <1>1, <1>2, <1>3

\* The owner's resource enters a free slot together with its memory.
LEMMA PoolRegister ==
    ASSUME PoolInv, PoolTypes, NEW s \in Slots, pool[s].id = NoId,
           at \in {"attach", "create3d"}, NEW code, Return(code), UNCHANGED alive,
           pool' = [pool EXCEPT ![s] =
                      [id |-> rid, mem |-> IF mem = CallerMem THEN 0 ELSE mem]]
    PROVE  PoolInv'
<1> USE PoolAssumption DEF PoolInv, PoolTypes, Return, Slots, Allocation, CallerMem, Memory
<1> DEFINE m == IF mem = CallerMem THEN 0 ELSE mem
<1>0. /\ pool'[s].id = rid /\ pool'[s].mem = m
      /\ \A r \in Slots : r # s => pool'[r] = pool[r]
      /\ m \in Allocation \cup {0} /\ (m # 0 => m = mem)
  OBVIOUS
<1>r. rid # NoId /\ \A r \in Slots : pool[r].id # rid
  BY DEF OwnerInv
<1>s. pool[s].mem = 0
  BY DEF BackingAccounted
<1>1. PoolUnique'
  BY <1>0, <1>r DEF PoolUnique
<1>2. BackingAccounted'
  <2>1. alive' = {x \in Allocation : x = mem' \/ \E r \in Slots : pool'[r].mem = x}
    BY <1>0, <1>s DEF BackingAccounted
  <2>2. \A r \in Slots : pool'[r].mem # 0 => pool'[r].mem # mem' /\ pool'[r].id # NoId
    BY <1>0, <1>r DEF BackingAccounted
  <2>3. \A r, q \in Slots : pool'[r].mem = pool'[q].mem /\ pool'[r].mem # 0 => r = q
    BY <1>0 DEF BackingAccounted
  <2> QED BY <2>1, <2>2, <2>3 DEF BackingAccounted
<1>3. OwnerInv'
  BY <1>0 DEF OwnerInv
<1> QED BY <1>1, <1>2, <1>3


\* Types of the channel after a command was sent.
LEMMA SendTypes ==
    ASSUME ChannelTypeOK, NEW c \in Command, Send(c)
    PROVE  ChannelTypeOK' /\ backlog' > 0 /\ cmd' = c
<1>1. backlog' = backlog + 1 /\ backlog < MaxBacklog /\ cmd' = c
  BY DEF Send
<1>2. pushing' \in BOOLEAN /\ moved' \in BOOLEAN /\ waiting' \in BOOLEAN /\ answer' \in Answers
  BY Zenon DEF Send, ChannelTypeOK
<1>3. backlog \in 0 .. MaxBacklog
  BY DEF ChannelTypeOK
<1>4. backlog' \in 0 .. MaxBacklog /\ backlog' > 0
  BY <1>1, <1>3, ChannelAssumption
<1> QED BY <1>1, <1>2, <1>4, Zenon DEF ChannelTypeOK

\* ... and after any other step of the channel.
LEMMA ChannelTypes ==
    ASSUME ChannelTypeOK,
           \/ UNCHANGED channel \/ Answered \/ TimedOut \/ Push
           \/ \E a \in Answers : Execute(a)
    PROVE  ChannelTypeOK' /\ cmd' = cmd /\ backlog' <= backlog
<1>1. cmd' = cmd
  BY Zenon DEF channel, Answered, TimedOut, Push, Execute
<1>2. backlog' = backlog \/ (backlog > 0 /\ backlog' = backlog - 1)
  BY Zenon DEF channel, Answered, TimedOut, Push, Execute
<1>3. pushing' \in BOOLEAN
  BY Zenon DEF ChannelTypeOK, channel, Answered, TimedOut, Push, Execute
<1>4. moved' \in BOOLEAN
  BY Zenon DEF ChannelTypeOK, channel, Answered, TimedOut, Push, Execute
<1>5. waiting' \in BOOLEAN
  BY Zenon DEF ChannelTypeOK, channel, Answered, TimedOut, Push, Execute
<1>6. answer' \in Answers
  BY Zenon DEF ChannelTypeOK, channel, Answered, TimedOut, Push, Execute
<1>7. backlog \in 0 .. MaxBacklog
  BY DEF ChannelTypeOK
<1>8. backlog' \in 0 .. MaxBacklog /\ backlog' <= backlog
  BY <1>2, <1>7, ChannelAssumption
<1> QED BY <1>1, <1>3, <1>4, <1>5, <1>6, <1>8, Zenon DEF ChannelTypeOK

-----------------------------------------------------------------------------
\* The invariant about the channel and the device, apart from the pool's.
HostTypes == /\ ChannelTypeOK
             /\ other \in BOOLEAN
             /\ host \subseteq Ids
             /\ backing \in [Ids -> Memory]
             /\ suspect \subseteq Ids
ChannelInv == HostTypes /\ CommandInv

\* A command of the owner, for an id callers use.
LEMMA SubmitInv ==
    ASSUME ChannelInv, NEW c \in PoolCommand, c.id \in Ids, Submit(c)
    PROVE  ChannelInv'
<1>1. Send(c) /\ UNCHANGED <<other, host, backing>>
      /\ suspect' = IF Quiet THEN suspect ELSE suspect \cup {c.id}
  BY DEF Submit, device
<1>2. ChannelTypeOK' /\ cmd' = c
  BY <1>1, PoolCommandAssumption, SendTypes DEF ChannelInv, HostTypes
<1>3. CommandInv'
  <2>1. c # NoCommand
    BY PoolCommandAssumption, ChannelAssumption
  <2> QED BY <1>2, <2>1, Zenon DEF CommandInv
<1>4. suspect' \subseteq Ids
  BY <1>1 DEF ChannelInv, HostTypes
<1> QED BY <1>1, <1>2, <1>3, <1>4, Zenon DEF ChannelInv, HostTypes

\* The end of a call, and the device's push.
LEMMA QuietStepInv ==
    ASSUME ChannelInv, Answered \/ TimedOut \/ Push \/ UNCHANGED channel,
           UNCHANGED device, other' \in BOOLEAN, suspect' \subseteq Ids
    PROVE  ChannelInv'
<1>1. ChannelTypeOK' /\ cmd' = cmd /\ backlog' <= backlog
  BY ChannelTypes DEF ChannelInv, HostTypes
<1>2. backlog' = backlog
  BY Zenon DEF channel, Answered, TimedOut, Push
<1>3. CommandInv'
  BY <1>1, <1>2, Zenon DEF ChannelInv, CommandInv
<1> QED BY <1>1, <1>3, Zenon DEF ChannelInv, HostTypes, device

\* The device executes a command.
LEMMA ExecuteInv ==
    ASSUME ChannelInv, DevExecute
    PROVE  ChannelInv'
<1>1. /\ backlog > 0 /\ UNCHANGED <<other, suspect>>
      /\ \E a \in Answers : Execute(a)
  BY DEF DevExecute, Reply, Answers, ghost
<1>2. ChannelTypeOK' /\ cmd' = cmd /\ backlog' <= backlog
  BY <1>1, ChannelTypes DEF ChannelInv, HostTypes
<1>3. cmd # NoCommand /\ cmd \in PoolCommand
      /\ cmd.mem \in Memory /\ (cmd.type # "other" => cmd.id \in Ids)
  BY <1>1 DEF ChannelInv, CommandInv, PoolCommand
<1>4. CommandInv'
  BY <1>2, <1>3 DEF CommandInv
<1>5. host' \subseteq Ids
  BY <1>3 DEF DevExecute, Reply, ChannelInv, HostTypes
<1>6. backing' \in [Ids -> Memory]
  <2>1. 0 \in Memory
    BY PoolAssumption DEF Memory, CallerMem
  <2> QED BY <1>3, <2>1 DEF DevExecute, Reply, ChannelInv, HostTypes
<1> QED BY <1>1, <1>2, <1>4, <1>5, <1>6, Zenon DEF ChannelInv, HostTypes

-----------------------------------------------------------------------------
\* The rest of TypeOK, and the inductive invariant.
MiscTypes == /\ at \in {"idle", "create", "backing", "attach", "full", "overflow",
                        "create3d", "dealloc"}
             /\ last \in [id : Ids \cup {NoId}, code : Codes]
             /\ orphans \subseteq Ids
Inv == PoolTypes /\ MiscTypes /\ ChannelInv /\ PoolInv

LEMMA InvImplies == Inv => TypeOK /\ PoolUnique /\ BackingAccounted
BY Zenon DEF Inv, PoolTypes, MiscTypes, ChannelInv, HostTypes, PoolInv, TypeOK

LEMMA InitInv == Init => Inv
<1> SUFFICES ASSUME Init PROVE Inv
  OBVIOUS
<1>1. PoolTypes
  BY PoolAssumption DEF Init, PoolTypes, FreeSlot, Memory, CallerMem, Allocation
<1>2. MiscTypes
  BY DEF Init, MiscTypes, NoResult, Codes
<1>3. ChannelTypeOK
  <2>1. backlog \in 0 .. MaxBacklog /\ answer \in Answers
    BY ChannelAssumption DEF Init, ChannelInit, Answers
  <2>2. pushing \in BOOLEAN /\ moved \in BOOLEAN /\ waiting \in BOOLEAN /\ cmd = NoCommand
    BY Zenon DEF Init, ChannelInit
  <2> QED BY <2>1, <2>2, Zenon DEF ChannelTypeOK
<1>4. ChannelInv
  <2>1. CommandInv
    BY DEF Init, ChannelInit, CommandInv
  <2>2. host \subseteq Ids /\ backing \in [Ids -> Memory] /\ suspect \subseteq Ids
    BY PoolAssumption DEF Init, Memory, CallerMem
  <2>3. other \in BOOLEAN
    BY Zenon DEF Init
  <2> QED BY <1>3, <2>1, <2>2, <2>3 DEF ChannelInv, HostTypes
<1>5. PoolInv
  BY PoolAssumption
  DEF Init, PoolInv, PoolUnique, BackingAccounted, OwnerInv, FreeSlot, Allocation,
      CallerMem, Slots
<1> QED BY <1>1, <1>2, <1>4, <1>5 DEF Inv

\* What Return does to the types.
LEMMA ReturnTypes ==
    ASSUME Inv, NEW code \in Codes, Return(code), UNCHANGED pool,
           alive' \subseteq alive, orphans' \in {orphans, orphans \cup {rid}}, at # "idle"
    PROVE  PoolTypes' /\ MiscTypes'
<1>1. rid \in Ids
  BY DEF Inv, PoolInv, OwnerInv, PoolTypes
<1> QED BY <1>1, PoolAssumption DEF Inv, PoolTypes, MiscTypes, Return, Memory, CallerMem

\* Memory released by a return that had none to release.
LEMMA NothingToRelease ==
    ASSUME PoolInv, PoolTypes, mem \in {0, CallerMem}
    PROVE  alive = alive \ {mem}
BY PoolAssumption DEF PoolTypes, Allocation, CallerMem

\* The owner got its answer, or timed out.
LEMMA ReturnedInv ==
    ASSUME Inv, at # "idle", GotAnswer \/ GotTimeout
    PROVE  ChannelInv'
<1>1. /\ Answered \/ TimedOut
      /\ UNCHANGED <<other, device>>
      /\ suspect' = suspect \/ suspect' = suspect \cup {rid}
  BY DEF GotAnswer, GotTimeout
<1>2. rid \in Ids
  BY DEF Inv, PoolInv, OwnerInv, PoolTypes
<1>3. suspect' \subseteq Ids
  BY <1>1, <1>2 DEF Inv, ChannelInv, HostTypes
<1>4. other' \in BOOLEAN
  BY <1>1, Zenon DEF Inv, ChannelInv, HostTypes
<1> QED BY <1>1, <1>3, <1>4, QuietStepInv, Zenon DEF Inv

\* An operation that starts.
LEMMA BeginInv ==
    ASSUME Inv, NEW where \in {"create", "create3d", "dealloc"},
           NEW i \in Ids, NEW m \in {0, CallerMem}, NEW type \in {"create", "unref"},
           where # "create" => m = 0,
           where # "dealloc" => ~findResource(i),
           Begin(where, i, m, type)
    PROVE  Inv'
<1> USE PoolAssumption
<1>1. /\ at = "idle" /\ ops < MaxOps /\ ops' = ops + 1
      /\ at' = where /\ rid' = i /\ mem' = m
      /\ Submit(Cmd(type, i, 0))
      /\ last' = NoResult
      /\ UNCHANGED <<pool, alive, orphans>>
  BY DEF Begin
<1>2. ChannelInv'
  <2>1. Cmd(type, i, 0) \in PoolCommand /\ Cmd(type, i, 0).id \in Ids
    BY DEF Cmd, PoolCommand, Memory, CallerMem
  <2> QED BY <1>1, <2>1, SubmitInv DEF Inv
<1>3. PoolTypes' /\ MiscTypes'
  BY <1>1 DEF Inv, PoolTypes, MiscTypes, Memory, CallerMem, NoResult, Codes
<1>4. mem = 0
  BY <1>1 DEF Inv, PoolInv, OwnerInv
<1>5. PoolUnique' /\ BackingAccounted'
  BY <1>1, <1>4
  DEF Inv, PoolInv, PoolTypes, PoolUnique, BackingAccounted, Slots, Allocation, CallerMem
<1>6. OwnerInv'
  BY <1>1, <1>4
  DEF Inv, PoolInv, PoolTypes, OwnerInv, findResource, Slots, Allocation, CallerMem
<1> QED BY <1>2, <1>3, <1>5, <1>6 DEF Inv, PoolInv

\* A step of the owner that ends its operation and registers nothing.
LEMMA EndInv ==
    ASSUME Inv, at # "idle", NEW code \in Codes, Return(code), UNCHANGED pool,
           alive' = alive \ {mem}, orphans' \in {orphans, orphans \cup {rid}},
           ChannelInv'
    PROVE  Inv'
<1>1. PoolTypes' /\ MiscTypes'
  BY ReturnTypes
<1>2. PoolInv'
  BY PoolReturn DEF Inv
<1> QED BY <1>1, <1>2 DEF Inv

\* A step of the owner that registers its resource.
LEMMA RegisterInv ==
    ASSUME Inv, at \in {"attach", "create3d"}, NEW s \in Slots, IsFirstFree(s),
           Return("Success"), UNCHANGED <<alive, orphans>>, ChannelInv',
           pool' = [pool EXCEPT ![s] =
                      [id |-> rid, mem |-> IF mem = CallerMem THEN 0 ELSE mem]]
    PROVE  Inv'
<1> USE PoolAssumption
<1>1. PoolInv'
  BY PoolRegister DEF Inv, IsFirstFree
<1>2. PoolTypes'
  BY DEF Inv, PoolTypes, Return, Memory, CallerMem, Allocation
<1>3. MiscTypes'
  BY DEF Inv, PoolTypes, MiscTypes, Return, Codes
<1> QED BY <1>1, <1>2, <1>3 DEF Inv

\* A step of the owner inside its operation.
LEMMA MoveInv ==
    ASSUME Inv, ChannelInv', UNCHANGED <<pool, alive, rid, mem, last, ops, orphans>>,
           at \in {"backing", "attach", "full"}, at' \in {"attach", "full", "overflow"}
    PROVE  Inv'
<1>1. PoolTypes' /\ MiscTypes'
  BY DEF Inv, PoolTypes, MiscTypes
<1>2. PoolUnique' /\ BackingAccounted'
  BY DEF Inv, PoolInv, PoolUnique, BackingAccounted
<1>3. OwnerInv'
  BY DEF Inv, PoolInv, OwnerInv
<1> QED BY <1>1, <1>2, <1>3 DEF Inv, PoolInv

\* A step that leaves the kext's variables alone.
LEMMA KextStutter ==
    ASSUME Inv, ChannelInv', UNCHANGED <<kext, orphans>>
    PROVE  Inv'
<1>1. UNCHANGED <<pool, alive, at, rid, mem, last, ops, orphans>>
  BY DEF kext
<1>2. PoolTypes' /\ MiscTypes'
  BY <1>1 DEF Inv, PoolTypes, MiscTypes
<1>3. PoolInv'
  BY <1>1, PoolStutter DEF Inv, PoolState
<1> QED BY <1>2, <1>3 DEF Inv

LEMMA OwnerStep == Inv /\ Owner => Inv'
<1> SUFFICES ASSUME Inv, Owner PROVE Inv'
  OBVIOUS
<1> USE PoolAssumption
<1>t. /\ mem \in {0, CallerMem} => alive = alive \ {mem}
      /\ at \in {"create3d", "dealloc"} => mem = 0
      /\ at = "create" => mem \in {0, CallerMem}
  BY NothingToRelease DEF Inv, PoolInv, OwnerInv
<1>1. CASE CreateFails
  <2>1. /\ at = "create" /\ UNCHANGED <<pool, alive, orphans>>
        /\ GotAnswer \/ GotTimeout
        /\ \E code \in Codes : Return(code)
    BY <1>1 DEF CreateFails, Codes
  <2>2. ChannelInv'
    BY <2>1, ReturnedInv
  <2> QED BY <2>1, <2>2, <1>t, EndInv
<1>2. CASE Created
  <2>1. /\ at = "create" /\ GotAnswer /\ at' = "backing"
        /\ IF mem = 0 THEN mem' = ops /\ alive' = alive \cup {ops}
                      ELSE UNCHANGED <<mem, alive>>
        /\ UNCHANGED <<pool, rid, last, ops, orphans>>
    BY <1>2 DEF Created
  <2>2. ChannelInv'
    BY <2>1, ReturnedInv
  <2>3. ops \in Allocation /\ \A s \in Slots : pool[s].mem < ops
    BY <2>1 DEF Inv, PoolInv, OwnerInv
  <2>4. PoolTypes' /\ MiscTypes'
    <3>1. ops \in Memory
      BY <2>3 DEF Memory, CallerMem, Allocation
    <3> QED BY <2>1, <2>3, <3>1 DEF Inv, PoolTypes, MiscTypes
  <2>5. PoolUnique'
    BY <2>1 DEF Inv, PoolInv, PoolUnique
  <2>6. BackingAccounted'
    BY <2>1, <2>3, <1>t
    DEF Inv, PoolInv, PoolTypes, BackingAccounted, Allocation, CallerMem, Slots
  <2>7. OwnerInv'
    BY <2>1, <2>3 DEF Inv, PoolInv, PoolTypes, OwnerInv, Allocation, CallerMem
  <2> QED BY <2>2, <2>4, <2>5, <2>6, <2>7 DEF Inv, PoolInv
<1>3. CASE CreatedNoMemory
  <2>1. /\ at = "create" /\ mem = 0 /\ GotAnswer /\ Return("NoMemory")
        /\ orphans' = orphans \cup {rid} /\ UNCHANGED <<pool, alive>>
    BY <1>3 DEF CreatedNoMemory
  <2>2. ChannelInv'
    BY <2>1, ReturnedInv
  <2> QED BY <2>1, <2>2, <1>t, EndInv DEF Codes
<1>4. CASE attachBacking
  <2>1. /\ at = "backing" /\ Submit(Cmd("attach", rid, mem)) /\ at' = "attach"
        /\ UNCHANGED <<pool, alive, rid, mem, last, ops, orphans>>
    BY <1>4 DEF attachBacking
  <2>2. rid \in Ids /\ mem \in Memory
    BY <2>1 DEF Inv, PoolInv, OwnerInv, PoolTypes
  <2>3. Cmd("attach", rid, mem) \in PoolCommand /\ Cmd("attach", rid, mem).id \in Ids
    BY <2>2 DEF Cmd, PoolCommand
  <2>4. ChannelInv'
    BY <2>1, <2>3, SubmitInv DEF Inv
  <2> QED BY <2>1, <2>4, MoveInv
<1>5. CASE AttachFails
  <2>1. /\ at \in {"backing", "attach"} /\ UNCHANGED pool /\ alive' = alive \ {mem}
        /\ orphans' = orphans \cup {rid}
        /\ \E code \in Codes : Return(code)
    BY <1>5 DEF AttachFails, ReleaseMem, Codes
  <2>2. ChannelInv'
    <3>1. CASE GotAnswer \/ GotTimeout
      BY <3>1, <2>1, ReturnedInv
    <3>2. CASE UNCHANGED <<channel, other, device, suspect>>
      <4>1. other' \in BOOLEAN /\ suspect' \subseteq Ids
        BY <3>2, Zenon DEF Inv, ChannelInv, HostTypes
      <4> QED BY <3>2, <4>1, QuietStepInv, Zenon DEF Inv
    <3> QED BY <1>5, <3>1, <3>2 DEF AttachFails
  <2> QED BY <2>1, <2>2, EndInv
<1>6. CASE Register
  <2>1. /\ at = "attach" /\ GotAnswer /\ Return("Success") /\ UNCHANGED <<alive, orphans>>
    BY <1>6 DEF Register
  <2>2. PICK s \in Slots :
          /\ IsFirstFree(s)
          /\ pool' = [pool EXCEPT ![s] =
                        [id |-> rid, mem |-> IF mem = CallerMem THEN 0 ELSE mem]]
    BY <1>6 DEF Register
  <2>3. ChannelInv'
    BY <2>1, ReturnedInv
  <2> QED BY <2>1, <2>2, <2>3, RegisterInv
<1>7. CASE NoSlot
  <2>1. /\ at = "attach" /\ GotAnswer /\ at' = "full"
        /\ UNCHANGED <<pool, alive, rid, mem, last, ops, orphans>>
    BY <1>7 DEF NoSlot
  <2>2. ChannelInv'
    BY <2>1, ReturnedInv
  <2> QED BY <2>1, <2>2, MoveInv
<1>8. CASE UnrefOverflow
  <2>1. /\ at = "full" /\ Submit(Cmd("unref", rid, 0)) /\ at' = "overflow"
        /\ UNCHANGED <<pool, alive, rid, mem, last, ops, orphans>>
    BY <1>8 DEF UnrefOverflow
  <2>2. rid \in Ids
    BY <2>1 DEF Inv, PoolInv, OwnerInv, PoolTypes
  <2>3. Cmd("unref", rid, 0) \in PoolCommand /\ Cmd("unref", rid, 0).id \in Ids
    BY <2>2 DEF Cmd, PoolCommand, Memory, CallerMem
  <2>4. ChannelInv'
    BY <2>1, <2>3, SubmitInv DEF Inv
  <2> QED BY <2>1, <2>4, MoveInv
<1>9. CASE Overflowed
  <2>1. /\ at = "overflow"
        /\ GotAnswer \/ GotTimeout
        /\ alive' = alive \ {mem} /\ Return("NoSpace") /\ UNCHANGED <<pool, orphans>>
    BY <1>9 DEF Overflowed, ReleaseMem
  <2>2. ChannelInv'
    BY <2>1, ReturnedInv
  <2> QED BY <2>1, <2>2, EndInv DEF Codes
<1>10. CASE Created3D
  <2>1. /\ at = "create3d" /\ GotAnswer /\ UNCHANGED alive
        /\ Return(IF answer = "err" THEN "Error" ELSE "Success")
    BY <1>10 DEF Created3D
  <2>2. ChannelInv'
    BY <2>1, ReturnedInv
  <2>3. CASE UNCHANGED pool /\ orphans' \in {orphans, orphans \cup {rid}}
    BY <2>1, <2>2, <2>3, <1>t, EndInv DEF Codes
  <2>4. CASE /\ answer = "nodata" /\ UNCHANGED orphans
             /\ \E s \in Slots : /\ IsFirstFree(s)
                                 /\ pool' = [pool EXCEPT ![s] = [id |-> rid, mem |-> 0]]
    <3>1. PICK s \in Slots : /\ IsFirstFree(s)
                             /\ pool' = [pool EXCEPT ![s] = [id |-> rid, mem |-> 0]]
      BY <2>4
    <3>2. 0 = IF mem = CallerMem THEN 0 ELSE mem
      BY <2>1, <1>t
    <3>3. Return("Success")
      BY <2>1, <2>4
    <3> QED BY <2>1, <2>2, <2>4, <3>1, <3>2, <3>3, RegisterInv
  <2> QED BY <1>10, <2>3, <2>4 DEF Created3D
<1>11. CASE Tombstone
  <2>1. /\ at = "dealloc" /\ GotAnswer /\ Return("Success") /\ UNCHANGED orphans
        /\ pool' = [s \in Slots |-> IF pool[s].id = rid THEN FreeSlot ELSE pool[s]]
        /\ alive' = alive \ {pool[s].mem : s \in {r \in Slots : pool[r].id = rid}}
        /\ mem = 0 /\ mem' = 0 /\ at' = "idle" /\ rid' = NoId /\ ops' = ops
    BY <1>11, <1>t DEF Tombstone, Return
  <2>2. ChannelInv'
    BY <2>1, ReturnedInv
  <2>3. PoolTypes' /\ MiscTypes'
    BY <2>1 DEF Inv, PoolTypes, MiscTypes, FreeSlot, Memory, CallerMem, Return, Codes
  <2>4. \A s \in Slots : /\ pool[s].id = rid => pool'[s].id = NoId /\ pool'[s].mem = 0
                         /\ pool[s].id # rid => pool'[s] = pool[s]
    BY <2>1 DEF FreeSlot
  <2>5. PoolUnique'
    BY <2>4 DEF Inv, PoolInv, PoolUnique
  <2>6. BackingAccounted'
    <3>1. alive' = {m \in Allocation : m = mem' \/ \E s \in Slots : pool'[s].mem = m}
      <4>1. ASSUME NEW m \in Allocation
            PROVE  m \in alive' <=> \E s \in Slots : pool'[s].mem = m
        <5>1. m # 0
          BY DEF Allocation
        <5>2. m \in alive <=> \E s \in Slots : pool[s].mem = m
          BY <2>1, <5>1 DEF Inv, PoolInv, BackingAccounted
        <5>3. \A s, r \in Slots : pool[s].mem = m /\ pool[r].mem = m => s = r
          BY <5>1 DEF Inv, PoolInv, BackingAccounted
        <5> QED BY <2>1, <2>4, <5>1, <5>2, <5>3
      <4>2. alive' \subseteq Allocation
        BY <2>1 DEF Inv, PoolTypes
      <4>3. 0 \notin Allocation
        BY DEF Allocation
      <4> QED BY <2>1, <4>1, <4>2, <4>3
    <3>2. \A s \in Slots : pool'[s].mem # 0 => pool'[s].mem # mem' /\ pool'[s].id # NoId
      BY <2>1, <2>4 DEF Inv, PoolInv, BackingAccounted
    <3>3. \A s, r \in Slots : pool'[s].mem = pool'[r].mem /\ pool'[s].mem # 0 => s = r
      BY <2>4 DEF Inv, PoolInv, BackingAccounted
    <3> QED BY <3>1, <3>2, <3>3 DEF BackingAccounted
  <2>7. OwnerInv'
    BY <2>1, <2>4 DEF Inv, PoolInv, PoolTypes, OwnerInv, Allocation, CallerMem, Slots
  <2> QED BY <2>2, <2>3, <2>5, <2>6, <2>7 DEF Inv, PoolInv
<1>12. CASE Fails
  <2>1. /\ at \in {"dealloc", "create3d"} /\ UNCHANGED <<pool, alive, orphans>>
        /\ GotAnswer \/ GotTimeout
        /\ \E code \in Codes : Return(code)
    BY <1>12 DEF Fails, Codes
  <2>2. ChannelInv'
    BY <2>1, ReturnedInv
  <2> QED BY <2>1, <2>2, <1>t, EndInv
<1> QED BY <1>1, <1>2, <1>3, <1>4, <1>5, <1>6, <1>7, <1>8, <1>9, <1>10, <1>11, <1>12
        DEF Owner

\* A caller enters one of the routines.
LEMMA CallStep == Inv /\ Call => Inv'
<1> SUFFICES ASSUME Inv, Call PROVE Inv'
  OBVIOUS
<1>1. PICK i \in Ids : \/ \E m \in {0, CallerMem} : createResource2D(i, m)
                       \/ CreateDuplicate(i)
                       \/ createResource3D(i)
                       \/ deallocateResource(i)
  BY DEF Call
<1>2. ASSUME NEW m \in {0, CallerMem}, createResource2D(i, m) PROVE Inv'
  BY <1>2, BeginInv DEF createResource2D
<1>3. CASE CreateDuplicate(i)
  <2>1. /\ UNCHANGED <<channel, pool, alive, at, rid, mem, other, host, backing, suspect, orphans>>
        /\ at = "idle" /\ ops < MaxOps /\ ops' = ops + 1
        /\ last' = [id |-> i, code |-> "BadArgument"]
    BY <1>3 DEF CreateDuplicate, device, ghost
  <2>2. other' \in BOOLEAN /\ suspect' \subseteq Ids /\ UNCHANGED device
    BY <2>1, Zenon DEF Inv, ChannelInv, HostTypes, device
  <2>3. ChannelInv'
    BY <2>1, <2>2, QuietStepInv DEF Inv
  <2>4. PoolTypes' /\ MiscTypes'
    BY <2>1, PoolAssumption DEF Inv, PoolTypes, MiscTypes, Codes
  <2>5. PoolUnique' /\ BackingAccounted'
    BY <2>1 DEF Inv, PoolInv, PoolUnique, BackingAccounted
  <2>6. OwnerInv'
    BY <2>1, PoolAssumption DEF Inv, PoolInv, PoolTypes, OwnerInv, Allocation, CallerMem
  <2> QED BY <2>3, <2>4, <2>5, <2>6 DEF Inv, PoolInv
<1>4. CASE createResource3D(i)
  BY <1>4, BeginInv DEF createResource3D
<1>5. CASE deallocateResource(i)
  BY <1>5, BeginInv DEF deallocateResource
<1> QED BY <1>1, <1>2, <1>3, <1>4, <1>5

\* Every step of the specification keeps the invariant.
LEMMA NextInv == Inv /\ [Next]_vars => Inv'
<1> SUFFICES ASSUME Inv, [Next]_vars PROVE Inv'
  OBVIOUS
<1>1. CASE Owner
  BY <1>1, OwnerStep
<1>2. CASE Call
  BY <1>2, CallStep
<1>3. CASE OtherSend
  <2>1. Send(OtherCmd) /\ UNCHANGED <<kext, host, backing, suspect, orphans>> /\ other' = TRUE
    BY <1>3, Zenon DEF OtherSend, device, ghost
  <2>2. OtherCmd \in PoolCommand /\ OtherCmd.type = "other"
    BY PoolAssumption DEF OtherCmd, Cmd, PoolCommand, Memory, CallerMem
  <2>3. ChannelTypeOK' /\ cmd' = OtherCmd
    BY <2>1, <2>2, SendTypes, PoolCommandAssumption DEF Inv, ChannelInv, HostTypes
  <2>4. CommandInv'
    <3>1. OtherCmd # NoCommand
      BY <2>2, PoolCommandAssumption, ChannelAssumption
    <3> QED BY <2>2, <2>3, <3>1, Zenon DEF CommandInv
  <2>5. ChannelInv'
    BY <2>1, <2>3, <2>4, Zenon DEF Inv, ChannelInv, HostTypes
  <2> QED BY <2>1, <2>5, KextStutter
<1>4. CASE OtherReturn
  <2>1. /\ Answered \/ TimedOut
        /\ UNCHANGED <<kext, device, suspect, orphans>>
        /\ other' = FALSE
    BY <1>4, Zenon DEF OtherReturn, ghost
  <2>2. other' \in BOOLEAN /\ suspect' \subseteq Ids
    BY <2>1, Zenon DEF Inv, ChannelInv, HostTypes
  <2>3. ChannelInv'
    BY <2>1, <2>2, QuietStepInv, Zenon DEF Inv
  <2> QED BY <2>1, <2>3, KextStutter
<1>5. CASE DevExecute
  <2>1. UNCHANGED <<kext, orphans>>
    BY <1>5 DEF DevExecute, ghost
  <2>2. ChannelInv'
    BY <1>5, ExecuteInv DEF Inv
  <2> QED BY <2>1, <2>2, KextStutter
<1>6. CASE DevPush \/ UNCHANGED vars
  <2>1. /\ Push \/ UNCHANGED channel
        /\ UNCHANGED <<kext, other, device, suspect, orphans>>
    BY <1>6, Zenon DEF DevPush, ghost, vars
  <2>2. other' \in BOOLEAN /\ suspect' \subseteq Ids
    BY <2>1, Zenon DEF Inv, ChannelInv, HostTypes
  <2>3. ChannelInv'
    BY <2>1, <2>2, QuietStepInv, Zenon DEF Inv
  <2> QED BY <2>1, <2>3, KextStutter
<1> QED BY <1>1, <1>2, <1>3, <1>4, <1>5, <1>6 DEF Next, Finished

LEMMA Invariance == Spec => []Inv
<1>1. Init => Inv
  BY InitInv
<1>2. Inv /\ [Next]_vars => Inv'
  BY NextInv
<1> QED BY <1>1, <1>2, PTL DEF Spec

-----------------------------------------------------------------------------
\* The variables of the pool, the channel and the device have their types.
THEOREM PoolTypeCorrect == Spec => []TypeOK
<1>1. Inv => TypeOK
  BY InvImplies
<1> QED BY <1>1, Invariance, PTL

\* No exit path of the four routines, and no late command, ever puts an id in
\* a second slot of m_resource_pool, which deallocateResource would not clear.
THEOREM PoolUniqueTheorem == Spec => []PoolUnique
<1>1. Inv => PoolUnique
  BY InvImplies
<1> QED BY <1>1, Invariance, PTL

\* Backing memory createResource2D allocates has exactly one owner, the call
\* or a slot, until it is released, on every exit path and after any timeout.
THEOREM BackingTheorem == Spec => []BackingAccounted
<1>1. Inv => BackingAccounted
  BY InvImplies
<1> QED BY <1>1, Invariance, PTL

\* A slot of m_resource_pool that is in use changes only by being cleared.
THEOREM LiveSlotsTheorem == Spec => LiveSlotsKept
<1> DEFINE Kept == \A s \in Slots : pool[s].id # NoId => pool'[s] \in {pool[s], FreeSlot}
<1>1. ASSUME Inv, [Next]_vars PROVE Kept
  <2>1. CASE UNCHANGED pool
    BY <2>1
  <2>2. CASE Tombstone
    BY <2>2 DEF Tombstone
  <2>3. ASSUME NEW r \in Slots, IsFirstFree(r), NEW v, pool' = [pool EXCEPT ![r] = v]
        PROVE  Kept
    BY <2>3 DEF Inv, PoolTypes, IsFirstFree
  <2>4. CASE Register
    BY <2>4, <2>3 DEF Register
  <2>5. CASE Created3D
    BY <2>5, <2>1, <2>3 DEF Created3D
  <2>6. CASE Owner
    BY <2>1, <2>2, <2>4, <2>5, <2>6
    DEF Owner, CreateFails, Created, CreatedNoMemory, attachBacking, AttachFails,
        NoSlot, UnrefOverflow, Overflowed, Fails
  <2>7. CASE Call
    BY <2>1, <2>7
    DEF Call, createResource2D, CreateDuplicate, createResource3D, deallocateResource, Begin
  <2> QED BY <1>1, <2>1, <2>6, <2>7
          DEF Next, OtherSend, OtherReturn, DevExecute, DevPush, Finished, vars, kext
<1>2. Inv /\ [Next]_vars => [Kept]_vars
  BY <1>1
<1>3. Spec => [][Next]_vars /\ []Inv
  BY Invariance, PTL DEF Spec
<1> QED BY <1>2, <1>3, PTL DEF LiveSlotsKept

-----------------------------------------------------------------------------
(* The pool and the device.  As long as no command for an id timed out or  *)
(* was sent into a backlog, the owner's command for it is the only one the *)
(* device can find, and every answer the owner reads is that command's.    *)

\* The owner is in submitCommand exactly at these places, with its own command.
Sending == {"create", "create3d", "attach", "overflow", "dealloc"}
TypeAt(a) == IF a = "attach" THEN "attach"
             ELSE IF a \in {"overflow", "dealloc"} THEN "unref" ELSE "create"
SendInv ==
    /\ other => waiting /\ cmd = OtherCmd
    /\ at \in Sending <=> waiting /\ ~other
    /\ at \in Sending => /\ cmd # NoCommand /\ cmd.id = rid /\ cmd.type = TypeAt(at)
                         /\ at = "attach" => cmd.mem = mem

\* A command for an id above suspicion is waited for, executed once and
\* answered once; nothing of it is left when the call has returned.
Unanswered == backlog = 1 /\ ~pushing /\ ~moved
Replied == backlog = 0 /\ pushing # moved
CleanInv ==
    cmd # NoCommand /\ cmd.id \in Ids \ suspect =>
       IF waiting THEN Unanswered \/ Replied ELSE Quiet

\* What pool and device know of an id that nobody works on.
Settled(i) ==
    /\ i \in Tracked => i \in host
    /\ i \in host => i \in Tracked \cup orphans
    /\ i \in host => \/ backing[i] \in {0, CallerMem}
                     \/ \E s \in Slots : pool[s].id = i /\ pool[s].mem = backing[i]

\* What they know of the id the owner works on, place by place, before the
\* device has executed the owner's command and after.
Working ==
    /\ at \in {"create", "create3d"} =>
          IF backlog = 1 \/ answer = "err" THEN Settled(rid)
          ELSE answer = "nodata" /\ rid \in host /\ backing[rid] = 0
    /\ at = "backing" => rid \in host /\ backing[rid] = 0
    /\ at = "attach" =>
          /\ rid \in host
          /\ IF backlog = 1 \/ answer = "err" THEN backing[rid] = 0
             ELSE answer = "nodata" /\ backing[rid] = mem
    /\ at = "full" => rid \in host /\ backing[rid] = mem
    /\ at = "overflow" => IF backlog = 1 THEN rid \in host /\ backing[rid] = mem
                          ELSE rid \notin host
    /\ at = "dealloc" => IF backlog = 1 THEN Settled(rid)
                         ELSE rid \notin host /\ (answer = "err" => rid \notin Tracked)
HostInv == /\ \A i \in Ids \ suspect : i # rid => Settled(i)
           /\ rid \in Ids \ suspect => Working

AgreeInv == SendInv /\ CleanInv /\ HostInv

\* The owner sends a command: above suspicion only if nothing was under way.
LEMMA OwnerSends ==
    ASSUME Inv, SendInv, NEW c \in PoolCommand, c.id \in Ids, Submit(c),
           at' \in Sending, rid' = c.id, c.type = TypeAt(at'),
           at' = "attach" => c.mem = mem'
    PROVE  /\ SendInv' /\ CleanInv'
           /\ c.id \notin suspect' => backlog' = 1
           /\ suspect \subseteq suspect' /\ at \notin Sending
<1>1. c # NoCommand
  BY PoolCommandAssumption, ChannelAssumption
<1>2. /\ ~waiting /\ cmd' = c /\ backlog' = backlog + 1 /\ waiting' = TRUE
      /\ UNCHANGED <<moved, pushing, answer, other>>
      /\ suspect' = IF Quiet THEN suspect ELSE suspect \cup {c.id}
  BY DEF Submit, Send
<1>3. ~other /\ ~other' /\ at \notin Sending
  BY <1>2 DEF SendInv
<1>4. SendInv'
  BY <1>1, <1>2, <1>3 DEF SendInv
<1>5. c.id \notin suspect' => backlog = 0 /\ ~pushing /\ ~moved /\ backlog' = 1
  BY <1>2 DEF Quiet
<1>6. CleanInv'
  BY <1>1, <1>2, <1>5 DEF CleanInv, Unanswered
<1> QED BY <1>2, <1>3, <1>4, <1>5, <1>6

\* The owner's call returns: if its id is above suspicion, then with the answer
\* to its own command, and nothing of the command is left.
LEMMA OwnerReturns ==
    ASSUME Inv, SendInv, CleanInv, at \in Sending, rid \in Ids, at' \notin Sending,
           GotAnswer \/ GotTimeout
    PROVE  /\ SendInv' /\ CleanInv'
           /\ rid \notin suspect' => GotAnswer /\ backlog = 0 /\ rid \notin suspect
           /\ suspect \subseteq suspect' /\ UNCHANGED <<host, backing>>
<1>1. cmd # NoCommand /\ cmd.id = rid /\ ~other /\ waiting
  BY DEF SendInv
<1>2. /\ waiting' = FALSE /\ UNCHANGED <<cmd, backlog, pushing, other, host, backing>>
      /\ suspect \subseteq suspect'
  BY DEF GotAnswer, GotTimeout, Answered, TimedOut, device
<1>3. SendInv'
  BY <1>1, <1>2 DEF SendInv
<1>4. GotTimeout => rid \in suspect'
  BY DEF GotTimeout
<1>5. ASSUME GotAnswer, rid \notin suspect
      PROVE  backlog = 0 /\ ~pushing /\ moved' = FALSE
  <2>1. Unanswered \/ Replied
    BY <1>1, <1>5 DEF CleanInv
  <2>2. moved /\ moved' = FALSE
    BY <1>5 DEF GotAnswer, Answered
  <2> QED BY <2>1, <2>2 DEF Unanswered, Replied
<1>6. CleanInv'
  BY <1>1, <1>2, <1>4, <1>5 DEF CleanInv, Quiet
<1> QED BY <1>2, <1>3, <1>4, <1>5, <1>6

\* What is settled about an id stays so while pool and device keep it.
LEMMA SettledKept ==
    ASSUME NEW i, Settled(i), i \in host' <=> i \in host, backing'[i] = backing[i],
           \A s \in Slots : pool[s].id = i \/ pool'[s].id = i => pool'[s] = pool[s],
           orphans \subseteq orphans'
    PROVE  Settled(i)'
BY DEF Settled, Tracked, findResource, CallerMem

\* An operation ends without a change of the pool.
LEMMA EndAgrees ==
    ASSUME Inv, AgreeInv, at \in Sending, GotAnswer \/ GotTimeout, NEW code, Return(code),
           UNCHANGED pool, orphans \subseteq orphans', NEW w, w = rid,
           GotAnswer /\ w \notin suspect /\ backlog = 0 /\ Working => Settled(w)'
    PROVE  AgreeInv'
<1>1. rid \in Ids
  BY DEF Sending, Inv, PoolInv, OwnerInv, PoolTypes
<1>2. at' = "idle" /\ rid' = NoId
  BY DEF Return
<1>3. /\ SendInv' /\ CleanInv'
      /\ rid \notin suspect' => GotAnswer /\ backlog = 0 /\ rid \notin suspect
      /\ suspect \subseteq suspect' /\ UNCHANGED <<host, backing>>
  BY <1>1, <1>2, OwnerReturns DEF AgreeInv, Sending
<1>4. ASSUME NEW i \in Ids \ suspect' PROVE Settled(i)'
  <2>1. CASE i = rid
    BY <2>1, <1>1, <1>3, <1>4 DEF AgreeInv, HostInv
  <2>2. CASE i # rid
    <3>1. Settled(i)
      BY <2>2, <1>3, <1>4 DEF AgreeInv, HostInv
    <3> QED BY ONLY <3>1, <1>3, SettledKept, UNCHANGED pool, orphans \subseteq orphans'
  <2> QED BY <2>1, <2>2
<1>5. HostInv'
  BY <1>2, <1>4, PoolAssumption DEF HostInv
<1> QED BY <1>3, <1>5 DEF AgreeInv

\* The owner goes on without sending: its id is handed to the next place.
LEMMA MoveAgrees ==
    ASSUME Inv, AgreeInv, at \in Sending, GotAnswer, at' \in {"backing", "full"},
           UNCHANGED <<pool, rid, orphans>>,
           rid \notin suspect /\ backlog = 0 /\ Working => Working'
    PROVE  AgreeInv'
<1>1. rid \in Ids
  BY DEF Sending, Inv, PoolInv, OwnerInv, PoolTypes
<1>3. /\ SendInv' /\ CleanInv'
      /\ rid \notin suspect' => GotAnswer /\ backlog = 0 /\ rid \notin suspect
      /\ suspect \subseteq suspect' /\ UNCHANGED <<host, backing>>
  BY <1>1, OwnerReturns DEF AgreeInv, Sending
<1>4. ASSUME NEW i \in Ids \ suspect', i # rid PROVE Settled(i)'
  <2>1. Settled(i)
    BY <1>3, <1>4 DEF AgreeInv, HostInv
  <2> QED BY ONLY <2>1, <1>3, SettledKept, UNCHANGED <<pool, rid, orphans>>
<1>5. rid \notin suspect' => Working'
  BY <1>1, <1>3 DEF AgreeInv, HostInv
<1>6. HostInv'
  BY <1>4, <1>5 DEF HostInv
<1> QED BY <1>3, <1>6 DEF AgreeInv

\* The owner's resource enters a free slot.
LEMMA RegisterAgrees ==
    ASSUME Inv, AgreeInv, at \in {"attach", "create3d"}, GotAnswer, NEW code, Return(code),
           NEW s \in Slots, pool[s].id = NoId, UNCHANGED orphans,
           pool' = [pool EXCEPT ![s] =
                      [id |-> rid, mem |-> IF mem = CallerMem THEN 0 ELSE mem]],
           answer = "nodata" \/ (at = "attach" /\ answer # "err")
    PROVE  AgreeInv'
<1>1. rid \in Ids
  BY DEF Inv, PoolInv, OwnerInv, PoolTypes
<1>2. at' = "idle" /\ rid' = NoId
  BY DEF Return
<1>3. /\ SendInv' /\ CleanInv'
      /\ rid \notin suspect' => GotAnswer /\ backlog = 0 /\ rid \notin suspect
      /\ suspect \subseteq suspect' /\ UNCHANGED <<host, backing>>
  BY <1>1, <1>2, OwnerReturns DEF AgreeInv, Sending
<1>p. /\ pool'[s].id = rid /\ pool'[s].mem = IF mem = CallerMem THEN 0 ELSE mem
      /\ \A r \in Slots : r # s => pool'[r] = pool[r]
  BY DEF Inv, PoolTypes
<1>4. ASSUME NEW i \in Ids \ suspect' PROVE Settled(i)'
  <2>1. CASE i = rid
    <3>1. Working /\ backlog = 0
      BY <2>1, <1>3, <1>4 DEF AgreeInv, HostInv
    <3>2. rid \in host /\ backing[rid] \in {0, mem}
      BY <3>1 DEF Working
    <3>3. i \in Tracked'
      BY <2>1, <1>1, <1>p DEF Tracked, findResource
    <3>4. backing'[i] \in {0, CallerMem} \/ (pool'[s].id = i /\ pool'[s].mem = backing'[i])
      BY <2>1, <3>2, <1>3, <1>p
    <3> QED BY <2>1, <3>2, <3>3, <3>4, <1>3 DEF Settled, CallerMem
  <2>2. CASE i # rid
    <3>1. Settled(i)
      BY <2>2, <1>3, <1>4 DEF AgreeInv, HostInv
    <3>2. \A r \in Slots : pool[r].id = i \/ pool'[r].id = i => pool'[r] = pool[r]
      BY <2>2, <1>p, PoolAssumption
    <3> QED BY ONLY <3>1, <3>2, <1>3, SettledKept, UNCHANGED orphans
  <2> QED BY <2>1, <2>2
<1>5. HostInv'
  BY <1>2, <1>4, PoolAssumption DEF HostInv
<1> QED BY <1>3, <1>5 DEF AgreeInv

\* A command sent from inside a routine: the id keeps its owner.
LEMMA SendAgrees ==
    ASSUME Inv, AgreeInv, NEW c \in PoolCommand, c.id \in Ids, Submit(c),
           at' \in Sending, c.id = rid', c.type = TypeAt(at'),
           at' = "attach" => c.mem = mem', rid = NoId \/ rid = rid',
           UNCHANGED <<pool, orphans>>,
           c.id \notin suspect /\ (rid = NoId => Settled(c.id)) /\ (rid # NoId => Working)
              /\ backlog' = 1 /\ UNCHANGED <<host, backing>> => Working'
    PROVE  AgreeInv'
<1>1. /\ SendInv' /\ CleanInv'
      /\ c.id \notin suspect' => backlog' = 1
      /\ suspect \subseteq suspect' /\ at \notin Sending
  BY OwnerSends DEF AgreeInv
<1>2. UNCHANGED <<host, backing>>
  BY DEF Submit, device
<1>3. ASSUME NEW i \in Ids \ suspect', i # rid' PROVE Settled(i)'
  <2>1. Settled(i)
    BY <1>1, <1>3, PoolAssumption DEF AgreeInv, HostInv
  <2> QED BY ONLY <2>1, <1>2, SettledKept, UNCHANGED <<pool, orphans>>
<1>4. c.id \notin suspect' => Working'
  BY <1>1, <1>2, PoolAssumption DEF AgreeInv, HostInv
<1>5. HostInv'
  BY <1>3, <1>4 DEF HostInv
<1> QED BY <1>1, <1>5 DEF AgreeInv

\* Every step of the lock's owner keeps the agreement.
LEMMA OwnerAgrees == Inv /\ AgreeInv /\ Owner => AgreeInv'
<1> SUFFICES ASSUME Inv, AgreeInv, Owner PROVE AgreeInv'
  OBVIOUS
<1>t. /\ at # "idle" => rid \in Ids
      /\ at \in {"create", "backing", "attach", "full", "overflow", "create3d"} => rid \notin Tracked
      /\ mem \in Memory /\ rid \in Ids \cup {NoId}
      /\ at = "create3d" => mem = 0
  BY DEF Inv, PoolInv, OwnerInv, PoolTypes, Tracked, findResource
<1>w. PICK w : w = rid
  OBVIOUS
<1>1. CASE CreateFails
  <2>1. /\ at = "create" /\ UNCHANGED <<pool, alive, orphans>>
        /\ GotAnswer => answer \in {"err", "data"}
    BY <1>1 DEF CreateFails, GotAnswer, GotTimeout, Answered, TimedOut
  <2>2. PICK code : Return(code)
    BY <1>1 DEF CreateFails
  <2>3. ASSUME GotAnswer, backlog = 0, Working PROVE Settled(w)'
    <3>1. Settled(w)
      BY <2>1, <2>3, <1>w DEF Working
    <3>2. UNCHANGED <<host, backing>>
      BY <2>3 DEF GotAnswer, device
    <3>3. \A s \in Slots : pool'[s] = pool[s]
      BY <2>1
    <3> QED BY ONLY <2>1, <3>1, <3>2, <3>3, SettledKept
  <2>4. GotAnswer \/ GotTimeout
    BY <1>1 DEF CreateFails
  <2> QED BY ONLY <2>1, <2>2, <2>3, <2>4, <1>w, EndAgrees, Inv, AgreeInv DEF Sending
<1>2. CASE Created
  <2>1. /\ at = "create" /\ GotAnswer /\ answer = "nodata" /\ at' = "backing"
        /\ UNCHANGED <<pool, rid, orphans, host, backing>>
    BY <1>2 DEF Created, GotAnswer, device
  <2>2. backlog = 0 /\ Working => Working'
    BY <2>1 DEF Working
  <2> QED BY ONLY <2>1, <2>2, MoveAgrees, Inv, AgreeInv DEF Sending
<1>3. CASE CreatedNoMemory
  <2>1. /\ at = "create" /\ GotAnswer /\ answer = "nodata" /\ Return("NoMemory")
        /\ UNCHANGED <<pool, host, backing>> /\ orphans' = orphans \cup {rid}
    BY <1>3 DEF CreatedNoMemory, GotAnswer, device
  <2>2. ASSUME backlog = 0, Working PROVE Settled(w)'
    <3>1. w \in host' /\ w \in orphans' /\ backing'[w] = 0
      BY <2>1, <2>2, <1>w DEF Working
    <3> QED BY <3>1 DEF Settled
  <2> QED BY ONLY <2>1, <2>2, <1>w, EndAgrees, Inv, AgreeInv DEF Sending
<1>4. CASE attachBacking
  <2> DEFINE c == Cmd("attach", rid, mem)
  <2>1. /\ at = "backing" /\ at' = "attach" /\ UNCHANGED <<pool, rid, mem, orphans>> /\ Submit(c)
    BY <1>4 DEF attachBacking
  <2>2. c \in PoolCommand /\ c.id \in Ids /\ c.id = rid' /\ c.type = TypeAt(at') /\ c.mem = mem'
    BY <2>1, <1>t DEF Cmd, PoolCommand, TypeAt
  <2>3. Working /\ backlog' = 1 /\ UNCHANGED <<host, backing>> => Working'
    BY <2>1 DEF Working
  <2>4. rid # NoId
    BY <2>1, <1>t, PoolAssumption
  <2> HIDE DEF c
  <2> QED BY ONLY <2>1, <2>2, <2>3, <2>4, SendAgrees, Inv, AgreeInv DEF Sending
<1>5. CASE AttachFails
  <2>1. CASE at = "backing"
    <3>1. /\ Return("NoMemory") /\ UNCHANGED <<channel, other, host, backing, suspect, pool>>
          /\ orphans' = orphans \cup {rid}
      BY <1>5, <2>1 DEF AttachFails, device
    <3>2. at' = "idle" /\ rid' = NoId
      BY <3>1 DEF Return
    <3>3. SendInv' /\ CleanInv'
      BY <2>1, <3>1, <3>2
      DEF AgreeInv, SendInv, CleanInv, Sending, channel, Unanswered, Replied, Quiet
    <3>4. ASSUME NEW i \in Ids \ suspect' PROVE Settled(i)'
      <4>1. CASE i = rid
        <5>1. i \in host' /\ i \in orphans' /\ backing'[i] = 0
          BY <2>1, <3>1, <3>4, <4>1 DEF AgreeInv, HostInv, Working
        <5> QED BY <5>1 DEF Settled
      <4>2. CASE i # rid
        <5>1. Settled(i)
          BY <3>1, <3>4, <4>2 DEF AgreeInv, HostInv
        <5> QED BY ONLY <5>1, <3>1, SettledKept
      <4> QED BY <4>1, <4>2
    <3>5. HostInv'
      BY <3>2, <3>4, PoolAssumption DEF HostInv
    <3> QED BY <3>3, <3>5 DEF AgreeInv
  <2>2. CASE at = "attach"
    <3>1. /\ GotAnswer \/ GotTimeout
          /\ GotAnswer => answer = "err"
          /\ UNCHANGED pool /\ orphans' = orphans \cup {rid}
      BY <1>5, <2>2 DEF AttachFails, GotAnswer, GotTimeout, Answered, TimedOut
    <3>2. PICK code : Return(code)
      BY <1>5, <2>2 DEF AttachFails
    <3>3. ASSUME GotAnswer, backlog = 0, Working PROVE Settled(w)'
      <4>1. UNCHANGED <<host, backing>>
        BY <3>3 DEF GotAnswer, device
      <4>2. w \in host' /\ w \in orphans' /\ backing'[w] = 0
        BY <2>2, <3>1, <3>3, <4>1, <1>w DEF Working
      <4> QED BY <4>2 DEF Settled
    <3> QED BY ONLY <2>2, <3>1, <3>2, <3>3, <1>w, EndAgrees, Inv, AgreeInv DEF Sending
  <2> QED BY <1>5, <2>1, <2>2 DEF AttachFails
<1>6. CASE Register
  <2>1. /\ at = "attach" /\ GotAnswer /\ answer # "err" /\ Return("Success") /\ UNCHANGED orphans
    BY <1>6 DEF Register
  <2>2. PICK s \in Slots : /\ pool[s].id = NoId
                           /\ pool' = [pool EXCEPT ![s] =
                                 [id |-> rid, mem |-> IF mem = CallerMem THEN 0 ELSE mem]]
    BY <1>6 DEF Register, IsFirstFree
  <2> QED BY ONLY <2>1, <2>2, RegisterAgrees, Inv, AgreeInv
<1>7. CASE NoSlot
  <2>1. /\ at = "attach" /\ GotAnswer /\ answer # "err" /\ at' = "full"
        /\ UNCHANGED <<pool, rid, mem, orphans, host, backing>>
    BY <1>7 DEF NoSlot, GotAnswer, device
  <2>2. backlog = 0 /\ Working => Working'
    BY <2>1 DEF Working
  <2> QED BY ONLY <2>1, <2>2, MoveAgrees, Inv, AgreeInv DEF Sending
<1>8. CASE UnrefOverflow
  <2> DEFINE c == Cmd("unref", rid, 0)
  <2>1. /\ at = "full" /\ at' = "overflow" /\ UNCHANGED <<pool, rid, mem, orphans>> /\ Submit(c)
    BY <1>8 DEF UnrefOverflow
  <2>2. c \in PoolCommand /\ c.id \in Ids /\ c.id = rid' /\ c.type = TypeAt(at')
    BY <2>1, <1>t, PoolAssumption DEF Cmd, PoolCommand, TypeAt, Memory, CallerMem
  <2>3. Working /\ backlog' = 1 /\ UNCHANGED <<host, backing>> => Working'
    BY <2>1 DEF Working
  <2>4. rid # NoId
    BY <2>1, <1>t, PoolAssumption
  <2> HIDE DEF c
  <2> QED BY ONLY <2>1, <2>2, <2>3, <2>4, SendAgrees, Inv, AgreeInv DEF Sending
<1>9. CASE Overflowed
  <2>1. /\ at = "overflow" /\ Return("NoSpace") /\ UNCHANGED <<pool, orphans>>
        /\ GotAnswer \/ GotTimeout
    BY <1>9 DEF Overflowed
  <2>2. ASSUME GotAnswer, backlog = 0, Working PROVE Settled(w)'
    <3>1. UNCHANGED <<host, backing>>
      BY <2>2 DEF GotAnswer, device
    <3>2. w \notin host' /\ w \notin Tracked'
      BY <2>1, <2>2, <3>1, <1>w, <1>t DEF Working, Tracked, findResource
    <3> QED BY <3>2 DEF Settled
  <2> QED BY ONLY <2>1, <2>2, <1>w, EndAgrees, Inv, AgreeInv DEF Sending
<1>10. CASE Created3D
  <2>1. /\ at = "create3d" /\ GotAnswer /\ UNCHANGED <<host, backing>>
    BY <1>10 DEF Created3D, GotAnswer, device
  <2>2. PICK code : Return(code)
    BY <1>10 DEF Created3D
  <2>3. CASE UNCHANGED pool /\ (answer = "nodata" => orphans' = orphans \cup {rid})
                            /\ (answer # "nodata" => UNCHANGED orphans)
    <3>1. ASSUME backlog = 0, Working PROVE Settled(w)'
      <4>1. CASE answer = "nodata"
        <5>1. w \in host' /\ w \in orphans' /\ backing'[w] = 0
          BY <2>1, <2>3, <3>1, <4>1, <1>w DEF Working
        <5> QED BY <5>1 DEF Settled
      <4>2. CASE answer # "nodata"
        <5>1. Settled(w) /\ UNCHANGED <<pool, orphans>>
          BY <2>1, <2>3, <3>1, <4>2, <1>w DEF Working
        <5> QED BY ONLY <5>1, <2>1, SettledKept
      <4> QED BY <4>1, <4>2
    <3>2. orphans \subseteq orphans' /\ UNCHANGED pool
      BY <2>3
    <3> QED BY ONLY <2>1, <2>2, <3>1, <3>2, <1>w, EndAgrees, Inv, AgreeInv DEF Sending
  <2>4. ASSUME answer = "nodata", UNCHANGED orphans, NEW s \in Slots, IsFirstFree(s),
               pool' = [pool EXCEPT ![s] = [id |-> rid, mem |-> 0]]
        PROVE  AgreeInv'
    <3>1. 0 = IF mem = CallerMem THEN 0 ELSE mem
      BY <2>1, <1>t
    <3>2. /\ pool[s].id = NoId
          /\ pool' = [pool EXCEPT ![s] =
                        [id |-> rid, mem |-> IF mem = CallerMem THEN 0 ELSE mem]]
      BY <2>4, <3>1 DEF IsFirstFree
    <3> QED BY ONLY <2>1, <2>2, <2>4, <3>2, RegisterAgrees, Inv, AgreeInv
  <2> QED BY <1>10, <2>3, <2>4 DEF Created3D
<1>11. CASE Tombstone
  <2>1. /\ at = "dealloc" /\ GotAnswer /\ answer # "err" /\ Return("Success") /\ UNCHANGED orphans
        /\ pool' = [s \in Slots |-> IF pool[s].id = rid THEN FreeSlot ELSE pool[s]]
        /\ at' = "idle" /\ rid' = NoId /\ UNCHANGED <<host, backing>>
    BY <1>11 DEF Tombstone, Return, GotAnswer, device
  <2>2. /\ SendInv' /\ CleanInv'
        /\ rid \notin suspect' => GotAnswer /\ backlog = 0 /\ rid \notin suspect
        /\ suspect \subseteq suspect'
    BY <2>1, <1>t, OwnerReturns DEF AgreeInv, Sending
  <2>3. \A s \in Slots : /\ pool[s].id = rid => pool'[s].id = NoId
                         /\ pool[s].id # rid => pool'[s] = pool[s]
    BY <2>1 DEF FreeSlot
  <2>4. ASSUME NEW i \in Ids \ suspect' PROVE Settled(i)'
    <3>1. CASE i = rid
      <4>1. i \notin host'
        BY <2>1, <2>2, <2>4, <3>1 DEF AgreeInv, HostInv, Working
      <4>2. i \notin Tracked'
        BY <2>3, <3>1, PoolAssumption DEF Tracked, findResource
      <4> QED BY <4>1, <4>2 DEF Settled
    <3>2. CASE i # rid
      <4>1. Settled(i)
        BY <2>2, <2>4, <3>2 DEF AgreeInv, HostInv
      <4>2. \A s \in Slots : pool[s].id = i \/ pool'[s].id = i => pool'[s] = pool[s]
        BY <2>3, <3>2, PoolAssumption
      <4> QED BY ONLY <2>1, <4>1, <4>2, SettledKept
    <3> QED BY <3>1, <3>2
  <2>5. HostInv'
    BY <2>1, <2>4, PoolAssumption DEF HostInv
  <2> QED BY <2>2, <2>5 DEF AgreeInv
<1>12. CASE Fails
  <2>1. /\ at \in {"dealloc", "create3d"} /\ UNCHANGED <<pool, alive, orphans>>
        /\ GotAnswer \/ GotTimeout
        /\ GotAnswer => at = "dealloc" /\ answer = "err"
    BY <1>12 DEF Fails, GotAnswer, GotTimeout, Answered, TimedOut
  <2>2. PICK code : Return(code)
    BY <1>12 DEF Fails
  <2>3. ASSUME GotAnswer, backlog = 0, Working PROVE Settled(w)'
    <3>1. UNCHANGED <<host, backing>>
      BY <2>3 DEF GotAnswer, device
    <3>2. w \notin host' /\ w \notin Tracked'
      BY <2>1, <2>3, <3>1, <1>w DEF Working, Tracked, findResource
    <3> QED BY <3>2 DEF Settled
  <2> QED BY ONLY <2>1, <2>2, <2>3, <1>w, EndAgrees, Inv, AgreeInv DEF Sending
<1> QED BY <1>1, <1>2, <1>3, <1>4, <1>5, <1>6, <1>7, <1>8, <1>9, <1>10, <1>11, <1>12
        DEF Owner

\* A caller enters one of the routines: its id was settled.
LEMMA CallAgrees == Inv /\ AgreeInv /\ Call => AgreeInv'
<1> SUFFICES ASSUME Inv, AgreeInv, Call PROVE AgreeInv'
  OBVIOUS
<1>1. ASSUME NEW i \in Ids, NEW m \in Memory, NEW where \in {"create", "create3d", "dealloc"},
             NEW type, type = TypeAt(where), Begin(where, i, m, type)
      PROVE  AgreeInv'
  <2> DEFINE c == Cmd(type, i, 0)
  <2>1. /\ at = "idle" /\ at' = where /\ rid' = i /\ UNCHANGED <<pool, orphans>> /\ Submit(c)
    BY <1>1 DEF Begin
  <2>2. /\ c \in PoolCommand /\ c.id \in Ids /\ c.id = rid' /\ c.type = TypeAt(at')
        /\ at' \in Sending /\ at' # "attach"
    BY <2>1, <1>1, PoolAssumption DEF Cmd, PoolCommand, TypeAt, Memory, CallerMem, Sending
  <2>3. rid = NoId
    BY <2>1 DEF Inv, PoolInv, OwnerInv
  <2>4. ASSUME Settled(c.id), backlog' = 1, UNCHANGED <<host, backing>> PROVE Working'
    <3>1. Settled(i) /\ \A s \in Slots : pool'[s] = pool[s]
      BY <2>1, <2>4 DEF Cmd
    <3>2. Settled(i)'
      BY ONLY <3>1, <2>1, <2>4, SettledKept
    <3>3. at' \in {"create", "create3d", "dealloc"} /\ rid' = i
      BY <2>1
    <3> QED BY <2>4, <3>2, <3>3 DEF Working, Settled, Tracked, findResource
  <2> HIDE DEF c
  <2> QED BY ONLY <2>1, <2>2, <2>3, <2>4, SendAgrees, Inv, AgreeInv
<1>2. PICK i \in Ids : \/ \E m \in {0, CallerMem} : createResource2D(i, m)
                       \/ CreateDuplicate(i)
                       \/ createResource3D(i)
                       \/ deallocateResource(i)
  BY DEF Call
<1>3. 0 \in Memory /\ CallerMem \in Memory
  BY PoolAssumption DEF Memory, CallerMem
<1>4. CASE \E m \in {0, CallerMem} : createResource2D(i, m)
  BY <1>1, <1>3, <1>4 DEF createResource2D, TypeAt
<1>5. CASE createResource3D(i)
  BY <1>1, <1>3, <1>5 DEF createResource3D, TypeAt
<1>6. CASE deallocateResource(i)
  BY <1>1, <1>3, <1>6 DEF deallocateResource, TypeAt
<1>7. CASE CreateDuplicate(i)
  <2>1. UNCHANGED <<channel, pool, at, rid, mem, other, host, backing, suspect, orphans>>
    BY <1>7 DEF CreateDuplicate, device, ghost
  <2> QED BY <2>1
          DEF AgreeInv, SendInv, CleanInv, HostInv, Working, Settled, Tracked, findResource,
              channel, Unanswered, Replied, Quiet
<1> QED BY <1>2, <1>4, <1>5, <1>6, <1>7

\* The device executes the command it finds.  If that is for an id above
\* suspicion, it is the owner's, and executed for the first time.
LEMMA DeviceAgrees == Inv /\ AgreeInv /\ DevExecute => AgreeInv'
<1> SUFFICES ASSUME Inv, AgreeInv, DevExecute PROVE AgreeInv'
  OBVIOUS
<1>1. /\ UNCHANGED <<pool, at, rid, mem, other, suspect, orphans, cmd, moved, waiting>>
      /\ backlog > 0 /\ ~pushing /\ backlog' = backlog - 1 /\ pushing' = TRUE
  BY DEF DevExecute, Reply, Execute, kext, ghost
<1>2. /\ cmd # NoCommand /\ cmd \in PoolCommand /\ (cmd.type # "other" => cmd.id \in Ids)
      /\ backlog \in Nat /\ moved \in BOOLEAN /\ backing \in [Ids -> Memory]
  BY <1>1, ChannelAssumption DEF Inv, ChannelInv, CommandInv, ChannelTypeOK, HostTypes
<1>3. SendInv'
  BY <1>1 DEF AgreeInv, SendInv
<1>4. cmd.id \in Ids \ suspect => waiting /\ backlog = 1 /\ ~moved
  BY <1>1, <1>2 DEF AgreeInv, CleanInv, Unanswered, Replied, Quiet
<1>5. CleanInv'
  <2>1. ASSUME cmd.id \in Ids \ suspect PROVE waiting' /\ Replied'
    <3>1. backlog' = 0
      BY <1>1, <1>4, <2>1
    <3>2. waiting' /\ pushing' # moved'
      BY <1>1, <1>2, <1>4, <2>1, Zenon
    <3> QED BY <3>1, <3>2, Zenon DEF Replied
  <2> QED BY <1>1, <2>1 DEF CleanInv
<1>6. OtherCmd.id = NoId /\ OtherCmd.type = "other"
  BY DEF OtherCmd, Cmd
<1>7. cmd.id \in Ids \ suspect => at \in Sending /\ rid = cmd.id /\ cmd.type = TypeAt(at)
  BY <1>4, <1>6, PoolAssumption DEF AgreeInv, SendInv
<1>8. ASSUME NEW i \in Ids \ suspect, i # cmd.id
      PROVE  (i \in host' <=> i \in host) /\ backing'[i] = backing[i]
  BY <1>2, <1>8 DEF DevExecute, Reply
<1>9. ASSUME NEW i \in Ids \ suspect, i # rid PROVE Settled(i)'
  <2>1. i # cmd.id /\ Settled(i)
    BY <1>7, <1>9 DEF AgreeInv, HostInv
  <2>2. (i \in host' <=> i \in host) /\ backing'[i] = backing[i]
    BY <2>1, <1>8
  <2> QED BY ONLY <2>1, <2>2, <1>1, SettledKept
<1>10. ASSUME rid \in Ids \ suspect, rid # cmd.id PROVE Working'
  <2>1. at \notin Sending
    BY <1>10 DEF AgreeInv, SendInv
  <2>2. Working /\ (rid \in host' <=> rid \in host) /\ backing'[rid] = backing[rid]
    BY <1>8, <1>10 DEF AgreeInv, HostInv
  <2> QED BY <2>1, <2>2, <1>1 DEF Working, Sending
<1>11. ASSUME rid \in Ids \ suspect, rid = cmd.id PROVE Working'
  <2>1. /\ at \in Sending /\ cmd.type = TypeAt(at) /\ backlog = 1 /\ backlog' = 0 /\ Working
        /\ at = "attach" => cmd.mem = mem
    BY <1>1, <1>2, <1>4, <1>7, <1>11 DEF AgreeInv, HostInv, SendInv
  <2>2. PICK w \in Ids : w = rid
    BY <1>11
  <2>k. ASSUME UNCHANGED <<host, backing>>, Settled(rid) PROVE Settled(rid)'
    <3>1. Settled(w) /\ \A s \in Slots : pool'[s] = pool[s]
      BY <2>2, <2>k, <1>1
    <3>2. Settled(w)'
      BY ONLY <3>1, <2>k, <1>1, SettledKept
    <3>3. w = rid'
      BY <2>2, <1>1
    <3> QED BY <3>2, <3>3 DEF Settled, Tracked, findResource
  <2>3. CASE at \in {"create", "create3d"}
    <3>1. \/ answer' = "nodata" /\ rid \in host' /\ backing'[rid] = 0
          \/ answer' = "err" /\ UNCHANGED <<host, backing>>
      BY <2>1, <2>3, <1>11, <1>2 DEF DevExecute, Reply, Execute, TypeAt
    <3> QED BY <2>1, <2>3, <2>k, <3>1, <1>1 DEF Working
  <2>4. CASE at = "attach"
    <3>1. \/ answer' = "nodata" /\ rid \in host' /\ backing'[rid] = mem
          \/ answer' = "err" /\ UNCHANGED <<host, backing>>
      BY <2>1, <2>4, <1>11, <1>2 DEF DevExecute, Reply, Execute, TypeAt
    <3> QED BY <2>1, <2>4, <3>1, <1>1 DEF Working
  <2>5. CASE at = "overflow"
    <3>1. rid \notin host'
      BY <2>1, <2>5, <1>11, <1>2 DEF DevExecute, Reply, Execute, TypeAt
    <3> QED BY <2>1, <2>5, <3>1, <1>1 DEF Working
  <2>6. CASE at = "dealloc"
    <3>1. rid \notin host' /\ (answer' = "err" => rid \notin host)
      BY <2>1, <2>6, <1>11, <1>2 DEF DevExecute, Reply, Execute, TypeAt
    <3>2. answer' = "err" => rid \notin Tracked
      BY <2>1, <2>6, <3>1 DEF Working, Settled
    <3> QED BY <2>1, <2>6, <3>1, <3>2, <1>1 DEF Working, Tracked, findResource
  <2> QED BY <2>1, <2>3, <2>4, <2>5, <2>6 DEF Sending
<1>12. HostInv'
  BY <1>1, <1>9, <1>10, <1>11 DEF HostInv
<1> QED BY <1>3, <1>5, <1>12 DEF AgreeInv

\* Other callers and the device's used ring only touch the channel.
LEMMA ChannelAgrees ==
    ASSUME Inv, AgreeInv, UNCHANGED <<kext, host, backing, suspect, orphans>>,
           SendInv', CleanInv', at \in Sending => UNCHANGED <<backlog, answer>>
    PROVE  AgreeInv'
<1>1. UNCHANGED <<pool, at, rid, mem, host, backing, suspect, orphans>>
  BY DEF kext
<1>2. ASSUME NEW i, Settled(i) PROVE Settled(i)'
  BY ONLY <1>1, <1>2, SettledKept
<1>3. Settled(rid) => Settled(rid)'
  BY <1>1 DEF Settled, Tracked, findResource
<1>4. Working => Working'
  BY <1>1, <1>3 DEF Working, Sending, Tracked, findResource
<1> QED BY <1>1, <1>2, <1>4 DEF AgreeInv, HostInv

\* Every step of the specification keeps the agreement of pool and device.
LEMMA NextAgrees == Inv /\ AgreeInv /\ [Next]_vars => AgreeInv'
<1> SUFFICES ASSUME Inv, AgreeInv, [Next]_vars PROVE AgreeInv'
  OBVIOUS
<1>1. CASE OtherSend
  <2>1. /\ ~waiting /\ waiting' = TRUE /\ cmd' = OtherCmd /\ other' = TRUE
        /\ UNCHANGED <<kext, host, backing, suspect, orphans, at>>
    BY <1>1, Zenon DEF OtherSend, Send, device, ghost, kext
  <2>2. at \notin Sending
    BY <2>1 DEF AgreeInv, SendInv
  <2>3. SendInv'
    BY <2>1, <2>2 DEF SendInv
  <2>4. CleanInv'
    BY <2>1, PoolAssumption DEF CleanInv, OtherCmd, Cmd
  <2> QED BY ONLY <2>1, <2>2, <2>3, <2>4, ChannelAgrees, Inv, AgreeInv
<1>2. CASE OtherReturn
  <2>1. /\ other /\ waiting' = FALSE /\ UNCHANGED cmd /\ other' = FALSE
        /\ UNCHANGED <<kext, host, backing, suspect, orphans, at>>
    BY <1>2, Zenon DEF OtherReturn, Answered, TimedOut, device, ghost, kext
  <2>2. at \notin Sending /\ cmd = OtherCmd
    BY <2>1 DEF AgreeInv, SendInv
  <2>3. SendInv'
    BY <2>1, <2>2 DEF SendInv
  <2>4. CleanInv'
    BY <2>1, <2>2, PoolAssumption DEF CleanInv, OtherCmd, Cmd
  <2> QED BY ONLY <2>1, <2>2, <2>3, <2>4, ChannelAgrees, Inv, AgreeInv
<1>3. CASE DevPush
  <2>1. /\ pushing /\ pushing' = FALSE /\ (moved' = TRUE \/ (~waiting /\ moved' = moved))
        /\ UNCHANGED <<cmd, backlog, answer, waiting, other, at, rid, mem>>
        /\ UNCHANGED <<kext, host, backing, suspect, orphans>>
    BY <1>3 DEF DevPush, Push, device, ghost, kext
  <2>2. SendInv'
    BY <2>1 DEF AgreeInv, SendInv
  <2>3. CleanInv'
    BY <2>1 DEF AgreeInv, CleanInv, Unanswered, Replied, Quiet
  <2>4. UNCHANGED <<backlog, answer>>
    BY <2>1
  <2> QED BY ONLY <2>1, <2>2, <2>3, <2>4, ChannelAgrees, Inv, AgreeInv
<1>4. CASE UNCHANGED vars
  <2>1. /\ UNCHANGED <<cmd, backlog, pushing, moved, answer, waiting, other, at, rid, mem>>
        /\ UNCHANGED <<kext, host, backing, suspect, orphans>>
    BY <1>4, Zenon DEF vars, channel, device, ghost, kext
  <2>2. SendInv' /\ CleanInv'
    BY <2>1 DEF AgreeInv, SendInv, CleanInv, Unanswered, Replied, Quiet
  <2>3. UNCHANGED <<backlog, answer>>
    BY <2>1
  <2> QED BY ONLY <2>1, <2>2, <2>3, ChannelAgrees, Inv, AgreeInv
<1>5. CASE Next
  BY <1>1, <1>2, <1>3, <1>4, <1>5, OwnerAgrees, CallAgrees, DeviceAgrees DEF Next, Finished
<1> QED BY <1>4, <1>5

LEMMA AgreeInvariance == Spec => [](Inv /\ AgreeInv)
<1>1. Init => AgreeInv
  BY PoolAssumption
  DEF Init, ChannelInit, AgreeInv, SendInv, CleanInv, HostInv, Settled, Tracked, findResource,
      Slots, FreeSlot, Sending
<1>2. Inv /\ AgreeInv /\ [Next]_vars => AgreeInv'
  BY NextAgrees
<1> QED BY <1>1, <1>2, Invariance, PTL DEF Spec

-----------------------------------------------------------------------------
\* As long as no command for an id timed out or met a backlog, what
\* m_resource_pool tracks exists on the device, and the device is left with no
\* memory createResource2D or deallocateResource has released.
THEOREM HostAgreesTheorem == Spec => []HostAgrees
<1>1. ASSUME Inv, AgreeInv PROVE HostAgrees
  <2>1. ASSUME NEW i \in Tracked \ suspect, at # "dealloc" \/ rid # i PROVE i \in host
    <3>1. i \in Ids
      BY DEF Tracked
    <3>2. CASE i # rid
      BY <2>1, <3>1, <3>2, <1>1 DEF AgreeInv, HostInv, Settled
    <3>3. CASE i = rid
      <4>1. at = "idle"
        BY <2>1, <3>3, <1>1 DEF Inv, PoolInv, OwnerInv, MiscTypes, Tracked, findResource
      <4> QED BY <3>1, <3>3, <4>1, <1>1, PoolAssumption DEF Inv, PoolInv, OwnerInv
    <3> QED BY <3>2, <3>3
  <2>2. ASSUME NEW i \in host \ suspect PROVE backing[i] \in alive \cup {0, CallerMem}
    <3>1. i \in Ids /\ backing[i] \in Memory /\ mem \in Memory
      BY <1>1 DEF Inv, ChannelInv, HostTypes, PoolTypes
    <3>2. \A m \in Memory : m \in {0, CallerMem} \/ m \in Allocation
      BY PoolAssumption DEF Memory, CallerMem, Allocation
    <3>3. /\ mem \in Allocation => mem \in alive
          /\ \A s \in Slots : pool[s].mem \in Allocation => pool[s].mem \in alive
      BY <1>1 DEF Inv, PoolInv, BackingAccounted
    <3>4. Settled(i) => backing[i] \in alive \cup {0, CallerMem}
      BY <2>2, <3>1, <3>2, <3>3 DEF Settled
    <3>5. Settled(i) \/ backing[i] \in {0, mem}
      <4>1. CASE i # rid
        BY <4>1, <2>2, <3>1, <1>1 DEF AgreeInv, HostInv
      <4>2. CASE i = rid
        <5>1. Working
          BY <4>2, <2>2, <3>1, <1>1 DEF AgreeInv, HostInv
        <5>2. at # "idle"
          BY <4>2, <3>1, <1>1, PoolAssumption DEF Inv, PoolInv, OwnerInv
        <5> QED BY <4>2, <5>1, <5>2, <2>2, <1>1 DEF Working, Inv, MiscTypes
      <4> QED BY <4>1, <4>2
    <3> QED BY <3>1, <3>2, <3>3, <3>4, <3>5
  <2> QED BY <2>1, <2>2 DEF HostAgrees, TrackedOnHost, NoDanglingBacking
<1> QED BY <1>1, AgreeInvariance, PTL

\* For such an id, a resource only the device knows of comes from one of the
\* exits that are marked: no memory, a failed attach, or a 3D overflow.
THEOREM OrphansTheorem == Spec => []OrphansExplained
<1>1. ASSUME Inv, AgreeInv PROVE OrphansExplained
  <2>1. host \subseteq Ids
    BY <1>1 DEF Inv, ChannelInv, HostTypes
  <2> QED BY <1>1, <2>1 DEF AgreeInv, HostInv, Settled, OrphansExplained
<1> QED BY <1>1, AgreeInvariance, PTL
=============================================================================
