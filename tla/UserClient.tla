----------------------------- MODULE UserClient -----------------------------
(***************************************************************************)
(* What clients of VMVirtIOGPUUserClient make on the device apart from the *)
(* winsys resources (Winsys): rendering contexts by either counter, legacy *)
(* surfaces, and the two-phase ATTACH_BACKING probe, whose context and     *)
(* resource have one fixed id for all clients.                             *)
(*                                                                         *)
(* externalMethod takes no lock.  A slot is a call in flight; the calls of *)
(* a client, and its clientClose, may overlap.  Clients use the ids they   *)
(* were given.  QEMU answers OK to contexts virglrenderer rejects.         *)
(***************************************************************************)
EXTENDS CommandChannel, Integers, FiniteSets

CONSTANTS
    Clients, Slots,
    NoClient, NoSlot,
    Mixes,          \* bound: groups of selectors one behaviour uses
    FirstUserCtx,   \* first value of s_next_user_ctx_id, 0x100
    ProbeCtx,       \* PROBE_CTX, 0xFFF9
    SurfaceBit,     \* the bit or-ed into a surface id, 0x10000
    PoolSize,       \* slots of m_resource_pool, 64
    MaxCtx,         \* bound: largest context id
    MaxCalls,       \* bound: calls of a behaviour
    MaxTimeouts     \* bound: commands of a behaviour that time out

ASSUME UserClientAssumption ==
    /\ NoSlot \notin Slots /\ NoClient \notin Clients
    /\ Mixes \subseteq SUBSET {"contexts", "surfaces", "probe"}
    /\ MaxCtx \in Nat /\ FirstUserCtx \in 2 .. MaxCtx + 1 /\ ProbeCtx \in Nat /\ ProbeCtx > MaxCtx
    /\ SurfaceBit \in Nat \ {0} /\ PoolSize \in Nat /\ MaxCalls \in Nat
    /\ MaxTimeouts \in Nat

VARIABLES
    dev,        \* clients whose m_gpu_device is set
    open, freed,
    nextCtx,    \* s_next_user_ctx_id, shared by all clients
    kernCtx,    \* m_next_context_id of the driver
    ctxLock,    \* holder of m_context_lock
    caller,     \* the call that is polling
    nextSurf,   \* m_next_surface_id of each client
    pool,       \* surface resources in the driver's pool
    told, surf, \* contexts and surfaces each client was given
    busy, held, \* m_probe_in_progress, m_probe_descriptor
    named,      \* m_probe_resource_id and m_probe_ctx_id are set
    wired,      \* probe descriptors that are prepared
    pc, op, who, id, desc,  \* each call: position, kind, client, locals
    calls, timeouts,
    mix,        \* the groups of this behaviour
    ctxs,       \* contexts on the device
    owner,      \* the client each was created for
    res, backing, \* the probe's resource on the device, and its pages
    suspect,    \* context ids with a command late or sent into a backlog
    lost,       \* context ids a named path gave up on
    exposed,    \* the probe was dropped without telling the device
    raced,      \* two calls were between load and store of nextCtx
    overlap,    \* a client had two calls in flight
    crossed,    \* a client's commands ran in another client's context
    fault       \* a null m_probe_descriptor was used

queue == <<channel, caller, timeouts>>
clients == <<dev, open, freed>>
counters == <<nextCtx, kernCtx, ctxLock>>
surfaces == <<nextSurf, pool, surf>>
probe == <<busy, held, named, wired>>
locals == <<op, who, id, desc>>
device == <<ctxs, owner, res, backing>>
ghost == <<suspect, lost, exposed, raced, overlap, crossed, fault>>
vars == <<queue, clients, counters, surfaces, told, probe, pc, locals, calls, mix,
          device, ghost>>

CtxIds == 1 .. MaxCtx
SurfIds == 1 .. MaxCalls
Descs == 1 .. MaxCalls
NoDesc == 0
CommandTypes == {"none", "create", "destroy", "use", "rcreate", "attach", "xfer", "unref"}
ClientCommand == [type : CommandTypes, ctx : CtxIds \cup {ProbeCtx}, who : Clients,
                  desc : Descs \cup {NoDesc}]

ASSUME ClientCommandAssumption == ClientCommand \subseteq Command

\* initWithTask and start of every client.
Init ==
    /\ ChannelInit
    /\ dev = Clients /\ open = Clients /\ freed = {}
    /\ nextCtx = FirstUserCtx /\ kernCtx = 1 /\ ctxLock = NoSlot /\ caller = NoSlot
    /\ nextSurf = [c \in Clients |-> 1]
    /\ pool = {}
    /\ told = [c \in Clients |-> {}] /\ surf = [c \in Clients |-> {}]
    /\ busy = {} /\ held = [c \in Clients |-> NoDesc] /\ named = {} /\ wired = {}
    /\ pc = [t \in Slots |-> "idle"]
    /\ op = [t \in Slots |-> "none"]
    /\ who = [t \in Slots |-> NoClient]
    /\ id = [t \in Slots |-> 0]
    /\ desc = [t \in Slots |-> NoDesc]
    /\ calls = 0 /\ timeouts = 0 /\ mix \in Mixes
    /\ ctxs = {} /\ owner = [x \in CtxIds \cup {ProbeCtx} |-> {}]
    /\ res = FALSE /\ backing = NoDesc
    /\ suspect = {} /\ lost = {} /\ exposed = FALSE /\ raced = FALSE
    /\ overlap = FALSE /\ crossed = FALSE /\ fault = FALSE

-----------------------------------------------------------------------------
InCall(c) == \E t \in Slots : who[t] = c /\ pc[t] # "idle"

\* A call of client c starts with local id i.
Begin(t, c, o, i, where) ==
    /\ pc[t] = "idle"
    /\ pc' = [pc EXCEPT ![t] = where]
    /\ op' = [op EXCEPT ![t] = o]
    /\ who' = [who EXCEPT ![t] = c]
    /\ id' = [id EXCEPT ![t] = i]
    /\ desc' = [desc EXCEPT ![t] = IF o = "probe1" THEN calls + 1 ELSE NoDesc]
    /\ overlap' = (overlap \/ InCall(c))

\* externalMethod: refused once stop has cleared m_gpu_device.
Enter(t, c, o, i, where) ==
    /\ c \in open /\ c \in dev
    /\ calls < MaxCalls
    /\ calls' = calls + 1
    /\ Begin(t, c, o, i, where)

Go(t, where) == pc' = [pc EXCEPT ![t] = where] /\ UNCHANGED locals
\* The call returns; its locals are gone.
Return(t) ==
    /\ pc' = [pc EXCEPT ![t] = "idle"]
    /\ op' = [op EXCEPT ![t] = "none"]
    /\ who' = [who EXCEPT ![t] = NoClient]
    /\ id' = [id EXCEPT ![t] = 0]
    /\ desc' = [desc EXCEPT ![t] = NoDesc]

-----------------------------------------------------------------------------
\* Contexts.

\* Mutant: the user range starts where the driver's own counter does.
createFromOne(t, c) ==
    /\ kernCtx < MaxCtx
    /\ Enter(t, c, "userctx", kernCtx + 1, "create")
    /\ UNCHANGED <<queue, clients, counters, surfaces, told, probe, device,
                   suspect, lost, exposed, raced, crossed, fault>>

\* createVirglContextEx: s_next_user_ctx_id++ is a load and a store.
createVirglContextEx(t, c) ==
    /\ nextCtx <= MaxCtx
    /\ Enter(t, c, "userctx", nextCtx, "bump")
    /\ raced' = (raced \/ \E u \in Slots : pc[u] = "bump")
    /\ UNCHANGED <<queue, clients, counters, surfaces, told, probe, device,
                   suspect, lost, exposed, crossed, fault>>
Bump(t) ==
    /\ pc[t] = "bump"
    /\ nextCtx' = id[t] + 1
    /\ Go(t, "create")
    /\ UNCHANGED <<queue, clients, kernCtx, ctxLock, surfaces, told, probe, calls,
                   device, ghost>>

\* create3DContext (selectors 1, 0x2000) and createVirglContext (0x3002,
\* 0x4004) end in createRenderContext, which holds m_context_lock.
createRenderContext(t, c, o) ==
    /\ ctxLock = NoSlot
    /\ kernCtx < MaxCtx
    /\ ctxLock' = t
    /\ kernCtx' = kernCtx + 1
    /\ Enter(t, c, o, kernCtx + 1, "create")
    /\ UNCHANGED <<queue, clients, nextCtx, surfaces, told, probe, device, suspect, lost,
                   exposed, raced, crossed, fault>>

\* destroy3DContext answers success and sends nothing.
destroy3DContext(c, x) ==
    /\ c \in open /\ c \in dev /\ x \in told[c]
    /\ calls < MaxCalls
    /\ calls' = calls + 1
    /\ told' = [told EXCEPT ![c] = @ \ {x}]
    /\ lost' = lost \cup {x}
    /\ UNCHANGED <<queue, clients, counters, surfaces, probe, pc, locals, device,
                   suspect, exposed, raced, overlap, crossed, fault>>

\* destroyVirglContextEx
destroyVirglContextEx(t, c, x) ==
    /\ x \in told[c]
    /\ Enter(t, c, "destroyctx", x, "destroy")
    /\ told' = [told EXCEPT ![c] = @ \ {x}]
    /\ UNCHANGED <<queue, clients, counters, surfaces, probe, device,
                   suspect, lost, exposed, raced, crossed, fault>>

\* submitVirglCommandsEx, and submitVirglCommands with its fixed context 1:
\* executeCommands holds m_context_lock.
submitVirglCommandsEx(t, c, x) ==
    /\ x \in told[c] \cup {1}
    /\ ctxLock = NoSlot
    /\ ctxLock' = t
    /\ Enter(t, c, "submit", x, "use")
    /\ UNCHANGED <<queue, clients, nextCtx, kernCtx, surfaces, told, probe, device, suspect,
                   lost, exposed, raced, crossed, fault>>
\* ctxAttachResource takes no lock.
ctxAttachResource(t, c, x) ==
    /\ x \in told[c]
    /\ Enter(t, c, "ctxattach", x, "use")
    /\ UNCHANGED <<queue, clients, counters, surfaces, told, probe, device, suspect, lost,
                   exposed, raced, crossed, fault>>

-----------------------------------------------------------------------------
\* Surfaces.  createResource2D and deallocateResource are one step each:
\* they hold m_resource_lock throughout, and ResourcePool has their commands.
ResourceOf(s) == IF (s \div SurfaceBit) % 2 = 0 THEN s + SurfaceBit ELSE s

\* createSurface: m_next_surface_id is read, then advanced.
createSurface(t, c) ==
    /\ Enter(t, c, "surface", nextSurf[c], "advance")
    /\ UNCHANGED <<queue, clients, counters, surfaces, told, probe, device, suspect, lost,
                   exposed, raced, crossed, fault>>
Advance(t) ==
    /\ pc[t] = "advance"
    /\ nextSurf' = [nextSurf EXCEPT ![who[t]] = id[t] + 1]
    /\ Go(t, "make")
    /\ UNCHANGED <<queue, clients, counters, pool, surf, told, probe, calls, device, ghost>>

\* Mutant: the driver does not look for the resource before it creates one.
TakenUnchecked(r) == FALSE
\* createResource2D refuses an id that has a slot, or when all are taken.
Taken(r) == r \in pool \/ Cardinality(pool) = PoolSize

MakeSurface(t) ==
    /\ pc[t] = "make"
    /\ \/ /\ ~Taken(ResourceOf(id[t]))
          /\ pool' = pool \cup {ResourceOf(id[t])}
          /\ surf' = [surf EXCEPT ![who[t]] = @ \cup {id[t]}]
       \/ UNCHANGED <<pool, surf>>
    /\ Return(t)
    /\ UNCHANGED <<queue, clients, counters, nextSurf, told, probe, calls, device, ghost>>

\* destroySurface; a failed UNREF keeps the slot.
destroySurface(c, s) ==
    /\ c \in open /\ c \in dev /\ s \in surf[c]
    /\ calls < MaxCalls
    /\ calls' = calls + 1
    /\ \/ /\ ResourceOf(s) \in pool
          /\ pool' = pool \ {ResourceOf(s)}
          /\ surf' = [surf EXCEPT ![c] = @ \ {s}]
       \/ UNCHANGED <<pool, surf>>
    /\ UNCHANGED <<queue, clients, counters, nextSurf, told, probe, pc, locals, device, ghost>>

-----------------------------------------------------------------------------
\* Commands.  The command each position sends; UNREF and CTX_DESTROY of the
\* second phase and of the clean-up name what m_probe_*_id hold then.
TypeOf(t) ==
    CASE pc[t] \in {"create", "A"} -> "create"
      [] pc[t] \in {"destroy", "X"} -> "destroy"
      [] pc[t] \in {"use", "C"} -> "use"
      [] pc[t] = "B" -> "rcreate"
      [] pc[t] = "D" -> "attach"
      [] pc[t] \in {"E", "F"} -> "xfer"
      [] OTHER -> "unref"
Sending == {"create", "destroy", "use", "A", "B", "C", "D", "E", "F", "U", "X"}
\* The ids are zero: the device will find nothing.
Nameless(t) == pc[t] \in {"F", "U", "X"} /\ op[t] # "probe1" /\ who[t] \notin named
Nothing(t) == [type |-> "none", ctx |-> ProbeCtx, who |-> who[t], desc |-> NoDesc]

SendCommand(t) ==
    /\ pc[t] \in Sending
    /\ Send(IF Nameless(t) THEN Nothing(t)
            ELSE [type |-> TypeOf(t), ctx |-> id[t], who |-> who[t], desc |-> desc[t]])
    /\ suspect' = IF Quiet THEN suspect ELSE suspect \cup {id[t]}
    /\ caller' = t
    /\ UNCHANGED <<timeouts, pc, locals, clients, counters, surfaces, told, probe, calls, device, lost, exposed,
                   raced, overlap, crossed, fault>>

\* submitCommand returned, with the device's answer or with a timeout.
Returned(t, at, ok) ==
    /\ pc[t] = at /\ caller = t
    /\ caller' = NoSlot
    /\ \/ Answered /\ ok = (answer # "err") /\ UNCHANGED <<suspect, timeouts>>
       \/ /\ timeouts < MaxTimeouts
          /\ TimedOut /\ ~ok
          /\ timeouts' = timeouts + 1
          /\ suspect' = suspect \cup {id[t]}
    /\ UNCHANGED <<clients, nextCtx, kernCtx, surfaces, calls, device, exposed, raced,
                   overlap, crossed>>
Unlock(t) == ctxLock' = IF ctxLock = t THEN NoSlot ELSE ctxLock

\* A context was created: createVirglContext keeps the new id to itself, and
\* a client that has closed cannot be told.
Created(t) ==
    /\ \E ok \in BOOLEAN :
         /\ Returned(t, "create", ok)
         /\ LET c == who[t]
                tell == ok /\ op[t] # "virglctx" /\ c \in open
            IN /\ told' = IF tell THEN [told EXCEPT ![c] = @ \cup {id[t]}] ELSE told
               /\ lost' = IF ok /\ ~tell THEN lost \cup {id[t]} ELSE lost
    /\ Unlock(t)
    /\ Return(t)
    /\ UNCHANGED <<probe, fault>>

\* A context was destroyed or used.
Used(t) ==
    /\ \E ok \in BOOLEAN : Returned(t, "destroy", ok) \/ Returned(t, "use", ok)
    /\ Unlock(t)
    /\ Return(t)
    /\ UNCHANGED <<told, probe, lost, fault>>

-----------------------------------------------------------------------------
\* probeAttachBackingUser, phase 1: CTX_CREATE (A), RESOURCE_CREATE_3D (B),
\* CTX_ATTACH_RESOURCE (C), wiring and ATTACH_BACKING (D), TRANSFER_TO_HOST
\* (E); phase1_cleanup: RESOURCE_UNREF (U) if it was created, CTX_DESTROY (X).

\* Mutant: a second phase 1 is not refused.
probePhase1NoGuard(t, c) ==
    /\ Enter(t, c, "probe1", ProbeCtx, "A")
    /\ UNCHANGED <<queue, clients, counters, surfaces, told, probe, device, suspect, lost,
                   exposed, raced, crossed, fault>>
probePhase1(t, c) ==
    /\ c \notin busy
    /\ Enter(t, c, "probe1", ProbeCtx, "A")
    /\ UNCHANGED <<queue, clients, counters, surfaces, told, probe, device, suspect, lost,
                   exposed, raced, crossed, fault>>

AfterA(t) ==
    /\ \/ Returned(t, "A", TRUE) /\ Go(t, "B")
       \/ Returned(t, "A", FALSE) /\ Return(t)
    /\ UNCHANGED <<ctxLock, told, probe, lost, fault>>

\* Mutant: nothing to undo, it seems, when only the context exists.
AfterBReturns(t) ==
    /\ \/ Returned(t, "B", TRUE) /\ Go(t, "C")
       \/ Returned(t, "B", FALSE) /\ Return(t)
    /\ UNCHANGED <<ctxLock, told, probe, lost, fault>>
AfterB(t) ==
    /\ \/ Returned(t, "B", TRUE) /\ Go(t, "C")
       \/ Returned(t, "B", FALSE) /\ Go(t, "X")
    /\ UNCHANGED <<ctxLock, told, probe, lost, fault>>

\* The result of C is ignored; then the range is wired, or cannot be.
AfterC(t) ==
    /\ \E ok \in BOOLEAN : Returned(t, "C", ok)
    /\ \/ Go(t, "D") /\ wired' = wired \cup {desc[t]}
       \/ Go(t, "U") /\ UNCHANGED wired
    /\ UNCHANGED <<ctxLock, told, busy, held, named, lost, fault>>

\* complete() and release() of the call's own descriptor.
DropOwn(t) == wired' = wired \ {desc[t]} /\ Go(t, "U")

AfterD(t) ==
    /\ \/ Returned(t, "D", TRUE) /\ Go(t, "E") /\ UNCHANGED wired
       \/ Returned(t, "D", FALSE) /\ DropOwn(t)
    /\ UNCHANGED <<ctxLock, told, busy, held, named, lost, fault>>

\* The descriptor stays prepared between the phases.
AfterE(t) ==
    /\ \/ /\ Returned(t, "E", TRUE)
          /\ held' = [held EXCEPT ![who[t]] = desc[t]]
          /\ busy' = busy \cup {who[t]}
          /\ named' = named \cup {who[t]}
          /\ Return(t)
          /\ UNCHANGED wired
       \/ Returned(t, "E", FALSE) /\ DropOwn(t) /\ UNCHANGED <<busy, held, named>>
    /\ UNCHANGED <<ctxLock, told, lost, fault>>

\* Phase 2: TRANSFER_FROM_HOST (F), the descriptor, U, X.
probePhase2(t, c) ==
    /\ c \in busy /\ held[c] # NoDesc
    /\ Enter(t, c, "probe2", ProbeCtx, "F")
    /\ UNCHANGED <<queue, clients, counters, surfaces, told, probe, device, suspect, lost,
                   exposed, raced, crossed, fault>>

\* The stored descriptor is completed, released and forgotten.
DropHeld(c) == /\ wired' = wired \ {held[c]}
               /\ held' = [held EXCEPT ![c] = NoDesc]
               /\ busy' = busy \ {c}

\* Mutant: the descriptor is dropped and the resource left to CTX_DESTROY.
AfterFNoUnref(t) ==
    /\ \E ok \in BOOLEAN : Returned(t, "F", ok)
    /\ held[who[t]] # NoDesc
    /\ DropHeld(who[t]) /\ Go(t, "X")
    /\ UNCHANGED <<ctxLock, told, named, lost, fault>>
AfterF(t) ==
    /\ \E ok \in BOOLEAN : Returned(t, "F", ok)
    /\ IF held[who[t]] = NoDesc
       THEN fault' = TRUE /\ Return(t) /\ UNCHANGED <<busy, held, wired>>
       ELSE DropHeld(who[t]) /\ Go(t, "U") /\ UNCHANGED fault
    /\ UNCHANGED <<ctxLock, told, named, lost>>

AfterU(t) ==
    /\ \E ok \in BOOLEAN : Returned(t, "U", ok)
    /\ Go(t, "X")
    /\ UNCHANGED <<ctxLock, told, probe, lost, fault>>
\* Phase 2 and the clean-up end by zeroing the ids.
AfterX(t) ==
    /\ \E ok \in BOOLEAN : Returned(t, "X", ok)
    /\ named' = IF op[t] = "probe1" THEN named ELSE named \ {who[t]}
    /\ Return(t)
    /\ UNCHANGED <<ctxLock, told, busy, held, wired, lost, fault>>

-----------------------------------------------------------------------------
\* The end of a client.

\* clientClose: probeAttachBackingUserCleanup sends UNREF and CTX_DESTROY if
\* it can; no context and no surface is destroyed.  Whether it can is read with
\* the release of the descriptor: a stop between the two leaves what one before
\* both does.
clientClose(t, c) ==
    /\ c \in open
    /\ open' = open \ {c}
    /\ lost' = lost \cup told[c]
    /\ told' = [told EXCEPT ![c] = {}]
    /\ surf' = [surf EXCEPT ![c] = {}]
    /\ IF c \in busy /\ held[c] # NoDesc
       THEN /\ DropHeld(c)
            /\ IF c \in dev
               THEN Begin(t, c, "close", ProbeCtx, "U") /\ UNCHANGED <<named, exposed>>
               ELSE /\ named' = named \ {c} /\ exposed' = TRUE
                    /\ UNCHANGED <<pc, locals, overlap>>
       ELSE /\ overlap' = (overlap \/ InCall(c))
            /\ UNCHANGED <<probe, pc, locals, exposed>>
    /\ UNCHANGED <<queue, dev, freed, counters, nextSurf, pool, calls, device, suspect,
                   raced, crossed, fault>>

\* stop clears m_gpu_device: under an open client when the provider goes.  To
\* a client between two calls it means that it makes no more, and makes a
\* difference only to one that has a probe going.  A stop during a call, which
\* would take the device from under it, is left out.
stop(c) ==
    /\ c \in busy
    /\ c \in open /\ c \in dev
    /\ ~InCall(c)
    /\ dev' = dev \ {c}
    /\ UNCHANGED <<queue, open, freed, counters, surfaces, told, probe, pc, locals, calls,
                   device, ghost>>

\* A closed client is stopped, if it was not, and freed, and nothing of it
\* runs in between; free's clean-up comes too late for a command and can only
\* release the memory.
free(c) ==
    /\ c \notin open /\ c \notin freed
    /\ ~InCall(c)
    /\ dev' = dev \ {c}
    /\ freed' = freed \cup {c}
    /\ DropHeld(c)
    /\ named' = named \ {c}
    /\ exposed' = (exposed \/ c \in busy)
    /\ UNCHANGED <<queue, open, counters, surfaces, told, pc, locals, calls, device,
                   suspect, lost, raced, overlap, crossed, fault>>

-----------------------------------------------------------------------------
\* The device (external): it does what it can and refuses the rest.  It may
\* refuse a creation, an attachment or a transfer it could do, and answers OK
\* to a context it has refused.
Can == CASE cmd.type = "create" -> cmd.ctx \notin ctxs
         [] cmd.type \in {"destroy", "use"} -> cmd.ctx \in ctxs
         [] cmd.type = "rcreate" -> ~res
         [] cmd.type = "attach" -> res /\ backing = NoDesc
         [] cmd.type = "xfer" -> backing # NoDesc
         [] cmd.type = "unref" -> res
         [] OTHER -> FALSE
DevExecute ==
    /\ backlog > 0
    /\ \/ /\ Can
          /\ Execute("nodata")
          /\ ctxs' = CASE cmd.type = "create" -> ctxs \cup {cmd.ctx}
                       [] cmd.type = "destroy" -> ctxs \ {cmd.ctx}
                       [] OTHER -> ctxs
          /\ owner' = CASE cmd.type = "create" -> [owner EXCEPT ![cmd.ctx] = {cmd.who}]
                        [] cmd.type = "destroy" -> [owner EXCEPT ![cmd.ctx] = {}]
                        [] OTHER -> owner
          /\ res' = IF cmd.type = "unref" THEN FALSE ELSE res \/ cmd.type = "rcreate"
          /\ backing' = CASE cmd.type = "attach" -> cmd.desc
                          [] cmd.type = "unref" -> NoDesc
                          [] OTHER -> backing
          /\ crossed' = (crossed \/ (/\ cmd.type = "use" /\ cmd.ctx # ProbeCtx
                                     /\ owner[cmd.ctx] # {cmd.who}))
       \/ /\ \/ Execute("err") /\ (Can => cmd.type \in {"create", "rcreate", "attach", "xfer"})
             \/ Execute("nodata") /\ cmd.type = "create"
          /\ UNCHANGED <<device, crossed>>
    /\ UNCHANGED <<caller, timeouts, clients, counters, surfaces, told, probe, pc, locals, calls, suspect,
                   lost, exposed, raced, overlap, fault>>

DevPush == Push /\ UNCHANGED <<caller, timeouts, clients, counters, surfaces, told, probe, pc, locals, calls,
                               device, ghost>>

\* The selectors of externalMethod.
Selector(t, c) ==
    \/ /\ "contexts" \in mix
       /\ \/ createVirglContextEx(t, c)
          \/ \E o \in {"kernctx", "virglctx"} : createRenderContext(t, c, o)
          \/ \E x \in CtxIds : \/ destroyVirglContextEx(t, c, x) \/ destroy3DContext(c, x)
                               \/ submitVirglCommandsEx(t, c, x) \/ ctxAttachResource(t, c, x)
    \/ /\ "surfaces" \in mix
       /\ createSurface(t, c) \/ \E s \in SurfIds : destroySurface(c, s)
    \/ "probe" \in mix /\ (probePhase1(t, c) \/ probePhase2(t, c))
Step(t) ==
    \/ Bump(t) \/ Advance(t) \/ MakeSurface(t) \/ SendCommand(t) \/ Created(t) \/ Used(t)
    \/ AfterA(t) \/ AfterB(t) \/ AfterC(t) \/ AfterD(t) \/ AfterE(t) \/ AfterF(t)
    \/ AfterU(t) \/ AfterX(t)
\* Every client is gone, or the kernel has stopped.
Finished == (freed = Clients \/ fault) /\ UNCHANGED vars
Next ==
    \/ /\ ~fault
       /\ \/ \E t \in Slots : Step(t) \/ \E c \in Clients : Selector(t, c) \/ clientClose(t, c)
          \/ \E c \in Clients : stop(c) \/ free(c)
          \/ DevExecute \/ DevPush
       /\ UNCHANGED mix
    \/ Finished
Spec == Init /\ [][Next]_vars

-----------------------------------------------------------------------------
\* The types of the variables.
TypeOK ==
    /\ ChannelTypeOK /\ caller \in Slots \cup {NoSlot} /\ ctxLock \in Slots \cup {NoSlot}
    /\ dev \subseteq Clients /\ open \subseteq Clients /\ freed \subseteq Clients
    /\ nextCtx \in 1 .. MaxCtx + 1 /\ kernCtx \in CtxIds
    /\ nextSurf \in [Clients -> 1 .. MaxCalls + 1] /\ pool \subseteq Nat
    /\ told \in [Clients -> SUBSET CtxIds] /\ surf \in [Clients -> SUBSET SurfIds]
    /\ busy \subseteq Clients /\ named \subseteq Clients
    /\ held \in [Clients -> Descs \cup {NoDesc}] /\ wired \subseteq Descs
    /\ pc \in [Slots -> Sending \cup {"idle", "bump", "advance", "make"}]
    /\ who \in [Slots -> Clients \cup {NoClient}]
    /\ id \in [Slots -> Nat] /\ desc \in [Slots -> Descs \cup {NoDesc}]
    /\ ctxs \subseteq CtxIds \cup {ProbeCtx}
    /\ res \in BOOLEAN /\ backing \in Descs \cup {NoDesc}

\* Two clients are never given the same context, and no client's commands run
\* in another's, unless two calls were inside s_next_user_ctx_id++ at once or
\* the driver's own counter has reached the range of the users' one: nothing
\* else keeps them apart, least of all the device, which may answer OK to the
\* second CTX_CREATE.
ContextsApart ==
    \/ raced \/ kernCtx >= FirstUserCtx
    \/ ~crossed /\ \A c, d \in Clients : c # d => told[c] \cap told[d] = {}

\* What a running call still answers for.
InHand == {id[t] : t \in {u \in Slots : pc[u] \in {"create", "destroy"}}}
ProbeOn == busy # {} \/ \E t \in Slots : op[t] \in {"probe1", "probe2", "close"}

\* Every context on the device is known to an open client, in the hands of a
\* call, or was given up on one of the named paths: selectors that keep the id
\* to themselves or only pretend to destroy, a client that closed, commands
\* that were late.  The probe's own context goes with the probe, on every
\* path out of its first phase.
ContextLeaksExplained ==
    /\ ctxs \ {ProbeCtx} \subseteq
           (UNION {told[c] : c \in Clients}) \cup InHand \cup lost \cup suspect
    /\ ProbeCtx \in ctxs => ProbeOn \/ exposed \/ ProbeCtx \in suspect

\* The pages of the probe are wired exactly while a call or m_probe_descriptor
\* holds them, whichever command failed and whatever other clients do to the
\* shared ids, and no null descriptor is used, as long as no client overlaps
\* its own calls.
ProbePagesAccounted ==
    \/ overlap
    \/ /\ ~fault
       /\ wired = ({held[c] : c \in Clients} \ {NoDesc}) \cup
                  {desc[t] : t \in {u \in Slots : op[u] = "probe1" /\ pc[u] \in {"D", "E"}}}

\* The device is left with addresses of pages that are no longer wired only
\* between the release and the UNREF of a running call, after a late command,
\* when calls of one client overlapped, or when the probe was dropped after
\* stop had cleared m_gpu_device.
ProbeDanglingExplained ==
    backing # NoDesc /\ backing \notin wired =>
        \/ \E t \in Slots : pc[t] = "U"
        \/ ProbeCtx \in suspect \/ overlap \/ exposed

\* A surface id means something to one client only: the counters of all
\* clients start at 1, two ids of one client can become one resource id, and
\* what keeps their resources apart is the driver's duplicate check alone.  A surface
\* that was handed out keeps its slot until its client destroys it.
SurfaceOneHolder ==
    /\ \A c \in Clients : \A s \in surf[c] : ResourceOf(s) \in pool
    /\ \A c, d \in Clients : \A s \in surf[c], r \in surf[d] :
         ResourceOf(s) = ResourceOf(r) => c = d /\ s = r

\* The clients' view of the contexts: well typed, and each its own.
ContextsKept == TypeOK /\ ContextsApart
=============================================================================
