----------------------------- MODULE Accelerator -----------------------------
(***************************************************************************)
(* VMQemuVGAAccelerator and its user client.  Contexts and surfaces are    *)
(* kept in two growing pools under m_lock.  A user client has at most one  *)
(* context, which it checks without a lock; render passes, draws, shader   *)
(* and texture calls walk the pools without m_lock, reading every context  *)
(* or surface on the way, and the pass goes on using the context it found. *)
(* m_draw_calls and the other statistics, the fields is_render_target and  *)
(* command_buffer, which decide nothing, and the two collection strategies *)
(* that start at 64 MB of m_memory_allocated, a number that never leaves   *)
(* 0, are left out.                                                        *)
(***************************************************************************)
EXTENDS Integers, FiniteSets, Sequences, FiniteSetsExt

CONSTANTS
    Clients,            \* instances of VMQemuVGA3DUserClient
    Kernel,             \* the callers inside the kernel: VMOpenGLBridge
    Threads, Owner,     \* who each thread makes its calls for
    InitialCapacity,    \* kInitialContextCapacity, kInitialSurfaceCapacity
    BindCapacity,       \* the first size of bound_surface_ids
    MaxContexts, MaxSurfaces, MaxDeviceContexts,    \* bounds on the three id counters
    MaxCalls            \* bound: calls made

ASSUME AcceleratorAssumption ==
    /\ Kernel \notin Clients
    /\ Owner \in [Threads -> Clients \cup {Kernel}]
    /\ InitialCapacity \in Nat \ {0} /\ BindCapacity \in Nat \ {0}
    /\ {MaxContexts, MaxSurfaces, MaxDeviceContexts} \subseteq Nat \ {0}
    /\ MaxCalls \in Nat

VARIABLES
    acc,        \* the accelerator: both pools, their counts, the id counters, the objects
    dev,        \* the device's contexts and resources, m_contexts and the id counters
    cli,        \* m_has_context, m_context_id of each client, and whether it is closed
    thr,        \* what each thread is doing
    stopped,    \* stop() has run
    calls,      \* calls made so far
    overlap,    \* who has had two calls in progress at once
    given,      \* <<context, surface>> pairs made for a caller and not destroyed since
    unbound,    \* surfaces contextBindSurface had no memory to bind
    ended,      \* contexts endRenderPass has sent a command for
    stray,      \* contexts that had a command executed in another's device context
    forgotten,  \* resources left on the device by a surface freed without
                \* deallocateResource, or by a command that failed
    crossed,    \* surfaces destroyed through a context other than their own
    raced,      \* a context was destroyed while a walk was reading the pool
    faults      \* uses of freed memory

core == <<acc, dev>>
marks == <<given, unbound, ended, stray, forgotten, crossed, raced>>
ghosts == <<marks, faults>>
history == <<overlap, ghosts>>
vars == <<acc, dev, cli, thr, stopped, calls, history>>

Idle == [pc |-> "idle", c |-> 0, size |-> 0, held |-> 0]

Init ==
    /\ acc = [ctxPool |-> [i \in 1 .. InitialCapacity |-> 0], ctxCount |-> 0,
              surfPool |-> [i \in 1 .. InitialCapacity |-> 0], surfCount |-> 0,
              nextCtx |-> 1, nextSurf |-> 1, ctx |-> <<>>, surf |-> <<>>]
    /\ dev = [ctxs |-> {}, next |-> 1, tracked |-> {}, res |-> {}, nextRes |-> 0]
    /\ cli = [k \in Clients |-> [has |-> FALSE, id |-> 0, closed |-> FALSE]]
    /\ thr = [t \in Threads |-> Idle]
    /\ stopped = FALSE /\ calls = 0
    /\ overlap = {} /\ given = {} /\ unbound = {} /\ ended = {} /\ stray = {}
    /\ forgotten = {} /\ crossed = {} /\ raced = FALSE /\ faults = {}

Live(a) == DOMAIN a.ctx
Surfaces(a) == DOMAIN a.surf
With(f, x, v) == [y \in DOMAIN f \cup {x} |-> IF y = x THEN v ELSE f[y]]
Without(f, S) == [x \in DOMAIN f \ S |-> f[x]]

----------------------------------------------------------------------------
(* The pools. *)

Slots(pool) == {i \in DOMAIN pool : pool[i] = 0}
Filled(pool) == {pool[i] : i \in DOMAIN pool} \ {0}

\* poolGrow: an array of twice the size, the old one freed.
Grown(pool) == pool \o [i \in 1 .. Len(pool) |-> 0]

\* Mutant: the slot after growing is one too far.
PoolAddPast(pool, count, x) ==
    IF Slots(pool) # {} THEN [pool EXCEPT ![Min(Slots(pool))] = x]
                        ELSE [Grown(pool) EXCEPT ![count] = x]

\* poolAdd: the first empty slot, or after growing the one at the count.
PoolAdd(pool, count, x) ==
    IF Slots(pool) # {} THEN [pool EXCEPT ![Min(Slots(pool))] = x]
                        ELSE [Grown(pool) EXCEPT ![count + 1] = x]

PoolRemove(pool, S) == [i \in DOMAIN pool |-> IF pool[i] \in S THEN 0 ELSE pool[i]]

AddContext(a, gpu, who) ==
    LET c == a.nextCtx + 1
    IN  [a EXCEPT !.ctxPool = PoolAdd(@, a.ctxCount, c), !.ctxCount = @ + 1, !.nextCtx = c,
                  !.ctx = With(@, c, [gpu |-> gpu, born |-> gpu, owner |-> who,
                                      active |-> TRUE, bound |-> {}, room |-> 0])]

\* Mutant: the surfaces bound to a context go with it.
RemoveContextsDeep(a, S) ==
    LET gone == UNION {a.ctx[c].bound : c \in S} \cap Surfaces(a)
    IN  [a EXCEPT !.ctxPool = PoolRemove(@, S), !.ctxCount = @ - Cardinality(S \cap Live(a)),
                  !.ctx = Without(@, S), !.surfPool = PoolRemove(@, gone),
                  !.surfCount = @ - Cardinality(gone), !.surf = Without(@, gone)]

\* Mutant: the context's slot is not emptied.
RemoveContextsDangling(a, S) == [a EXCEPT !.ctx = Without(@, S)]

\* destroyContextInternal: the bound surfaces stay in their pool.
RemoveContexts(a, S) ==
    [a EXCEPT !.ctxPool = PoolRemove(@, S), !.ctxCount = @ - Cardinality(S \cap Live(a)),
              !.ctx = Without(@, S)]

\* contextBindSurface, whose array may have to grow and may fail to.
Full(x) == Cardinality(x.bound) = x.room
Bind(x, s, memory) ==
    IF Full(x) /\ ~memory THEN x
    ELSE [x EXCEPT !.bound = @ \cup {s},
                   !.room = IF ~Full(x) THEN @ ELSE IF @ = 0 THEN BindCapacity ELSE 2 * @]

AddSurface(a, c, res, memory) ==
    LET s == a.nextSurf + 1
    IN  [a EXCEPT !.surfPool = PoolAdd(@, a.surfCount, s), !.surfCount = @ + 1,
                  !.nextSurf = s, !.surf = With(@, s, res),
                  !.ctx[c] = Bind(@, s, memory)]

Unbind(a, c, s) == [a EXCEPT !.ctx[c].bound = @ \ {s}]

RemoveSurfaces(a, S) ==
    [a EXCEPT !.surfPool = PoolRemove(@, S), !.surfCount = @ - Cardinality(S),
              !.surf = Without(@, S)]

----------------------------------------------------------------------------
(* The device, as VMVirtIOGPU drives it. *)

\* Mutant: createRenderContext keeps the list that its TODO asks for.
createRenderContextTracked(d) ==
    [d EXCEPT !.next = @ + 1, !.ctxs = @ \cup {d.next + 1}, !.tracked = @ \cup {d.next + 1}]

\* Mutant: the id is taken before the counter moves.
createRenderContextStale(d) == [d EXCEPT !.ctxs = @ \cup {d.next}]

\* createRenderContext does not add the context to m_contexts.
createRenderContext(d) == [d EXCEPT !.next = @ + 1, !.ctxs = @ \cup {d.next + 1}]

\* destroyRenderContext sends the command only for a context in m_contexts.
destroyRenderContexts(d, S) ==
    [d EXCEPT !.ctxs = @ \ (S \cap d.tracked), !.tracked = @ \ S]

\* deallocateResource, for the resources in S: those in lost stay on the
\* device, their command having failed or timed out.
deallocateResources(d, S, lost) == [d EXCEPT !.res = @ \ (S \ lost)]

----------------------------------------------------------------------------
(* Calls. *)

Others(t) == {u \in Threads \ {t} : Owner[u] = Owner[t] /\ thr[u].pc # "idle"}

\* A thread starts a call.
Calls(t) ==
    /\ thr[t].pc = "idle" /\ ~stopped
    /\ calls < MaxCalls /\ calls' = calls + 1
    /\ overlap' = IF Others(t) = {} THEN overlap ELSE overlap \cup {Owner[t]}

Goes(t, pc) == thr' = [thr EXCEPT ![t].pc = pc]
Returns(t) == thr' = [thr EXCEPT ![t] = Idle]
GoesOn(t, pc, c) == thr' = [thr EXCEPT ![t] = [Idle EXCEPT !.pc = pc, !.c = c]]

IsClient(t) == Owner[t] \in Clients
Mine(t) == cli[Owner[t]]

\* The contexts a caller may name: a client its own, the kernel those it created.
Names(t, c) ==
    \/ IsClient(t) /\ Mine(t).has /\ ~Mine(t).closed /\ c = Mine(t).id /\ c \in Live(acc)
    \/ Owner[t] = Kernel /\ c \in Live(acc) /\ acc.ctx[c].owner = Kernel

\* Mutant: m_has_context is not looked at.
sCreate3DContextUnchecked(t) ==
    /\ IsClient(t) /\ Calls(t)
    /\ ~Mine(t).closed
    /\ Goes(t, "create")
    /\ UNCHANGED <<core, cli, stopped, ghosts>>

\* sCreate3DContext: one context a client.
sCreate3DContext(t) ==
    /\ IsClient(t) /\ Calls(t)
    /\ ~Mine(t).closed /\ ~Mine(t).has
    /\ Goes(t, "create")
    /\ UNCHANGED <<core, cli, stopped, ghosts>>

\* create3DContext, all under m_lock.  What was made on the device is undone
\* when the context has no memory or no slot; the slot costs an id.
create3DContext(t) ==
    /\ \/ thr[t].pc = "create" /\ UNCHANGED <<calls, overlap>>
       \/ Owner[t] = Kernel /\ Calls(t)
    /\ acc.nextCtx < MaxContexts /\ dev.next < MaxDeviceContexts
    /\ \/ /\ dev' = [dev EXCEPT !.next = @ + 1]
          /\ Returns(t)
          /\ UNCHANGED <<acc, cli>>
       \/ LET d == createRenderContext(dev) IN
          /\ dev' = destroyRenderContexts(d, {d.next})
          /\ \/ UNCHANGED acc
             \/ Slots(acc.ctxPool) = {} /\ acc' = [acc EXCEPT !.nextCtx = @ + 1]
          /\ Returns(t)
          /\ UNCHANGED cli
       \/ /\ dev' = createRenderContext(dev)
          /\ acc' = AddContext(acc, dev'.next, Owner[t])
          /\ IF IsClient(t)
             THEN cli' = [cli EXCEPT ![Owner[t]].id = acc'.nextCtx] /\ Goes(t, "created")
             ELSE Returns(t) /\ UNCHANGED cli
    /\ UNCHANGED <<stopped, ghosts>>

\* Back in sCreate3DContext: m_has_context = true.
haveContext(t) ==
    /\ thr[t].pc = "created"
    /\ cli' = [cli EXCEPT ![Owner[t]].has = TRUE]
    /\ Returns(t)
    /\ UNCHANGED <<core, stopped, calls, history>>

\* Mutant: any context can be named.
sDestroy3DContextAny(t) ==
    /\ IsClient(t) /\ Calls(t)
    /\ Mine(t).has /\ ~Mine(t).closed
    /\ \E c \in Live(acc) : GoesOn(t, "destroy", c)
    /\ UNCHANGED <<core, cli, stopped, ghosts>>

\* sDestroy3DContext: the id must be the client's own.
sDestroy3DContext(t) ==
    /\ IsClient(t) /\ Calls(t)
    /\ Mine(t).has /\ ~Mine(t).closed
    /\ GoesOn(t, "destroy", Mine(t).id)
    /\ UNCHANGED <<core, cli, stopped, ghosts>>

\* clientClose, also for clientDied: without a context the client just ends.
clientClose(t) ==
    /\ IsClient(t) /\ Calls(t)
    /\ ~Mine(t).closed
    /\ IF Mine(t).has THEN Goes(t, "close") /\ UNCHANGED cli
                      ELSE cli' = [cli EXCEPT ![Owner[t]].closed = TRUE] /\ UNCHANGED thr
    /\ UNCHANGED <<core, stopped, ghosts>>

Looking == {"findDraw", "findBegin", "findEnd", "findReturn"}
Walking(t) == thr[t].size # 0
Races(S) == raced' = (raced \/ (S # {} /\ \E u \in Threads : thr[u].pc \in Looking /\ Walking(u)))

\* destroyContextInternal, for contexts that exist.
Destroyed(S) ==
    /\ acc' = RemoveContexts(acc, S)
    /\ dev' = destroyRenderContexts(dev, {acc.ctx[c].gpu : c \in S})
    /\ given' = {p \in given : p[1] \notin S}
    /\ Races(S)

\* destroy3DContext, under m_lock.  clientClose reads m_context_id here and
\* does not look at the result.
destroy3DContext(t) ==
    LET S == (CASE thr[t].pc = "destroy" -> {thr[t].c} [] thr[t].pc = "close" -> {Mine(t).id})
             \cap Live(acc)
    IN  /\ thr[t].pc \in {"destroy", "close"}
        /\ Destroyed(S)
        /\ IF thr[t].pc = "close" THEN Goes(t, "closed")
           ELSE IF S # {} THEN Goes(t, "destroyed") ELSE Returns(t)
        /\ UNCHANGED <<cli, stopped, calls, overlap, unbound, ended, stray, forgotten, crossed,
                       faults>>

\* The same call from the kernel.
kernelDestroy(t, c) ==
    /\ Owner[t] = Kernel /\ Calls(t)
    /\ Names(t, c)
    /\ Destroyed({c})
    /\ UNCHANGED <<cli, thr, stopped, unbound, ended, stray, forgotten, crossed, faults>>

\* Back in the client: the context is gone; clientClose then terminates.
forgetContext(t) ==
    /\ thr[t].pc \in {"destroyed", "closed"}
    /\ cli' = [cli EXCEPT ![Owner[t]] = [has |-> FALSE, id |-> 0,
                                         closed |-> @.closed \/ thr[t].pc = "closed"]]
    /\ Returns(t)
    /\ UNCHANGED <<core, stopped, calls, history>>

----------------------------------------------------------------------------
(* Surfaces, under m_lock. *)

\* A surface made for the caller, bound to its context if there was memory.
Handed(c, S) ==
    /\ given' = given \cup {<<c, s>> : s \in S}
    /\ unbound' = unbound \cup (S \ acc'.ctx[c].bound)

\* Mutant: a surface that finds no slot keeps its resource.
create3DSurfaceLeaky(t, c) ==
    /\ Calls(t) /\ Names(t, c)
    /\ acc.nextSurf < MaxSurfaces
    /\ LET r == dev.nextRes + 1 IN
       /\ dev' = [dev EXCEPT !.nextRes = r, !.res = @ \cup {r}]
       /\ \/ /\ acc' = [acc EXCEPT !.nextSurf = @ + 1]
             /\ UNCHANGED <<given, unbound>>
          \/ \E memory \in BOOLEAN :
             acc' = AddSurface(acc, c, r, memory) /\ Handed(c, {acc'.nextSurf})
    /\ UNCHANGED <<cli, thr, stopped, ended, stray, forgotten, crossed, raced, faults>>

\* create3DSurface: the resource first, then the object, its memory and its
\* slot, any of which may fail; a command that fails may leave the resource,
\* and the result of binding is not looked at.  The id is written to the
\* surface's copy of the info only: the caller is not told it.
create3DSurface(t, c) ==
    /\ Calls(t) /\ Names(t, c)
    /\ acc.nextSurf < MaxSurfaces
    /\ LET r == dev.nextRes + 1
           made == [dev EXCEPT !.nextRes = r, !.res = @ \cup {r}]
       IN  \/ \E lost \in SUBSET {r} :
              /\ dev' = deallocateResources(made, {r}, lost)
              /\ forgotten' = forgotten \cup lost
              /\ acc' \in {acc, [acc EXCEPT !.nextSurf = @ + 1]}
              /\ UNCHANGED <<given, unbound>>
           \/ \E memory \in BOOLEAN :
              /\ acc' = AddSurface(acc, c, r, memory)
              /\ dev' = made
              /\ Handed(c, {acc'.nextSurf})
              /\ UNCHANGED forgotten
    /\ UNCHANGED <<cli, thr, stopped, ended, stray, crossed, raced, faults>>

\* destroy3DSurface, which only the kernel's callers reach (the client's
\* method of that name does nothing): the surface may be another context's,
\* whose binding stays, and the device's resource stays.  The callers there
\* are name 0, what create3DSurface leaves in their info: nothing is found.
destroy3DSurface(t, c, s) ==
    /\ Owner[t] = Kernel /\ Calls(t) /\ Names(t, c)
    /\ IF s \notin Surfaces(acc) THEN UNCHANGED <<acc, given, forgotten, crossed>>
       ELSE /\ acc' = RemoveSurfaces(Unbind(acc, c, s), {s})
            /\ given' = {p \in given : p[2] # s}
            /\ forgotten' = forgotten \cup ({acc.surf[s]} \ {0})
            /\ crossed' = IF \E d \in Live(acc) \ {c} : s \in acc.ctx[d].bound
                          THEN crossed \cup {s} ELSE crossed
    /\ UNCHANGED <<dev, cli, thr, stopped, unbound, ended, stray, raced, faults>>

\* Mutant: the colour surface is freed but not unbound.
destroySurfaceInternalBound(a, c, s) == RemoveSurfaces(a, {s})

destroySurfaceInternal(a, c, s) == RemoveSurfaces(Unbind(a, c, s), {s})

\* createSurfaceInternal makes a surface without a resource; it may fail
\* after taking an id.
createSurfaceInternal(a, c) == {AddSurface(a, c, 0, memory) : memory \in BOOLEAN}
failedSurface(a) == {a, [a EXCEPT !.nextSurf = @ + 1]}

\* createFramebuffer: a colour surface, a depth surface or both; when the
\* depth surface fails the colour surface is taken back.
createFramebuffer(t, c) ==
    /\ Owner[t] = Kernel /\ Calls(t) /\ Names(t, c)
    /\ acc.nextSurf + 2 <= MaxSurfaces
    /\ \/ /\ acc' \in failedSurface(acc)
          /\ UNCHANGED <<given, unbound>>
       \/ \E a \in createSurfaceInternal(acc, c) :
          LET s == a.nextSurf IN
          \/ acc' = a /\ Handed(c, {s})
          \/ /\ acc' \in {destroySurfaceInternal(b, c, s) : b \in failedSurface(a)}
             /\ UNCHANGED <<given, unbound>>
          \/ acc' \in createSurfaceInternal(a, c) /\ Handed(c, {s, s + 1})
    /\ UNCHANGED <<dev, cli, thr, stopped, ended, stray, forgotten, crossed, raced, faults>>

\* A command for context c, executed in the device context its
\* gpu_context_id names now.
Strays(a, c) ==
    IF \E d \in Live(a) \ {c} : a.ctx[d].born = a.ctx[c].gpu THEN {c} ELSE {}

\* submit3DCommands; the present call's command goes the same way.
submit3DCommands(t, c) ==
    /\ Calls(t) /\ Names(t, c)
    /\ stray' = stray \cup Strays(acc, c)
    /\ UNCHANGED <<core, cli, thr, stopped, given, unbound, ended, forgotten, crossed, raced,
                   faults>>

----------------------------------------------------------------------------
(* Calls that walk the pools without m_lock. *)

\* Draws, the shader and texture calls, and passes look their context up.
Lookup(t, op, c) ==
    /\ Owner[t] = Kernel /\ Calls(t) /\ Names(t, c)
    /\ GoesOn(t, op, c)
    /\ UNCHANGED <<core, cli, stopped, ghosts>>

Fault(kinds) == faults' = faults \cup kinds
Gone(t) == thr[t].c \notin Live(acc)

\* A walk reads the array, and an entry of it whose object it is about to
\* read.  Entries before and after that are read in time leave no trace.
Walks(t, pc, size, entries) ==
    \E x \in {0} \cup entries :
       thr' = [thr EXCEPT ![t].pc = pc, ![t].size = size, ![t].held = x]

\* The memory the walk reads next is gone: the array if the pool has grown,
\* the object of the entry if it was freed.
Moved(t, pool) == thr[t].size # Len(pool)
Freed(t, objects) == thr[t].held \notin {0} \cup objects

\* findContext walks up to the context: at the start of a call, and again
\* in returnCommandBuffer at the end of a pass.
findContext(t) ==
    LET pool == acc.ctxPool
        entries == {pool[i] : i \in {j \in DOMAIN pool : \A k \in 1 .. j - 1 : pool[k] # thr[t].c}}
    IN  /\ \/ thr[t].pc \in Looking /\ ~Walking(t) /\ Walks(t, thr[t].pc, Len(pool), entries)
           \/ thr[t].pc = "finish" /\ Walks(t, "findReturn", Len(pool), entries)
        /\ UNCHANGED <<core, cli, stopped, calls, history>>

\* What findContext returns: the context, or nothing when it is gone; memory
\* that was freed may hold anything, so the walk may also pass the context
\* by, or take what it reads there for it.  Shader and texture calls need
\* no more than the answer.
foundContext(t) ==
    LET op == thr[t].pc
        freed == Freed(t, Live(acc))
        moved == Moved(t, acc.ctxPool)
        found == (IF Gone(t) /\ ~moved THEN {} ELSE {thr[t].c})
                     \cup (IF freed THEN {thr[t].held} ELSE {})
    IN  /\ op \in Looking /\ Walking(t)
        /\ Fault((IF freed THEN {"freedEntry"} ELSE {}) \cup (IF moved THEN {"movedPool"} ELSE {}))
        /\ \/ op = "findReturn" /\ GoesOn(t, "finish", thr[t].c)
           \/ /\ op # "findReturn" /\ (op = "findDraw" \/ freed \/ moved \/ Gone(t))
              /\ Returns(t)
           \/ \E c \in found, pc \in {"draw", "begin", "end"} :
              /\ <<op, pc>> \in {<<"findDraw", "draw">>, <<"findBegin", "begin">>, <<"findEnd", "end">>}
              /\ GoesOn(t, pc, c)
        /\ UNCHANGED <<core, cli, stopped, calls, overlap, marks>>

\* beginRenderPass looks the surface of its framebuffer up, endRenderPass
\* walks all surfaces for each of the eight texture units.
walkSurfaces(t) ==
    /\ \E w \in {<<"begin", "beginWalk">>, <<"collect", "endWalk">>} :
          /\ thr[t].pc = w[1]
          /\ Walks(t, w[2], Len(acc.surfPool), Filled(acc.surfPool))
    /\ UNCHANGED <<core, cli, stopped, calls, history>>

\* The walk ends; a surface it read is used.
walkedSurfaces(t) ==
    /\ thr[t].pc \in {"beginWalk", "endWalk"}
    /\ Fault((IF Freed(t, Surfaces(acc)) THEN {"freedSurface"} ELSE {})
             \cup (IF Moved(t, acc.surfPool) THEN {"movedPool"} ELSE {}))
    /\ GoesOn(t, IF thr[t].pc = "beginWalk" THEN "command" ELSE "collect", thr[t].c)
    /\ UNCHANGED <<core, cli, stopped, calls, overlap, marks>>

\* The context that was looked up is used.
Uses(t) == Fault(IF Gone(t) THEN {"freedContext"} ELSE {})

\* drawPrimitives reads gpu_context_id; without commands nothing is sent.
drawPrimitives(t) ==
    /\ thr[t].pc = "draw"
    /\ Uses(t)
    /\ Returns(t)
    /\ UNCHANGED <<core, cli, stopped, calls, overlap, marks>>

\* beginRenderPass: a command, and active = true.
beginRenderPass(t) ==
    /\ thr[t].pc \in {"begin", "command"}
    /\ Uses(t)
    /\ IF Gone(t) THEN UNCHANGED <<acc, stray>>
       ELSE /\ acc' = [acc EXCEPT !.ctx[thr[t].c].active = TRUE]
            /\ stray' = stray \cup Strays(acc, thr[t].c)
    /\ Returns(t)
    /\ UNCHANGED <<dev, cli, stopped, calls, overlap, given, unbound, ended, forgotten, crossed,
                   raced>>

\* endRenderPass: the fence id is made by adding one to gpu_context_id, and
\* the command is sent to the context of that number.  Without memory for
\* the command there is no fence, and the collection is skipped unless the
\* legacy framebuffer finishes the pass.
endRenderPass(t) ==
    LET c == thr[t].c IN
    /\ thr[t].pc = "end"
    /\ Uses(t)
    /\ \/ /\ acc' = IF Gone(t) THEN acc
                    ELSE [acc EXCEPT !.ctx[c].gpu = @ + 1]
          /\ ended' = ended \cup {c}
          /\ stray' = IF Gone(t) THEN stray ELSE stray \cup Strays(acc', c)
          /\ Goes(t, "collect") \/ Goes(t, "finish")
       \/ /\ Goes(t, "collect") \/ Goes(t, "finish")
          /\ UNCHANGED <<acc, ended, stray>>
    /\ UNCHANGED <<dev, cli, stopped, calls, overlap, given, unbound, forgotten, crossed, raced>>

\* Mutant: only an active context keeps its surfaces.
LostActive(a) ==
    {s \in Surfaces(a) : \A c \in Live(a) : a.ctx[c].active => s \notin a.ctx[c].bound}

\* Surfaces that no context has bound.
Lost(a) == {s \in Surfaces(a) : \A c \in Live(a) : s \notin a.ctx[c].bound}

\* garbageCollectTextures, under m_lock: frees the surfaces that have lost
\* their context, with their resources, and drops bindings to no surface.
garbageCollectTextures(t) ==
    /\ thr[t].pc = "collect"
    /\ LET a == RemoveSurfaces(acc, Lost(acc)) IN
       acc' = [a EXCEPT !.ctx = [c \in Live(a) |-> [a.ctx[c] EXCEPT !.bound = @ \cap Surfaces(a)]]]
    /\ \E lost \in SUBSET ({acc.surf[s] : s \in Lost(acc)} \ {0}) :
          /\ dev' = deallocateResources(dev, {acc.surf[s] : s \in Lost(acc)}, lost)
          /\ forgotten' = forgotten \cup lost
    /\ Goes(t, "finish")
    /\ UNCHANGED <<cli, stopped, calls, overlap, given, unbound, ended, stray, crossed, raced,
                   faults>>

\* The end of endRenderPass: active = false.
finishPass(t) ==
    /\ thr[t].pc = "finish"
    /\ Uses(t)
    /\ acc' = IF Gone(t) THEN acc
              ELSE [acc EXCEPT !.ctx[thr[t].c].active = FALSE]
    /\ Returns(t)
    /\ UNCHANGED <<dev, cli, stopped, calls, overlap, marks>>

\* stop, under m_lock: every context is destroyed and every surface freed.
stop ==
    /\ ~stopped /\ stopped' = TRUE
    /\ LET a == RemoveContexts(acc, Live(acc)) IN
       acc' = [a EXCEPT !.surfPool = PoolRemove(@, Surfaces(a)), !.surfCount = 0, !.surf = <<>>]
    /\ dev' = destroyRenderContexts(dev, {acc.ctx[c].gpu : c \in Live(acc)})
    /\ given' = {} /\ Races(Live(acc))
    /\ forgotten' = forgotten \cup ({acc.surf[s] : s \in Surfaces(acc)} \ {0})
    /\ UNCHANGED <<cli, thr, calls, overlap, unbound, ended, stray, crossed, faults>>

Next ==
    \/ stop
    \/ \E t \in Threads :
          \/ sCreate3DContext(t) \/ create3DContext(t) \/ haveContext(t)
          \/ sDestroy3DContext(t) \/ clientClose(t) \/ destroy3DContext(t) \/ forgetContext(t)
          \/ findContext(t) \/ foundContext(t) \/ walkSurfaces(t) \/ walkedSurfaces(t)
          \/ drawPrimitives(t) \/ beginRenderPass(t)
          \/ endRenderPass(t) \/ garbageCollectTextures(t) \/ finishPass(t)
          \/ \E c \in Live(acc) :
                \/ kernelDestroy(t, c) \/ create3DSurface(t, c) \/ createFramebuffer(t, c)
                \/ submit3DCommands(t, c)
                \/ \E s \in {0} \cup Surfaces(acc) : destroy3DSurface(t, c, s)
                \/ \E op \in Looking \ {"findReturn"} : Lookup(t, op, c)

Spec == Init /\ [][Next]_vars

----------------------------------------------------------------------------
(* Properties. *)

\* The counters, the pools and the clients hold values of their kinds.
TypeOK ==
    /\ acc.nextCtx \in 1 .. MaxContexts /\ acc.nextSurf \in 1 .. MaxSurfaces
    /\ dev.next \in 1 .. MaxDeviceContexts
    /\ dev.tracked \subseteq dev.ctxs /\ dev.ctxs \subseteq 2 .. MaxDeviceContexts
    /\ \A k \in Clients : cli[k].id \in {0} \cup 2 .. MaxContexts
    /\ \A t \in Threads : thr[t].c \in {0} \cup 2 .. MaxContexts

\* The pools hold exactly the objects that exist, each once, and the counts
\* that the slot after growing is taken from are exact, so that adding to a
\* full pool overwrites nothing.
PoolExact ==
    /\ Filled(acc.ctxPool) = Live(acc) /\ Filled(acc.surfPool) = Surfaces(acc)
    /\ acc.ctxCount = Cardinality(DOMAIN acc.ctxPool \ Slots(acc.ctxPool))
    /\ acc.ctxCount = Cardinality(Live(acc))
    /\ acc.surfCount = Cardinality(DOMAIN acc.surfPool \ Slots(acc.surfPool))
    /\ acc.surfCount = Cardinality(Surfaces(acc))

\* A context made for a client is the one the client will destroy, and none
\* is left when the client is closed: unless two of its calls overlapped,
\* because m_has_context is tested and set without a lock.
LeakedContextExplained ==
    \A c \in Live(acc) : LET k == acc.ctx[c].owner IN
        k \in Clients \ overlap =>
            /\ cli[k].id = c /\ ~cli[k].closed
            /\ cli[k].has \/ \E t \in Threads : Owner[t] = k /\ thr[t].pc = "created"

\* The commands of one context reach the device context of another only
\* after endRenderPass, which counts up the gpu_context_id of its context.
StrayExplained == stray \subseteq ended

\* The device context a context was created with is there as long as the
\* context: destroying a context whose gpu_context_id was counted up does
\* not take another's device context away.
HostContextAlive == \A c \in Live(acc) : acc.ctx[c].born \in dev.ctxs

\* A surface made for a caller stays until a caller destroys it or its
\* context goes: a collection takes it only if binding it had failed.
GivenSurfaceLives ==
    \A p \in given : p[2] \in Surfaces(acc) \/ p[2] \in unbound

\* What a context has bound exists, so that no collection has anything to
\* drop from it: unless destroy3DSurface was called for another context.
BoundInPool == \A c \in Live(acc) : acc.ctx[c].bound \subseteq Surfaces(acc) \cup crossed

\* A resource the device holds for the accelerator belongs to a surface,
\* unless destroy3DSurface or stop() freed the surface, which both leave it,
\* or a command that makes or takes back a resource failed.
ResourceLeaksExplained ==
    dev.res = ({acc.surf[s] : s \in Surfaces(acc)} \ {0}) \cup forgotten

\* findContext reads a context that is gone only when one, whoever owned it,
\* was destroyed during a lookup.  A client's calls can do no more than that:
\* a surface that is gone is read, and the context a lookup found is used
\* after it was freed, only when the kernel's calls overlap or stop() comes,
\* or when the lookup itself read freed memory and found it there.
FaultsNeedRace ==
    /\ "freedEntry" \in faults => raced
    /\ "freedSurface" \in faults => Kernel \in overlap \/ stopped
    /\ "freedContext" \in faults =>
          Kernel \in overlap \/ stopped \/ {"freedEntry", "movedPool"} \cap faults # {}

\* The tables are sound: well typed, pools that hold each object once, and
\* contexts that have only existing surfaces bound.
PoolsKept == TypeOK /\ PoolExact /\ BoundInPool

\* Each context has its own device context to the end: its commands go there,
\* but for the named exception, and nobody else's destruction takes it away.
OwnDeviceContext == StrayExplained /\ HostContextAlive

\* What outlives its owner, in the kext or on the device, does so on a named path.
LeftoversExplained == LeakedContextExplained /\ ResourceLeaksExplained
=============================================================================
