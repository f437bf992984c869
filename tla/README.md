# VMQemuVGA: a TLA+ verification project

VMQemuVGA is a macOS kernel extension that drives a virtual GPU: the VirtIO GPU
(2D scanout, virgl 3D) and, on an older path, QXL/VGA. The program is `src/FB/`;
its core is `src/FB/VMVirtIOGPU.cpp`, which owns the device's queues, resources
and user clients and which every other part calls.

This directory holds TLA+ models of that core, TLC configurations that check them
on small instances, and proofs, checked by TLAPS, for every value of the
constants. `PROJECT.json` lists for each definition the source lines it models.

    tlc -config ControlQueue.cfg MCControlQueue     # one run
    tlapm ControlQueueProofs.tla                    # one module of proofs

## 1. Inventory

| Component | State | Operations | Module |
|---|---|---|---|
| Control virtqueue | vring, free list, ring indices, one command and one response buffer, `m_vq_lock` | `submitCommand` | `Vring`, `ControlQueue`, `CommandChannel` |
| Cursor virtqueue | a second vring, buffers and lock | `submitCursorCommand`, `updateCursor`, `moveCursor` | `Vring`, `CursorQueue` |
| Resource pool | `m_resource_pool` (64 slots), `m_resource_lock` | `createResource2D`, `createResource3D`, `attachBacking`, `deallocateResource` | `ResourcePool` |
| User client, winsys resources | `m_user_backings` (64 slots a client), wired descriptors | `createResource3DEx`, `attachBackingUser`, `detachBackingUser`, `resourceUnref`, `clientClose`, `free` | `Winsys` |
| User client, the rest | contexts by two counters, legacy surfaces, the attach probe's descriptor and ids | `createVirglContextEx`, `destroyVirglContextEx`, `submitVirglCommandsEx`, `ctxAttachResource`, `createSurface`, `destroySurface`, `probeAttachBackingUser`, `clientClose`, `stop`, `free` | `UserClient` |
| Bring-up and teardown | device status, enabled queues, mappings, buffers, ready flags | `init`, `start`, `initVirtIOGPU`, `setupControlVirtQueue`, `setupCursorQueue`, `stop`, `teardownControlVirtQueue`, `free` | `DeviceLifecycle` |
| Framebuffer | current mode and size, display resource, refresh timer, take-over flag | `enableController`, `setDisplayMode`, `setupFramebufferResource`, `displayRefreshTimer`, `open`, `close`, `stop`, `free`; `setscanout` | `Framebuffer` |
| IOSurface manager | surfaces, locks, ids, memory total, discovery and property caches, clients, shares | create, destroy, lock, evict, look up, convert, share | `SurfaceTable`, `IOSurfaceManager` |
| Accelerator and its 3D user client | context and surface pools, bindings, framebuffers, device contexts | the 3D selectors, render passes, `garbageCollectTextures`, `stop` | `Accelerator` |
| Command buffers, Phase 3 manager, texture and shader managers, Metal, OpenGL and CoreAnimation bridges, QXL/VGA path | object tables | - | not modelled (section 8) |
| AGDC, wrangler, VirtGLGL, GL plug-in, IONDRV blocker, IOGraphics, probes, packaging | - | - | not modelled (section 8) |

How they interact. Everything the driver tells the device goes through
`submitCommand`: a caller copies its command into `m_cmd_buf`, takes two
descriptors, publishes the chain and polls `used->idx` for up to 150 ms *with
`m_vq_lock` held*. The resource pool calls it up to three times inside one
operation with `m_resource_lock` held throughout, so the lock order is
`m_resource_lock` before `m_vq_lock`. The user client's selectors run on the
calling task's threads and take no lock of their own; `clientClose` runs when the
task closes the connection or dies, and `free` when the last reference goes. The
framebuffer's refresh timer is one more caller. Cursor commands have a queue and a
lock to themselves.

What is hard about it:

* **Timeouts that do not cancel.** A command that timed out stays on the avail
  ring and the device may execute it seconds later, by which time its
  descriptors and its buffer belong to another command.
* **Operations of several commands**, any one of which can fail, leaving the
  kext, the device and memory ownership to be reconciled.
* **Unlocked tables** in the user client, reached by all threads of a task.
* **A device that can stop**, under a driver that polls with locks held.
* **Limits**: 64 slots in either table, 16-bit indices, id counters with fixed
  starting points.

What makes each modelled component correct:

* queues: no exit path loses a descriptor, a caller gets the answer to its own
  command, a command runs once, a lock holder lets go;
* pool: one slot an id, one owner for each allocation, agreement with the device,
  no device address of released memory, no forgotten host resource;
* framebuffer: the live resource is the one the mode calls for, a failed mode change
  leaves nothing behind, the screen keeps being refreshed, and no callback outlives it;
* winsys and probe: pages are wired exactly as long as someone answers for them, and as
  long as the device has their addresses;
* contexts and surfaces: a client's are its own, and what it leaves behind is known;
* bring-up and teardown: a flag that says ready is true, a failed start and a stop leave
  nothing enabled and nothing allocated that is not accounted for;
* surface and accelerator tables: counters, pools and caches agree with the objects, and
  what a caller was given stays until it is given back.

## 2. Modules

`Vring` defines the free list and the index arithmetic both queues use: `PopFree`,
`PushFree`, `ReturnChain` (response descriptor first, as every exit path does),
indices that wrap modulo `IdxMod` (2^16 in the code) and are reduced modulo `Size`
to address a slot.

`ControlQueue` is `submitCommand`, one action for each stretch of code between two
points where the device or another caller can be seen to move:

| Action | Code |
|---|---|
| `Enter`, `Lock`, `Drain` | checks; `IOLockLock`; `m_vq_last_used = used->idx` |
| `Pop` | two descriptors off the free list, or `kIOReturnNoResources` |
| `Copy`, `CopyFails` | into `m_cmd_buf` or a buffer of the call's own; its failures |
| `Fill`, `Publish`, `Notify`, `NotifyMissing` | descriptors; avail ring and index; doorbell, or taking the chain back |
| `PollSees`, `TimesOut`, `Complete` | the poll loop's two exits; consuming one used entry and classifying the response |
| `DevTake`, `DevExecute`, `DevPush` | the device (external): read a chain, execute what is in the buffer *then*, push it |

A command's bytes are abstracted to the number of the submission that wrote them,
so that a response can be compared with the call that receives it. History
variables (`ran`, `reran`, `quiet`, `clean`, `abandoned`) influence no action.

`CommandChannel` is `submitCommand` as its callers meet it, for the modules above
it: `Send`, then `Answered` or `TimedOut`; the device executes *the command written
last*, once for each published chain. Two facts about `ControlQueue` justify this
form. Every call uses descriptors 0 and 1 and the shared buffer (`DescInv`, proved),
so whichever chain the device takes, it finds the last command written. And a chain
abandoned earlier can complete between the drain of the next call and its poll loop:
the channel has a `Push` that the drain skips and one that it misses. Commands are
assumed to fit `m_cmd_buf`, which those of the modelled callers do except an
`ATTACH_BACKING` of many segments; `ControlQueue` covers larger ones.

`ControlQueueRefinement` states that this is so: it instantiates `CommandChannel` with
what the ring, the buffer and the poll loop amount to (the last command written, the
number of chains not executed, whether `used->idx` has moved past the drain, the type in
`m_resp_buf`), and `ImplementsChannel` says that every step of `ControlQueue` is a step
of the channel or changes nothing the channel sees. Without the drain it is not.

`ResourcePool` composes the channel with the four routines that change
`m_resource_pool`. They hold `m_resource_lock` from first line to last, so one
runs at a time and `at` says where it is; other callers' commands (`OtherSend`)
and late executions interleave between its commands. Memory is named by the
operation that allocated it. `suspect` collects the ids that had a command time out
or go out into a backlog, `orphans` the ids an operation gave up on without an
UNREF.

`Winsys` composes the channel with the selectors by which a user-space winsys
manages resources and wired memory. Each unlocked read or write of the table is an
action (`AddScan`/`AddStore`, `RemoveFind`/`RemoveDrop`/`RemoveClear`), and so are
the load and the store of `m_next_user_resource_id++`. `Serial` says whether a
client overlaps its own calls.

`CursorQueue` is `submitCursorCommand`, which differs from `submitCommand`: no
drain, a missing doorbell only makes the call time out, no response is looked at.

`Framebuffer` composes the channel with `VMVirtIOFramebuffer`. Three threads share its
members without a lock: `ctl` makes IOFramebuffer's calls, `timer` runs the refresh
callback on the PCI device's work loop, `app` is a client that calls `setscanout`.

| Action | Code |
|---|---|
| `StartEnds` | the end of `start()`: fixed buffer, `filterModesByAllocation`; calls may precede it, since the service is registered earlier |
| `setDisplayMode`, `enableController` | their entry; then `SetWidth`/`SetHeight` (two stores) and the steps below |
| `SetupBegin` ... `ScanoutFlag`, `SendUnref`, `TornDown` | `setupFramebufferResource`: guard, teardown, create, attach, scanout, flag |
| `ProbeRecreate`, `SendNegative`, `SendProbes`, `SendFirst`, `Arm` | the rest of `enableController` |
| `open`, `close`, `stop`, `Stopped`, `ReleaseTimer`, `Freed` | the end of the timer, in two steps (cancel, then clear) |
| `Fire`, `RefCheck`, `RefCount`, `RefSend`, `RefAnswer`, `TimerDone`, `Rearm` | `displayRefreshTimer` and `refreshDisplay`, which `setDisplayMode` runs too |
| `AppSetScanout`, `AppAnswer`, `AppFlag`, `AppUnref` | selector 0x3007, whose scanout is the client's choice, and the end of the client's resource |

Of the pool it keeps only whether resource 1 has a slot. IOFramebuffer serialises the
calls of `ctl`, except that the driver's `close()` touches the timer before it enters
the base class; of the other calls only `enableController` touches the timer, and the
client that closes is the one whose `open()` runs it. A size is a pair; the buffer holds
`BufferSize` pixels. The device has two scanouts: 0, which the framebuffer uses, and one
more, which stands for all that only a client sets. The GPU helper, the timer and the buffer are assumed to exist (the
code only logs otherwise).

`DeviceLifecycle` is the life of a `VMVirtIOGPU` object, as a PCI driver (`service`) or as
the framebuffer's helper (`helper`). One thread goes through `init`, `start` and, if that
succeeded, `stop` and `free`, with one action for each stretch that allocates, maps or
tells the device something, and every allocation and mapping free to fail; callers of
`submitCommand` and `submitCursorCommand` are reduced to the points where they test a
flag, take the lock, use memory, test `m_notify_map`, and ring the doorbell through it. A
queue is the set of objects it needs (`QueueMem`); a caller that uses one that is gone is
in `fault`, and one that writes through a mapping that is gone in `badbell`. The clean-up
releases `m_notify_map` and clears it in two steps. The retain count of the cached BAR
mapping is kept as the number it is.

`SurfaceTable` is the surface table of `VMIOSurfaceManager`: objects, the dictionary and
the array that hold them, the discovery cache, the property cache, the recycled ids and
the memory total. `IOSurfaceManager` adds the clients and the shares. The calls hold
`m_surface_lock`, so each is one action. `getSurfaceDescriptor` and the cache maintenance
take no lock:

| Action | Code |
|---|---|
| `DescriptorFind`, `DescriptorPrefetch`, `DescriptorStore` | `findSurface`: scan, dictionary read, store of the next id's pointer and of the id's own |
| `DescriptorRead`, `DescriptorFile` | the property cache or the object itself; the descriptor filed |
| `prewarmDiscoveryCache`, `PrewarmStore` | test of the room and dictionary read; the store, past the end if the room is gone |
| `cachesCollide` | two threads that change the caches at the same time (`torn`) |

`reader` is the thread that has such a call in progress, with the pointer it holds; any
locked operation or flush may come between two of its steps. The discovery cache keeps
pointers that `destroySurface` does not purge; a pointer is the number of the creation it
came from, and following one to a freed object finds what was left there or any object
allocated since (`Reuse`). The action then goes on as the code does with what it found, and
`misled`, `wild`, `gone` and `changed` record that it did. `fillSurface`,
`fillSurfaceRegion` and `copySurfaceRegion` ask for `base_address` only, which
`destroySurface` leaves set; `wild` records that they wrote to, or copied from, memory that
was released. The manager is created by nothing but the phase 3 manager, so the model takes
it as a library that is called in any order.

`Accelerator` is `VMQemuVGAAccelerator` with its 3D user client and the device contexts
behind it. Operations under `m_lock` are one action; the test and the store of
`m_has_context` are two. The pools are sequences with holes and separately kept counts, as in
the code. `destroyRenderContexts` looks in `m_contexts`, which nothing fills
(`src/FB/VMVirtIOGPU.cpp:3314`), and so finds nothing: no device context is ever destroyed.

Draws, shader and texture calls and render passes walk the pools without `m_lock`.
`findContext`/`foundContext` (the start of each of them, and `returnCommandBuffer` at the
end of a pass, `VMQemuVGAAccelerator.cpp:3622`) and `walkSurfaces`/`walkedSurfaces` are the
beginning and the end of such a walk: it remembers the array it started on and one entry it
read there, and what has become of them is found out at the end. That one entry stands for
all: the walk chooses any entry it passes, or none. A walk that read freed memory may answer
anything the code can make of it: nothing, the context, or the freed object itself.

`create3DSurface` writes the new id into its own copy of the info (`:569`), so callers never
learn it: `destroy3DSurface` is called with surface 0, which it does not find, and what was
made stays until its context is gone and a collection or `stop` comes. Callers could pass
any id, and `destroy3DSurface` does not ask whose the surface is (`:4026`), so the model
lets them; `crossed` holds the surfaces destroyed through another context. A command that
fails to free a resource leaves it on the device (`forgotten`).

`UserClient` composes the channel with what clients of `VMVirtIOGPUUserClient` make
besides winsys resources. A slot is a call in flight, and the calls of one client and
its `clientClose` may overlap, since nothing locks.

| Action | Code |
|---|---|
| `createVirglContextEx`, `Bump` | load and store of `s_next_user_ctx_id++` |
| `createRenderContext` | selectors 1, 0x2000, 0x3002 and 0x4004; the driver's counter, `m_context_lock` |
| `destroy3DContext`, `destroyVirglContextEx`, `submitVirglCommandsEx`, `ctxAttachResource` | a stub that answers success; one command each |
| `createSurface`, `Advance`, `MakeSurface`, `destroySurface` | the client's own counter, then `createResource2D` of `surface_id \| 0x10000` |
| `probePhase1`, `AfterA` ... `AfterE`, `probePhase2`, `AfterF`, `AfterU`, `AfterX` | the 0x5000 probe, one step after each command |
| `clientClose`, `stop`, `free` | the probe's clean-up, with the device or without |

The `MC*` modules hold instance constants only, and three of them a view under which
states that differ only in a command already executed or an answer already taken are one.

## 3. Runs

| Run | Instance | Checks |
|---|---|---|
| `control_queue` | 2 threads, 4 submissions, 2 descriptors, indices mod 4, backlog 2 | safety of `submitCommand` |
| `control_queue_live` | 2 threads, 3 submissions, fair | `LockReleased`, `ImplementsChannel` |
| `cursor_queue` | 2 threads, 5 commands, 2 descriptors, indices mod 4 | safety and `CursorLockReleased` |
| `resource_pool` | 3 ids, 2 slots, 4 operations, backlog 2 | safety of the pool, `LiveSlotsKept` |
| `winsys` | 2 serial clients, 2 slots each, 2 ids, 4 calls, backlog 2 | safety of the backing tables |
| `winsys_race` | 1 client, 2 threads of it | expected violation |
| `framebuffer` | 3 calls of `ctl`, 1 of the client, 3 modes (one too large) | safety of the framebuffer |
| `framebuffer_live` | 2 calls of `ctl`, 1 late command, fair | `RefreshGoesOn`, `CallsReturn` |
| `device_lifecycle` | either mode, any failure, 2 callers, 3 calls | safety of bring-up and teardown |
| `iosurface` | 2 ids, 3 creations, 6 operations, 2 formats, caches of 2, limit 4 with sizes 2 and 5 | safety of the surface table |
| `accelerator` | 1 client with 2 threads, 2 kernel callers, 4 calls, pools that start with 1 slot | safety of the accelerator |
| `user_client` | 2 clients, 2 calls in flight, 3 calls, 1 timeout | safety of contexts, surfaces and probe |

What the passing runs show.

* *Control queue.* `FreeListIntact`: no exit path loses, duplicates or reorders a
  descriptor.
  `OwnResponseWhenQuiet`, `QuietExactlyOnce`: a call that found no backlog gets its
  own response, and its command runs once, whatever timed out before. `IdCheckBlind`:
  the check `used_elem->id != cmd_desc` can never fire, so it does not detect a stale
  completion. `FreedReadNeedsAbandoned`: a released temporary buffer is read only after
  some call was abandoned. `ImplementsChannel`: the models above the channel may use it.
* *Cursor queue.* `CursorRingKept`: all descriptors are free between calls, and each timeout leaves `last_used` one behind for
  good. `LostOnlyAfterTimeout`: an update reported as successful that the device never
  saw has a timed-out one before it.
* *Pool.* `PoolUnique` and `BackingAccounted` hold unconditionally. `HostAgrees` (what
  the pool tracks exists, what exists has no released memory) and `OrphansExplained` hold for an id none of whose commands
  timed out or met a backlog; the last names the three exits that leave a host
  resource nobody tracks: no memory for the backing, a failed attach, a 3D create with
  a full pool.
* *Winsys.* `BackingsAccounted`: for serial clients a descriptor is wired exactly as long
  as a slot or a running call holds it, and none is completed twice.
  `DanglingExplained`: for an id free of timeouts, the device is left with unwired
  pages only by a full table, by the release at the start of `resourceUnref`, or by a
  client that closed. (So the header's "can rely on wiring holding across calls",
  `src/FB/VMVirtIOGPU.h:659`, is true only short of those and of timeouts.)
  No client ever holds two backings for one id, although the duplicate check and the
  store are separated by a command.
* *Framebuffer.* `DisplayResourceTrue`: as long as no command
  is late, `m_fb_resource_id`, pool, device, size and mode agree whenever no call runs,
  whichever of a mode change's commands failed; in particular `enableController` may
  overwrite the size before the idempotency guard looks at it. `TakeoverAgrees`: without
  overlapping `setscanout` calls the flag tells what the screen set *last* shows, which need
  not be the framebuffer's. `OneStrayCallback`: after
  `close()` at most one callback still runs. `RefreshGoesOn`: neither a failed transfer
  nor a size read in the middle of a mode change is the last refresh. `CallsReturn`:
  every call returns although the timer competes for `m_vq_lock`. (The model has no
  `m_resource_lock`; that no two calls wait for each other's lock was read from the code,
  where `m_resource_lock` is always taken first.)
* *Bring-up and teardown.* `ReadyStateTrue`: a queue whose flag is set has all its memory
  and is enabled, whatever failed on the way. `FaultsExplained`: only a call that had
  passed the check when `stop` cleared the flag can find memory gone (or any call, if
  `m_vq_lock`, which `init` does not check, was never allocated), and only one that is in
  progress between the release and the clearing of `m_notify_map` can ring the doorbell
  through a mapping that is gone. Cursor calls are among the latter, and may enter at that
  very moment: their flag stands until `free`. `DeviceStateExplained`:
  the device keeps a queue over released memory in two cases, the cursor queue after
  `free`, and a control queue whose command buffers could not be allocated (the comment
  "Cleanup will handle partial init", `src/FB/VMVirtIOGPU.cpp:1900`, overlooks that
  teardown disables a queue only if its flag was set); and `DRIVER_OK`, which is set early
  to read the configuration, does not survive into a device without queues.
  `MemoryExplained`: after `stop` and `free` three things are left, `m_vq_lock`, the
  256 MB of `initializeWebGLAcceleration` and the first notify mapping.
* *IOSurface manager.* `AccountsKept`: counters follow the table even though stale
  pointers reach `destroySurface`; only eviction, which subtracts sizes and keeps the
  memory, makes the total wrong, and may then admit a surface larger than the limit.
  `MemoryStaysMapped`: a locked surface keeps its memory, and fills and region copies use
  released memory only for an id that is stale. An id is stale when it was destroyed since
  the last flush, or before it while an unlocked lookup or prewarm held its pointer; all ids
  are after a destruction through a stale pointer or after two threads met in the caches.
  `LookupsCurrent`: for every other id a lookup is right, ids are not handed out twice, and a
  cached descriptor is wrong only after conversion or destruction. `SharesExplained`: short
  of the last two accidents, a share speaks of another surface or client only after its own
  is gone.
* *Accelerator.* `PoolsKept`: the pools hold each object once through growing and
  failures, and nothing is bound that does not exist. `OwnDeviceContext`: commands reach
  another's device context only after `endRenderPass`, which makes a fence id out of
  `++context->gpu_context_id`, and no destruction takes another's context away (it would,
  if the list of the TODO at `src/FB/VMVirtIOGPU.cpp:3314` were kept: that is a mutant).
  `LeftoversExplained`: contexts are left only by overlapping calls of one client, device
  resources only by `destroy3DSurface`, by `stop` and by a command that failed. `GivenSurfaceLives`: a collection takes
  a surface from its caller only if binding it had failed. `FaultsNeedRace`: a lookup reads
  every context on its way, so any client that destroys one can make it read freed memory, but
  only while the lookup runs. A freed surface is read only when calls of the kernel overlap or
  `stop` comes. The context that was looked up is used after it was freed only then too, or
  when the lookup itself met freed memory.
* *User client.* `ContextsKept`: clients' contexts are apart unless two calls were inside
  `s_next_user_ctx_id++` at once or the driver's counter has reached 0x100.
  `ContextLeaksExplained`: what stays on the device was kept secret (`createVirglContext`),
  only pretended to be destroyed (`destroy3DContext`), left by a client that closed, or had
  a late command; the probe's context goes on every path. `ProbePagesAccounted`,
  `ProbeDanglingExplained`: short of overlapping calls of one client, pages are wired while
  held; the device keeps their addresses after that only following a late command or a
  client that was stopped first (`free`'s clean-up "must run before m_gpu_device is cleared
  (in stop)", `:6534`, and runs after it). `SurfaceOneHolder`: the driver's duplicate check
  keeps surfaces of clients apart whose counters all start at 1.

### Bounds

A free list with two descriptors is the smallest that serves a call; more are never
reached, because the list is last-in-first-out (this is proved for every `Size`).
Index modulus 4 with 4 or 5 commands wraps the indices. Two submitters and a backlog
of 2 give an abandoned command and a current one, with a third behind them after a
second timeout. Two pool slots with three ids reach the full pool and a slot freed
below a live one; four operations reach create, time out, retry and overflow. Two
table slots with four calls of two clients reach a hole in front of a live entry, a
second attach and a close with pages wired (the full table of `AddScan` is not
reached, since there are no more ids than slots; the proof covers it); the clients, each with its thread, are
interchangeable. In `Framebuffer` two modes that fit, one wider and one higher, make a size read between
the two stores one that fits neither; a third does not fit the buffer; three calls reach
enable, change and close, or the two effective calls of `enableController` and one more;
an interval of 2 has ticks that refresh and ticks that do not. In `DeviceLifecycle` three
calls put one on each queue and one behind a lock. Six operations on two ids reach create,
destroy, create in the same place, look up and share; two surfaces of size 2 reach the limit,
and one of size 5 fits only after eviction. One unlocked call of the surface manager is in
progress at a time; what two at once do to the caches is `cachesCollide`, after which a lookup
may answer any object and entries are not tracked any more. Four calls of four threads
with pools of one slot and one binding reach growth, a failed binding, a collection and a
destruction during a walk. In `UserClient` a behaviour uses one group of selectors (`Mixes`), since contexts, surfaces
and probe share only the channel; three calls give a first phase, a second and another
client's first phase between them, or two racing creations and a use; `FirstUserCtx = 3`
puts the driver's counter one step from the users'; `SurfaceBit = 2` lets the third surface
of a client alias its first. Wrapping of the 32-bit counters themselves is not reached.
`MaxOutstanding < IdxMod` in `ControlQueue` is the only bound
that hides a behaviour: 2^16 commands timing out in a row, 2.7 hours of a dead device,
would alias the index comparison.

Deadlock is checked in every run but `device_lifecycle` and `accelerator`, where the
object may be gone and every caller with it; elsewhere behaviours that reached a bound
stutter in `Finished`. A run's invariant is often a conjunction of named parts, the module's
`TypeOK` among them; each part has a comment of its own.

### Fairness

Assumed only where the code guarantees progress. `ControlQueue` and `CursorQueue`:
a thread inside the critical section keeps running, since nothing in it waits except a
poll loop with a bound. `Framebuffer`: every thread keeps running and, since the kernel's
locks do not starve a waiter for ever, gets `m_vq_lock` in the end. The device is not assumed to do anything, except in `Framebuffer`, where the bound on late
commands would otherwise stop a call for want of a timeout: there it gets round to every
command, however late. `Framebuffer` also assumes that a timeout that is set expires.

## 4. Where the code and its comments disagree

**`winsys_race`** is the one run that is expected to fail
(`src/FB/VMVirtIOGPU.h:563`). The clean-up is there against leaking wired pages; two
attaches of one client that choose the same slot lose a descriptor, which no clean-up
completes.

Other disagreements met while modelling; the models have the code's behaviour, and the
properties state what holds in spite of it:

* `src/FB/VMVirtIOGPU.cpp:2026`: "After this, the poll loop only exits when the device
  processes OUR command". A command that timed out and completes after the drain makes it
  exit as well; `OwnResponseWhenQuiet` says when it cannot.
* `:3476`, "device truth wins": after an UNREF that was executed late, every further UNREF
  is an error and the slot is kept. `teardownFramebufferResource` ignores that error, and
  later mode sets are refused as duplicates of resource 1.
* `src/FB/VMVirtIOFramebuffer.cpp:1106`, `:238`, "Refresh timer handled by start() +
  enableController()": `close()` destroys the timer, and neither runs again.
* `src/FB/VMVirtIOFramebuffer.h:64`, "True when 3D app controls scanout": `setscanout` stores
  the flag whatever the scanout (`src/FB/VMVirtIOGPU.cpp:5966`) and selector 0x3007 passes the
  client's choice on. A client that shows a 3D resource on scanout 0 and then disables another
  scanout clears the flag, and the refresh resumes over its resource. Two overlapping calls
  can also store the flag in the opposite order of the device.
* `src/FB/VMVirtIOGPU.cpp:8127`, "Uses m_next_context_id": `createVirglContextEx` has a
  counter of its own.
* `src/FB/VMIOSurfaceManager.cpp:2469`, surfaces unused for "60 seconds" are evicted: the
  units of the comparison make it about 694 days.
* `src/FB/VMIOSurfaceManager.cpp:2877`: `compactSurfaceMemory` calls `destroySurface` with
  the lock held that `destroySurface` takes (`stuck` in the model).

## 5. Theorems

All proofs are in modules of their own, checked by `tlapm` to the last leaf. The only
assumptions are the named ones on the constants (`VringAssumption`,
`ControlQueueAssumption`, `CursorQueueAssumption`, `ChannelAssumption`,
`PoolAssumption`, `PoolCommandAssumption`, `LifecycleAssumption`,
`AcceleratorAssumption`, `FramebufferAssumption`, `FramebufferCommandAssumption`,
`LargestAssumption`, `SurfaceAssumption`, `ClientAssumption`, `UserClientAssumption`,
`ClientCommandAssumption`, `WinsysAssumption`, `WinsysCommandAssumption`), which the runs
evaluate on their instances, and two hypotheses, `SmallCommands` and `Serial`, each stated
with its theorem below and met by the instance of a passing run. Every invariant and action
property of the passing runs is proved. None of them is inductive; each paragraph names
what was added and why.

**`ControlQueueProofs`**: `TypeCorrect`, `FreeListTheorem`, `NeverExhaustedTheorem`,
`IdCheckTheorem`, `OwnResponseTheorem` and `ExactlyOnceTheorem` establish `TypeOK`,
`FreeListIntact`, `NeverExhausted`, `IdCheckBlind`, `OwnResponseWhenQuiet` and
`QuietExactlyOnce` for any number of threads, submissions and descriptors and any index
width. The invariant is built up in layers, each proved with the ones before it:

* `LockInv`: the owner of the lock is the thread in the critical section;
* `DescInv`: because the free list is a stack and calls are serialised, every call holds
  descriptors 0 and 1, and 0 is the only head that ever reaches a ring. This gives the
  free list, exhaustion and the id check;
* `IndexInv`: used, device and avail index are in cyclic order, at most
  `MaxOutstanding` apart;
* `AloneWithDevice`: a call that found no backlog is one ahead of the device, and the
  buffer and descriptor the device will read are its own. This gives its response;
* the execution part: no command of a finished quiet call is still reachable from the
  ring or from the chain the device holds. This gives exactly once;
* `FreedInv`: while no call has been abandoned, every call finds the device idle and the
  device nothing but that call's command. This gives `FreedReadTheorem`.

`ImplementsTheorem` is `ImplementsChannel`, step by step, under the hypothesis that
commands fit the shared buffer (`SmallCommands`; without it a call has a buffer of its
own, and the channel's "last command written" is not what the device reads). It needs
`SmallInv` (without a doorbell nothing moves) and `WindowInv`: what completed since the
drain and what is outstanding fit the index space together, so a moved `used->idx` never
looks unmoved.

**`DisplayProofs`** holds the proofs about the two parts that drive the display, the
framebuffer and the cursor queue. (One module extends both, so the names of
`CursorQueue` carry its prefix where `Framebuffer` has the same one.)

`CursorRingTheorem`, `LostTheorem`, about the cursor queue. `OwnerInv`: the owner of the
lock is the one caller inside, and its command is the last one numbered. `DescInv`: every
call is handed descriptors 0 and 1 and gives both back, timeouts included. `FreshInv`:
until the first timeout at most one chain is in flight, that of the caller inside, and the
device moves only after reading its bytes.

`DisplayTheorem`, `TakeoverTheorem` and `StrayTheorem`, about the framebuffer, for every
table of modes and any number of calls. `CallerInv` says whose command is in the channel;
`CleanInv`, that while none is late it is executed and answered once; `PlanInv`, what
`ctl` has decided whatever its commands did (the size a call works towards is the current
mode's, but for the first half of the probe); `DispInv`, what exists of resource 1 at each
place; `TakeInv` and `StrayInv` are the same for the flag and for the timer.

**`ResourcePoolProofs`**: `PoolTypeCorrect`, `PoolUniqueTheorem`, `BackingTheorem` and
`LiveSlotsTheorem` establish `TypeOK`, `PoolUnique`, `BackingAccounted` and the action
property `LiveSlotsKept` for any set of ids, any pool size and any number of operations.
The strengthening is `OwnerInv`: an operation that creates works on an id no slot has,
from its check to its store, because nobody else writes the pool while it holds the
lock; and the number that will name its allocation is larger than any in the pool.
`CommandInv` says that what the device may find in the buffer is a command for a real
id, whichever call wrote it.

`HostAgreesTheorem` and `OrphansTheorem` add the channel: `SendInv` (where the owner is in
`submitCommand`, with which command), `CleanInv` (a command for an id above suspicion is
waited for, executed once and answered once, and nothing of it is left when its call has
returned) and `HostInv` (which of pool, device and memory have the id the owner works on,
place by place; every other id above suspicion is settled).

**`DeviceLifecycleProofs`**: `ReadyTheorem`, `FaultsTheorem`, `DeviceTheorem` and
`MemoryTheorem`, for any set of callers. The starting and stopping thread is sequential,
so the invariant says position by position what exists: `MadeSoFar` (allocations and
flags), `DeviceTold` (status and enabled queues), `Mappings` and `RefSum` (references to
the mappings), `Released` (what teardown has undone); and `CallsInv`: a call past the
check of a flag finds the flag set, or is marked stale; and `BellInv`: the mapping is gone but
not cleared at one position only, and every call in progress there, and every one that enters
there, is marked.

**`AcceleratorProofs`**: `PoolsTheorem`, `DeviceContextTheorem`, `LeftoversTheorem`,
`GivenTheorem`, `RaceTheorem`, for any pool sizes and any number of clients and calls.
The parts are the tables (`TableInv`: the pools hold each object once and agree with the
counts), the device (`DevInv`; `HostInv`: each context was born with a device context of
its own and names it until `endRenderPass` counts it up; `ResInv`), what callers were given
and contexts have bound (`GivenInv`; `BoundInv`, up to the surfaces destroyed through another
context), the clients (`CliInv`; `OwnInv`: a client whose calls never overlapped has at most
one context, and knows it) and the threads. `ThreadOK` says, position by position, what a
thread of the kernel can rely on while calls of the kernel do not overlap: its context is
there and is the kernel's, unless its lookup read freed memory, and so is the surface its
walk reads next. `LoneInv` is what that rests on: then no other call of the kernel is in
progress. Walks of contexts have no such protection, since a client's call may destroy any;
of them the invariant says only that what the walk reads next is there, or `raced` is set.
`WalksKept` is what every other action has to show for the walks in progress: it removes no
surface, or the kernel's calls overlap.

**`IOSurfaceManagerProofs`**: `MemoryTheorem`, `LookupsTheorem`, `SharesTheorem` and
`AccountsTheorem`, for any number of ids, surfaces, clients and shares and any size of the
caches. `LifeInv` holds whatever pointer a destruction goes through: `ref_count` is 1
exactly while the object is in the array, that long it has its memory, and only such an
object is locked. The rest holds until a destruction goes through a stale pointer or two threads meet in the
caches (`misled`): `MapInv` (the dictionary's object of an id is in the array and has the id),
`CacheInv` and `ReaderInv` (a pointer cached, or in an unlocked reader's hand, under an id
not gone is the dictionary's), `PropInv` (cached descriptors, and the one the reader is about
to file), `ShareInv`. `TornInv` says that two threads in the caches count as `misled`. The attempt to prove it corrected
the properties: a destruction through a stale pointer may release an id that is already
waiting to be used again, and then two surfaces share it. Earlier versions of
`LookupsCurrent` and `SharesExplained` claimed coherent caches after that as well; the
shortest counterexample takes 8 operations, two more than the run's bound.

`AccountsTheorem` is `AccountsKept`. `BytesOf` adds up the sizes of a set of surfaces as
the number of their bytes, a set of pairs, so that "one more surface adds its size"
(`PlacesAdd`) follows from facts about unions and products and needs no induction. `ModAdd`
carries it through the 64-bit arithmetic. `MemoryInv`: the total is the bytes of the
table less what eviction took off; an object comes off the table once because of
`LifeInv`, although the pointer may be stale. `createSurface`'s comparison with the limit
bounds the bytes because a sum of the limit and one 32-bit size cannot wrap 64 bits
(`SurfaceAssumption`). `BoundsInv` has the rest: caches, recycled ids and locks.

**`WinsysProofs`**: `BackingsTheorem` and `DanglingTheorem`, for any number of clients,
threads, slots and calls, and `FreedTheorem` (`NoWiredAfterFree`), all under `Serial`: a
client has one call at a time, its closing included, as a single-threaded task has. The
code does not enforce that, since `externalMethod` takes no lock, and without it
`winsys_race` violates the last. The parts of the invariant:

* `SerialInv`: a call runs only for an open client, and a client that is not open has an
  empty table;
* `LocalInv`: the locals of a call at each position. An attach whose duplicate check found
  nothing still finds nothing when it stores, and the slot it found free is free then;
* `TableInv`: a descriptor sits in one slot or in one call, and is that client's;
* `WiredInv`: `WiredAccounted` descriptor by descriptor, which is how a step changes it;
* `ChanInv`: the command in the buffer is the waiting call's, and a backlog beyond that
  belongs to an id under suspicion;
* `NamesInv`: wherever a descriptor is held, it is for the id the device or the buffer
  has it under. So pages that dangle do so for one id only;
* `DoneInv`: an attach that was refused or not executed has given the device nothing, and
  after an executed detach the device has none of the slot's pages.

With these `OneBackingPerResource` and `DanglingExplained` are preserved by each action.

**`UserClientProofs`**: `ContextsKeptAlways`, `ContextLeaksExplainedAlways`,
`ProbePagesAccountedAlways`, `ProbeDanglingExplainedAlways` and `SurfaceOneHolderAlways`,
for any number of clients and of calls in flight, overlapping or not. The parts of the
invariant:

* `ChanInv`, `CallerInv` and `DoneInv`: the command in the buffer is the one of the call
  that waits, or belongs to an id under suspicion; for any other id it is executed once,
  and a CTX_DESTROY or UNREF that was executed has had its effect;
* `ApartInv`: every mention of a context id (known to a client, in a call, in the buffer,
  as owner on the device) is by one client, and the id came from one of the two counters.
  That survives a late CTX_CREATE, because the command names the client it was written for;
* `LeakInv` and `AgentInv`: some client, some call or some probe answers for each context
  that is on the device;
* `Orderly`, while no client has overlapped its calls: a client has one call at a time and
  has its device during it; descriptors held and descriptors of running first phases are
  all different; a second phase or a clean-up still has the ids it will name. The last is
  what makes the UNREF reach the resource, and hence no page of the device dangle;
* `Types`, with what the locals of a call are at each position.

Only model-checked:

* `LockReleased`, `CursorLockReleased`, `RefreshGoesOn` and `CallsReturn`: liveness under
  fairness is out of this prover's reach.

`TypeOK` of `ControlQueue` and `ResourcePool` and `NeverExhausted` are proved and no
longer run.

## 6. Abstractions

* Payloads, formats, sizes and timing are left out; a response is success without
  data, success with data, or an error, which is what the code tells apart.
* The poll loop's 150 ms is a nondeterministic exit while `used->idx` has not moved.
* The device is modelled from how the driver uses it and from the VirtIO rules the code
  relies on. In `ControlQueue` it takes a chain, executes it and pushes it in three
  steps; in `CommandChannel` the first two are one. It may refuse to create or attach.
  In `Winsys` and, for contexts, in `UserClient` it may also answer success to what it did not do, as the comments in
  `createResource3DEx` and `createVirglContextEx` record.
* Memory ordering: the code puts barriers around the index updates, so the rings are
  read and written in program order.
* Kernel allocation can fail wherever the code checks that it did.
* `ResourcePool`: a backing is memory that is allocated or released. The wiring, with the
  `complete()` after each attach (`src/FB/VMVirtIOGPU.cpp:8958`) and the second one at `:1339`,
  is left out.
* `ControlQueue`: `submitCommand` reports success to a caller without a response buffer
  (`:2321`); none in the repository is.
* `UserClient`: `stop` under a call in progress of the same client, which would take
  `m_gpu_device` from under it (`:6525`), is left out. `clientClose` reads `m_gpu_device`
  together with the release of the probe's descriptor; a `stop` between the two leaves
  what a `stop` before both does.
* `Accelerator`: the commands that make and free resources and contexts may fail; they do not
  time out and take effect later.
* `SurfaceTable`: what lies behind the end of an array, pointers that never pointed to a
  surface, and how far a fill reaches inside or past memory that is there.

## 7. Plan

Done: the queues, the channel and its refinement, the pool, the winsys backing table, the
framebuffer, the device's life, the IOSurface manager, the accelerator, the rest of the
user client.

Left:

1. `Winsys` without `Serial`: what is still true of the tables of a client whose calls
   overlap.
2. `Framebuffer`: the connection attributes and interrupt registrations.

## 8. Not modelled, and why

* *Shader manager, command buffers, Metal plug-in.* Their tables are OSArrays into which C
  structs are cast as `OSObject*` (`VMShaderManager.cpp:644`, `:5394`,
  `VMCommandBuffer.cpp:173`, `VMMetalPlugin.cpp:198`). The driver's own header records what
  happens then ("C struct in OSArray panics through garbage vtables",
  `src/FB/VMVirtIOGPU.h:559`): there is no state after the first success to say anything of.
  The bulk of these files computes and logs metrics that nothing reads.
* *Phase 3 manager, Metal and OpenGL bridges, CoreAnimation accelerator.* Nothing creates a
  phase 3 manager, and nothing else creates the others. (The IOSurface manager is in the
  same position; it is modelled because its table is a component in its own right.)
* *Texture manager.* `createTexture` files every texture under the one key `"temp_key"`
  (`VMTextureManager.cpp:4625`); `findTexture` looks for `"texture_<id>"`, misses, and takes
  the middle element of the array, casting the `OSObject` to a `ManagedTexture`
  ("Simulated cast", `:8329`); `destroyTexture` returns success and does nothing
  (`:4670`). No texture is ever identified or released, so there is no table to state a
  property of; the rest of the file computes and logs metrics.
* *VMCGLContext* creates and destroys contexts the way the modelled user client does.
* *QXL/VGA path.* Register programming with little state beyond the current mode.
* *Accelerator surface client.* Its handlers answer `kIOReturnUnsupported`.
* *IOGraphics* is Apple's code kept for reference. The *IONDRV blocker* matches a service
  and does nothing more. The *GL plug-in* is stubs. *AGDC* and *wrangler* are property
  tables. *VirtGLGL* is a sequential caller of the selectors, whose calls are the inputs of
  `Winsys` and `UserClient`. The probes, shims, tests and packaging are no part of the
  running driver.
