-------------------------- MODULE DeviceLifecycle --------------------------
(***************************************************************************)
(* VMVirtIOGPU from init to free: what initVirtIOGPU allocates, maps and   *)
(* tells the device, step by step and with every allocation able to fail,  *)
(* and how stop and free undo it while other threads are in submitCommand  *)
(* and submitCursorCommand.  The object is an IOKit service of its own     *)
(* (start, stop) or a helper that VMVirtIOFramebuffer creates              *)
(* (initializeWithPCIDevice) and never stops.                              *)
(*                                                                         *)
(* Memory is the set of objects that are allocated; a pointer member is    *)
(* non-null exactly while its object is in the set, because every release  *)
(* of one clears the member.  The exceptions are the notify maps, which    *)
(* have a variable of their own.  One PCI BAR holds all the virtio         *)
(* structures, as on the devices the comments of the code describe.        *)
(***************************************************************************)
EXTENDS Naturals, Sequences, FiniteSets

CONSTANTS
    Callers,        \* threads that submit commands
    NoCaller,       \* nobody holds a lock
    MaxCalls        \* bound: calls of a behaviour

ASSUME LifecycleAssumption == NoCaller \notin Callers /\ MaxCalls \in Nat

VARIABLES
    pc,             \* what the thread that starts and stops the driver is at
    mode,           \* "service" or "helper"
    mem,            \* allocated objects
    barRefs,        \* retain count of the mapping mapBarByNumber caches
    cached,         \* m_bar_maps holds it
    configMap,      \* m_config_map points to it
    maps,           \* other mappings that exist
    notifyMap,      \* the mapping m_notify_map points to
    notifyBase,     \* the mapping m_notify_base points into
    threeD,         \* m_num_capsets > 0
    nextRes,        \* m_next_resource_id
    status,         \* the device's status register
    enabled,        \* queues the device has enabled
    vqInit, curInit,    \* m_vq_initialized, m_cursor_vq_initialized
    stopped,        \* stop has run to its end
    wasReady,       \* the control queue's set-up had succeeded
    cpc,            \* where each caller is
    cq,             \* the queue of its call
    stale,          \* its queue's flag was cleared after the call had read it
    unmapped,       \* stop was between release and clearing of m_notify_map during the call
    holder,         \* owners of m_vq_lock and m_cursor_vq_lock
    calls           \* calls so far

barMaps == <<barRefs, cached, configMap>>
driver == <<mem, barMaps, maps, notifyMap, notifyBase, threeD, nextRes, vqInit, curInit>>
device == <<status, enabled>>
callers == <<cpc, cq, stale, unmapped, holder, calls>>
vars == <<pc, mode, driver, device, stopped, wasReady, callers>>

Queues == {"control", "cursor"}
Ring(q) == IF q = "control" THEN "ring" ELSE "cring"
FreeList(q) == IF q = "control" THEN "freelist" ELSE "cfreelist"
Buffers(q) == IF q = "control" THEN {"cmd", "resp"} ELSE {"ccmd", "cresp"}
QLock(q) == IF q = "control" THEN "vqlock" ELSE "curlock"
QueueMem(q) == {Ring(q), FreeList(q)} \cup Buffers(q)
LegacyMem == {"control_queue", "cursor_queue"}
Objects == QueueMem("control") \cup QueueMem("cursor") \cup LegacyMem
             \cup {"vqlock", "curlock", "gate", "webgl"}
Flag(q) == IF q = "control" THEN vqInit ELSE curInit

Bringup == {"new", "inited", "config", "common", "ring", "cursor", "ok", "buffers",
            "legacy", "regions", "accel", "finish", "up", "failed", "panic"}
Takedown == {"flag", "release", "clear", "down", "freeing", "freed"}
Status == {"ACKNOWLEDGE", "DRIVER", "FEATURES_OK", "DRIVER_OK"}

Init ==
    /\ pc = "new" /\ mode \in {"service", "helper"}
    /\ mem = {} /\ barRefs = 0 /\ cached = FALSE /\ configMap = FALSE /\ maps = {}
    /\ notifyMap = "none" /\ notifyBase = "none"
    /\ threeD = FALSE /\ nextRes = 1
    /\ status = {} /\ enabled = {}
    /\ vqInit = FALSE /\ curInit = FALSE /\ stopped = FALSE /\ wasReady = FALSE
    /\ cpc = [t \in Callers |-> "idle"] /\ cq = [t \in Callers |-> "control"]
    /\ stale = [t \in Callers |-> FALSE] /\ unmapped = [t \in Callers |-> FALSE]
    /\ holder = [q \in Queues |-> NoCaller]
    /\ calls = 0

\* Mutants: the cache hit takes no retain, or two.
mapBarByNumberBorrowed == IF cached THEN barRefs ELSE 2
mapBarByNumberTwice == IF cached THEN barRefs + 2 ELSE 2

\* The retain count after a successful mapBarByNumber: the first call maps and
\* keeps a retain in the cache, every call hands one out.
mapBarByNumber == IF cached THEN barRefs + 1 ELSE 2

-----------------------------------------------------------------------------
(* init.  It checks every allocation but that of m_vq_lock.                *)
init ==
    /\ pc = "new"
    /\ \E locks \in SUBSET {"vqlock", "curlock"} :
          /\ mem' = locks
          /\ \/ "curlock" \in locks /\ pc' = "inited"
             \/ pc' = "failed"                \* this or another allocation failed
    /\ UNCHANGED <<mode, barMaps, maps, notifyMap, notifyBase, threeD, nextRes, vqInit,
                   curInit, device, stopped, wasReady, callers>>

\* start and initializeWithPCIDevice up to initVirtIOGPU; super::start and the
\* cast of the provider can fail.
start ==
    /\ pc = "inited"
    /\ \/ pc' = "config"
       \/ mode = "service" /\ pc' = "failed"
    /\ UNCHANGED <<mode, driver, device, stopped, wasReady, callers>>

\* First half of initVirtIOGPU.  findVirtIOCapability falls back on built-in
\* locations, so the capability is always found; the mapping may be missing or
\* too small, and then the device is not touched.  Otherwise, if the common
\* configuration can be mapped too, the device is taken straight to DRIVER_OK
\* in order to read its configuration.
readDeviceConfig ==
    /\ pc = "config" /\ pc' = "common"
    /\ threeD' \in BOOLEAN
    /\ \/ UNCHANGED <<barMaps, status>>
       \/ /\ barRefs' = mapBarByNumber /\ cached' = TRUE /\ configMap' = TRUE
          /\ status' \in {status, {"ACKNOWLEDGE", "DRIVER", "DRIVER_OK"}}
    /\ UNCHANGED <<mode, mem, maps, notifyMap, notifyBase, nextRes, vqInit, curInit,
                   enabled, stopped, wasReady, callers>>

(* setupControlVirtQueue, in five steps the device can tell apart.  A      *)
(* failure is not an error of initVirtIOGPU: it goes on with "legacy".     *)

\* Mutant: the device is not reset before the negotiation.
setupCommonNoReset ==
    /\ pc = "common"
    /\ \/ /\ pc' = "legacy"
          /\ UNCHANGED <<maps, notifyMap, notifyBase, status, enabled>>
       \/ /\ \E n \in {"none", "early"} :
                /\ maps' = maps \cup {"common"} \cup ({n} \ {"none"})
                /\ notifyMap' = n /\ notifyBase' = n
          /\ \E ok \in {{}, {"FEATURES_OK"}} : status' = status \cup {"ACKNOWLEDGE", "DRIVER"} \cup ok
          /\ enabled' = {}
          /\ pc' \in {"ring", "legacy"}
    /\ UNCHANGED <<mode, mem, barMaps, threeD, nextRes, vqInit, curInit, stopped, wasReady, callers>>

\* The mappings, the reset and the negotiation, whose refusal is ignored.
setupCommon ==
    /\ pc = "common"
    /\ \/ /\ pc' = "legacy"                         \* readCommonConfig failed
          /\ UNCHANGED <<maps, notifyMap, notifyBase, status, enabled>>
       \/ /\ \E n \in {"none", "early"} :
                /\ maps' = maps \cup {"common"} \cup ({n} \ {"none"})
                /\ notifyMap' = n /\ notifyBase' = n
          /\ \E ok \in {{}, {"FEATURES_OK"}} : status' = {"ACKNOWLEDGE", "DRIVER"} \cup ok
          /\ enabled' = {}
          /\ pc' \in {"ring", "legacy"}             \* "legacy": queue size 0
    /\ UNCHANGED <<mode, mem, barMaps, threeD, nextRes, vqInit, curInit, stopped, wasReady, callers>>

setupRing ==
    /\ pc = "ring"
    /\ \/ /\ pc' = "legacy" /\ UNCHANGED <<mem, enabled>>   \* ring, or free list: ring released
       \/ /\ mem' = mem \cup {"ring", "freelist"}
          /\ enabled' = enabled \cup {"control"}
          /\ pc' = "cursor"
    /\ UNCHANGED <<mode, barMaps, maps, notifyMap, notifyBase, threeD, nextRes, vqInit,
                   curInit, status, stopped, wasReady, callers>>

\* setupCursorQueue; its result is ignored, and so is what a failure leaves.
setupCursorQueue ==
    /\ pc = "cursor" /\ pc' = "ok"
    /\ \/ UNCHANGED <<mem, enabled, curInit>>       \* size 0, ring, or free list
       \/ \E got \in SUBSET Buffers("cursor") :
             /\ mem' = mem \cup {"cring", "cfreelist"} \cup got
             /\ curInit' = (got = Buffers("cursor"))
             /\ enabled' = enabled \cup (IF curInit' THEN {"cursor"} ELSE {})
    /\ UNCHANGED <<mode, barMaps, maps, notifyMap, notifyBase, threeD, nextRes, vqInit,
                   status, stopped, wasReady, callers>>

setDriverOk ==
    /\ pc = "ok" /\ pc' = "buffers"
    /\ status' = status \cup {"DRIVER_OK"}
    /\ UNCHANGED <<mode, driver, enabled, stopped, wasReady, callers>>

\* Mutant: the queue is declared ready whatever was allocated.
setupBuffersUnchecked ==
    /\ pc = "buffers" /\ pc' = "legacy"
    /\ \E got \in SUBSET Buffers("control") :
          /\ mem' = mem \cup got
          /\ vqInit' = TRUE
          /\ wasReady' = vqInit'
    /\ UNCHANGED <<mode, barMaps, maps, notifyMap, notifyBase, threeD, nextRes, curInit,
                   device, stopped, callers>>

setupBuffers ==
    /\ pc = "buffers" /\ pc' = "legacy"
    /\ \E got \in SUBSET Buffers("control") :
          /\ mem' = mem \cup got
          /\ vqInit' = (got = Buffers("control"))
          /\ wasReady' = vqInit'
    /\ UNCHANGED <<mode, barMaps, maps, notifyMap, notifyBase, threeD, nextRes, curInit,
                   device, stopped, callers>>

\* initializeVirtIOQueues: two buffers nothing uses any more.  Their failure is
\* the only one that makes initVirtIOGPU fail, after the real queues are up.
initializeVirtIOQueues ==
    /\ pc = "legacy"
    /\ \/ mem' = mem \cup LegacyMem /\ pc' \in {"regions", "failed"}   \* "failed": prepare
       \/ mem' = mem /\ pc' = "failed"
    /\ UNCHANGED <<mode, barMaps, maps, notifyMap, notifyBase, threeD, nextRes, vqInit,
                   curInit, device, stopped, wasReady, callers>>

\* setupGPUMemoryRegions.  m_notify_map is overwritten without releasing the
\* mapping setupControlVirtQueue made.  mapBarByNumber maps the BAR or hands out
\* a further retain; a mapping that is too small is given back for a page of its
\* own, or for BAR 0.
setupGPUMemoryRegions ==
    /\ pc = "regions" /\ pc' = "accel"
    /\ notifyBase' = "none"
    /\ \/ ~cached /\ notifyMap' = "none" /\ UNCHANGED <<barRefs, cached, maps>>
       \/ /\ barRefs' = mapBarByNumber /\ cached' = TRUE
          /\ notifyMap' = "bar" /\ maps' = maps
       \/ \E m \in {"direct", "bar0", "none"} :
             /\ barRefs' = mapBarByNumber - 1 /\ cached' = TRUE
             /\ notifyMap' = m
             /\ maps' = maps \cup ({m} \ {"none"})
    /\ UNCHANGED <<mode, mem, configMap, threeD, nextRes, vqInit, curInit, device, stopped, wasReady,
                   callers>>

\* enable3DAcceleration and initializeWebGLAcceleration: with capsets, a context;
\* if the device creates it, 256 MB nobody frees and two resource ids.  Without
\* m_vq_lock its first command brings the system down.
enable3DAcceleration ==
    /\ pc = "accel"
    /\ \/ ~(threeD /\ vqInit) /\ pc' = "finish" /\ UNCHANGED <<mem, nextRes>>
       \/ /\ threeD /\ vqInit /\ "vqlock" \in mem /\ pc' = "finish"
          /\ \/ UNCHANGED <<mem, nextRes>>
             \/ nextRes' = nextRes + 2 /\ mem' \in {mem, mem \cup {"webgl"}}
       \/ /\ threeD /\ vqInit /\ "vqlock" \notin mem /\ pc' = "panic"
          /\ UNCHANGED <<mem, nextRes>>
    /\ UNCHANGED <<mode, barMaps, maps, notifyMap, notifyBase, threeD, vqInit, curInit,
                   device, stopped, wasReady, callers>>

\* The rest of start: the command gate, registerService.  A helper has neither.
finishStart ==
    /\ pc = "finish"
    /\ \/ mode = "service" /\ mem' = mem \cup {"gate"} /\ pc' = "up"
       \/ mode = "service" /\ mem' = mem /\ pc' = "failed"
       \/ mode = "helper" /\ mem' = mem /\ pc' = "up"
    /\ UNCHANGED <<mode, barMaps, maps, notifyMap, notifyBase, threeD, nextRes, vqInit,
                   curInit, device, stopped, wasReady, callers>>

-----------------------------------------------------------------------------
(* stop: the command gate, then teardownControlVirtQueue without m_vq_lock,*)
(* then the rest of cleanupVirtIOGPU.                                      *)

\* Mutant: the device is not told.
disableQueueSkipped ==
    /\ pc = "up" /\ mode = "service" /\ pc' = "flag"
    /\ mem' = mem \ {"gate"}
    /\ enabled' = enabled
    /\ UNCHANGED <<mode, barMaps, maps, notifyMap, notifyBase, threeD, nextRes, vqInit,
                   curInit, status, stopped, wasReady, callers>>

\* The device's queue is disabled only if the set-up had completed.
disableQueue ==
    /\ pc = "up" /\ mode = "service" /\ pc' = "flag"
    /\ mem' = mem \ {"gate"}
    /\ enabled' = IF vqInit /\ "common" \in maps THEN enabled \ {"control"} ELSE enabled
    /\ UNCHANGED <<mode, barMaps, maps, notifyMap, notifyBase, threeD, nextRes, vqInit,
                   curInit, status, stopped, wasReady, callers>>

\* Calls that are past the check of their flag, and those of one queue.
Busy(t) == cpc[t] \notin {"idle", "fault", "badbell"}
InCall(q) == {t \in Callers : cq[t] = q /\ Busy(t)}
MarkStale(q) == stale' = [t \in Callers |-> stale[t] \/ t \in InCall(q)]

clearFlag ==
    /\ pc = "flag" /\ pc' = "release"
    /\ vqInit' = FALSE
    /\ MarkStale("control")
    /\ UNCHANGED <<mode, mem, barMaps, maps, notifyMap, notifyBase, threeD, nextRes,
                   curInit, device, stopped, wasReady, cpc, cq, unmapped, holder, calls>>

\* Objects are released one by one, in the order of the code.
TeardownOrder == <<"cmd", "resp", "freelist", "ring">>
FreeOrder == <<"curlock", "cfreelist", "ccmd", "cresp", "cring">>
NextToGo(order) == LET left == {i \in DOMAIN order : order[i] \in mem}
                   IN  order[CHOOSE i \in left : \A j \in left : i <= j]
Gone(order) == \A i \in DOMAIN order : order[i] \notin mem

releaseControl ==
    /\ pc = "release" /\ ~Gone(TeardownOrder)
    /\ mem' = mem \ {NextToGo(TeardownOrder)}
    /\ UNCHANGED <<pc, mode, barMaps, maps, notifyMap, notifyBase, threeD, nextRes, vqInit,
                   curInit, device, stopped, wasReady, callers>>

\* Mutant: m_notify_map is not released.
cleanupVirtIOGPUKeepsMap ==
    /\ pc = "release" /\ Gone(TeardownOrder) /\ pc' = "clear"
    /\ mem' = mem \ LegacyMem
    /\ configMap' = FALSE
    /\ barRefs' = barRefs - (IF configMap THEN 1 ELSE 0) - (IF notifyMap = "bar" THEN 1 ELSE 0)
    /\ maps' = maps \ {"common"}
    /\ notifyMap' = IF notifyMap = "none" THEN "none" ELSE "released"
    /\ unmapped' = [t \in Callers |-> unmapped[t] \/ Busy(t)]
    /\ UNCHANGED <<mode, cached, notifyBase, threeD, nextRes, vqInit, curInit, device, stopped, wasReady,
                   cpc, cq, stale, holder, calls>>

\* m_common_map, the two legacy buffers, m_config_map and m_notify_map ...
cleanupVirtIOGPU ==
    /\ pc = "release" /\ Gone(TeardownOrder) /\ pc' = "clear"
    /\ mem' = mem \ LegacyMem
    /\ configMap' = FALSE
    /\ barRefs' = barRefs - (IF configMap THEN 1 ELSE 0) - (IF notifyMap = "bar" THEN 1 ELSE 0)
    /\ maps' = maps \ {"common", notifyMap}
    /\ notifyMap' = IF notifyMap = "none" THEN "none" ELSE "released"
    /\ unmapped' = [t \in Callers |-> unmapped[t] \/ Busy(t)]
    /\ UNCHANGED <<mode, cached, notifyBase, threeD, nextRes, vqInit, curInit, device, stopped, wasReady,
                   cpc, cq, stale, holder, calls>>

\* Mutant: m_notify_map keeps the pointer.
clearNotifyMapKeeps ==
    /\ pc = "clear" /\ pc' = "down"
    /\ notifyMap' = notifyMap
    /\ stopped' = TRUE
    /\ UNCHANGED <<mode, mem, barMaps, maps, notifyBase, threeD, nextRes, vqInit, curInit, device,
                   wasReady, callers>>

\* ... which is cleared only then.
clearNotifyMap ==
    /\ pc = "clear" /\ pc' = "down"
    /\ notifyMap' = "none"
    /\ stopped' = TRUE
    /\ UNCHANGED <<mode, mem, barMaps, maps, notifyBase, threeD, nextRes, vqInit, curInit, device,
                   wasReady, callers>>

\* free, after stop or when the start failed: the cursor queue goes here, its
\* flag first, and the device is not told.
freeBegins ==
    /\ pc \in {"down", "failed"} /\ pc' = "freeing"
    /\ curInit' = FALSE
    /\ MarkStale("cursor")
    /\ UNCHANGED <<mode, mem, barMaps, maps, notifyMap, notifyBase, threeD, nextRes,
                   vqInit, device, stopped, wasReady, cpc, cq, unmapped, holder, calls>>

releaseCursor ==
    /\ pc = "freeing" /\ ~Gone(FreeOrder)
    /\ mem' = mem \ {NextToGo(FreeOrder)}
    /\ UNCHANGED <<pc, mode, barMaps, maps, notifyMap, notifyBase, threeD, nextRes, vqInit,
                   curInit, device, stopped, wasReady, callers>>

freeEnds ==
    /\ pc = "freeing" /\ Gone(FreeOrder) /\ pc' = "freed"
    /\ cached' = FALSE
    /\ barRefs' = IF cached THEN barRefs - 1 ELSE barRefs
    /\ UNCHANGED <<mode, mem, configMap, maps, notifyMap, notifyBase, threeD, nextRes,
                   vqInit, curInit, device, stopped, wasReady, callers>>

-----------------------------------------------------------------------------
(* A call of submitCommand or submitCursorCommand, reduced to what it      *)
(* touches.  A touch of released or never allocated memory is a fault.     *)

\* Mutant: the flag is not read.
EnterUnchecked(t, q) ==
    /\ pc \in ({"up"} \cup Takedown) \ {"freed"}
    /\ cpc[t] = "idle" /\ calls < MaxCalls
    /\ cpc' = [cpc EXCEPT ![t] = "passed"]
    /\ cq' = [cq EXCEPT ![t] = q]
    /\ stale' = [stale EXCEPT ![t] = FALSE]
    /\ unmapped' = [unmapped EXCEPT ![t] = (pc = "clear")]
    /\ calls' = calls + 1
    /\ UNCHANGED <<pc, mode, driver, device, stopped, wasReady, holder>>

\* The check at the top reads the flag and no lock.
Enter(t, q) ==
    /\ pc \in ({"up"} \cup Takedown) \ {"freed"}
    /\ cpc[t] = "idle" /\ calls < MaxCalls
    /\ Flag(q)
    /\ cpc' = [cpc EXCEPT ![t] = "passed"]
    /\ cq' = [cq EXCEPT ![t] = q]
    /\ stale' = [stale EXCEPT ![t] = FALSE]
    /\ unmapped' = [unmapped EXCEPT ![t] = (pc = "clear")]
    /\ calls' = calls + 1
    /\ UNCHANGED <<pc, mode, driver, device, stopped, wasReady, holder>>

Touch(t, objects, next) ==
    cpc' = [cpc EXCEPT ![t] = IF objects \subseteq mem THEN next ELSE "fault"]

Lock(t) ==
    /\ cpc[t] = "passed"
    /\ QLock(cq[t]) \in mem => holder[cq[t]] = NoCaller
    /\ Touch(t, {QLock(cq[t])}, "locked")
    /\ holder' = IF QLock(cq[t]) \in mem THEN [holder EXCEPT ![cq[t]] = t] ELSE holder
    /\ UNCHANGED <<pc, mode, driver, device, stopped, wasReady, cq, stale, unmapped, calls>>

\* Drain, descriptors, buffers and the avail ring; then the test for a doorbell,
\* m_notify_base before m_notify_map.  With neither, submitCommand takes the
\* chain back and submitCursorCommand polls.
Publish(t) ==
    /\ cpc[t] = "locked"
    /\ Touch(t, QueueMem(cq[t]), CASE notifyBase # "none" -> "polling"
                                  [] notifyBase = "none" /\ notifyMap # "none" -> "bell"
                                  [] OTHER -> IF cq[t] = "control" THEN "leave" ELSE "polling")
    /\ UNCHANGED <<pc, mode, driver, device, stopped, wasReady, cq, stale, unmapped, holder, calls>>

\* The doorbell is rung through m_notify_map, which was tested before and may
\* have been released or cleared since.  A caller that goes on with the pointer
\* it tested may get away with it while m_bar_maps keeps the BAR mapped.
RingBell(t) ==
    /\ cpc[t] = "bell"
    /\ \E next \in {"badbell", "polling"} :
          /\ next = "badbell" => notifyMap \in {"none", "released"}
          /\ next = "polling" => notifyMap \notin {"none", "released"} \/ cached
          /\ cpc' = [cpc EXCEPT ![t] = next]
    /\ UNCHANGED <<pc, mode, driver, device, stopped, wasReady, cq, stale, unmapped, holder, calls>>

\* One look at the used ring: nothing yet, an answer, or the last look.
Poll(t) ==
    /\ cpc[t] = "polling"
    /\ \E next \in {"answered", "leave"} : Touch(t, {Ring(cq[t])}, next)
    /\ UNCHANGED <<pc, mode, driver, device, stopped, wasReady, cq, stale, unmapped, holder, calls>>

\* The used element and the response.
Answer(t) ==
    /\ cpc[t] = "answered"
    /\ Touch(t, {Ring(cq[t])} \cup Buffers(cq[t]), "leave")
    /\ UNCHANGED <<pc, mode, driver, device, stopped, wasReady, cq, stale, unmapped, holder, calls>>

\* The descriptors go back and the lock is released.
Leave(t) ==
    /\ cpc[t] = "leave"
    /\ Touch(t, {FreeList(cq[t]), QLock(cq[t])}, "idle")
    /\ holder' = IF cpc'[t] = "idle" THEN [holder EXCEPT ![cq[t]] = NoCaller] ELSE holder
    /\ UNCHANGED <<pc, mode, driver, device, stopped, wasReady, cq, stale, unmapped, calls>>

Bring == \/ init \/ start \/ readDeviceConfig \/ setupCommon \/ setupRing
         \/ setupCursorQueue \/ setDriverOk \/ setupBuffers \/ initializeVirtIOQueues
         \/ setupGPUMemoryRegions \/ enable3DAcceleration \/ finishStart
Take == \/ disableQueue \/ clearFlag \/ releaseControl \/ cleanupVirtIOGPU \/ clearNotifyMap
        \/ freeBegins \/ releaseCursor \/ freeEnds
Call(t) == \/ \E q \in Queues : Enter(t, q)
           \/ Lock(t) \/ Publish(t) \/ RingBell(t) \/ Poll(t) \/ Answer(t) \/ Leave(t)

Next == Bring \/ Take \/ \E t \in Callers : Call(t)

Spec == Init /\ [][Next]_vars

-----------------------------------------------------------------------------
(* Type invariant.                                                         *)
TypeOK ==
    /\ pc \in Bringup \cup Takedown /\ mode \in {"service", "helper"}
    /\ mem \subseteq Objects /\ barRefs \in 0 .. 3
    /\ cached \in BOOLEAN /\ configMap \in BOOLEAN
    /\ maps \subseteq {"common", "early", "direct", "bar0"}
    /\ notifyMap \in {"none", "early", "bar", "direct", "bar0", "released"}
    /\ notifyBase \in {"none", "early"}
    /\ threeD \in BOOLEAN /\ nextRes \in {1, 3}
    /\ status \subseteq Status /\ enabled \subseteq Queues
    /\ vqInit \in BOOLEAN /\ curInit \in BOOLEAN /\ stopped \in BOOLEAN
    /\ wasReady \in BOOLEAN
    /\ cpc \in [Callers -> {"idle", "passed", "locked", "bell", "polling", "answered", "leave",
                            "fault", "badbell"}]
    /\ cq \in [Callers -> Queues] /\ stale \in [Callers -> BOOLEAN]
    /\ unmapped \in [Callers -> BOOLEAN]
    /\ holder \in [Queues -> Callers \cup {NoCaller}]
    /\ calls \in 0 .. MaxCalls

\* A queue whose flag is set is usable: its ring, free list and buffers exist,
\* the device has it enabled (until stop disables it) and was told DRIVER_OK.
\* This is what the check at the top of both submit routines relies on,
\* whatever failed on the way up and however far stop and free have got.
ReadyMeansComplete ==
    /\ vqInit => /\ QueueMem("control") \subseteq mem
                 /\ "DRIVER_OK" \in status
                 /\ pc # "flag" => "control" \in enabled
    /\ curInit => QueueMem("cursor") \cup {"curlock"} \subseteq mem /\ "cursor" \in enabled

\* stop takes no lock, so a call can find the ring, the free list, a buffer or
\* the lock gone under its feet; but only a call that was past the check when
\* the flag was cleared, or one of an object whose m_vq_lock was never
\* allocated, which init does not check.  The doorbell is another matter: stop
\* takes m_notify_map from calls of both queues, and those of the cursor queue
\* are not marked, since their flag stands until free; but only from a call that
\* runs while the clean-up is between its release and its clearing.
FaultsExplained ==
    \A t \in Callers :
        /\ cpc[t] = "fault" => stale[t] \/ (cq[t] = "control" /\ "vqlock" \notin mem)
        /\ cpc[t] = "badbell" => unmapped[t]

\* The device is left with an enabled queue whose ring is released in two cases
\* only: the cursor queue, which free releases without disabling it, and a
\* control queue whose set-up failed at the command buffers, which
\* teardownControlVirtQueue does not disable because the flag was never set.
EnabledRingExplained ==
    \A q \in enabled : Ring(q) \notin mem =>
        \/ q = "cursor" /\ pc \in {"freeing", "freed"}
        \/ q = "control" /\ ~wasReady /\ pc \in Takedown

\* Past the set-up, DRIVER_OK stands in the status register only together with
\* an enabled control queue, unless the common configuration could not be mapped
\* (then the DRIVER_OK of the configuration read is still there) or stop has
\* disabled the queue.
DriverOkMeansQueue ==
    "DRIVER_OK" \in status /\ pc \notin {"common", "failed"} \cup Takedown =>
        "control" \in enabled \/ "common" \notin maps

\* The retain count of the cached BAR mapping is the number of members that
\* point to it, on every path through set-up, clean-up and free.
BarRefsExact ==
    barRefs = Cardinality({m \in {"cache", "config", "notify"} :
                              \/ m = "cache" /\ cached
                              \/ m = "config" /\ configMap
                              \/ m = "notify" /\ notifyMap = "bar"})

\* After free nothing of the cursor queue is left.  If stop ran, what is left of
\* the rest is m_vq_lock, the 256 MB of initializeWebGLAcceleration and the
\* notify mapping that setupGPUMemoryRegions overwrote; a failed start is never
\* followed by stop and leaves what it had.
LeaksExplained ==
    pc = "freed" =>
        /\ mem \cap (QueueMem("cursor") \cup {"curlock"}) = {}
        /\ stopped => /\ mem \subseteq {"vqlock", "webgl"}
                      /\ maps \subseteq {"early"} /\ barRefs = 0

\* What the driver believes of its queues is so, at every point of bring-up and
\* teardown: well typed, and complete behind every flag that is set.
ReadyStateTrue == TypeOK /\ ReadyMeansComplete

\* What the device was told and not told back, taken together: no queue enabled
\* over released memory and no DRIVER_OK without a queue but in the cases named.
DeviceStateExplained == EnabledRingExplained /\ DriverOkMeansQueue

\* No mapping and no allocation is left or released twice but those named.
MemoryExplained == BarRefsExact /\ LeaksExplained
=============================================================================
