----------------------- MODULE DeviceLifecycleProofs -----------------------
(***************************************************************************)
(* Proofs about DeviceLifecycle, for any number of callers and calls: what *)
(* a set flag promises, what explains a fault, what the device is left     *)
(* with and what memory and mappings remain.  The invariant that carries   *)
(* them says, position by position of the starting thread, what has been   *)
(* made so far; nothing in the state itself remembers it.                  *)
(***************************************************************************)
EXTENDS DeviceLifecycle, FiniteSetTheorems, TLAPS

\* Positions of the starting thread, by what it has done.
BeforeCommon == {"new", "inited", "config", "common"}
BeforeBuffers == BeforeCommon \cup {"ring", "cursor", "ok", "buffers"}
BeforeRegions == BeforeBuffers \cup {"legacy", "regions"}
Running == {"legacy", "regions", "accel", "finish", "up"}

-----------------------------------------------------------------------------
(* The inductive invariant.                                                *)

\* What exists, and what does not yet, at each position of the bring-up.
MadeSoFar ==
    /\ pc \in BeforeCommon \cup {"ring"} =>
          mem \subseteq {"vqlock", "curlock"} /\ enabled = {} /\ ~curInit
    /\ pc \in {"cursor", "freeing", "freed"} => ~curInit
    /\ pc \notin {"new", "failed", "freeing", "freed"} => "curlock" \in mem
    /\ pc \in {"cursor", "ok", "buffers"} => {"ring", "freelist"} \subseteq mem /\ "control" \in enabled
    /\ pc = "buffers" => "DRIVER_OK" \in status
    /\ pc \in BeforeBuffers \cup {"release", "clear", "down"} => ~vqInit
    /\ pc \in BeforeRegions \cup {"accel"} => nextRes = 1
    /\ pc = "new" => \A t \in Callers : cpc[t] = "idle"

\* What the device knows of the queues, and whether the set-up had succeeded.
DeviceTold ==
    /\ pc \in {"new", "inited", "config"} => status = {}
    /\ pc = "ring" => "DRIVER_OK" \notin status
    /\ pc \in Bringup \cup {"flag"} => wasReady = vqInit
    /\ pc \in {"ring", "cursor", "ok", "buffers"} => "common" \in maps
    /\ pc \in Running /\ vqInit => "common" \in maps
    /\ pc \in {"flag", "release", "clear", "down"} /\ wasReady => "control" \notin enabled

\* Who points to which mapping.
Mappings ==
    /\ pc \in BeforeCommon => maps = {}
    /\ pc \in BeforeRegions => notifyMap # "bar" /\ maps \subseteq {"common", "early"}
    /\ pc \in Running \cup {"flag", "release"} => maps \subseteq {"common", "early", notifyMap}
    /\ pc # "freed" => (configMap \/ notifyMap = "bar" => cached)
    /\ pc = "freed" => ~cached
    /\ pc \in {"new", "inited", "config"} => ~cached

\* The types in two halves: what the starting thread changes, what callers do.
TypeDriver ==
    /\ pc \in Bringup \cup Takedown /\ mode \in {"service", "helper"}
    /\ cached \in BOOLEAN /\ configMap \in BOOLEAN
    /\ maps \subseteq {"common", "early", "direct", "bar0"}
    /\ notifyMap \in {"none", "early", "bar", "direct", "bar0", "released"}
    /\ notifyBase \in {"none", "early"}
    /\ threeD \in BOOLEAN /\ nextRes \in {1, 3}
    /\ status \subseteq Status /\ enabled \subseteq Queues
    /\ vqInit \in BOOLEAN /\ curInit \in BOOLEAN /\ stopped \in BOOLEAN
    /\ wasReady \in BOOLEAN
TypeMem == mem \subseteq Objects
TypeCallers ==
    /\ cpc \in [Callers -> {"idle", "passed", "locked", "bell", "polling", "answered", "leave",
                            "fault", "badbell"}]
    /\ cq \in [Callers -> Queues] /\ stale \in [Callers -> BOOLEAN]
    /\ unmapped \in [Callers -> BOOLEAN]
    /\ holder \in [Queues -> Callers \cup {NoCaller}]
    /\ calls \in 0 .. MaxCalls

One(b) == IF b THEN 1 ELSE 0
RefSum == barRefs = One(cached) + One(configMap) + One(notifyMap = "bar")

\* What stop has released is not made again.
Released ==
    /\ stopped => pc \in {"down", "freeing", "freed"}
    /\ pc = "down" => stopped
    /\ pc \in {"flag", "release", "clear", "down"} => "gate" \notin mem
    /\ stopped \/ pc = "clear" =>
          /\ mem \cap (QueueMem("control") \cup LegacyMem \cup {"gate"}) = {}
          /\ maps \subseteq {"early"} /\ ~configMap /\ notifyMap \in {"none", "released"}
    /\ pc = "freed" => mem \cap (QueueMem("cursor") \cup {"curlock"}) = {}

\* A call that is past the check of its queue's flag finds it still set, or is
\* marked.
CallsInv ==
    \A t \in Callers : Busy(t) => stale[t] \/ Flag(cq[t])

\* A call that has found m_notify_map set finds its mapping there, or is marked:
\* whatever runs between the release of the mapping and the clearing is.
BellInv ==
    /\ pc \in Bringup \ {"up"} => \A t \in Callers : cpc[t] = "idle"
    /\ notifyMap = "released" => pc = "clear"
    /\ pc = "clear" => notifyMap \in {"none", "released"}
    /\ pc = "clear" => \A t \in Callers : Busy(t) => unmapped[t]
    /\ \A t \in Callers : cpc[t] = "bell" => notifyMap \notin {"none", "released"} \/ unmapped[t]

Inv == /\ TypeDriver /\ TypeMem /\ TypeCallers /\ MadeSoFar /\ DeviceTold /\ Mappings /\ RefSum /\ Released
       /\ ReadyMeansComplete /\ FaultsExplained /\ EnabledRingExplained
       /\ DriverOkMeansQueue /\ CallsInv /\ BellInv

-----------------------------------------------------------------------------
(* Facts about the operators.                                              *)

\* What releaseControl releases next is an object of the control queue.
LEMMA NextControl ==
    ASSUME ~Gone(TeardownOrder)
    PROVE  NextToGo(TeardownOrder) \in {"cmd", "resp", "freelist", "ring"}
<1> DEFINE left == {i \in DOMAIN TeardownOrder : TeardownOrder[i] \in mem}
<1>1. DOMAIN TeardownOrder = 1 .. 4
  BY DEF TeardownOrder
<1>2. left \subseteq 1 .. 4 /\ left # {}
  BY <1>1 DEF Gone
<1>3. \E i \in left : \A j \in left : i <= j
  <2> HIDE DEF left
  <2>1. CASE 1 \in left BY <2>1, <1>2
  <2>2. CASE 1 \notin left /\ 2 \in left BY <2>2, <1>2
  <2>3. CASE 1 \notin left /\ 2 \notin left /\ 3 \in left BY <2>3, <1>2
  <2>4. CASE 1 \notin left /\ 2 \notin left /\ 3 \notin left
    <3>1. \A i \in left : i = 4
      BY <2>4, <1>2
    <3>2. 4 \in left
      BY <3>1, <1>2, Zenon
    <3> QED BY <3>1, <3>2
  <2> QED BY <2>1, <2>2, <2>3, <2>4
<1>4. (CHOOSE i \in left : \A j \in left : i <= j) \in 1 .. 4
  <2> HIDE DEF left
  <2> QED BY <1>2, <1>3
<1> DEFINE k == CHOOSE i \in left : \A j \in left : i <= j
<1>5. NextToGo(TeardownOrder) = TeardownOrder[k]
  BY DEF NextToGo
<1>6. k \in 1 .. 4
  BY <1>4
<1> HIDE DEF k
<1> QED BY <1>5, <1>6 DEF TeardownOrder

\* What releaseCursor releases next is the cursor queue's lock or an object of
\* that queue.
LEMMA NextCursor ==
    ASSUME ~Gone(FreeOrder)
    PROVE  NextToGo(FreeOrder) \in {"curlock", "cfreelist", "ccmd", "cresp", "cring"}
<1> DEFINE left == {i \in DOMAIN FreeOrder : FreeOrder[i] \in mem}
<1>1. DOMAIN FreeOrder = 1 .. 5
  BY DEF FreeOrder
<1>2. left \subseteq 1 .. 5 /\ left # {}
  BY <1>1 DEF Gone
<1>3. \E i \in left : \A j \in left : i <= j
  <2> HIDE DEF left
  <2>1. CASE 1 \in left BY <2>1, <1>2
  <2>2. CASE 1 \notin left /\ 2 \in left BY <2>2, <1>2
  <2>3. CASE 1 \notin left /\ 2 \notin left /\ 3 \in left BY <2>3, <1>2
  <2>4. CASE 1 \notin left /\ 2 \notin left /\ 3 \notin left /\ 4 \in left BY <2>4, <1>2
  <2>5. CASE 1 \notin left /\ 2 \notin left /\ 3 \notin left /\ 4 \notin left
    <3>1. \A i \in left : i = 5
      BY <2>5, <1>2
    <3>2. 5 \in left
      BY <3>1, <1>2, Zenon
    <3> QED BY <3>1, <3>2
  <2> QED BY <2>1, <2>2, <2>3, <2>4, <2>5
<1>4. (CHOOSE i \in left : \A j \in left : i <= j) \in 1 .. 5
  <2> HIDE DEF left
  <2> QED BY <1>2, <1>3
<1> DEFINE k == CHOOSE i \in left : \A j \in left : i <= j
<1>5. NextToGo(FreeOrder) = FreeOrder[k]
  BY DEF NextToGo
<1>6. k \in 1 .. 5
  BY <1>4
<1> HIDE DEF k
<1> QED BY <1>5, <1>6 DEF FreeOrder

\* When nothing of an order is left, none of its objects is allocated.
LEMMA GoneControl ==
    Gone(TeardownOrder) <=> mem \cap {"cmd", "resp", "freelist", "ring"} = {}
<1>1. DOMAIN TeardownOrder = 1 .. 4
  BY DEF TeardownOrder
<1>2. Gone(TeardownOrder) <=> \A i \in 1 .. 4 : TeardownOrder[i] \notin mem
  BY <1>1 DEF Gone
<1>3. /\ TeardownOrder[1] = "cmd" /\ TeardownOrder[2] = "resp"
      /\ TeardownOrder[3] = "freelist" /\ TeardownOrder[4] = "ring"
  BY DEF TeardownOrder
<1> HIDE DEF TeardownOrder
<1> QED BY <1>2, <1>3

LEMMA GoneCursor ==
    Gone(FreeOrder) <=> mem \cap {"curlock", "cfreelist", "ccmd", "cresp", "cring"} = {}
<1>1. DOMAIN FreeOrder = 1 .. 5
  BY DEF FreeOrder
<1>2. Gone(FreeOrder) <=> \A i \in 1 .. 5 : FreeOrder[i] \notin mem
  BY <1>1 DEF Gone
<1>3. /\ FreeOrder[1] = "curlock" /\ FreeOrder[2] = "cfreelist"
      /\ FreeOrder[3] = "ccmd" /\ FreeOrder[4] = "cresp" /\ FreeOrder[5] = "cring"
  BY DEF FreeOrder
<1> HIDE DEF FreeOrder
<1> QED BY <1>2, <1>3

\* The allocations by name.
LEMMA ObjectNames ==
    Objects = {"ring", "freelist", "cmd", "resp", "cring", "cfreelist", "ccmd", "cresp",
               "control_queue", "cursor_queue", "vqlock", "curlock", "gate", "webgl"}
BY DEF Objects, QueueMem, Ring, FreeList, Buffers, LegacyMem

\* A caller moves only itself, its lock and the count of calls.
LEMMA CallFrame ==
    ASSUME NEW t \in Callers, Call(t)
    PROVE  UNCHANGED <<pc, mode, driver, device, stopped, wasReady>>
BY DEF Call, Enter, Lock, Publish, RingBell, Poll, Answer, Leave, driver, barMaps, device

-----------------------------------------------------------------------------
(* Each part of the invariant is kept.                                     *)

\* The types of what the starting thread changes.
LEMMA TypeDriverKept ==
    ASSUME Inv, Next PROVE TypeDriver'
<1>a. TypeDriver
  BY DEF Inv
<1>b. pc = "accel" => nextRes = 1
  BY DEF Inv, MadeSoFar
<1> USE DEF barMaps, device, driver
<1>1. CASE init
  <2>1. pc' \in Bringup \cup Takedown
    BY <1>1, <1>a DEF TypeDriver, init, Bringup, Takedown
  <2>2. UNCHANGED <<mode, cached, configMap, maps, notifyMap, notifyBase,
                    threeD, nextRes, status, enabled, vqInit, curInit,
                    stopped, wasReady>>
    BY <1>1 DEF init
  <2> QED BY <1>a, <2>1, <2>2 DEF TypeDriver
<1>2. CASE start
  <2>1. pc' \in Bringup \cup Takedown
    BY <1>2, <1>a DEF TypeDriver, start, Bringup, Takedown
  <2>2. UNCHANGED <<mode, cached, configMap, maps, notifyMap, notifyBase,
                    threeD, nextRes, status, enabled, vqInit, curInit,
                    stopped, wasReady>>
    BY <1>2 DEF start
  <2> QED BY <1>a, <2>1, <2>2 DEF TypeDriver
<1>3. CASE readDeviceConfig
  <2>1. pc' \in Bringup \cup Takedown
    BY <1>3, <1>a DEF TypeDriver, readDeviceConfig, Bringup, Takedown
  <2>2. UNCHANGED <<mode, maps, notifyMap, notifyBase, nextRes, enabled,
                    vqInit, curInit, stopped, wasReady>>
    BY <1>3 DEF readDeviceConfig
  <2>3. /\ threeD' \in BOOLEAN
        /\ cached' \in BOOLEAN
        /\ configMap' \in BOOLEAN
        /\ status' \subseteq Status
    BY <1>3, <1>a DEF TypeDriver, readDeviceConfig, Status
  <2> QED BY <1>a, <2>1, <2>2, <2>3 DEF TypeDriver
<1>4. CASE setupCommon
  <2>1. pc' \in Bringup \cup Takedown
    BY <1>4, <1>a DEF TypeDriver, setupCommon, Bringup, Takedown
  <2>2. UNCHANGED <<mode, cached, configMap, threeD, nextRes, vqInit,
                    curInit, stopped, wasReady>>
    BY <1>4 DEF setupCommon
  <2>3. /\ maps' \subseteq {"common", "early", "direct", "bar0"}
        /\ notifyMap' \in {"none", "early", "bar", "direct", "bar0", "released"}
        /\ notifyBase' \in {"none", "early"}
        /\ status' \subseteq Status
        /\ enabled' \subseteq Queues
    BY <1>4, <1>a DEF TypeDriver, setupCommon, Status, Queues
  <2> QED BY <1>a, <2>1, <2>2, <2>3 DEF TypeDriver
<1>5. CASE setupRing
  <2>1. pc' \in Bringup \cup Takedown
    BY <1>5, <1>a DEF TypeDriver, setupRing, Bringup, Takedown
  <2>2. UNCHANGED <<mode, cached, configMap, maps, notifyMap, notifyBase,
                    threeD, nextRes, status, vqInit, curInit, stopped,
                    wasReady>>
    BY <1>5 DEF setupRing
  <2>3. /\ enabled' \subseteq Queues
    BY <1>5, <1>a DEF TypeDriver, setupRing, Queues
  <2> QED BY <1>a, <2>1, <2>2, <2>3 DEF TypeDriver
<1>6. CASE setupCursorQueue
  <2>1. pc' \in Bringup \cup Takedown
    BY <1>6, <1>a DEF TypeDriver, setupCursorQueue, Bringup, Takedown
  <2>2. UNCHANGED <<mode, cached, configMap, maps, notifyMap, notifyBase,
                    threeD, nextRes, status, vqInit, stopped, wasReady>>
    BY <1>6 DEF setupCursorQueue
  <2>3. /\ enabled' \subseteq Queues
        /\ curInit' \in BOOLEAN
    BY <1>6, <1>a DEF TypeDriver, setupCursorQueue, Queues
  <2> QED BY <1>a, <2>1, <2>2, <2>3 DEF TypeDriver
<1>7. CASE setDriverOk
  <2>1. pc' \in Bringup \cup Takedown
    BY <1>7, <1>a DEF TypeDriver, setDriverOk, Bringup, Takedown
  <2>2. UNCHANGED <<mode, cached, configMap, maps, notifyMap, notifyBase,
                    threeD, nextRes, enabled, vqInit, curInit, stopped,
                    wasReady>>
    BY <1>7 DEF setDriverOk
  <2>3. /\ status' \subseteq Status
    BY <1>7, <1>a DEF TypeDriver, setDriverOk, Status
  <2> QED BY <1>a, <2>1, <2>2, <2>3 DEF TypeDriver
<1>8. CASE setupBuffers
  <2>1. pc' \in Bringup \cup Takedown
    BY <1>8, <1>a DEF TypeDriver, setupBuffers, Bringup, Takedown
  <2>2. UNCHANGED <<mode, cached, configMap, maps, notifyMap, notifyBase,
                    threeD, nextRes, status, enabled, curInit, stopped>>
    BY <1>8 DEF setupBuffers
  <2>3. /\ vqInit' \in BOOLEAN
        /\ wasReady' \in BOOLEAN
    BY <1>8, <1>a DEF TypeDriver, setupBuffers
  <2> QED BY <1>a, <2>1, <2>2, <2>3 DEF TypeDriver
<1>9. CASE initializeVirtIOQueues
  <2>1. pc' \in Bringup \cup Takedown
    BY <1>9, <1>a DEF TypeDriver, initializeVirtIOQueues, Bringup, Takedown
  <2>2. UNCHANGED <<mode, cached, configMap, maps, notifyMap, notifyBase,
                    threeD, nextRes, status, enabled, vqInit, curInit,
                    stopped, wasReady>>
    BY <1>9 DEF initializeVirtIOQueues
  <2> QED BY <1>a, <2>1, <2>2 DEF TypeDriver
<1>10. CASE setupGPUMemoryRegions
  <2>1. pc' \in Bringup \cup Takedown
    BY <1>10, <1>a DEF TypeDriver, setupGPUMemoryRegions, Bringup, Takedown
  <2>2. UNCHANGED <<mode, configMap, threeD, nextRes, status, enabled,
                    vqInit, curInit, stopped, wasReady>>
    BY <1>10 DEF setupGPUMemoryRegions
  <2>3. /\ cached' \in BOOLEAN
        /\ maps' \subseteq {"common", "early", "direct", "bar0"}
        /\ notifyMap' \in {"none", "early", "bar", "direct", "bar0", "released"}
        /\ notifyBase' \in {"none", "early"}
    BY <1>10, <1>a DEF TypeDriver, setupGPUMemoryRegions
  <2> QED BY <1>a, <2>1, <2>2, <2>3 DEF TypeDriver
<1>11. CASE enable3DAcceleration
  <2>1. pc' \in Bringup \cup Takedown
    BY <1>11, <1>a DEF TypeDriver, enable3DAcceleration, Bringup, Takedown
  <2>2. UNCHANGED <<mode, cached, configMap, maps, notifyMap, notifyBase,
                    threeD, status, enabled, vqInit, curInit, stopped,
                    wasReady>>
    BY <1>11 DEF enable3DAcceleration
  <2>3. /\ nextRes' \in {1, 3}
    BY <1>11, <1>a, <1>b DEF TypeDriver, enable3DAcceleration
  <2> QED BY <1>a, <2>1, <2>2, <2>3 DEF TypeDriver
<1>12. CASE finishStart
  <2>1. pc' \in Bringup \cup Takedown
    BY <1>12, <1>a DEF TypeDriver, finishStart, Bringup, Takedown
  <2>2. UNCHANGED <<mode, cached, configMap, maps, notifyMap, notifyBase,
                    threeD, nextRes, status, enabled, vqInit, curInit,
                    stopped, wasReady>>
    BY <1>12 DEF finishStart
  <2> QED BY <1>a, <2>1, <2>2 DEF TypeDriver
<1>13. CASE disableQueue
  <2>1. pc' \in Bringup \cup Takedown
    BY <1>13, <1>a DEF TypeDriver, disableQueue, Bringup, Takedown
  <2>2. UNCHANGED <<mode, cached, configMap, maps, notifyMap, notifyBase,
                    threeD, nextRes, status, vqInit, curInit, stopped,
                    wasReady>>
    BY <1>13 DEF disableQueue
  <2>3. /\ enabled' \subseteq Queues
    BY <1>13, <1>a DEF TypeDriver, disableQueue, Queues
  <2> QED BY <1>a, <2>1, <2>2, <2>3 DEF TypeDriver
<1>14. CASE clearFlag
  <2>1. pc' \in Bringup \cup Takedown
    BY <1>14, <1>a DEF TypeDriver, clearFlag, Bringup, Takedown
  <2>2. UNCHANGED <<mode, cached, configMap, maps, notifyMap, notifyBase,
                    threeD, nextRes, status, enabled, curInit, stopped,
                    wasReady>>
    BY <1>14 DEF clearFlag
  <2>3. /\ vqInit' \in BOOLEAN
    BY <1>14, <1>a DEF TypeDriver, clearFlag
  <2> QED BY <1>a, <2>1, <2>2, <2>3 DEF TypeDriver
<1>15. CASE releaseControl
  <2>1. pc' \in Bringup \cup Takedown
    BY <1>15, <1>a DEF TypeDriver, releaseControl, Bringup, Takedown
  <2>2. UNCHANGED <<mode, cached, configMap, maps, notifyMap, notifyBase,
                    threeD, nextRes, status, enabled, vqInit, curInit,
                    stopped, wasReady>>
    BY <1>15 DEF releaseControl
  <2> QED BY <1>a, <2>1, <2>2 DEF TypeDriver
<1>16. CASE cleanupVirtIOGPU
  <2>1. pc' \in Bringup \cup Takedown
    BY <1>16, <1>a DEF TypeDriver, cleanupVirtIOGPU, Bringup, Takedown
  <2>2. UNCHANGED <<mode, cached, notifyBase, threeD, nextRes, status,
                    enabled, vqInit, curInit, stopped, wasReady>>
    BY <1>16 DEF cleanupVirtIOGPU
  <2>3. /\ configMap' \in BOOLEAN
        /\ maps' \subseteq {"common", "early", "direct", "bar0"}
        /\ notifyMap' \in {"none", "early", "bar", "direct", "bar0", "released"}
    BY <1>16, <1>a DEF TypeDriver, cleanupVirtIOGPU
  <2> QED BY <1>a, <2>1, <2>2, <2>3 DEF TypeDriver
<1>17. CASE clearNotifyMap
  <2>1. pc' \in Bringup \cup Takedown
    BY <1>17, <1>a DEF TypeDriver, clearNotifyMap, Bringup, Takedown
  <2>2. UNCHANGED <<mode, cached, configMap, maps, notifyBase, threeD,
                    nextRes, status, enabled, vqInit, curInit, wasReady>>
    BY <1>17 DEF clearNotifyMap
  <2>3. /\ notifyMap' \in {"none", "early", "bar", "direct", "bar0", "released"}
        /\ stopped' \in BOOLEAN
    BY <1>17, <1>a DEF TypeDriver, clearNotifyMap
  <2> QED BY <1>a, <2>1, <2>2, <2>3 DEF TypeDriver
<1>18. CASE freeBegins
  <2>1. pc' \in Bringup \cup Takedown
    BY <1>18, <1>a DEF TypeDriver, freeBegins, Bringup, Takedown
  <2>2. UNCHANGED <<mode, cached, configMap, maps, notifyMap, notifyBase,
                    threeD, nextRes, status, enabled, vqInit, stopped,
                    wasReady>>
    BY <1>18 DEF freeBegins
  <2>3. /\ curInit' \in BOOLEAN
    BY <1>18, <1>a DEF TypeDriver, freeBegins
  <2> QED BY <1>a, <2>1, <2>2, <2>3 DEF TypeDriver
<1>19. CASE releaseCursor
  <2>1. pc' \in Bringup \cup Takedown
    BY <1>19, <1>a DEF TypeDriver, releaseCursor, Bringup, Takedown
  <2>2. UNCHANGED <<mode, cached, configMap, maps, notifyMap, notifyBase,
                    threeD, nextRes, status, enabled, vqInit, curInit,
                    stopped, wasReady>>
    BY <1>19 DEF releaseCursor
  <2> QED BY <1>a, <2>1, <2>2 DEF TypeDriver
<1>20. CASE freeEnds
  <2>1. pc' \in Bringup \cup Takedown
    BY <1>20, <1>a DEF TypeDriver, freeEnds, Bringup, Takedown
  <2>2. UNCHANGED <<mode, configMap, maps, notifyMap, notifyBase, threeD,
                    nextRes, status, enabled, vqInit, curInit, stopped,
                    wasReady>>
    BY <1>20 DEF freeEnds
  <2>3. /\ cached' \in BOOLEAN
    BY <1>20, <1>a DEF TypeDriver, freeEnds
  <2> QED BY <1>a, <2>1, <2>2, <2>3 DEF TypeDriver
<1>21. ASSUME NEW t \in Callers, Call(t) PROVE TypeDriver'
  <2>1. UNCHANGED <<pc, mode, driver, device, stopped, wasReady>>
    BY <1>21, CallFrame
  <2> QED BY <2>1, <1>a DEF TypeDriver
<1> QED BY <1>1, <1>2, <1>3, <1>4, <1>5, <1>6, <1>7, <1>8, <1>9, <1>10, <1>11,
         <1>12, <1>13, <1>14, <1>15, <1>16, <1>17, <1>18, <1>19, <1>20, <1>21 DEF Next,
         Bring, Take

\* Only the named objects are allocated.
LEMMA TypeMemKept ==
    ASSUME Inv, Next PROVE TypeMem'
<1> USE DEF Inv, TypeDriver, TypeCallers, TypeMem, barMaps, device, callers, driver,
        Buffers, LegacyMem
<1>1. CASE init
  BY <1>1, ObjectNames DEF init
<1>2. CASE start
  BY <1>2, ObjectNames DEF start
<1>3. CASE readDeviceConfig
  BY <1>3, ObjectNames DEF readDeviceConfig
<1>4. CASE setupCommon
  BY <1>4, ObjectNames DEF setupCommon
<1>5. CASE setupRing
  BY <1>5, ObjectNames DEF setupRing
<1>6. CASE setupCursorQueue
  BY <1>6, ObjectNames DEF setupCursorQueue
<1>7. CASE setDriverOk
  BY <1>7, ObjectNames DEF setDriverOk
<1>8. CASE setupBuffers
  BY <1>8, ObjectNames DEF setupBuffers
<1>9. CASE initializeVirtIOQueues
  BY <1>9, ObjectNames DEF initializeVirtIOQueues
<1>10. CASE setupGPUMemoryRegions
  BY <1>10, ObjectNames DEF setupGPUMemoryRegions
<1>11. CASE enable3DAcceleration
  BY <1>11, ObjectNames DEF enable3DAcceleration
<1>12. CASE finishStart
  BY <1>12, ObjectNames DEF finishStart
<1>13. CASE disableQueue
  BY <1>13, ObjectNames DEF disableQueue
<1>14. CASE clearFlag
  BY <1>14, ObjectNames DEF clearFlag
<1>15. CASE releaseControl
  BY <1>15, ObjectNames, NextControl DEF releaseControl
<1>16. CASE cleanupVirtIOGPU
  BY <1>16, ObjectNames DEF cleanupVirtIOGPU
<1>17. CASE clearNotifyMap
  BY <1>17 DEF clearNotifyMap
<1>18. CASE freeBegins
  BY <1>18, ObjectNames DEF freeBegins
<1>19. CASE releaseCursor
  BY <1>19, ObjectNames, NextCursor DEF releaseCursor
<1>20. CASE freeEnds
  BY <1>20, ObjectNames DEF freeEnds
<1>21. ASSUME NEW t \in Callers, Call(t) PROVE TypeMem'
  BY <1>21, CallFrame
<1> QED BY <1>1, <1>2, <1>3, <1>4, <1>5, <1>6, <1>7, <1>8, <1>9, <1>10, <1>11,
         <1>12, <1>13, <1>14, <1>15, <1>16, <1>17, <1>18, <1>19, <1>20, <1>21 DEF Next,
         Bring, Take

\* The types of what the callers change.
LEMMA TypeCallersKept ==
    ASSUME Inv, Next PROVE TypeCallers'
<1> USE DEF Inv, TypeDriver, TypeCallers, MadeSoFar, barMaps, device, callers,
        driver, BeforeCommon, BeforeBuffers, BeforeRegions, Running, Bringup,
        Takedown, MarkStale
<1>1. CASE init
  BY <1>1 DEF init
<1>2. CASE start
  BY <1>2 DEF start
<1>3. CASE readDeviceConfig
  BY <1>3 DEF readDeviceConfig
<1>4. CASE setupCommon
  BY <1>4 DEF setupCommon
<1>5. CASE setupRing
  BY <1>5 DEF setupRing
<1>6. CASE setupCursorQueue
  BY <1>6 DEF setupCursorQueue
<1>7. CASE setDriverOk
  BY <1>7 DEF setDriverOk
<1>8. CASE setupBuffers
  BY <1>8 DEF setupBuffers
<1>9. CASE initializeVirtIOQueues
  BY <1>9 DEF initializeVirtIOQueues
<1>10. CASE setupGPUMemoryRegions
  BY <1>10 DEF setupGPUMemoryRegions
<1>11. CASE enable3DAcceleration
  BY <1>11 DEF enable3DAcceleration
<1>12. CASE finishStart
  BY <1>12 DEF finishStart
<1>13. CASE disableQueue
  BY <1>13 DEF disableQueue
<1>14. CASE clearFlag
  BY <1>14 DEF clearFlag
<1>15. CASE releaseControl
  BY <1>15 DEF releaseControl
<1>16. CASE cleanupVirtIOGPU
  BY <1>16 DEF cleanupVirtIOGPU
<1>17. CASE clearNotifyMap
  BY <1>17 DEF clearNotifyMap
<1>18. CASE freeBegins
  BY <1>18 DEF freeBegins
<1>19. CASE releaseCursor
  BY <1>19 DEF releaseCursor
<1>20. CASE freeEnds
  BY <1>20 DEF freeEnds
<1>21. ASSUME NEW t \in Callers, Call(t) PROVE TypeCallers'
  <2> HIDE DEF MadeSoFar, BeforeCommon, BeforeBuffers, BeforeRegions, Running, Bringup
  <2>1. ASSUME NEW q \in Queues, Enter(t, q) PROVE TypeCallers'
    BY <2>1, LifecycleAssumption DEF Enter
  <2>2. CASE Lock(t)
    BY <2>2 DEF Lock, Touch
  <2>3. CASE Publish(t)
    BY <2>3 DEF Publish, Touch
  <2>7. CASE RingBell(t)
    BY <2>7 DEF RingBell
  <2>4. CASE Poll(t)
    BY <2>4 DEF Poll, Touch
  <2>5. CASE Answer(t)
    BY <2>5 DEF Answer, Touch
  <2>6. CASE Leave(t)
    BY <2>6 DEF Leave, Touch
  <2> QED BY <1>21, <2>1, <2>2, <2>3, <2>4, <2>5, <2>6, <2>7 DEF Call
<1> QED BY <1>1, <1>2, <1>3, <1>4, <1>5, <1>6, <1>7, <1>8, <1>9, <1>10, <1>11,
         <1>12, <1>13, <1>14, <1>15, <1>16, <1>17, <1>18, <1>19, <1>20, <1>21 DEF Next,
         Bring, Take

\* What has been made at each position is kept and added to.
LEMMA MadeSoFarKept ==
    ASSUME Inv, Next PROVE MadeSoFar'
<1> USE DEF Inv, TypeDriver, TypeCallers, MadeSoFar, barMaps, device, callers,
        driver, Queues, Ring, FreeList, Buffers, QueueMem, LegacyMem, BeforeCommon,
        BeforeBuffers, BeforeRegions, Running, Bringup, Takedown, MarkStale
<1>1. CASE init
  BY <1>1 DEF init
<1>2. CASE start
  BY <1>2 DEF start
<1>3. CASE readDeviceConfig
  BY <1>3 DEF readDeviceConfig
<1>4. CASE setupCommon
  BY <1>4 DEF setupCommon
<1>5. CASE setupRing
  BY <1>5 DEF setupRing
<1>6. CASE setupCursorQueue
  BY <1>6 DEF setupCursorQueue
<1>7. CASE setDriverOk
  BY <1>7 DEF setDriverOk
<1>8. CASE setupBuffers
  BY <1>8 DEF setupBuffers
<1>9. CASE initializeVirtIOQueues
  BY <1>9 DEF initializeVirtIOQueues
<1>10. CASE setupGPUMemoryRegions
  BY <1>10 DEF setupGPUMemoryRegions
<1>11. CASE enable3DAcceleration
  BY <1>11 DEF enable3DAcceleration
<1>12. CASE finishStart
  BY <1>12 DEF finishStart
<1>13. CASE disableQueue
  BY <1>13 DEF disableQueue
<1>14. CASE clearFlag
  BY <1>14 DEF clearFlag
<1>15. CASE releaseControl
  BY <1>15, NextControl DEF releaseControl
<1>16. CASE cleanupVirtIOGPU
  BY <1>16 DEF cleanupVirtIOGPU
<1>17. CASE clearNotifyMap
  BY <1>17 DEF clearNotifyMap
<1>18. CASE freeBegins
  BY <1>18 DEF freeBegins
<1>19. CASE releaseCursor
  BY <1>19, NextCursor DEF releaseCursor
<1>20. CASE freeEnds
  BY <1>20 DEF freeEnds
<1>21. ASSUME NEW t \in Callers, Call(t) PROVE MadeSoFar'
  <2>1. UNCHANGED <<pc, mode, driver, device, stopped, wasReady>>
    BY <1>21, CallFrame
  <2>2. pc # "new"
    BY <1>21 DEF Call, Enter, Lock, Publish, RingBell, Poll, Answer, Leave
  <2> HIDE DEF QueueMem, Takedown, Bringup, Running
  <2> QED BY <2>1, <2>2
<1> QED BY <1>1, <1>2, <1>3, <1>4, <1>5, <1>6, <1>7, <1>8, <1>9, <1>10, <1>11,
         <1>12, <1>13, <1>14, <1>15, <1>16, <1>17, <1>18, <1>19, <1>20, <1>21 DEF Next,
         Bring, Take

\* What the device was told follows the bring-up and stop.
LEMMA DeviceToldKept ==
    ASSUME Inv, Next PROVE DeviceTold'
<1> USE DEF Inv, TypeDriver, TypeCallers, DeviceTold, MadeSoFar, Mappings, barMaps,
        device, callers, driver, BeforeCommon, BeforeBuffers, BeforeRegions,
        Running, Bringup, Takedown
<1>1. CASE init
  BY <1>1 DEF init
<1>2. CASE start
  BY <1>2 DEF start
<1>3. CASE readDeviceConfig
  BY <1>3 DEF readDeviceConfig
<1>4. CASE setupCommon
  BY <1>4 DEF setupCommon
<1>5. CASE setupRing
  BY <1>5 DEF setupRing
<1>6. CASE setupCursorQueue
  BY <1>6 DEF setupCursorQueue
<1>7. CASE setDriverOk
  BY <1>7 DEF setDriverOk
<1>8. CASE setupBuffers
  BY <1>8 DEF setupBuffers
<1>9. CASE initializeVirtIOQueues
  BY <1>9 DEF initializeVirtIOQueues
<1>10. CASE setupGPUMemoryRegions
  BY <1>10 DEF setupGPUMemoryRegions
<1>11. CASE enable3DAcceleration
  BY <1>11 DEF enable3DAcceleration
<1>12. CASE finishStart
  BY <1>12 DEF finishStart
<1>13. CASE disableQueue
  BY <1>13 DEF disableQueue
<1>14. CASE clearFlag
  BY <1>14 DEF clearFlag
<1>15. CASE releaseControl
  BY <1>15, NextControl DEF releaseControl
<1>16. CASE cleanupVirtIOGPU
  BY <1>16 DEF cleanupVirtIOGPU
<1>17. CASE clearNotifyMap
  BY <1>17 DEF clearNotifyMap
<1>18. CASE freeBegins
  BY <1>18 DEF freeBegins
<1>19. CASE releaseCursor
  BY <1>19, NextCursor DEF releaseCursor
<1>20. CASE freeEnds
  BY <1>20 DEF freeEnds
<1>21. ASSUME NEW t \in Callers, Call(t) PROVE DeviceTold'
  BY <1>21, CallFrame
<1> QED BY <1>1, <1>2, <1>3, <1>4, <1>5, <1>6, <1>7, <1>8, <1>9, <1>10, <1>11,
         <1>12, <1>13, <1>14, <1>15, <1>16, <1>17, <1>18, <1>19, <1>20, <1>21 DEF Next,
         Bring, Take

\* The members that point to a mapping.
LEMMA MappingsKept ==
    ASSUME Inv, Next PROVE Mappings'
<1> USE DEF Inv, TypeDriver, TypeCallers, Mappings, barMaps, device, callers,
        driver, BeforeCommon, BeforeBuffers, BeforeRegions, Running, Bringup,
        Takedown, mapBarByNumber
<1>1. CASE init
  BY <1>1 DEF init
<1>2. CASE start
  BY <1>2 DEF start
<1>3. CASE readDeviceConfig
  BY <1>3 DEF readDeviceConfig
<1>4. CASE setupCommon
  BY <1>4 DEF setupCommon
<1>5. CASE setupRing
  BY <1>5 DEF setupRing
<1>6. CASE setupCursorQueue
  BY <1>6 DEF setupCursorQueue
<1>7. CASE setDriverOk
  BY <1>7 DEF setDriverOk
<1>8. CASE setupBuffers
  BY <1>8 DEF setupBuffers
<1>9. CASE initializeVirtIOQueues
  BY <1>9 DEF initializeVirtIOQueues
<1>10. CASE setupGPUMemoryRegions
  BY <1>10 DEF setupGPUMemoryRegions
<1>11. CASE enable3DAcceleration
  BY <1>11 DEF enable3DAcceleration
<1>12. CASE finishStart
  BY <1>12 DEF finishStart
<1>13. CASE disableQueue
  BY <1>13 DEF disableQueue
<1>14. CASE clearFlag
  BY <1>14 DEF clearFlag
<1>15. CASE releaseControl
  BY <1>15, NextControl DEF releaseControl
<1>16. CASE cleanupVirtIOGPU
  BY <1>16 DEF cleanupVirtIOGPU
<1>17. CASE clearNotifyMap
  BY <1>17 DEF clearNotifyMap
<1>18. CASE freeBegins
  BY <1>18 DEF freeBegins
<1>19. CASE releaseCursor
  BY <1>19, NextCursor DEF releaseCursor
<1>20. CASE freeEnds
  BY <1>20 DEF freeEnds
<1>21. ASSUME NEW t \in Callers, Call(t) PROVE Mappings'
  BY <1>21, CallFrame
<1> QED BY <1>1, <1>2, <1>3, <1>4, <1>5, <1>6, <1>7, <1>8, <1>9, <1>10, <1>11,
         <1>12, <1>13, <1>14, <1>15, <1>16, <1>17, <1>18, <1>19, <1>20, <1>21 DEF Next,
         Bring, Take

\* Every retain taken is given back with the member that held it.
LEMMA RefSumKept ==
    ASSUME Inv, Next PROVE RefSum'
<1> USE DEF Inv, TypeDriver, TypeCallers, RefSum, One, Mappings, barMaps, device,
        callers, driver, BeforeCommon, BeforeBuffers, BeforeRegions, Running,
        Bringup, Takedown, mapBarByNumber
<1>1. CASE init
  BY <1>1 DEF init
<1>2. CASE start
  BY <1>2 DEF start
<1>3. CASE readDeviceConfig
  BY <1>3 DEF readDeviceConfig
<1>4. CASE setupCommon
  BY <1>4 DEF setupCommon
<1>5. CASE setupRing
  BY <1>5 DEF setupRing
<1>6. CASE setupCursorQueue
  BY <1>6 DEF setupCursorQueue
<1>7. CASE setDriverOk
  BY <1>7 DEF setDriverOk
<1>8. CASE setupBuffers
  BY <1>8 DEF setupBuffers
<1>9. CASE initializeVirtIOQueues
  BY <1>9 DEF initializeVirtIOQueues
<1>10. CASE setupGPUMemoryRegions
  BY <1>10 DEF setupGPUMemoryRegions
<1>11. CASE enable3DAcceleration
  BY <1>11 DEF enable3DAcceleration
<1>12. CASE finishStart
  BY <1>12 DEF finishStart
<1>13. CASE disableQueue
  BY <1>13 DEF disableQueue
<1>14. CASE clearFlag
  BY <1>14 DEF clearFlag
<1>15. CASE releaseControl
  BY <1>15, NextControl DEF releaseControl
<1>16. CASE cleanupVirtIOGPU
  BY <1>16 DEF cleanupVirtIOGPU
<1>17. CASE clearNotifyMap
  BY <1>17 DEF clearNotifyMap, BellInv
<1>18. CASE freeBegins
  BY <1>18 DEF freeBegins
<1>19. CASE releaseCursor
  BY <1>19, NextCursor DEF releaseCursor
<1>20. CASE freeEnds
  BY <1>20 DEF freeEnds
<1>21. ASSUME NEW t \in Callers, Call(t) PROVE RefSum'
  BY <1>21, CallFrame
<1> QED BY <1>1, <1>2, <1>3, <1>4, <1>5, <1>6, <1>7, <1>8, <1>9, <1>10, <1>11,
         <1>12, <1>13, <1>14, <1>15, <1>16, <1>17, <1>18, <1>19, <1>20, <1>21 DEF Next,
         Bring, Take

\* What was released stays released.
LEMMA ReleasedKept ==
    ASSUME Inv, Next PROVE Released'
<1> USE DEF Inv, TypeDriver, TypeCallers, Released, Mappings, barMaps, device,
        callers, driver, Queues, Ring, FreeList, Buffers, QueueMem, LegacyMem,
        BeforeCommon, BeforeBuffers, BeforeRegions, Running, Bringup, Takedown
<1>1. CASE init
  BY <1>1 DEF init
<1>2. CASE start
  BY <1>2 DEF start
<1>3. CASE readDeviceConfig
  BY <1>3 DEF readDeviceConfig
<1>4. CASE setupCommon
  BY <1>4 DEF setupCommon
<1>5. CASE setupRing
  BY <1>5 DEF setupRing
<1>6. CASE setupCursorQueue
  BY <1>6 DEF setupCursorQueue
<1>7. CASE setDriverOk
  BY <1>7 DEF setDriverOk
<1>8. CASE setupBuffers
  BY <1>8 DEF setupBuffers
<1>9. CASE initializeVirtIOQueues
  BY <1>9 DEF initializeVirtIOQueues
<1>10. CASE setupGPUMemoryRegions
  BY <1>10 DEF setupGPUMemoryRegions
<1>11. CASE enable3DAcceleration
  BY <1>11 DEF enable3DAcceleration
<1>12. CASE finishStart
  BY <1>12 DEF finishStart
<1>13. CASE disableQueue
  BY <1>13 DEF disableQueue
<1>14. CASE clearFlag
  BY <1>14 DEF clearFlag
<1>15. CASE releaseControl
  BY <1>15, NextControl DEF releaseControl
<1>16. CASE cleanupVirtIOGPU
  BY <1>16, GoneControl DEF cleanupVirtIOGPU
<1>17. CASE clearNotifyMap
  BY <1>17 DEF clearNotifyMap
<1>18. CASE freeBegins
  BY <1>18 DEF freeBegins
<1>19. CASE releaseCursor
  BY <1>19, NextCursor DEF releaseCursor
<1>20. CASE freeEnds
  BY <1>20, GoneCursor DEF freeEnds
<1>21. ASSUME NEW t \in Callers, Call(t) PROVE Released'
  BY <1>21, CallFrame
<1> QED BY <1>1, <1>2, <1>3, <1>4, <1>5, <1>6, <1>7, <1>8, <1>9, <1>10, <1>11,
         <1>12, <1>13, <1>14, <1>15, <1>16, <1>17, <1>18, <1>19, <1>20, <1>21 DEF Next,
         Bring, Take

\* A flag is set last and cleared first.
LEMMA ReadyKept ==
    ASSUME Inv, Next PROVE ReadyMeansComplete'
<1> USE DEF Inv, TypeDriver, TypeCallers, ReadyMeansComplete, MadeSoFar, barMaps,
        device, callers, driver, Queues, Ring, FreeList, Buffers, QueueMem,
        LegacyMem, BeforeCommon, BeforeBuffers, BeforeRegions, Running, Bringup,
        Takedown
<1>1. CASE init
  BY <1>1 DEF init
<1>2. CASE start
  BY <1>2 DEF start
<1>3. CASE readDeviceConfig
  BY <1>3 DEF readDeviceConfig
<1>4. CASE setupCommon
  BY <1>4 DEF setupCommon
<1>5. CASE setupRing
  BY <1>5 DEF setupRing
<1>6. CASE setupCursorQueue
  BY <1>6 DEF setupCursorQueue
<1>7. CASE setDriverOk
  BY <1>7 DEF setDriverOk
<1>8. CASE setupBuffers
  BY <1>8 DEF setupBuffers
<1>9. CASE initializeVirtIOQueues
  BY <1>9 DEF initializeVirtIOQueues
<1>10. CASE setupGPUMemoryRegions
  BY <1>10 DEF setupGPUMemoryRegions
<1>11. CASE enable3DAcceleration
  BY <1>11 DEF enable3DAcceleration
<1>12. CASE finishStart
  BY <1>12 DEF finishStart
<1>13. CASE disableQueue
  BY <1>13 DEF disableQueue
<1>14. CASE clearFlag
  BY <1>14 DEF clearFlag
<1>15. CASE releaseControl
  BY <1>15, NextControl DEF releaseControl
<1>16. CASE cleanupVirtIOGPU
  BY <1>16 DEF cleanupVirtIOGPU
<1>17. CASE clearNotifyMap
  BY <1>17 DEF clearNotifyMap
<1>18. CASE freeBegins
  BY <1>18 DEF freeBegins
<1>19. CASE releaseCursor
  BY <1>19, NextCursor DEF releaseCursor
<1>20. CASE freeEnds
  BY <1>20 DEF freeEnds
<1>21. ASSUME NEW t \in Callers, Call(t) PROVE ReadyMeansComplete'
  BY <1>21, CallFrame
<1> QED BY <1>1, <1>2, <1>3, <1>4, <1>5, <1>6, <1>7, <1>8, <1>9, <1>10, <1>11,
         <1>12, <1>13, <1>14, <1>15, <1>16, <1>17, <1>18, <1>19, <1>20, <1>21 DEF Next,
         Bring, Take

\* An enabled queue keeps its ring but in the two cases.
LEMMA EnabledKept ==
    ASSUME Inv, Next PROVE EnabledRingExplained'
<1> USE DEF Inv, TypeDriver, TypeCallers, EnabledRingExplained, ReadyMeansComplete,
        MadeSoFar, DeviceTold, barMaps, device, callers, driver, Queues, Ring,
        FreeList, Buffers, QueueMem, LegacyMem, BeforeCommon, BeforeBuffers,
        BeforeRegions, Running, Bringup, Takedown
<1>1. CASE init
  BY <1>1 DEF init
<1>2. CASE start
  BY <1>2 DEF start
<1>3. CASE readDeviceConfig
  BY <1>3 DEF readDeviceConfig
<1>4. CASE setupCommon
  BY <1>4 DEF setupCommon
<1>5. CASE setupRing
  BY <1>5 DEF setupRing
<1>6. CASE setupCursorQueue
  BY <1>6 DEF setupCursorQueue
<1>7. CASE setDriverOk
  BY <1>7 DEF setDriverOk
<1>8. CASE setupBuffers
  BY <1>8 DEF setupBuffers
<1>9. CASE initializeVirtIOQueues
  BY <1>9 DEF initializeVirtIOQueues
<1>10. CASE setupGPUMemoryRegions
  BY <1>10 DEF setupGPUMemoryRegions
<1>11. CASE enable3DAcceleration
  BY <1>11 DEF enable3DAcceleration
<1>12. CASE finishStart
  BY <1>12 DEF finishStart
<1>13. CASE disableQueue
  BY <1>13 DEF disableQueue
<1>14. CASE clearFlag
  BY <1>14 DEF clearFlag
<1>15. CASE releaseControl
  BY <1>15, NextControl DEF releaseControl
<1>16. CASE cleanupVirtIOGPU
  BY <1>16 DEF cleanupVirtIOGPU
<1>17. CASE clearNotifyMap
  BY <1>17 DEF clearNotifyMap
<1>18. CASE freeBegins
  BY <1>18 DEF freeBegins
<1>19. CASE releaseCursor
  BY <1>19, NextCursor DEF releaseCursor
<1>20. CASE freeEnds
  BY <1>20 DEF freeEnds
<1>21. ASSUME NEW t \in Callers, Call(t) PROVE EnabledRingExplained'
  BY <1>21, CallFrame
<1> QED BY <1>1, <1>2, <1>3, <1>4, <1>5, <1>6, <1>7, <1>8, <1>9, <1>10, <1>11,
         <1>12, <1>13, <1>14, <1>15, <1>16, <1>17, <1>18, <1>19, <1>20, <1>21 DEF Next,
         Bring, Take

\* DRIVER_OK comes with the queue.
LEMMA DriverOkKept ==
    ASSUME Inv, Next PROVE DriverOkMeansQueue'
<1> USE DEF Inv, TypeDriver, TypeCallers, DriverOkMeansQueue, DeviceTold, Mappings,
        MadeSoFar, barMaps, device, callers, driver, BeforeCommon, BeforeBuffers,
        BeforeRegions, Running, Bringup, Takedown
<1>1. CASE init
  BY <1>1 DEF init
<1>2. CASE start
  BY <1>2 DEF start
<1>3. CASE readDeviceConfig
  BY <1>3 DEF readDeviceConfig
<1>4. CASE setupCommon
  BY <1>4 DEF setupCommon
<1>5. CASE setupRing
  BY <1>5 DEF setupRing
<1>6. CASE setupCursorQueue
  BY <1>6 DEF setupCursorQueue
<1>7. CASE setDriverOk
  BY <1>7 DEF setDriverOk
<1>8. CASE setupBuffers
  BY <1>8 DEF setupBuffers
<1>9. CASE initializeVirtIOQueues
  BY <1>9 DEF initializeVirtIOQueues
<1>10. CASE setupGPUMemoryRegions
  BY <1>10 DEF setupGPUMemoryRegions
<1>11. CASE enable3DAcceleration
  BY <1>11 DEF enable3DAcceleration
<1>12. CASE finishStart
  BY <1>12 DEF finishStart
<1>13. CASE disableQueue
  BY <1>13 DEF disableQueue
<1>14. CASE clearFlag
  BY <1>14 DEF clearFlag
<1>15. CASE releaseControl
  BY <1>15, NextControl DEF releaseControl
<1>16. CASE cleanupVirtIOGPU
  BY <1>16 DEF cleanupVirtIOGPU
<1>17. CASE clearNotifyMap
  BY <1>17 DEF clearNotifyMap
<1>18. CASE freeBegins
  BY <1>18 DEF freeBegins
<1>19. CASE releaseCursor
  BY <1>19, NextCursor DEF releaseCursor
<1>20. CASE freeEnds
  BY <1>20 DEF freeEnds
<1>21. ASSUME NEW t \in Callers, Call(t) PROVE DriverOkMeansQueue'
  BY <1>21, CallFrame
<1> QED BY <1>1, <1>2, <1>3, <1>4, <1>5, <1>6, <1>7, <1>8, <1>9, <1>10, <1>11,
         <1>12, <1>13, <1>14, <1>15, <1>16, <1>17, <1>18, <1>19, <1>20, <1>21 DEF Next,
         Bring, Take

\* A call is past the check of a flag that is set, or marked.
LEMMA CallsKept ==
    ASSUME Inv, Next PROVE CallsInv'
<1> USE DEF Inv, TypeDriver, TypeCallers, CallsInv, Busy, Flag, MadeSoFar, InCall,
        MarkStale, barMaps, device, callers, driver, BeforeCommon, BeforeBuffers,
        BeforeRegions, Running, Bringup, Takedown, Queues
<1>1. CASE init
  BY <1>1 DEF init
<1>2. CASE start
  BY <1>2 DEF start
<1>3. CASE readDeviceConfig
  BY <1>3 DEF readDeviceConfig
<1>4. CASE setupCommon
  BY <1>4 DEF setupCommon
<1>5. CASE setupRing
  BY <1>5 DEF setupRing
<1>6. CASE setupCursorQueue
  BY <1>6 DEF setupCursorQueue
<1>7. CASE setDriverOk
  BY <1>7 DEF setDriverOk
<1>8. CASE setupBuffers
  BY <1>8 DEF setupBuffers
<1>9. CASE initializeVirtIOQueues
  BY <1>9 DEF initializeVirtIOQueues
<1>10. CASE setupGPUMemoryRegions
  BY <1>10 DEF setupGPUMemoryRegions
<1>11. CASE enable3DAcceleration
  BY <1>11 DEF enable3DAcceleration
<1>12. CASE finishStart
  BY <1>12 DEF finishStart
<1>13. CASE disableQueue
  BY <1>13 DEF disableQueue
<1>14. CASE clearFlag
  BY <1>14 DEF clearFlag
<1>15. CASE releaseControl
  BY <1>15, NextControl DEF releaseControl
<1>16. CASE cleanupVirtIOGPU
  BY <1>16 DEF cleanupVirtIOGPU
<1>17. CASE clearNotifyMap
  BY <1>17 DEF clearNotifyMap
<1>18. CASE freeBegins
  BY <1>18 DEF freeBegins
<1>19. CASE releaseCursor
  BY <1>19, NextCursor DEF releaseCursor
<1>20. CASE freeEnds
  BY <1>20 DEF freeEnds
<1>21. ASSUME NEW t \in Callers, Call(t) PROVE CallsInv'
  <2> HIDE DEF MadeSoFar, BeforeCommon, BeforeBuffers, BeforeRegions, Running, Bringup,
         Takedown, InCall, MarkStale
  <2>1. UNCHANGED <<vqInit, curInit>>
    BY <1>21, CallFrame
  <2>2. ASSUME NEW u \in Callers, u # t
        PROVE  /\ cpc'[u] = cpc[u] /\ cq'[u] = cq[u] /\ stale'[u] = stale[u]
               /\ unmapped'[u] = unmapped[u]
    BY <1>21, <2>2 DEF Call, Enter, Lock, Publish, RingBell, Poll, Answer, Leave, Touch
  <2>3. Busy(t)' => stale'[t] \/ Flag(cq'[t])
    <3>1. ASSUME NEW q \in Queues, Enter(t, q) PROVE Flag(cq'[t])
      BY <3>1 DEF Enter
    <3>2. CASE Lock(t) \/ Publish(t) \/ RingBell(t) \/ Poll(t) \/ Answer(t) \/ Leave(t)
      BY <3>2 DEF Lock, Publish, RingBell, Poll, Answer, Leave
    <3> QED BY <1>21, <3>1, <3>2 DEF Call
  <2> QED BY <2>1, <2>2, <2>3
<1> QED BY <1>1, <1>2, <1>3, <1>4, <1>5, <1>6, <1>7, <1>8, <1>9, <1>10, <1>11,
         <1>12, <1>13, <1>14, <1>15, <1>16, <1>17, <1>18, <1>19, <1>20, <1>21 DEF Next,
         Bring, Take

\* No call has the doorbell's mapping taken away unmarked.
LEMMA BellKept ==
    ASSUME Inv, Next PROVE BellInv'
<1> USE DEF Inv, TypeDriver, TypeCallers, BellInv, Busy, Flag, MadeSoFar, InCall,
        MarkStale, barMaps, device, callers, driver, BeforeCommon, BeforeBuffers,
        BeforeRegions, Running, Bringup, Takedown, Queues
<1>1. CASE init
  BY <1>1 DEF init
<1>2. CASE start
  BY <1>2 DEF start
<1>3. CASE readDeviceConfig
  BY <1>3 DEF readDeviceConfig
<1>4. CASE setupCommon
  BY <1>4 DEF setupCommon
<1>5. CASE setupRing
  BY <1>5 DEF setupRing
<1>6. CASE setupCursorQueue
  BY <1>6 DEF setupCursorQueue
<1>7. CASE setDriverOk
  BY <1>7 DEF setDriverOk
<1>8. CASE setupBuffers
  BY <1>8 DEF setupBuffers
<1>9. CASE initializeVirtIOQueues
  BY <1>9 DEF initializeVirtIOQueues
<1>10. CASE setupGPUMemoryRegions
  BY <1>10 DEF setupGPUMemoryRegions
<1>11. CASE enable3DAcceleration
  BY <1>11 DEF enable3DAcceleration
<1>12. CASE finishStart
  BY <1>12 DEF finishStart
<1>13. CASE disableQueue
  BY <1>13 DEF disableQueue
<1>14. CASE clearFlag
  BY <1>14 DEF clearFlag
<1>15. CASE releaseControl
  BY <1>15, NextControl DEF releaseControl
<1>16. CASE cleanupVirtIOGPU
  BY <1>16 DEF cleanupVirtIOGPU
<1>17. CASE clearNotifyMap
  BY <1>17 DEF clearNotifyMap
<1>18. CASE freeBegins
  BY <1>18 DEF freeBegins
<1>19. CASE releaseCursor
  BY <1>19, NextCursor DEF releaseCursor
<1>20. CASE freeEnds
  BY <1>20 DEF freeEnds
<1>21. ASSUME NEW t \in Callers, Call(t) PROVE BellInv'
  <2> HIDE DEF MadeSoFar, BeforeCommon, BeforeBuffers, BeforeRegions, Running, Bringup,
         Takedown, InCall, MarkStale
  <2>1. UNCHANGED <<pc, notifyMap, notifyBase>>
    BY <1>21, CallFrame
  <2>2. ASSUME NEW u \in Callers, u # t
        PROVE  cpc'[u] = cpc[u] /\ unmapped'[u] = unmapped[u]
    BY <1>21, <2>2 DEF Call, Enter, Lock, Publish, RingBell, Poll, Answer, Leave, Touch
  <2>3. /\ pc \notin Bringup \ {"up"}
        /\ pc = "clear" /\ Busy(t)' => unmapped'[t]
        /\ cpc'[t] = "bell" => notifyMap \notin {"none", "released"} \/ unmapped'[t]
    <3>1. ASSUME NEW q \in Queues, Enter(t, q)
          PROVE  /\ pc \notin Bringup \ {"up"} /\ cpc'[t] = "passed"
                 /\ unmapped'[t] = (pc = "clear")
      BY <3>1 DEF Enter, Bringup, Takedown
    <3>2. CASE Lock(t) \/ Publish(t) \/ RingBell(t) \/ Poll(t) \/ Answer(t) \/ Leave(t)
      <4>1. cpc[t] # "idle" /\ Busy(t) /\ unmapped' = unmapped
        BY <3>2 DEF Lock, Publish, RingBell, Poll, Answer, Leave
      <4>2. cpc'[t] = "bell" => Publish(t) /\ notifyMap # "none"
        BY <3>2 DEF Lock, Publish, RingBell, Poll, Answer, Leave, Touch
      <4> QED BY <4>1, <4>2
    <3> QED BY <1>21, <3>1, <3>2 DEF Call
  <2> QED BY <2>1, <2>2, <2>3
<1> QED BY <1>1, <1>2, <1>3, <1>4, <1>5, <1>6, <1>7, <1>8, <1>9, <1>10, <1>11,
         <1>12, <1>13, <1>14, <1>15, <1>16, <1>17, <1>18, <1>19, <1>20, <1>21 DEF Next,
         Bring, Take

\* Only a marked call, or one without a lock, faults.
LEMMA FaultsKept ==
    ASSUME Inv, Next PROVE FaultsExplained'
<1> USE DEF Inv, TypeDriver, TypeCallers, FaultsExplained, Busy, MadeSoFar, barMaps,
        device, callers, driver, Queues, Ring, FreeList, Buffers, QueueMem,
        LegacyMem, BeforeCommon, BeforeBuffers, BeforeRegions, Running, Bringup,
        Takedown, MarkStale
<1>1. CASE init
  BY <1>1 DEF init
<1>2. CASE start
  BY <1>2 DEF start
<1>3. CASE readDeviceConfig
  BY <1>3 DEF readDeviceConfig
<1>4. CASE setupCommon
  BY <1>4 DEF setupCommon
<1>5. CASE setupRing
  BY <1>5 DEF setupRing
<1>6. CASE setupCursorQueue
  BY <1>6 DEF setupCursorQueue
<1>7. CASE setDriverOk
  BY <1>7 DEF setDriverOk
<1>8. CASE setupBuffers
  BY <1>8 DEF setupBuffers
<1>9. CASE initializeVirtIOQueues
  BY <1>9 DEF initializeVirtIOQueues
<1>10. CASE setupGPUMemoryRegions
  BY <1>10 DEF setupGPUMemoryRegions
<1>11. CASE enable3DAcceleration
  BY <1>11 DEF enable3DAcceleration
<1>12. CASE finishStart
  BY <1>12 DEF finishStart
<1>13. CASE disableQueue
  BY <1>13 DEF disableQueue
<1>14. CASE clearFlag
  BY <1>14 DEF clearFlag
<1>15. CASE releaseControl
  BY <1>15, NextControl DEF releaseControl
<1>16. CASE cleanupVirtIOGPU
  BY <1>16 DEF cleanupVirtIOGPU
<1>17. CASE clearNotifyMap
  BY <1>17 DEF clearNotifyMap
<1>18. CASE freeBegins
  BY <1>18 DEF freeBegins
<1>19. CASE releaseCursor
  BY <1>19, NextCursor DEF releaseCursor
<1>20. CASE freeEnds
  BY <1>20 DEF freeEnds
<1>21. ASSUME NEW t \in Callers, Call(t) PROVE FaultsExplained'
  <2> HIDE DEF MadeSoFar, BeforeCommon, BeforeBuffers, BeforeRegions, Running, Bringup,
         Takedown, MarkStale
  <2>1. UNCHANGED <<mem, vqInit, curInit>>
    BY <1>21, CallFrame
  <2>2. ASSUME NEW u \in Callers, u # t 
        PROVE  /\ cpc'[u] = cpc[u] /\ cq'[u] = cq[u] /\ stale'[u] = stale[u]
               /\ unmapped'[u] = unmapped[u]
    BY <1>21, <2>2 DEF Call, Enter, Lock, Publish, RingBell, Poll, Answer, Leave, Touch
  <2>3. Busy(t) =>
          \/ stale[t]
          \/ /\ QueueMem(cq[t]) \subseteq mem
             /\ cq[t] = "cursor" => "curlock" \in mem
    BY DEF CallsInv, Flag, ReadyMeansComplete
  <2>4. /\ cpc'[t] = "fault" => stale'[t] \/ (cq'[t] = "control" /\ "vqlock" \notin mem)
        /\ cpc'[t] = "badbell" => unmapped'[t]
    <3>1. ASSUME NEW q \in Queues, Enter(t, q) PROVE cpc'[t] \notin {"fault", "badbell"}
      BY <3>1 DEF Enter
    <3>2. CASE Lock(t)
      BY <3>2, <2>3 DEF Lock, Touch, QLock
    <3>3. CASE Publish(t)
      BY <3>3, <2>3 DEF Publish, Touch
    <3>7. CASE RingBell(t)
      BY <3>7 DEF RingBell, BellInv
    <3>4. CASE Poll(t)
      BY <3>4, <2>3 DEF Poll, Touch
    <3>5. CASE Answer(t)
      BY <3>5, <2>3 DEF Answer, Touch
    <3>6. CASE Leave(t)
      BY <3>6, <2>3 DEF Leave, Touch, QLock
    <3> QED BY <1>21, <3>1, <3>2, <3>3, <3>4, <3>5, <3>6, <3>7 DEF Call
  <2> QED BY <2>1, <2>2, <2>4
<1> QED BY <1>1, <1>2, <1>3, <1>4, <1>5, <1>6, <1>7, <1>8, <1>9, <1>10, <1>11,
         <1>12, <1>13, <1>14, <1>15, <1>16, <1>17, <1>18, <1>19, <1>20, <1>21 DEF Next,
         Bring, Take

-----------------------------------------------------------------------------
(* The theorems.                                                           *)

\* The retain count, as MemoryExplained counts it.
LEMMA RefsCounted ==
    ASSUME TypeDriver, RefSum PROVE BarRefsExact
<1> DEFINE S == {m \in {"cache", "config", "notify"} :
                   \/ m = "cache" /\ cached
                   \/ m = "config" /\ configMap
                   \/ m = "notify" /\ notifyMap = "bar"}
<1> DEFINE C == IF cached THEN {"cache"} ELSE {}
           D == IF configMap THEN {"config"} ELSE {}
           E == IF notifyMap = "bar" THEN {"notify"} ELSE {}
<1>1. S = C \cup D \cup E
  BY DEF TypeDriver
<1>2. IsFiniteSet(C) /\ Cardinality(C) = One(cached)
  BY FS_EmptySet, FS_Singleton DEF One
<1>3. IsFiniteSet(D) /\ Cardinality(D) = One(configMap)
  BY FS_EmptySet, FS_Singleton DEF One
<1>4. IsFiniteSet(E) /\ Cardinality(E) = One(notifyMap = "bar")
  BY FS_EmptySet, FS_Singleton DEF One
<1>5. C \cap D = {} /\ (C \cup D) \cap E = {}
  OBVIOUS
<1> HIDE DEF C, D, E
<1>6. /\ IsFiniteSet(C \cup D)
      /\ Cardinality(C \cup D) = One(cached) + One(configMap)
  <2>1. Cardinality(C \cup D) = Cardinality(C) + Cardinality(D) - Cardinality(C \cap D)
    BY <1>2, <1>3, FS_Union
  <2>2. IsFiniteSet(C \cup D)
    BY <1>2, <1>3, FS_Union
  <2>3. One(cached) \in Nat /\ One(configMap) \in Nat
    BY DEF One
  <2> QED BY <2>1, <2>2, <2>3, <1>2, <1>3, <1>5, FS_EmptySet
<1>7. Cardinality(C \cup D \cup E) = One(cached) + One(configMap) + One(notifyMap = "bar")
  <2>1. Cardinality(C \cup D \cup E) =
          Cardinality(C \cup D) + Cardinality(E) - Cardinality((C \cup D) \cap E)
    BY <1>4, <1>6, FS_Union
  <2>2. One(cached) \in Nat /\ One(configMap) \in Nat /\ One(notifyMap = "bar") \in Nat
    BY DEF One
  <2> QED BY <2>1, <2>2, <1>4, <1>5, <1>6, FS_EmptySet
<1> QED BY <1>1, <1>7 DEF BarRefsExact, RefSum

\* What the parts say together, in the terms of the model's own properties.
LEMMA InvGives ==
    Inv => ReadyStateTrue /\ FaultsExplained /\ DeviceStateExplained /\ MemoryExplained
<1> SUFFICES ASSUME Inv
             PROVE  ReadyStateTrue /\ FaultsExplained /\ DeviceStateExplained /\ MemoryExplained
  OBVIOUS
<1>1. barRefs \in 0 .. 3
  BY DEF Inv, RefSum, One
<1>2. TypeOK
  BY <1>1 DEF Inv, TypeOK, TypeDriver, TypeMem, TypeCallers
<1>3. BarRefsExact
  BY RefsCounted DEF Inv
<1>4. ASSUME pc = "freed", stopped
      PROVE  mem \subseteq {"vqlock", "webgl"} /\ maps \subseteq {"early"} /\ barRefs = 0
  BY <1>4, ObjectNames
     DEF Inv, TypeMem, Released, Mappings, RefSum, One, QueueMem, Ring, FreeList, Buffers, LegacyMem
<1>5. LeaksExplained
  BY <1>4 DEF Inv, LeaksExplained, Released
<1> QED BY <1>2, <1>3, <1>5
        DEF Inv, ReadyStateTrue, DeviceStateExplained, MemoryExplained

\* The object as it is before init.
LEMMA InitInv == Init => Inv
<1> SUFFICES ASSUME Init PROVE Inv
  OBVIOUS
<1> USE DEF Init
<1>1. TypeDriver
  BY DEF TypeDriver, Bringup
<1>2. TypeMem
  BY DEF TypeMem
<1>3. TypeCallers
  BY LifecycleAssumption DEF TypeCallers, Queues
<1>4. MadeSoFar
  BY DEF MadeSoFar, BeforeCommon, BeforeBuffers, BeforeRegions
<1>5. DeviceTold /\ Mappings
  BY DEF DeviceTold, Mappings, BeforeCommon, BeforeBuffers, BeforeRegions, Running
<1>6. RefSum /\ Released
  BY DEF RefSum, One, Released
<1>7. ReadyMeansComplete /\ FaultsExplained /\ EnabledRingExplained /\ DriverOkMeansQueue
  BY DEF ReadyMeansComplete, FaultsExplained, EnabledRingExplained, DriverOkMeansQueue
<1>8. CallsInv /\ BellInv
  BY DEF CallsInv, BellInv, Busy
<1> QED BY <1>1, <1>2, <1>3, <1>4, <1>5, <1>6, <1>7, <1>8 DEF Inv

\* A step that changes nothing.
LEMMA StutterInv == ASSUME Inv, UNCHANGED vars PROVE Inv'
<1> USE DEF vars, driver, barMaps, device, callers
<1>1. TypeDriver' /\ TypeMem' /\ TypeCallers'
  BY DEF Inv, TypeDriver, TypeMem, TypeCallers
<1>2. MadeSoFar' /\ DeviceTold' /\ Mappings' /\ RefSum' /\ Released'
  BY DEF Inv, MadeSoFar, DeviceTold, Mappings, RefSum, Released
<1>3. ReadyMeansComplete' /\ FaultsExplained' /\ EnabledRingExplained' /\ DriverOkMeansQueue'
  BY DEF Inv, ReadyMeansComplete, FaultsExplained, EnabledRingExplained, DriverOkMeansQueue
<1>4. CallsInv' /\ BellInv'
  BY DEF Inv, CallsInv, BellInv, Busy, Flag
<1> QED BY <1>1, <1>2, <1>3, <1>4 DEF Inv

LEMMA InvAlways == Spec => []Inv
<1>1. Inv /\ [Next]_vars => Inv'
  <2> SUFFICES ASSUME Inv, [Next]_vars PROVE Inv'
    OBVIOUS
  <2>1. CASE Next
    BY <2>1, TypeDriverKept, TypeMemKept, TypeCallersKept, MadeSoFarKept, DeviceToldKept,
       MappingsKept, RefSumKept, ReleasedKept, ReadyKept, EnabledKept, DriverOkKept, CallsKept, BellKept,
       FaultsKept DEF Inv
  <2>2. CASE UNCHANGED vars
    BY <2>2, StutterInv
  <2> QED BY <2>1, <2>2
<1> QED BY InitInv, <1>1, PTL DEF Spec

\* Whatever allocation failed on the way up and however far stop and free have
\* got, a queue whose flag submitCommand or submitCursorCommand finds set is
\* complete in memory and on the device, and the driver's state is well typed.
THEOREM ReadyTheorem == Spec => []ReadyStateTrue
BY InvAlways, InvGives, PTL

\* A call touches released or missing memory only if its flag was cleared after
\* it had read it, or because init does not check m_vq_lock; and it rings the
\* doorbell through a mapping that is gone only if stop was between the release
\* and the clearing of m_notify_map during the call: for every number of threads
\* in submitCommand and submitCursorCommand.
THEOREM FaultsTheorem == Spec => []FaultsExplained
BY InvAlways, InvGives, PTL

\* The device is never left with an enabled queue over released memory, or with
\* DRIVER_OK and no queue, but in the named cases.
THEOREM DeviceTheorem == Spec => []DeviceStateExplained
BY InvAlways, InvGives, PTL

\* The retains of the cached BAR mapping are exact on every path, and what free
\* leaves behind is what LeaksExplained names.
THEOREM MemoryTheorem == Spec => []MemoryExplained
BY InvAlways, InvGives, PTL
=============================================================================
