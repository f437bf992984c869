---------------------------- MODULE Framebuffer ----------------------------
(***************************************************************************)
(* VMVirtIOFramebuffer over submitCommand: the fixed resource 1 that the   *)
(* display shows, its re-creation on a mode change, the refresh timer, and *)
(* the flag that pauses the timer while a 3D resource is on the screen.    *)
(*                                                                         *)
(* Three threads: "ctl" makes IOFramebuffer's calls (open,                 *)
(* enableController, setDisplayMode, close, stop and free, one at a time), *)
(* "timer" is the work loop of the PCI device, "app" a user client that    *)
(* sets the scanout itself.  They share the members without a lock; only   *)
(* the commands are serialised, by m_vq_lock.                              *)
(***************************************************************************)
EXTENDS CommandChannel

CONSTANTS
    Modes,          \* kSupportedModes: set of [id, w, h, is_default]
    BufferSize,     \* pixels of the fixed buffer that start() could allocate
    ProbeStep,      \* 100: how far the recreate probe leaves the mode's size
    RefreshInterval,\* FULL_REFRESH_INTERVAL
    Res3D,          \* the resource of a 3D application
    BadRes,         \* 999, the id of the negative control
    MaxCtl, MaxApp, \* bounds: calls of the two threads
    MaxLate         \* bound: commands that time out

ASSUME FramebufferAssumption ==
    /\ BufferSize \in Nat /\ RefreshInterval \in Nat \ {0} /\ ProbeStep \in Nat \ {0}
    /\ \A m \in Modes : {m.w, m.h} \subseteq Nat \ 0 .. ProbeStep /\ m.id # 0
    /\ \A m, n \in Modes : m.id = n.id => m = n
    /\ \E m \in Modes : m.id = 1 /\ m.w * m.h <= BufferSize
    /\ {Res3D, BadRes} \cap {0, 1} = {} /\ Res3D # BadRes
    /\ MaxLate \in Nat

VARIABLES
    ready,      \* start() has reached its end: buffer and modes exist
    mode,       \* m_current_mode: an id, or 0
    width, height,
    fbid,       \* m_fb_resource_id
    taken,      \* m_scanout_taken_over_by_3d
    timer,      \* m_refresh_timer is not null
    armed,      \* its timeout is set
    tick,       \* m_full_refresh_tick_count
    enables,    \* call_count of enableController, up to 2
    probed,     \* the one-shot probes have run
    tracked,    \* the pool has a slot for resource 1
    at,         \* where "ctl" is
    call,       \* what "ctl" called setupFramebufferResource for
    want,       \* the size that call asked for
    saved,      \* saved_w, saved_h of the probe
    ref,        \* where each thread is in refreshDisplay
    seen,       \* the tick count it loaded
    rect,       \* the size it read for its next command
    app,        \* where "app" is
    asked,      \* the resource of its setscanout
    caller,     \* whose command is waiting
    res,        \* the device's resource 1: its size and whether it has memory
    shown,      \* the resource on each scanout
    last,       \* the scanout of the last accepted SET_SCANOUT
    alive3d,    \* Res3D exists on the device
    ctlOps, appOps,
    freed,      \* free() has run
    active,     \* enableController or open has returned since the last close
    late,       \* commands that timed out
    overlap,    \* two setscanout calls were in progress together
    stray,      \* callbacks that began after close() or free(), up to 2
    fresh       \* a whole-screen flush was executed since the last callback

start == <<ready, mode>>
size == <<width, height>>
statics == <<enables, probed>>
locals == <<call, want, saved>>
refresh == <<ref, seen, rect, tick>>
client == <<app, asked, appOps>>
device == <<res, shown, last, alive3d>>
ghost == <<active, late, overlap, stray, fresh>>
vars == <<channel, start, size, fbid, taken, timer, armed, refresh, statics, tracked,
          at, locals, client, caller, device, ctlOps, freed, ghost>>

Threads == {"ctl", "timer"}
\* Scanout 0 is the framebuffer's; 1 stands for any other.
Screens == {0, 1}
NoSize == <<0, 0>>
NoRes == [w |-> 0, h |-> 0, mem |-> FALSE]
Cmd(type, i, s) == [type |-> type, id |-> i, w |-> s[1], h |-> s[2]]
FramebufferCommand ==
    [type : {"create", "attach", "unref", "scanout", "second", "transfer", "flush", "other"},
     id : {0, 1, Res3D, BadRes}, w : 0 .. BufferSize, h : 0 .. BufferSize]

ASSUME FramebufferCommandAssumption == FramebufferCommand \subseteq Command

\* filterModesByAllocation: the modes that fit the buffer, and the boot mode.
Advertised == {m \in Modes : m.w * m.h <= BufferSize}
IsLargest(m) == m \in Advertised /\ \A n \in Advertised : n.w * n.h <= m.w * m.h
Largest == CHOOSE m \in Modes : IsLargest(m)
ASSUME LargestAssumption == \E m \in Modes : IsLargest(m)
BootMode == IF \E m \in Advertised : m.is_default
            THEN (CHOOSE m \in Advertised : m.is_default).id
            ELSE Largest.id
\* getInformationForDisplayMode
SizeOf(i) == LET m == CHOOSE n \in Modes : n.id = i IN <<m.w, m.h>>
FirstSize == LET m == CHOOSE n \in Modes : n.id = 1 IN <<m.w, m.h>>

Init ==
    /\ ChannelInit
    /\ ready = FALSE /\ mode = 0
    /\ width = FirstSize[1] /\ height = FirstSize[2]
    /\ fbid = 0 /\ taken = FALSE
    /\ timer = TRUE /\ armed = FALSE /\ tick = 0
    /\ enables = 0 /\ probed = FALSE /\ tracked = FALSE
    /\ at = "idle" /\ call = "none" /\ want = NoSize /\ saved = NoSize
    /\ ref = [t \in Threads |-> "no"] /\ seen = [t \in Threads |-> 0]
    /\ rect = [t \in Threads |-> NoSize]
    /\ app = "idle" /\ asked = 0 /\ caller = "none"
    /\ res = NoRes /\ shown = [s \in Screens |-> 0] /\ last = 0 /\ alive3d = TRUE
    /\ ctlOps = 0 /\ appOps = 0
    /\ freed = FALSE /\ active = FALSE
    /\ late = 0 /\ overlap = FALSE /\ stray = 0 /\ fresh = FALSE

-----------------------------------------------------------------------------
(* Commands.                                                               *)

\* A thread has sent a SET_SCANOUT and not yet recorded what it means.
CtlScanning == at \in {"scanning", "flag", "control"}
AppScanning == app \in {"scanning", "flag"}

Submit(t, c) ==
    /\ Send(c)
    /\ caller' = t
    /\ overlap' = (overlap \/ (c.type \in {"scanout", "second"} /\ (CtlScanning \/ AppScanning)))
    /\ UNCHANGED <<device, late>>

Got(t) == /\ Answered /\ caller = t /\ caller' = "none"
          /\ UNCHANGED <<device, late, overlap>>
Lost(t) == /\ TimedOut /\ caller = t /\ caller' = "none"
           /\ late < MaxLate /\ late' = late + 1
           /\ UNCHANGED <<device, overlap>>
\* submitCommand returned kIOReturnSuccess, an error, or either.
Ok(t) == Got(t) /\ answer # "err"
Failed(t) == Lost(t) \/ (Got(t) /\ answer = "err")
Over(t) == Got(t) \/ Lost(t)

NoCommandSent == UNCHANGED <<channel, caller, device, late, overlap>>

\* What a step of "ctl" leaves alone unless it says otherwise.
CtlElsewhere == UNCHANGED <<ready, client, freed, stray, fresh>>

\* "ctl" sends a command and waits at w for it.
CtlSend(from, c, w) ==
    /\ at = from
    /\ Submit("ctl", c)
    /\ at' = w
    /\ UNCHANGED <<mode, size, fbid, taken, timer, armed, refresh, statics, tracked,
                   locals, ctlOps, active>>
    /\ CtlElsewhere

-----------------------------------------------------------------------------
(* setupFramebufferResource and its three kinds of caller.                 *)

\* The caller goes on after setupFramebufferResource returned.
AfterSetup(ok) ==
    IF call = "probeA"
    THEN /\ at' = "setup" /\ want' = saved /\ saved' = NoSize
         /\ call' = (IF ok THEN "restoreC" ELSE "restoreA")
    ELSE /\ at' = CASE call = "mode"   -> (IF ok THEN "refresh" ELSE "idle")
                    [] call = "enable" -> (IF ok THEN "probe" ELSE "arm")
                    [] OTHER           -> "others"
         /\ call' = "none" /\ want' = NoSize /\ UNCHANGED saved

\* Mutant: the guard asks only whether a resource is live.
SetupGuardsById ==
    /\ at = "setup"
    /\ IF fbid = 1 THEN AfterSetup(TRUE)
       ELSE IF want[1] * want[2] > BufferSize THEN AfterSetup(FALSE)
       ELSE at' = "create" /\ UNCHANGED locals
    /\ UNCHANGED <<mode, size, fbid, taken, timer, armed, refresh, statics, tracked,
                   ctlOps, active>>
    /\ NoCommandSent /\ CtlElsewhere

\* Skip if the live resource has the size, refuse if the buffer is too small.
SetupBegin ==
    /\ at = "setup"
    /\ IF fbid = 1 /\ size = want THEN AfterSetup(TRUE)
       ELSE IF want[1] * want[2] > BufferSize THEN AfterSetup(FALSE)
       ELSE at' = (IF fbid = 1 THEN "teardown" ELSE "create") /\ UNCHANGED locals
    /\ UNCHANGED <<mode, size, fbid, taken, timer, armed, refresh, statics, tracked,
                   ctlOps, active>>
    /\ NoCommandSent /\ CtlElsewhere

\* teardownFramebufferResource sends UNREF ...
SendUnref == \/ CtlSend("teardown", Cmd("unref", 1, NoSize), "dropping")
             \/ CtlSend("cleanup", Cmd("unref", 1, NoSize), "discarding")
             \/ fbid = 1 /\ CtlSend("stop", Cmd("unref", 1, NoSize), "stopping")

\* Mutant: only a success is waited for.
TornDownIfDropped ==
    /\ Ok("ctl") /\ tracked' = FALSE
    /\ fbid' = 0
    /\ \/ at = "dropping" /\ at' = "create" /\ UNCHANGED locals
       \/ at = "discarding" /\ AfterSetup(FALSE)
       \/ at = "stopping" /\ at' = "stopped" /\ UNCHANGED locals
    /\ UNCHANGED <<mode, size, taken, timer, armed, refresh, statics, ctlOps, active>>
    /\ CtlElsewhere

\* ... and forgets the id, whatever deallocateResource says; the pool drops
\* its slot only when UNREF succeeded.
TornDown ==
    /\ \/ Ok("ctl") /\ tracked' = FALSE
       \/ Failed("ctl") /\ UNCHANGED tracked
    /\ fbid' = 0
    /\ \/ at = "dropping" /\ at' = "create" /\ UNCHANGED locals
       \/ at = "discarding" /\ AfterSetup(FALSE)
       \/ at = "stopping" /\ at' = "stopped" /\ UNCHANGED locals
    /\ UNCHANGED <<mode, size, taken, timer, armed, refresh, statics, ctlOps, active>>
    /\ CtlElsewhere

\* createResource2D(1): an id in the pool is refused.
SendCreate ==
    /\ at = "create"
    /\ fbid' = 1
    /\ IF tracked THEN at' = "cleanup" /\ NoCommandSent
                  ELSE at' = "creating" /\ Submit("ctl", Cmd("create", 1, want))
    /\ UNCHANGED <<mode, size, taken, timer, armed, refresh, statics, tracked, locals, ctlOps, active>>
    /\ CtlElsewhere

\* Mutant: the id is forgotten and no UNREF is sent.
CreateFailsKeeps ==
    /\ \/ at \in {"creating", "attaching", "scanning"} /\ Failed("ctl")
       \/ at = "attach" /\ NoCommandSent
       \/ at = "overflowing" /\ Over("ctl")
    /\ fbid' = 0
    /\ AfterSetup(FALSE)
    /\ UNCHANGED <<mode, size, taken, timer, armed, refresh, statics, tracked, ctlOps, active>>
    /\ CtlElsewhere

\* The command fails, or memory, wiring, the attach or a slot is not to be had:
\* setupFramebufferResource tears down what there may be.
CreateFails ==
    /\ \/ at \in {"creating", "attaching", "scanning"} /\ Failed("ctl")
       \/ at = "attach" /\ NoCommandSent
       \/ at = "overflowing" /\ Over("ctl")
    /\ at' = "cleanup"
    /\ UNCHANGED <<mode, size, fbid, taken, timer, armed, refresh, statics, tracked, locals, ctlOps, active>>
    /\ CtlElsewhere

\* CREATE_2D succeeded.  (A stale answer with data returns success at once.)
Created ==
    /\ at = "creating"
    /\ Ok("ctl")
    /\ at' = IF answer = "nodata" THEN "attach" ELSE "scanout"
    /\ UNCHANGED <<mode, size, fbid, taken, timer, armed, refresh, statics, tracked, locals, ctlOps, active>>
    /\ CtlElsewhere

SendAttach == CtlSend("attach", Cmd("attach", 1, NoSize), "attaching")

\* The resource takes a slot, or is unreferenced again for want of one.
Attached ==
    /\ at = "attaching"
    /\ Ok("ctl")
    /\ \/ tracked' = TRUE /\ at' = "scanout"
       \/ at' = "overflow" /\ UNCHANGED tracked
    /\ UNCHANGED <<mode, size, fbid, taken, timer, armed, refresh, statics, locals, ctlOps, active>>
    /\ CtlElsewhere
SendOverflow == CtlSend("overflow", Cmd("unref", 1, NoSize), "overflowing")

SendScanout == CtlSend("scanout", Cmd("scanout", 1, want), "scanning")
ScanoutSet ==
    /\ at = "scanning"
    /\ Ok("ctl")
    /\ at' = "flag"
    /\ UNCHANGED <<mode, size, fbid, taken, timer, armed, refresh, statics, tracked, locals, ctlOps, active>>
    /\ CtlElsewhere

\* Mutant: the flag is only ever set.
ScanoutFlagKept ==
    /\ at = "flag"
    /\ at' = "setWidth"
    /\ UNCHANGED <<mode, size, fbid, taken, timer, armed, refresh, statics, tracked, locals, ctlOps, active>>
    /\ NoCommandSent /\ CtlElsewhere

\* setscanout's call of setScanoutTakenOverBy3D(false), after the answer.
ScanoutFlag ==
    /\ at = "flag"
    /\ taken' = FALSE
    /\ at' = "setWidth"
    /\ UNCHANGED <<mode, size, fbid, timer, armed, refresh, statics, tracked, locals, ctlOps, active>>
    /\ NoCommandSent /\ CtlElsewhere

\* m_width and m_height are two stores; the timer may run between them.
SetWidth ==
    /\ \/ at = "setWidth" /\ width' = want[1] /\ at' = "setHeight"
       \/ at = "modeWidth" /\ width' = SizeOf(mode)[1] /\ at' = "modeHeight"
    /\ UNCHANGED <<mode, height, fbid, taken, timer, armed, refresh, statics, tracked, locals, ctlOps, active>>
    /\ NoCommandSent /\ CtlElsewhere
SetHeight ==
    /\ \/ at = "setHeight" /\ height' = want[2] /\ AfterSetup(TRUE)
       \/ /\ at = "modeHeight" /\ height' = SizeOf(mode)[2]
          /\ at' = "negative" /\ UNCHANGED locals
    /\ UNCHANGED <<mode, width, fbid, taken, timer, armed, refresh, statics, tracked, ctlOps, active>>
    /\ NoCommandSent /\ CtlElsewhere

-----------------------------------------------------------------------------
(* setDisplayMode, enableController, close, stop and free.                 *)

CtlCall == at = "idle" /\ ~freed /\ ctlOps < MaxCtl /\ ctlOps' = ctlOps + 1

\* An advertised mode; others are refused and change nothing.
setDisplayMode(m) ==
    /\ CtlCall
    /\ ready /\ m \in Advertised
    /\ mode' = m.id
    /\ IF size # <<m.w, m.h>> \/ fbid = 0
       THEN at' = "setup" /\ call' = "mode" /\ want' = <<m.w, m.h>> /\ UNCHANGED saved
       ELSE at' = "refresh" /\ UNCHANGED locals
    /\ UNCHANGED <<size, fbid, taken, timer, armed, refresh, statics, tracked, active>>
    /\ NoCommandSent /\ CtlElsewhere

\* The third call and those after it do nothing.  m_current_mode 0 has no
\* information, so nothing is set up; otherwise the members take the mode's
\* size before anything is known about the resource.
enableController ==
    /\ CtlCall
    /\ IF enables = 2 THEN at' = "idle" /\ active' = TRUE /\ UNCHANGED <<enables, locals>>
       ELSE /\ enables' = enables + 1
            /\ IF mode = 0 THEN at' = "arm" /\ UNCHANGED locals
               ELSE at' = "modeWidth" /\ call' = "enable" /\ want' = SizeOf(mode) /\ UNCHANGED saved
            /\ UNCHANGED active
    /\ UNCHANGED <<mode, size, fbid, taken, timer, armed, refresh, probed, tracked>>
    /\ NoCommandSent /\ CtlElsewhere

\* setscanout with an id that does not exist, and the resource-tracking probe
\* (one command stands for its commands, which concern other ids).
SendNegative == CtlSend("negative", Cmd("scanout", BadRes, size), "control")
NegativeAnswered ==
    /\ at = "control"
    /\ \/ Ok("ctl") /\ taken' = TRUE
       \/ Failed("ctl") /\ UNCHANGED taken
    /\ at' = IF probed THEN "setup" ELSE "tracking"
    /\ UNCHANGED <<mode, size, fbid, timer, armed, refresh, statics, tracked, locals, ctlOps, active>>
    /\ CtlElsewhere
SendProbes == \/ CtlSend("tracking", Cmd("other", 0, NoSize), "tracked")
              \/ ~probed /\ CtlSend("others", Cmd("other", 0, NoSize), "shown")
ProbesDone ==
    /\ Over("ctl")
    /\ \/ at = "tracked" /\ at' = "setup" /\ UNCHANGED probed
       \/ at = "shown" /\ at' = "first" /\ probed' = TRUE
    /\ UNCHANGED <<mode, size, fbid, taken, timer, armed, refresh, enables, tracked, locals, ctlOps, active>>
    /\ CtlElsewhere

Shrink(x) == IF x > ProbeStep THEN x - ProbeStep ELSE x + ProbeStep
\* probeResourceRecreate, once: to the probe's size and back.
ProbeRecreate ==
    /\ at = "probe"
    /\ IF probed THEN at' = "first" /\ UNCHANGED locals
       ELSE /\ at' = "setup" /\ call' = "probeA"
            /\ saved' = size /\ want' = <<Shrink(width), Shrink(height)>>
    /\ UNCHANGED <<mode, size, fbid, taken, timer, armed, refresh, statics, tracked, ctlOps, active>>
    /\ NoCommandSent /\ CtlElsewhere

\* The first transfer and flush; their results are ignored.
SendFirst == \/ CtlSend("first", Cmd("transfer", fbid, size), "transferring")
             \/ CtlSend("firstFlush", Cmd("flush", fbid, size), "flushing")
FirstDone ==
    /\ Over("ctl")
    /\ \/ at = "transferring" /\ at' = "firstFlush"
       \/ at = "flushing" /\ at' = "arm"
    /\ UNCHANGED <<mode, size, fbid, taken, timer, armed, refresh, statics, tracked, locals, ctlOps, active>>
    /\ CtlElsewhere

\* setTimeoutMS, if there is a timer.
Arm ==
    /\ at = "arm"
    /\ armed' = (armed \/ timer)
    /\ active' = TRUE
    /\ at' = "idle"
    /\ UNCHANGED <<mode, size, fbid, taken, timer, refresh, statics, tracked, locals, ctlOps>>
    /\ NoCommandSent /\ CtlElsewhere

\* A later open() does nothing to the display: its set-up code is disabled,
\* and the base class calls enableController for the first open only.
open ==
    /\ CtlCall
    /\ ~active /\ enables > 0
    /\ active' = TRUE
    /\ UNCHANGED <<mode, size, fbid, taken, timer, armed, refresh, statics, tracked, at, locals>>
    /\ NoCommandSent /\ CtlElsewhere

\* cancelTimeout does not wait for a callback that is running.
close ==
    /\ CtlCall
    /\ active
    /\ armed' = IF timer THEN FALSE ELSE armed
    /\ active' = FALSE
    /\ at' = IF timer THEN "closing" ELSE "idle"
    /\ UNCHANGED <<mode, size, fbid, taken, timer, refresh, statics, tracked, locals>>
    /\ NoCommandSent /\ CtlElsewhere

\* stop() tears the resource down and leaves the timer to free().
stop ==
    /\ CtlCall
    /\ at' = "stop"
    /\ UNCHANGED <<mode, size, fbid, taken, timer, armed, refresh, statics, tracked, locals, active>>
    /\ NoCommandSent /\ CtlElsewhere
Stopped ==
    /\ \/ at = "stop" /\ fbid = 0
       \/ at = "stopped"
    /\ armed' = IF timer THEN FALSE ELSE armed
    /\ at' = "releasing"
    /\ UNCHANGED <<mode, size, fbid, taken, timer, refresh, statics, tracked, locals, ctlOps, active>>
    /\ NoCommandSent /\ CtlElsewhere

\* The timer is released and the pointer cleared.
ReleaseTimer ==
    /\ \/ at = "closing" /\ at' = "idle"
       \/ at = "releasing" /\ at' = "free"
    /\ timer' = FALSE
    /\ UNCHANGED <<mode, size, fbid, taken, armed, refresh, statics, tracked, locals, ctlOps, active>>
    /\ NoCommandSent /\ CtlElsewhere
\* free()'s own teardown has nothing left to do: stop() cleared the id.
Freed ==
    /\ at = "free" /\ fbid = 0
    /\ freed' = TRUE /\ at' = "gone"
    /\ UNCHANGED <<ready, mode, size, fbid, taken, timer, armed, refresh, statics, tracked, locals,
                   client, ctlOps, active, stray, fresh>>
    /\ NoCommandSent

\* start() registers the service before it allocates the buffer and filters
\* the modes, so the calls above may come first.
StartEnds ==
    /\ ~ready /\ ready' = TRUE
    /\ mode' = BootMode
    /\ UNCHANGED <<size, fbid, taken, timer, armed, refresh, statics, tracked, at, locals, client,
                   ctlOps, freed, active, stray, fresh>>
    /\ NoCommandSent

-----------------------------------------------------------------------------
(* refreshDisplay, called by the timer and by setDisplayMode.              *)

RefElsewhere == UNCHANGED <<start, size, fbid, taken, timer, statics, tracked, locals, client,
                            ctlOps, freed, active>>
Goto(t, where) == ref' = [ref EXCEPT ![t] = where]

\* The callback begins.
Fire ==
    /\ armed /\ ref["timer"] = "no"
    /\ armed' = FALSE
    /\ Goto("timer", "check")
    /\ stray' = IF timer \/ stray = 2 THEN stray ELSE stray + 1
    /\ fresh' = FALSE
    /\ UNCHANGED <<at, seen, rect, tick>>
    /\ NoCommandSent /\ RefElsewhere
CtlRefresh ==
    /\ at = "refresh" /\ at' = "refreshing"
    /\ Goto("ctl", "check")
    /\ UNCHANGED <<armed, seen, rect, tick, stray, fresh>>
    /\ NoCommandSent /\ RefElsewhere

\* Nothing while a 3D resource is shown; else load the tick count.
RefCheck(t) ==
    /\ ref[t] = "check"
    /\ Goto(t, IF taken THEN "done" ELSE "count")
    /\ seen' = [seen EXCEPT ![t] = IF taken THEN 0 ELSE tick]
    /\ UNCHANGED <<at, armed, rect, tick, stray, fresh>>
    /\ NoCommandSent /\ RefElsewhere

\* Mutant: the count is not reset.
RefCountOn(t) ==
    /\ ref[t] = "count"
    /\ Goto(t, IF seen[t] + 1 < RefreshInterval THEN "done" ELSE "transfer")
    /\ tick' = seen[t] + 1
    /\ rect' = [rect EXCEPT ![t] = size]
    /\ UNCHANGED <<at, armed, seen, stray, fresh>>
    /\ NoCommandSent /\ RefElsewhere

\* Store it: every RefreshInterval-th tick goes on.
RefCount(t) ==
    /\ ref[t] = "count"
    /\ seen' = [seen EXCEPT ![t] = 0]
    /\ LET n == seen[t] + 1 IN
          IF n < RefreshInterval THEN tick' = n /\ Goto(t, "done") /\ UNCHANGED rect
          ELSE tick' = 0 /\ Goto(t, "transfer") /\ rect' = [rect EXCEPT ![t] = size]
    /\ UNCHANGED <<at, armed, stray, fresh>>
    /\ NoCommandSent /\ RefElsewhere

\* The arguments are read before the call waits for m_vq_lock.
RefSend(t) ==
    /\ \/ /\ ref[t] = "transfer" /\ Goto(t, "transferring")
          /\ Submit(t, Cmd("transfer", 1, rect[t]))
       \/ /\ ref[t] = "flush" /\ Goto(t, "flushing")
          /\ Submit(t, Cmd("flush", 1, rect[t]))
    /\ rect' = [rect EXCEPT ![t] = NoSize]
    /\ UNCHANGED <<at, armed, seen, tick, stray, fresh>>
    /\ RefElsewhere

\* No flush after a failed transfer; the flush reads the size again.
RefAnswer(t) ==
    /\ \/ /\ ref[t] = "transferring" /\ Ok(t)
          /\ Goto(t, "flush") /\ rect' = [rect EXCEPT ![t] = size]
       \/ /\ ref[t] = "transferring" /\ Failed(t)
          /\ Goto(t, "done") /\ UNCHANGED rect
       \/ /\ ref[t] = "flushing" /\ Over(t)
          /\ Goto(t, "done") /\ UNCHANGED rect
    /\ UNCHANGED <<at, armed, seen, tick, stray, fresh>>
    /\ RefElsewhere

\* Mutant: the callback re-arms the source it was called for.
TimerDoneBySender ==
    /\ ref["timer"] = "done"
    /\ Goto("timer", "rearm")
    /\ UNCHANGED <<at, armed, seen, rect, tick, stray, fresh>>
    /\ NoCommandSent /\ RefElsewhere
\* The callback looks at m_refresh_timer, and sets its timeout later.
TimerDone ==
    /\ ref["timer"] = "done"
    /\ Goto("timer", IF timer THEN "rearm" ELSE "no")
    /\ UNCHANGED <<at, armed, seen, rect, tick, stray, fresh>>
    /\ NoCommandSent /\ RefElsewhere
\* Mutant: only a callback that flushed the screen re-arms.
RearmIfFresh ==
    /\ ref["timer"] = "rearm"
    /\ armed' = fresh
    /\ Goto("timer", "no")
    /\ UNCHANGED <<at, seen, rect, tick, stray, fresh>>
    /\ NoCommandSent /\ RefElsewhere
Rearm ==
    /\ ref["timer"] = "rearm"
    /\ armed' = TRUE
    /\ Goto("timer", "no")
    /\ UNCHANGED <<at, seen, rect, tick, stray, fresh>>
    /\ NoCommandSent /\ RefElsewhere

\* setDisplayMode returns.
CtlRefreshed ==
    /\ at = "refreshing" /\ ref["ctl"] = "done"
    /\ at' = "idle"
    /\ Goto("ctl", "no")
    /\ UNCHANGED <<armed, seen, rect, tick, stray, fresh>>
    /\ NoCommandSent /\ RefElsewhere

-----------------------------------------------------------------------------
(* The user client's setscanout (selector 0x3007) and the end of the       *)
(* application's resource.                                                 *)

AppElsewhere == UNCHANGED <<start, size, fbid, timer, armed, refresh, statics, tracked, at, locals,
                            ctlOps, freed, active, stray, fresh>>
AppCall == app = "idle" /\ ~freed /\ appOps < MaxApp /\ appOps' = appOps + 1

\* The scanout is the client's choice: nothing looks at it, here or in setscanout.
AppSetScanout(s, r) ==
    /\ AppCall
    /\ Submit("app", Cmd(IF s = 0 THEN "scanout" ELSE "second", r, <<1, 1>>))
    /\ app' = "scanning" /\ asked' = r
    /\ UNCHANGED taken
    /\ AppElsewhere
AppAnswer ==
    /\ app = "scanning"
    /\ \/ Ok("app") /\ app' = "flag" /\ UNCHANGED asked
       \/ Failed("app") /\ app' = "idle" /\ asked' = 0
    /\ UNCHANGED <<appOps, taken>>
    /\ AppElsewhere
\* setScanoutTakenOverBy3D, whichever the scanout was.
AppFlag ==
    /\ app = "flag"
    /\ taken' = (asked \notin {0, 1})
    /\ app' = "idle" /\ asked' = 0
    /\ UNCHANGED appOps
    /\ NoCommandSent /\ AppElsewhere
\* Its resource is unreferenced; nobody looks at the flag.
AppUnref ==
    /\ AppCall
    /\ Submit("app", Cmd("unref", Res3D, NoSize))
    /\ app' = "dropping"
    /\ UNCHANGED <<asked, taken>>
    /\ AppElsewhere
AppDropped ==
    /\ app = "dropping"
    /\ Over("app")
    /\ app' = "idle"
    /\ UNCHANGED <<asked, appOps, taken>>
    /\ AppElsewhere

-----------------------------------------------------------------------------
(* The device (external).                                                  *)

Exists(i) == (i = 1 /\ res # NoRes) \/ (i = Res3D /\ alive3d)
Fits(c) == c.id = 1 => c.w <= res.w /\ c.h <= res.h

\* What the command does when it succeeds, and when it can.
Effect(c) ==
    \/ /\ c.type = "create" /\ res = NoRes
       /\ res' = [w |-> c.w, h |-> c.h, mem |-> FALSE] /\ UNCHANGED <<shown, last, alive3d, fresh>>
    \/ /\ c.type = "attach" /\ res # NoRes /\ ~res.mem
       /\ res' = [w |-> res.w, h |-> res.h, mem |-> TRUE] /\ UNCHANGED <<shown, last, alive3d, fresh>>
    \/ /\ c.type = "unref" /\ Exists(c.id)
       /\ res' = (IF c.id = 1 THEN NoRes ELSE res)
       /\ alive3d' = (alive3d /\ c.id # Res3D)
       /\ shown' = [s \in Screens |-> IF shown[s] = c.id THEN 0 ELSE shown[s]]
       /\ UNCHANGED <<last, fresh>>
    \/ /\ c.type \in {"scanout", "second"} /\ (c.id = 0 \/ (Exists(c.id) /\ Fits(c)))
       /\ last' = (IF c.type = "scanout" THEN 0 ELSE 1)
       /\ shown' = [shown EXCEPT ![last'] = c.id]
       /\ UNCHANGED <<res, alive3d, fresh>>
    \/ /\ c.type = "transfer" /\ Exists(c.id) /\ res.mem /\ Fits(c)
       /\ UNCHANGED <<res, shown, last, alive3d, fresh>>
    \/ /\ c.type = "flush" /\ Exists(c.id) /\ Fits(c)
       /\ fresh' = (fresh \/ (c.w = res.w /\ c.h = res.h))
       /\ UNCHANGED <<res, shown, last, alive3d>>
    \/ c.type = "other" /\ UNCHANGED <<res, shown, last, alive3d, fresh>>
Possible(c) ==
    \/ c.type = "unref" /\ Exists(c.id)
    \/ c.type = "scanout" /\ (c.id = 0 \/ (Exists(c.id) /\ Fits(c)))
    \/ c.type = "transfer" /\ Exists(c.id) /\ res.mem /\ Fits(c)
    \/ c.type = "flush" /\ Exists(c.id) /\ Fits(c)

DevExecute ==
    /\ backlog > 0
    /\ \/ Effect(cmd) /\ Execute(IF cmd.type = "other" THEN "data" ELSE "nodata")
       \/ ~Possible(cmd) /\ Execute("err") /\ UNCHANGED <<device, fresh>>
    /\ UNCHANGED <<start, size, fbid, taken, timer, armed, refresh, statics, tracked, at, locals,
                   client, caller, ctlOps, freed, active, late, overlap, stray>>
DevPush == Push /\ UNCHANGED <<start, size, fbid, taken, timer, armed, refresh, statics, tracked, at,
                               locals, client, caller, device, ctlOps, freed, ghost>>

-----------------------------------------------------------------------------
Setup == \/ SetupBegin \/ SendUnref \/ TornDown \/ SendCreate \/ CreateFails \/ Created
         \/ SendAttach \/ Attached \/ SendOverflow \/ SendScanout \/ ScanoutSet
         \/ ScanoutFlag \/ SetWidth \/ SetHeight
Enable == \/ SendNegative \/ NegativeAnswered \/ SendProbes \/ ProbesDone
          \/ ProbeRecreate \/ SendFirst \/ FirstDone \/ Arm
Close == ReleaseTimer \/ Stopped \/ Freed
Refresh(t) == RefCheck(t) \/ RefCount(t) \/ RefSend(t) \/ RefAnswer(t)
CtlStep == Setup \/ Enable \/ Close \/ CtlRefresh \/ Refresh("ctl") \/ CtlRefreshed
TimerStep == Refresh("timer") \/ TimerDone \/ Rearm
AppStep == AppAnswer \/ AppFlag \/ AppDropped
Calls == \/ \E m \in Modes : setDisplayMode(m)
         \/ enableController \/ open \/ close \/ stop
         \/ \E s \in Screens, r \in {0, 1, Res3D} : AppSetScanout(s, r)
         \/ AppUnref
\* Every call has returned and no timeout is set.
Finished == /\ at \in {"idle", "gone"} /\ app = "idle"
            /\ ref["timer"] = "no" /\ ~armed
            /\ UNCHANGED vars
Next == CtlStep \/ Fire \/ TimerStep \/ AppStep \/ Calls \/ StartEnds \/ DevExecute \/ DevPush \/ Finished
Spec == Init /\ [][Next]_vars

\* Every thread keeps running and gets m_vq_lock in the end, a timeout that is
\* set expires, and the device, however late, gets round to its commands (one
\* that stops for good is ControlQueue's subject: there the calls return too).
FairSpec == /\ Spec
            /\ SF_vars(CtlStep) /\ SF_vars(TimerStep) /\ SF_vars(AppStep)
            /\ WF_vars(Fire) /\ WF_vars(DevExecute) /\ WF_vars(DevPush)

-----------------------------------------------------------------------------
Sizes == {<<x, y>> : x \in 1 .. BufferSize, y \in 1 .. BufferSize}
Idle == at = "idle"

\* The types of the variables.  In particular the tick count never reaches
\* the interval at rest, although two threads update it.
TypeOK ==
    /\ ChannelTypeOK
    /\ ready \in BOOLEAN /\ mode \in {m.id : m \in Advertised} \cup {0}
    /\ size \in Sizes /\ want \in Sizes \cup {NoSize} /\ saved \in Sizes \cup {NoSize}
    /\ fbid \in {0, 1} /\ tracked \in BOOLEAN
    /\ taken \in BOOLEAN /\ timer \in BOOLEAN /\ armed \in BOOLEAN
    /\ tick \in 0 .. RefreshInterval - 1
    /\ call \in {"none", "mode", "enable", "probeA", "restoreA", "restoreC"}
    /\ \A t \in Threads : ref[t] \in {"no", "check", "count", "transfer", "transferring",
                                      "flush", "flushing", "done", "rearm"}
    /\ caller \in Threads \cup {"app", "none"} /\ (waiting <=> caller # "none")
    /\ shown \in [Screens -> {0, 1, Res3D}] /\ last \in Screens

\* When no call is running and no command was ever late, a live
\* m_fb_resource_id is the truth: the pool and the device have resource 1,
\* with memory, in the size of m_width and m_height and of m_current_mode.
\* enableController relies on it when it overwrites the size before
\* setupFramebufferResource compares the size with the request.
LiveResourceIsCurrentMode ==
    Idle /\ fbid = 1 /\ late = 0 =>
        /\ tracked
        /\ mode # 0 /\ size = SizeOf(mode)
        /\ res = [w |-> width, h |-> height, mem |-> TRUE]

\* Nothing is left behind either: with no live id, neither the pool nor the
\* device has a resource 1, whichever command of the recreation failed.
NoLeftoverResource ==
    Idle /\ fbid = 0 /\ late = 0 => ~tracked /\ res = NoRes

\* What the framebuffer believes of resource 1, pool and device have: with a live
\* id the current mode's resource, with none no resource at all.
DisplayResourceTrue == TypeOK /\ LiveResourceIsCurrentMode /\ NoLeftoverResource

\* The screen that the last accepted SET_SCANOUT was for.
Focus == shown[last]

\* As long as setscanout calls do not overlap and none is late, the flag that
\* pauses the refresh tells what the screen set last shows: a 3D resource sets
\* it, and if it is set that screen has the resource unless it was destroyed.
\* The screen need not be the framebuffer's: setscanout does not look at the
\* scanout, so a client can pause or resume the refresh with another one.
TakeoverAgrees ==
    late = 0 /\ ~overlap /\ ~CtlScanning /\ ~AppScanning =>
        /\ taken => Focus = Res3D \/ ~alive3d
        /\ Focus = Res3D => taken

\* After close() or free() at most one more callback runs: the one that a
\* callback in flight has re-armed after the timeout was cancelled.
OneStrayCallback == stray <= 1

\* While the timer exists and resource 1 is the display, refreshes go on: no
\* failed transfer, no size read in the middle of a mode change and no
\* callback that found nothing to do is the last.
RefreshGoesOn ==
    (active /\ timer /\ Idle /\ fbid = 1 /\ ~taken /\ late = 0)
        ~> (fresh \/ ~timer \/ ~Idle \/ taken \/ late > 0)

\* Every call of IOFramebuffer returns, although the timer goes on competing
\* for m_vq_lock and whichever command is late.
CallsReturn == at # "idle" ~> at \in {"idle", "gone"}
=============================================================================
