---------------------------- MODULE DisplayProofs ----------------------------
(***************************************************************************)
(* Proofs about the display: its framebuffer (Framebuffer), then its       *)
(* cursor, which has a queue of its own (CursorQueue).                     *)
(*                                                                         *)
(* Framebuffer, for any table of modes, buffer, refresh interval and       *)
(* number of calls: what m_fb_resource_id promises about resource 1 while  *)
(* no command is late, the 3D takeover flag while no two setscanout calls  *)
(* overlap, and the one callback after close().                            *)
(*                                                                         *)
(* CursorQueue, for any queue size, any index width, any set of callers    *)
(* and any number of commands: the ring is kept however many calls time    *)
(* out, and an update is lost in silence only after one has.               *)
(***************************************************************************)
EXTENDS Framebuffer, CursorQueue, FiniteSetTheorems, TLAPS

\* Where "ctl" is inside setupFramebufferResource, with what it was called for.
Building == {"teardown", "dropping", "create", "creating", "attach", "attaching", "overflow",
             "overflowing", "scanout", "scanning", "flag", "setWidth", "setHeight",
             "cleanup", "discarding"}
\* Where enableController has stored the size and not yet called it.
Enabling == {"modeWidth", "modeHeight", "negative", "control", "tracking", "tracked"}
\* Where nothing has been set up for the call, so that there may be no mode yet.
Early == {"idle", "arm", "stop", "closing", "releasing", "free", "gone"}
Places == Building \cup Enabling \cup Early
            \cup {"setup", "stopping", "stopped", "probe", "others", "shown", "first",
                  "transferring", "firstFlush", "flushing", "refresh", "refreshing"}
RefPlaces == {"no", "check", "count", "transfer", "transferring", "flush", "flushing",
              "done", "rearm"}
CtlWaits == {"dropping", "discarding", "stopping", "creating", "attaching", "overflowing",
             "scanning", "control", "tracked", "shown", "transferring", "flushing"}
RefWaits == {"transferring", "flushing"}
ModeIds == {m.id : m \in Advertised}

-----------------------------------------------------------------------------
(* The types.                                                              *)

Types ==
    /\ ready \in BOOLEAN /\ mode \in ModeIds \cup {0}
    /\ width \in 1 .. BufferSize /\ height \in 1 .. BufferSize
    /\ want \in Sizes \cup {NoSize} /\ saved \in Sizes \cup {NoSize}
    /\ fbid \in {0, 1} /\ tracked \in BOOLEAN
    /\ taken \in BOOLEAN /\ timer \in BOOLEAN /\ armed \in BOOLEAN
    /\ tick \in 0 .. RefreshInterval - 1
    /\ at \in Places
    /\ call \in {"none", "mode", "enable", "probeA", "restoreA", "restoreC"}
    /\ ref \in [Threads -> RefPlaces]
    /\ seen \in [Threads -> 0 .. RefreshInterval - 1]
    /\ rect \in [Threads -> Sizes \cup {NoSize}]
    /\ app \in {"idle", "scanning", "flag", "dropping"} /\ asked \in {0, 1, Res3D}
    /\ res \in [w : 0 .. BufferSize, h : 0 .. BufferSize, mem : BOOLEAN]
    /\ shown \in [Screens -> {0, 1, Res3D}] /\ last \in Screens /\ alive3d \in BOOLEAN
    /\ late \in Nat /\ overlap \in BOOLEAN
    /\ stray \in 0 .. 2

\* Whose command is in the channel, and which.
CtlCmd(a, s, b) ==
    CASE a \in {"dropping", "discarding", "stopping", "overflowing"} -> b = Cmd("unref", 1, NoSize)
      [] a = "creating" -> b = Cmd("create", 1, s)
      [] a = "attaching" -> b = Cmd("attach", 1, NoSize)
      [] a = "scanning" -> b = Cmd("scanout", 1, s)
      [] a = "control" -> b.type = "scanout" /\ b.id = BadRes
      [] OTHER -> b.type \in {"other", "transfer", "flush"}
CallerInv ==
    /\ ChannelTypeOK
    /\ waiting <=> caller # "none"
    /\ caller \in Threads \cup {"app", "none"}
    /\ backlog > 0 => cmd \in FramebufferCommand
    /\ caller = "ctl" <=> at \in CtlWaits \/ ref["ctl"] \in RefWaits
    /\ caller = "timer" <=> ref["timer"] \in RefWaits
    /\ caller = "app" <=> app \in {"scanning", "dropping"}
    /\ ref["ctl"] # "no" <=> at = "refreshing"
    /\ at \in CtlWaits => CtlCmd(at, want, cmd)
    /\ \A t \in Threads : ref[t] \in RefWaits => cmd.type \in {"transfer", "flush"}
    /\ app = "scanning" => cmd.type \in {"scanout", "second"} /\ cmd.id = asked
    /\ app = "dropping" => cmd.type = "unref" /\ cmd.id = Res3D
    /\ app \in {"idle", "dropping"} => asked = 0

\* While no command is late, a command is executed once and answered once.
Unanswered == backlog = 1 /\ ~pushing /\ ~moved
Replied == backlog = 0 /\ pushing # moved
CleanInv == late = 0 => IF waiting THEN Unanswered \/ Replied ELSE Quiet

-----------------------------------------------------------------------------
(* The display resource.                                                   *)

\* What "ctl" has decided, whatever the commands did: the size a call works
\* towards is the current mode's, but for the first half of the probe.
PlanInv ==
    /\ ~ready => mode = 0 /\ fbid = 0 /\ at \in Early
    /\ at \in {"stopped", "releasing", "free", "gone"} => fbid = 0
    /\ call = "none" <=> at \notin Building \cup Enabling \cup {"setup"}
    /\ call = "none" <=> want = NoSize
    /\ call # "probeA" <=> saved = NoSize
    /\ call \in {"mode", "enable", "restoreA", "restoreC"} => mode # 0 /\ want = SizeOf(mode)
    /\ call = "probeA" => mode # 0 /\ saved = SizeOf(mode)
    /\ at \in Enabling => call = "enable"
    /\ at = "modeHeight" => width = SizeOf(mode)[1]
    /\ at = "setHeight" => width = want[1]
    /\ at = "probe" => mode # 0 /\ size = SizeOf(mode)

Has(s, m) == res = [w |-> s[1], h |-> s[2], mem |-> m]

\* What exists of resource 1, place by place.
PlaceInv ==
    /\ at \notin Building \cup {"stopping", "stopped"} =>
          IF fbid = 1 THEN tracked /\ Has(size, TRUE) ELSE ~tracked /\ res = NoRes
    /\ at \in {"teardown", "dropping", "stopping"} =>
          /\ fbid = 1 /\ tracked
          /\ IF at # "teardown" /\ backlog = 0 THEN res = NoRes /\ answer # "err" ELSE Has(size, TRUE)
    /\ at \in {"create", "stopped"} => fbid = 0 /\ ~tracked /\ res = NoRes
    /\ at \in {"creating", "attach", "attaching", "overflow", "overflowing"} => fbid = 1 /\ ~tracked
    /\ at = "creating" => IF backlog = 1 \/ answer = "err" THEN res = NoRes
                          ELSE answer = "nodata" /\ Has(want, FALSE)
    /\ at = "attach" => Has(want, FALSE)
    /\ at = "attaching" => IF backlog = 1 \/ answer = "err" THEN Has(want, FALSE) ELSE Has(want, TRUE)
    /\ at = "overflow" => Has(want, TRUE)
    /\ at \in {"scanout", "scanning", "flag", "setWidth", "setHeight"} =>
          fbid = 1 /\ tracked /\ Has(want, TRUE)
    /\ at = "cleanup" => fbid = 1 /\ (tracked => res # NoRes)
    /\ at = "discarding" =>
          /\ fbid = 1
          /\ IF backlog = 0 THEN res = NoRes /\ (answer = "err" => ~tracked)
             ELSE tracked => res # NoRes
DispInv ==
    late = 0 =>
        /\ PlaceInv
        /\ fbid = 1 /\ (call = "none" \/ at \in Enabling) /\ at # "stopping" =>
              mode # 0 /\ size = SizeOf(mode)

-----------------------------------------------------------------------------
(* The takeover flag.                                                      *)

Agree == (taken => Focus = Res3D \/ ~alive3d) /\ (Focus = Res3D => taken)
Done == backlog = 0 /\ answer # "err"
TakeInv ==
    late = 0 /\ ~overlap =>
        /\ ~(CtlScanning /\ AppScanning)
        /\ ~CtlScanning /\ ~AppScanning => Agree
        /\ at = "scanning" => IF Done THEN Focus # Res3D ELSE Agree
        /\ at = "flag" => Focus # Res3D
        /\ at = "control" => Agree /\ (backlog = 0 => answer = "err")
        /\ app = "scanning" => IF Done THEN Focus = Res3D <=> asked = Res3D ELSE Agree
        /\ app = "flag" => (Focus = Res3D <=> asked = Res3D)

\* The callbacks after the timer is gone.
StrayInv ==
    /\ timer => stray = 0
    /\ timer /\ at \in {"closing", "releasing"} => ~armed \/ ref["timer"] = "no"
    /\ ~timer => \/ stray = 0 /\ (armed => ref["timer"] = "no")
                 \/ stray = 1 /\ ~armed /\ ref["timer"] # "rearm"

Inv == Types /\ CallerInv /\ CleanInv /\ PlanInv /\ DispInv /\ TakeInv /\ StrayInv

-----------------------------------------------------------------------------
(* Facts about the constants.                                              *)

LEMMA ProductBounds ==
    ASSUME NEW x \in Nat \ {0}, NEW y \in Nat \ {0}, x * y <= BufferSize, BufferSize \in Nat
    PROVE  x \in 1 .. BufferSize /\ y \in 1 .. BufferSize
<1>1. x <= x * y /\ y <= x * y
  OBVIOUS
<1> QED BY <1>1

LEMMA SizesFacts ==
    /\ NoSize \notin Sizes /\ NoSize[1] = 0 /\ NoSize[2] = 0
    /\ \A s \in Sizes : s = <<s[1], s[2]>> /\ s[1] \in 1 .. BufferSize /\ s[2] \in 1 .. BufferSize
    /\ \A x, y \in 1 .. BufferSize : <<x, y>> \in Sizes /\ <<x, y>>[1] = x /\ <<x, y>>[2] = y
BY FramebufferAssumption DEF Sizes, NoSize

\* getInformationForDisplayMode of an advertised mode: a size that fits.
LEMMA ModeFacts ==
    /\ \A m \in Advertised : /\ m.id \in ModeIds /\ SizeOf(m.id) = <<m.w, m.h>>
                             /\ m.w > ProbeStep /\ m.h > ProbeStep
    /\ \A i \in ModeIds : /\ i # 0 /\ SizeOf(i) \in Sizes
                          /\ SizeOf(i)[1] > ProbeStep /\ SizeOf(i)[2] > ProbeStep
                          /\ SizeOf(i)[1] * SizeOf(i)[2] <= BufferSize
    /\ 0 \notin ModeIds
<1>1. ASSUME NEW m \in Advertised
      PROVE  /\ m.id \in ModeIds /\ SizeOf(m.id) = <<m.w, m.h>> /\ m.id # 0
             /\ m.w > ProbeStep /\ m.h > ProbeStep /\ <<m.w, m.h>> \in Sizes
             /\ m.w * m.h <= BufferSize
  <2>1. /\ m \in Modes /\ m.w * m.h <= BufferSize /\ m.id # 0 /\ m.id \in ModeIds
        /\ m.w \in Nat \ {0} /\ m.h \in Nat \ {0} /\ m.w > ProbeStep /\ m.h > ProbeStep
    BY FramebufferAssumption DEF Advertised, ModeIds
  <2>2. (CHOOSE n \in Modes : n.id = m.id) = m
    BY <2>1, FramebufferAssumption
  <2>3. SizeOf(m.id) = <<m.w, m.h>>
    BY <2>2 DEF SizeOf
  <2>4. <<m.w, m.h>> \in Sizes
    BY <2>1, ProductBounds, FramebufferAssumption, SizesFacts
  <2> QED BY <2>1, <2>3, <2>4
<1>2. ASSUME NEW i \in ModeIds
      PROVE  /\ i # 0 /\ SizeOf(i) \in Sizes
             /\ SizeOf(i)[1] > ProbeStep /\ SizeOf(i)[2] > ProbeStep
             /\ SizeOf(i)[1] * SizeOf(i)[2] <= BufferSize
  <2>1. PICK m \in Advertised : m.id = i
    BY DEF ModeIds
  <2>2. /\ SizeOf(i) = <<m.w, m.h>> /\ i # 0
        /\ m.w > ProbeStep /\ m.h > ProbeStep /\ <<m.w, m.h>> \in Sizes
        /\ m.w * m.h <= BufferSize
    BY <1>1, <2>1
  <2>3. SizeOf(i)[1] = m.w /\ SizeOf(i)[2] = m.h
    BY <2>2
  <2> QED BY <2>2, <2>3
<1> QED BY <1>1, <1>2

LEMMA BootFacts ==
    /\ BootMode \in ModeIds
    /\ FirstSize[1] \in 1 .. BufferSize /\ FirstSize[2] \in 1 .. BufferSize
<1>1. BootMode \in ModeIds
  <2>1. CASE \E m \in Advertised : m.is_default
    BY <2>1 DEF BootMode, ModeIds
  <2>2. CASE ~ \E m \in Advertised : m.is_default
    <3>1. IsLargest(Largest)
      BY LargestAssumption DEF Largest
    <3> QED BY <2>2, <3>1 DEF BootMode, IsLargest, ModeIds
  <2> QED BY <2>1, <2>2
<1>2. PICK m \in Modes : m.id = 1 /\ m.w * m.h <= BufferSize
  BY FramebufferAssumption
<1>3. m.w \in Nat \ {0} /\ m.h \in Nat \ {0}
  BY FramebufferAssumption
<1>4. (CHOOSE n \in Modes : n.id = 1) = m
  BY <1>2, FramebufferAssumption
<1> QED BY <1>1, <1>2, <1>3, <1>4, ProductBounds, FramebufferAssumption DEF FirstSize

LEMMA CmdFacts ==
    /\ \A type, i, s : /\ Cmd(type, i, s).type = type /\ Cmd(type, i, s).id = i
                       /\ Cmd(type, i, s).w = s[1] /\ Cmd(type, i, s).h = s[2]
    /\ \A type \in {"create", "attach", "unref", "scanout", "second", "transfer", "flush", "other"},
          i \in {0, 1, Res3D, BadRes}, s \in Sizes \cup {NoSize} :
          Cmd(type, i, s) \in FramebufferCommand
<1>1. ASSUME NEW s \in Sizes \cup {NoSize} PROVE s[1] \in 0 .. BufferSize /\ s[2] \in 0 .. BufferSize
  BY SizesFacts, FramebufferAssumption
<1> QED BY <1>1 DEF Cmd, FramebufferCommand

LEMMA InitInv == Init => Inv
<1> SUFFICES ASSUME Init PROVE Inv
  OBVIOUS
<1> USE DEF Init
<1>1. Types
  <2>1. NoRes \in [w : 0 .. BufferSize, h : 0 .. BufferSize, mem : BOOLEAN]
    BY FramebufferAssumption DEF NoRes
  <2>2. /\ [t \in Threads |-> "no"] \in [Threads -> RefPlaces]
        /\ [t \in Threads |-> 0] \in [Threads -> 0 .. RefreshInterval - 1]
        /\ [t \in Threads |-> NoSize] \in [Threads -> Sizes \cup {NoSize}]
    BY FramebufferAssumption DEF RefPlaces
  <2>3. 0 \in 0 .. RefreshInterval - 1
    BY FramebufferAssumption
  <2>4. width \in 1 .. BufferSize /\ height \in 1 .. BufferSize
    BY BootFacts
  <2>5. /\ ref \in [Threads -> RefPlaces] /\ seen \in [Threads -> 0 .. RefreshInterval - 1]
        /\ rect \in [Threads -> Sizes \cup {NoSize}]
    BY <2>2
  <2>6. /\ ready \in BOOLEAN /\ tracked \in BOOLEAN /\ taken \in BOOLEAN /\ timer \in BOOLEAN
        /\ armed \in BOOLEAN /\ alive3d \in BOOLEAN /\ overlap \in BOOLEAN
    OBVIOUS
  <2>7. /\ mode \in ModeIds \cup {0} /\ want \in Sizes \cup {NoSize} /\ saved \in Sizes \cup {NoSize}
        /\ at \in Places /\ fbid \in {0, 1} /\ asked \in {0, 1, Res3D} /\ shown \in [Screens -> {0, 1, Res3D}] /\ last \in Screens
        /\ late \in Nat /\ stray \in 0 .. 2
    BY DEF Places, Early, Screens
  <2> QED BY <2>1, <2>3, <2>4, <2>5, <2>6, <2>7 DEF Types
<1>2. CallerInv
  <2>0. ChannelInit
    OBVIOUS
  <2>1. ChannelTypeOK
    <3>1. backlog \in 0 .. MaxBacklog
      BY ONLY <2>0, ChannelAssumption DEF ChannelInit
    <3> QED BY ONLY <2>0, <3>1, Zenon DEF ChannelInit, ChannelTypeOK, Answers
  <2>2. ~waiting /\ backlog = 0
    BY DEF ChannelInit
  <2>3. ref["ctl"] = "no" /\ ref["timer"] = "no" /\ \A t \in Threads : ref[t] = "no"
    BY DEF Threads
  <2> QED BY <2>1, <2>2, <2>3 DEF CallerInv, CtlWaits, RefWaits
<1>3. CleanInv
  BY DEF CleanInv, ChannelInit, Quiet
<1>4. PlanInv
  BY DEF PlanInv, Early, Building, Enabling
<1>5. DispInv
  BY DEF DispInv, PlaceInv, Building
<1>6. TakeInv
  BY FramebufferAssumption DEF TakeInv, CtlScanning, AppScanning, Agree, Focus, Screens
<1>7. StrayInv
  BY DEF StrayInv
<1> QED BY <1>1, <1>2, <1>3, <1>4, <1>5, <1>6, <1>7 DEF Inv

-----------------------------------------------------------------------------
(* The channel.                                                            *)

\* A thread sends a command: nobody else is waiting for one.
LEMMA SendKeeps ==
    ASSUME Types, CallerInv, CleanInv, NEW t, NEW c \in FramebufferCommand, Submit(t, c)
    PROVE  /\ ChannelTypeOK' /\ CleanInv'
           /\ caller = "none" /\ caller' = t /\ waiting' /\ cmd' = c /\ backlog' > 0
           /\ late = 0 => backlog' = 1
           /\ UNCHANGED <<res, shown, last, alive3d, late, answer>>
           /\ at \notin CtlWaits /\ ref["ctl"] \notin RefWaits /\ ref["timer"] \notin RefWaits
           /\ app \notin {"scanning", "dropping"}
           /\ overlap' \in BOOLEAN
           /\ ~overlap' => ~overlap /\ (c.type \in {"scanout", "second"} => ~CtlScanning /\ ~AppScanning)
<1>1. /\ ~waiting /\ waiting' = TRUE /\ cmd' = c /\ backlog' = backlog + 1 /\ backlog < MaxBacklog
      /\ caller' = t /\ UNCHANGED <<moved, pushing, answer, res, shown, last, alive3d, late>>
      /\ overlap' = (overlap \/ (c.type \in {"scanout", "second"} /\ (CtlScanning \/ AppScanning)))
  BY DEF Submit, Send, device
<1>2. caller = "none"
  BY <1>1 DEF CallerInv
<1>3. /\ at \notin CtlWaits /\ ref["ctl"] \notin RefWaits /\ ref["timer"] \notin RefWaits
      /\ app \notin {"scanning", "dropping"}
  BY <1>2 DEF CallerInv
<1>4. backlog \in Nat /\ backlog' \in 0 .. MaxBacklog /\ c \in Command /\ backlog' > 0
  BY <1>1, ChannelAssumption, FramebufferCommandAssumption DEF CallerInv, ChannelTypeOK
<1>5. ChannelTypeOK'
  BY <1>1, <1>4, Zenon DEF CallerInv, ChannelTypeOK
<1>6. late = 0 => backlog = 0 /\ ~pushing /\ ~moved
  BY <1>1 DEF CleanInv, Quiet
<1>7. late = 0 => backlog' = 1
  BY <1>1, <1>6
<1>8. CleanInv'
  BY <1>1, <1>6, <1>7, Zenon DEF CleanInv, Unanswered
<1>9. overlap' \in BOOLEAN
  BY <1>1, Zenon
<1>10. ~overlap' => ~overlap /\ (c.type \in {"scanout", "second"} => ~CtlScanning /\ ~AppScanning)
  BY <1>1, Zenon
<1> QED BY <1>1, <1>2, <1>3, <1>4, <1>5, <1>7, <1>8, <1>9, <1>10

\* A thread's call returns: if no command was ever late, with its own answer.
LEMMA ReturnKeeps ==
    ASSUME Types, CallerInv, CleanInv, NEW t, Got(t) \/ Lost(t)
    PROVE  /\ ChannelTypeOK' /\ CleanInv'
           /\ caller = t /\ caller' = "none" /\ ~waiting' /\ waiting
           /\ UNCHANGED <<cmd, backlog, answer, res, shown, last, alive3d, overlap>>
           /\ late' \in Nat
           /\ late' = 0 => late = 0 /\ Got(t) /\ backlog = 0
<1>1. /\ waiting /\ waiting' = FALSE /\ caller = t /\ caller' = "none"
      /\ UNCHANGED <<cmd, backlog, pushing, answer, res, shown, last, alive3d, overlap>>
  BY DEF Got, Lost, Answered, TimedOut, device
<1>2. CASE Lost(t)
  <2>1. late' = late + 1 /\ moved' = moved
    BY <1>2 DEF Lost, TimedOut
  <2>2. late' \in Nat /\ late' # 0
    BY <2>1 DEF Types
  <2>3. ChannelTypeOK'
    BY <1>1, <2>1, Zenon DEF CallerInv, ChannelTypeOK
  <2> QED BY <1>1, <2>2, <2>3 DEF CleanInv
<1>3. CASE Got(t)
  <2>1. late' = late /\ moved /\ moved' = FALSE /\ late \in Nat
    BY <1>3 DEF Got, Answered, Types
  <2>2. ChannelTypeOK'
    BY <1>1, <2>1, Zenon DEF CallerInv, ChannelTypeOK
  <2>3. late = 0 => backlog = 0 /\ ~pushing
    BY <1>1, <2>1 DEF CleanInv, Unanswered, Replied, CallerInv, ChannelTypeOK
  <2>4. CleanInv'
    BY <1>1, <2>1, <2>3 DEF CleanInv, Quiet
  <2> QED BY <1>1, <1>3, <2>1, <2>2, <2>3, <2>4
<1> QED BY <1>2, <1>3

\* A step that sends and receives nothing.
LEMMA SilentKeeps ==
    ASSUME CallerInv, CleanInv, NoCommandSent
    PROVE  /\ ChannelTypeOK' /\ CleanInv'
           /\ UNCHANGED <<cmd, backlog, pushing, moved, answer, waiting, caller,
                          res, shown, last, alive3d, late, overlap>>
<1>1. UNCHANGED <<cmd, backlog, pushing, moved, answer, waiting, caller, res, shown, last, alive3d, late, overlap>>
  BY DEF NoCommandSent, channel, device
<1>2. ChannelTypeOK'
  BY <1>1, Zenon DEF CallerInv, ChannelTypeOK
<1>3. CleanInv'
  BY <1>1 DEF CleanInv, Quiet, Unanswered, Replied
<1> QED BY <1>1, <1>2, <1>3

-----------------------------------------------------------------------------
(* Steps of "ctl" that only move it.                                       *)

\* The callbacks do not notice where "ctl" is, except at the release.
LEMMA StrayMove ==
    ASSUME StrayInv, UNCHANGED <<timer, stray, armed>>, ref'["timer"] = ref["timer"],
           at' \notin {"closing", "releasing"} \/ at' = at
    PROVE  StrayInv'
BY DEF StrayInv

\* The flag does not notice it outside setscanout.
LEMMA TakeMove ==
    ASSUME TakeInv, UNCHANGED <<shown, last, taken, alive3d, asked, app>>, ~overlap' => ~overlap,
           late' = 0 => late = 0 /\ (at' = at \/ (~CtlScanning /\ at' \notin {"scanning", "flag", "control"})),
           at \in {"scanning", "control"} \/ app = "scanning" => UNCHANGED <<backlog, answer>>
    PROVE  TakeInv'
<1>1. late' = 0 => (CtlScanning' <=> CtlScanning)
  BY DEF CtlScanning
<1>2. AppScanning' <=> AppScanning
  BY DEF AppScanning
<1> QED BY <1>1, <1>2 DEF TakeInv, Agree, Focus, Done, CtlScanning

\* Who is waiting when "ctl" goes from one place to another.
LEMMA CallerMove ==
    ASSUME CallerInv, ChannelTypeOK', NoCommandSent,
           UNCHANGED <<app, asked>>, ref' = ref, at \notin CtlWaits, at' \notin CtlWaits,
           at # "refreshing", at' # "refreshing"
    PROVE  CallerInv'
<1>1. UNCHANGED <<cmd, backlog, pushing, moved, answer, waiting, caller>>
  BY DEF NoCommandSent, channel
<1> QED BY <1>1 DEF CallerInv

\* CtlSend: what every command of "ctl" has in common.
CtlSent(from, c, w) ==
    /\ at = from /\ at' = w /\ late' = late
    /\ late = 0 => backlog' = 1
    /\ UNCHANGED <<ready, mode, width, height, fbid, taken, tracked, call, want, saved, app, asked,
                   res, shown, last, alive3d, answer>>
    /\ ~overlap' => ~overlap /\ (c.type \in {"scanout", "second"} => ~CtlScanning /\ ~AppScanning)
    /\ app \notin {"scanning", "dropping"}
LEMMA CtlSendOK ==
    ASSUME Inv, NEW from, NEW c \in FramebufferCommand, NEW w \in CtlWaits, CtlSend(from, c, w),
           CtlCmd(w, want, c), from # "refreshing"
    PROVE  Types' /\ CallerInv' /\ CleanInv' /\ StrayInv' /\ CtlSent(from, c, w)
<1>1. /\ at = from /\ at' = w /\ Submit("ctl", c)
      /\ UNCHANGED <<ready, mode, width, height, fbid, taken, timer, armed, ref, seen, rect, tick,
                     tracked, call, want, saved, app, asked, stray>>
  BY DEF CtlSend, CtlElsewhere, size, refresh, statics, locals, client
<1>2. Types /\ CallerInv /\ CleanInv /\ StrayInv
  BY DEF Inv
<1>3. /\ ChannelTypeOK' /\ CleanInv'
      /\ caller = "none" /\ caller' = "ctl" /\ waiting' /\ cmd' = c /\ backlog' > 0
      /\ late = 0 => backlog' = 1
      /\ UNCHANGED <<res, shown, last, alive3d, late, answer>>
      /\ at \notin CtlWaits /\ ref["ctl"] \notin RefWaits /\ ref["timer"] \notin RefWaits
      /\ app \notin {"scanning", "dropping"}
      /\ overlap' \in BOOLEAN
      /\ ~overlap' => ~overlap /\ (c.type \in {"scanout", "second"} => ~CtlScanning /\ ~AppScanning)
  BY ONLY <1>1, <1>2, SendKeeps
<1>4. w \in Places /\ w \notin {"closing", "releasing", "refreshing"}
  BY DEF CtlWaits, Places, Building, Enabling
<1>5. Types'
  BY <1>1, <1>2, <1>3, <1>4 DEF Types
<1>6. StrayInv'
  BY ONLY <1>1, <1>2, <1>4, StrayMove
<1>7. CallerInv'
  <2>1. /\ ref["ctl"] = "no" /\ ref'["ctl"] = "no" /\ ref'["timer"] = ref["timer"]
        /\ \A t \in Threads : ref'[t] \notin RefWaits
    BY <1>1, <1>2, <1>3 DEF CallerInv, Threads
  <2>2. CtlCmd(w, want', cmd')
    BY <1>1, <1>3
  <2> QED BY ONLY <1>1, <1>2, <1>3, <1>4, <2>1, <2>2, w \in CtlWaits, c \in FramebufferCommand
          DEF CallerInv, Threads
<1> QED BY <1>1, <1>3, <1>5, <1>6, <1>7 DEF CtlSent

\* "ctl" sends one of its commands.
LEMMA CtlSendStep == Inv /\ (SendUnref \/ SendAttach \/ SendOverflow \/ SendScanout
                                \/ SendNegative \/ SendProbes \/ SendFirst) => Inv'
<1> SUFFICES ASSUME Inv, \/ SendUnref \/ SendAttach \/ SendOverflow \/ SendScanout
                         \/ SendNegative \/ SendProbes \/ SendFirst
             PROVE  Inv'
  OBVIOUS
<1>s. size \in Sizes /\ want \in Sizes \cup {NoSize} /\ fbid \in {0, 1}
  BY SizesFacts DEF Inv, Types, size
<1>1. ASSUME CtlSend("teardown", Cmd("unref", 1, NoSize), "dropping") PROVE Inv'
  <2>1. Cmd("unref", 1, NoSize) \in FramebufferCommand /\ CtlCmd("dropping", want, Cmd("unref", 1, NoSize)) /\ "dropping" \in CtlWaits
    BY <1>s, CmdFacts DEF CtlCmd, CtlWaits
  <2>2. Types' /\ CallerInv' /\ CleanInv' /\ StrayInv' /\ CtlSent("teardown", Cmd("unref", 1, NoSize), "dropping")
    BY ONLY <1>1, <2>1, CtlSendOK, Inv
  <2>3. PlanInv'
    BY <2>2 DEF Inv, PlanInv, CtlSent, Building, Enabling, Early, size
  <2>4. DispInv'
    BY <1>1, <2>2 DEF Inv, DispInv, PlaceInv, Has, CtlSent, Building, Enabling, size
  <2>5. TakeInv'
    <3>1. TakeInv /\ ~CtlScanning
      BY <2>2 DEF Inv, CtlSent, CtlScanning
    <3> QED BY ONLY <2>2, <3>1, TakeMove DEF CtlSent
  <2> QED BY <2>2, <2>3, <2>4, <2>5 DEF Inv
<1>2. ASSUME CtlSend("cleanup", Cmd("unref", 1, NoSize), "discarding") PROVE Inv'
  <2>1. Cmd("unref", 1, NoSize) \in FramebufferCommand /\ CtlCmd("discarding", want, Cmd("unref", 1, NoSize)) /\ "discarding" \in CtlWaits
    BY <1>s, CmdFacts DEF CtlCmd, CtlWaits
  <2>2. Types' /\ CallerInv' /\ CleanInv' /\ StrayInv' /\ CtlSent("cleanup", Cmd("unref", 1, NoSize), "discarding")
    BY ONLY <1>2, <2>1, CtlSendOK, Inv
  <2>3. PlanInv'
    BY <2>2 DEF Inv, PlanInv, CtlSent, Building, Enabling, Early, size
  <2>4. DispInv'
    BY <1>2, <2>2 DEF Inv, DispInv, PlaceInv, Has, CtlSent, Building, Enabling, size
  <2>5. TakeInv'
    <3>1. TakeInv /\ ~CtlScanning
      BY <2>2 DEF Inv, CtlSent, CtlScanning
    <3> QED BY ONLY <2>2, <3>1, TakeMove DEF CtlSent
  <2> QED BY <2>2, <2>3, <2>4, <2>5 DEF Inv
<1>3. ASSUME CtlSend("stop", Cmd("unref", 1, NoSize), "stopping"), fbid = 1 PROVE Inv'
  <2>1. Cmd("unref", 1, NoSize) \in FramebufferCommand /\ CtlCmd("stopping", want, Cmd("unref", 1, NoSize)) /\ "stopping" \in CtlWaits
    BY <1>s, CmdFacts DEF CtlCmd, CtlWaits
  <2>2. Types' /\ CallerInv' /\ CleanInv' /\ StrayInv' /\ CtlSent("stop", Cmd("unref", 1, NoSize), "stopping")
    BY ONLY <1>3, <2>1, CtlSendOK, Inv
  <2>3. PlanInv'
    BY <1>3, <2>2 DEF Inv, PlanInv, CtlSent, Building, Enabling, Early, size
  <2>4. DispInv'
    BY <1>3, <2>2 DEF Inv, DispInv, PlaceInv, Has, CtlSent, Building, Enabling, size
  <2>5. TakeInv'
    <3>1. TakeInv /\ ~CtlScanning
      BY <2>2 DEF Inv, CtlSent, CtlScanning
    <3> QED BY ONLY <2>2, <3>1, TakeMove DEF CtlSent
  <2> QED BY <2>2, <2>3, <2>4, <2>5 DEF Inv
<1>4. ASSUME CtlSend("attach", Cmd("attach", 1, NoSize), "attaching") PROVE Inv'
  <2>1. Cmd("attach", 1, NoSize) \in FramebufferCommand /\ CtlCmd("attaching", want, Cmd("attach", 1, NoSize)) /\ "attaching" \in CtlWaits
    BY <1>s, CmdFacts DEF CtlCmd, CtlWaits
  <2>2. Types' /\ CallerInv' /\ CleanInv' /\ StrayInv' /\ CtlSent("attach", Cmd("attach", 1, NoSize), "attaching")
    BY ONLY <1>4, <2>1, CtlSendOK, Inv
  <2>3. PlanInv'
    BY <2>2 DEF Inv, PlanInv, CtlSent, Building, Enabling, Early, size
  <2>4. DispInv'
    BY <1>4, <2>2 DEF Inv, DispInv, PlaceInv, Has, CtlSent, Building, Enabling, size
  <2>5. TakeInv'
    <3>1. TakeInv /\ ~CtlScanning
      BY <2>2 DEF Inv, CtlSent, CtlScanning
    <3> QED BY ONLY <2>2, <3>1, TakeMove DEF CtlSent
  <2> QED BY <2>2, <2>3, <2>4, <2>5 DEF Inv
<1>5. ASSUME CtlSend("overflow", Cmd("unref", 1, NoSize), "overflowing") PROVE Inv'
  <2>1. Cmd("unref", 1, NoSize) \in FramebufferCommand /\ CtlCmd("overflowing", want, Cmd("unref", 1, NoSize)) /\ "overflowing" \in CtlWaits
    BY <1>s, CmdFacts DEF CtlCmd, CtlWaits
  <2>2. Types' /\ CallerInv' /\ CleanInv' /\ StrayInv' /\ CtlSent("overflow", Cmd("unref", 1, NoSize), "overflowing")
    BY ONLY <1>5, <2>1, CtlSendOK, Inv
  <2>3. PlanInv'
    BY <2>2 DEF Inv, PlanInv, CtlSent, Building, Enabling, Early, size
  <2>4. DispInv'
    BY <1>5, <2>2 DEF Inv, DispInv, PlaceInv, Has, CtlSent, Building, Enabling, size
  <2>5. TakeInv'
    <3>1. TakeInv /\ ~CtlScanning
      BY <2>2 DEF Inv, CtlSent, CtlScanning
    <3> QED BY ONLY <2>2, <3>1, TakeMove DEF CtlSent
  <2> QED BY <2>2, <2>3, <2>4, <2>5 DEF Inv
<1>6. ASSUME CtlSend("scanout", Cmd("scanout", 1, want), "scanning") PROVE Inv'
  <2>1. Cmd("scanout", 1, want) \in FramebufferCommand /\ CtlCmd("scanning", want, Cmd("scanout", 1, want)) /\ "scanning" \in CtlWaits
    BY <1>s, CmdFacts DEF CtlCmd, CtlWaits
  <2>2. Types' /\ CallerInv' /\ CleanInv' /\ StrayInv' /\ CtlSent("scanout", Cmd("scanout", 1, want), "scanning")
    BY ONLY <1>6, <2>1, CtlSendOK, Inv
  <2>3. PlanInv'
    BY <2>2 DEF Inv, PlanInv, CtlSent, Building, Enabling, Early, size
  <2>4. DispInv'
    BY <1>6, <2>2 DEF Inv, DispInv, PlaceInv, Has, CtlSent, Building, Enabling, size
  <2>5. TakeInv'
    <3>1. Cmd("scanout", 1, want).type = "scanout"
      BY CmdFacts
    <3> QED BY <2>2, <3>1 DEF Inv, TakeInv, CtlSent, CtlScanning, AppScanning, Agree, Focus, Done
  <2> QED BY <2>2, <2>3, <2>4, <2>5 DEF Inv
<1>7. ASSUME CtlSend("negative", Cmd("scanout", BadRes, size), "control") PROVE Inv'
  <2>1. Cmd("scanout", BadRes, size) \in FramebufferCommand /\ CtlCmd("control", want, Cmd("scanout", BadRes, size)) /\ "control" \in CtlWaits
    BY <1>s, CmdFacts DEF CtlCmd, CtlWaits
  <2>2. Types' /\ CallerInv' /\ CleanInv' /\ StrayInv' /\ CtlSent("negative", Cmd("scanout", BadRes, size), "control")
    BY ONLY <1>7, <2>1, CtlSendOK, Inv
  <2>3. PlanInv'
    BY <2>2 DEF Inv, PlanInv, CtlSent, Building, Enabling, Early, size
  <2>4. DispInv'
    BY <1>7, <2>2 DEF Inv, DispInv, PlaceInv, Has, CtlSent, Building, Enabling, size
  <2>5. TakeInv'
    <3>1. Cmd("scanout", BadRes, size).type = "scanout"
      BY CmdFacts
    <3> QED BY <2>2, <3>1 DEF Inv, TakeInv, CtlSent, CtlScanning, AppScanning, Agree, Focus, Done
  <2> QED BY <2>2, <2>3, <2>4, <2>5 DEF Inv
<1>8. ASSUME CtlSend("tracking", Cmd("other", 0, NoSize), "tracked") PROVE Inv'
  <2>1. Cmd("other", 0, NoSize) \in FramebufferCommand /\ CtlCmd("tracked", want, Cmd("other", 0, NoSize)) /\ "tracked" \in CtlWaits
    BY <1>s, CmdFacts DEF CtlCmd, CtlWaits
  <2>2. Types' /\ CallerInv' /\ CleanInv' /\ StrayInv' /\ CtlSent("tracking", Cmd("other", 0, NoSize), "tracked")
    BY ONLY <1>8, <2>1, CtlSendOK, Inv
  <2>3. PlanInv'
    BY <2>2 DEF Inv, PlanInv, CtlSent, Building, Enabling, Early, size
  <2>4. DispInv'
    BY <1>8, <2>2 DEF Inv, DispInv, PlaceInv, Has, CtlSent, Building, Enabling, size
  <2>5. TakeInv'
    <3>1. TakeInv /\ ~CtlScanning
      BY <2>2 DEF Inv, CtlSent, CtlScanning
    <3> QED BY ONLY <2>2, <3>1, TakeMove DEF CtlSent
  <2> QED BY <2>2, <2>3, <2>4, <2>5 DEF Inv
<1>9. ASSUME CtlSend("others", Cmd("other", 0, NoSize), "shown") PROVE Inv'
  <2>1. Cmd("other", 0, NoSize) \in FramebufferCommand /\ CtlCmd("shown", want, Cmd("other", 0, NoSize)) /\ "shown" \in CtlWaits
    BY <1>s, CmdFacts DEF CtlCmd, CtlWaits
  <2>2. Types' /\ CallerInv' /\ CleanInv' /\ StrayInv' /\ CtlSent("others", Cmd("other", 0, NoSize), "shown")
    BY ONLY <1>9, <2>1, CtlSendOK, Inv
  <2>3. PlanInv'
    BY <2>2 DEF Inv, PlanInv, CtlSent, Building, Enabling, Early, size
  <2>4. DispInv'
    BY <1>9, <2>2 DEF Inv, DispInv, PlaceInv, Has, CtlSent, Building, Enabling, size
  <2>5. TakeInv'
    <3>1. TakeInv /\ ~CtlScanning
      BY <2>2 DEF Inv, CtlSent, CtlScanning
    <3> QED BY ONLY <2>2, <3>1, TakeMove DEF CtlSent
  <2> QED BY <2>2, <2>3, <2>4, <2>5 DEF Inv
<1>10. ASSUME CtlSend("first", Cmd("transfer", fbid, size), "transferring") PROVE Inv'
  <2>1. Cmd("transfer", fbid, size) \in FramebufferCommand /\ CtlCmd("transferring", want, Cmd("transfer", fbid, size)) /\ "transferring" \in CtlWaits
    BY <1>s, CmdFacts DEF CtlCmd, CtlWaits
  <2>2. Types' /\ CallerInv' /\ CleanInv' /\ StrayInv' /\ CtlSent("first", Cmd("transfer", fbid, size), "transferring")
    BY ONLY <1>10, <2>1, CtlSendOK, Inv
  <2>3. PlanInv'
    BY <2>2 DEF Inv, PlanInv, CtlSent, Building, Enabling, Early, size
  <2>4. DispInv'
    BY <1>10, <2>2 DEF Inv, DispInv, PlaceInv, Has, CtlSent, Building, Enabling, size
  <2>5. TakeInv'
    <3>1. TakeInv /\ ~CtlScanning
      BY <2>2 DEF Inv, CtlSent, CtlScanning
    <3> QED BY ONLY <2>2, <3>1, TakeMove DEF CtlSent
  <2> QED BY <2>2, <2>3, <2>4, <2>5 DEF Inv
<1>11. ASSUME CtlSend("firstFlush", Cmd("flush", fbid, size), "flushing") PROVE Inv'
  <2>1. Cmd("flush", fbid, size) \in FramebufferCommand /\ CtlCmd("flushing", want, Cmd("flush", fbid, size)) /\ "flushing" \in CtlWaits
    BY <1>s, CmdFacts DEF CtlCmd, CtlWaits
  <2>2. Types' /\ CallerInv' /\ CleanInv' /\ StrayInv' /\ CtlSent("firstFlush", Cmd("flush", fbid, size), "flushing")
    BY ONLY <1>11, <2>1, CtlSendOK, Inv
  <2>3. PlanInv'
    BY <2>2 DEF Inv, PlanInv, CtlSent, Building, Enabling, Early, size
  <2>4. DispInv'
    BY <1>11, <2>2 DEF Inv, DispInv, PlaceInv, Has, CtlSent, Building, Enabling, size
  <2>5. TakeInv'
    <3>1. TakeInv /\ ~CtlScanning
      BY <2>2 DEF Inv, CtlSent, CtlScanning
    <3> QED BY ONLY <2>2, <3>1, TakeMove DEF CtlSent
  <2> QED BY <2>2, <2>3, <2>4, <2>5 DEF Inv
<1> QED BY <1>1, <1>2, <1>3, <1>4, <1>5, <1>6, <1>7, <1>8, <1>9, <1>10, <1>11
        DEF SendUnref, SendAttach, SendOverflow, SendScanout, SendNegative, SendProbes, SendFirst

\* A command of "ctl" returns, with an answer or without.
CtlReturned ==
    /\ UNCHANGED <<backlog, answer, res, shown, last, alive3d, overlap>> /\ late' \in Nat
    /\ late' = 0 => late = 0 /\ backlog = 0 /\ Got("ctl")
LEMMA CtlReturnOK ==
    ASSUME Inv, Got("ctl") \/ Lost("ctl"), at \in CtlWaits, at' \notin CtlWaits \cup {"refreshing"},
           UNCHANGED <<app, asked, ref>>
    PROVE  CallerInv' /\ CleanInv' /\ CtlReturned
<1>1. Types /\ CallerInv /\ CleanInv
  BY DEF Inv
<1>3. /\ ChannelTypeOK' /\ CleanInv'
      /\ caller = "ctl" /\ caller' = "none" /\ ~waiting' /\ waiting
      /\ UNCHANGED <<cmd, backlog, answer, res, shown, last, alive3d, overlap>>
      /\ late' \in Nat
      /\ late' = 0 => late = 0 /\ Got("ctl") /\ backlog = 0
  BY ONLY <1>1, ReturnKeeps, Got("ctl") \/ Lost("ctl")
<1>4. /\ ref["timer"] \notin RefWaits /\ app \notin {"scanning", "dropping"}
      /\ at # "refreshing" /\ ref["ctl"] = "no"
  BY <1>1, <1>3 DEF CallerInv, CtlWaits
<1>5. \A t0 \in Threads : ref[t0] \notin RefWaits
  BY <1>4 DEF Threads, RefWaits
<1>6. CallerInv'
  BY <1>1, <1>3, <1>4, <1>5 DEF CallerInv, RefWaits
<1> QED BY <1>3, <1>6 DEF CtlReturned

\* Where the callers of setupFramebufferResource go on, and what they know.
LEMMA AfterSetupOK ==
    ASSUME Types, PlanInv, at \in Building \cup {"setup"}, NEW ok \in BOOLEAN, AfterSetup(ok),
           UNCHANGED <<ready, mode>>, ok => width' = want[1] /\ height' = want[2]
    PROVE  /\ PlanInv' /\ ready
           /\ at' \in {"setup", "refresh", "idle", "probe", "arm", "others"}
           /\ call' \in {"none", "restoreA", "restoreC"}
           /\ want' \in Sizes \cup {NoSize} /\ saved' \in Sizes \cup {NoSize}
           /\ call' = "none" => call # "probeA" /\ mode # 0 /\ want = SizeOf(mode)
           /\ ok /\ call' = "none" => mode' # 0 /\ size' = SizeOf(mode')
<1>1. ready /\ at \notin Enabling /\ call # "none" /\ want # NoSize
  BY DEF PlanInv, Building, Enabling, Early
<1>2. call \in {"mode", "enable", "probeA", "restoreA", "restoreC"}
  BY <1>1 DEF Types
<1>3. want \in Sizes /\ want = <<want[1], want[2]>>
  BY <1>1, SizesFacts DEF Types
<1>4. CASE call = "probeA"
  <2>1. at' = "setup" /\ want' = saved /\ saved' = NoSize /\ call' \in {"restoreA", "restoreC"}
    BY <1>4 DEF AfterSetup
  <2>2. mode # 0 /\ saved = SizeOf(mode) /\ saved \in Sizes
    BY <1>4 DEF PlanInv, Types
  <2>3. PlanInv'
    BY <1>1, <2>1, <2>2, SizesFacts DEF PlanInv, Building, Enabling, Early
  <2> QED BY <1>1, <2>1, <2>2, <2>3
<1>5. CASE call # "probeA"
  <2>1. /\ at' = CASE call = "mode"   -> (IF ok THEN "refresh" ELSE "idle")
                   [] call = "enable" -> (IF ok THEN "probe" ELSE "arm")
                   [] OTHER           -> "others"
        /\ call' = "none" /\ want' = NoSize /\ UNCHANGED saved
    BY <1>5 DEF AfterSetup
  <2>2. /\ at' \in {"refresh", "idle", "probe", "arm", "others"}
        /\ at' = "probe" => ok
    BY <2>1, <1>2, <1>5
  <2>3. mode # 0 /\ want = SizeOf(mode) /\ saved = NoSize
    BY <1>2, <1>5 DEF PlanInv
  <2>4. ok => size' = SizeOf(mode')
    BY <1>3, <2>3 DEF size
  <2>5. PlanInv'
    <3>1. mode' # 0
      BY <2>3
    <3> QED BY <1>1, <2>1, <2>2, <2>3, <2>4, <3>1 DEF PlanInv, Building, Enabling, Early
  <2> QED BY <1>1, <1>5, <2>1, <2>2, <2>3, <2>4, <2>5
<1> QED BY <1>4, <1>5

\* The answers to the commands of setupFramebufferResource and of stop.
LEMMA TornDownStep == Inv /\ TornDown => Inv'
<1> SUFFICES ASSUME Inv, TornDown PROVE Inv'
  OBVIOUS
<1>1. /\ Got("ctl") \/ Lost("ctl")
      /\ fbid' = 0 /\ (tracked' = FALSE \/ tracked' = tracked)
      /\ UNCHANGED <<ready, mode, width, height, taken, timer, armed, ref, seen, rect, tick, app, asked, stray>>
      /\ at \in {"dropping", "discarding", "stopping"}
  BY DEF TornDown, Ok, Failed, CtlElsewhere, size, refresh, statics, client
<1>2. Types /\ PlanInv /\ DispInv /\ TakeInv /\ StrayInv
  BY DEF Inv
<1>3. /\ at = "dropping" => at' = "create" /\ UNCHANGED <<call, want, saved>>
      /\ at = "discarding" => AfterSetup(FALSE)
      /\ at = "stopping" => at' = "stopped" /\ UNCHANGED <<call, want, saved>>
  BY DEF TornDown, locals
<1>4. /\ PlanInv' /\ at' \in {"create", "stopped", "setup", "refresh", "idle", "probe", "arm", "others"}
      /\ want' \in Sizes \cup {NoSize} /\ saved' \in Sizes \cup {NoSize}
      /\ call' \in {"none", "mode", "enable", "probeA", "restoreA", "restoreC"}
  <2>1. CASE at \in {"dropping", "stopping"}
    BY <2>1, <1>1, <1>2, <1>3 DEF PlanInv, Types, Building, Enabling, Early, size
  <2>2. CASE at = "discarding"
    <3>1. AfterSetup(FALSE) /\ at \in Building
      BY <2>2, <1>3 DEF Building
    <3>2. /\ PlanInv' /\ at' \in {"setup", "refresh", "idle", "probe", "arm", "others"}
          /\ want' \in Sizes \cup {NoSize} /\ saved' \in Sizes \cup {NoSize}
          /\ call' \in {"none", "restoreA", "restoreC"}
      BY ONLY <3>1, <1>1, <1>2, AfterSetupOK
    <3> QED BY <3>2
  <2> QED BY <1>1, <2>1, <2>2
<1>5. CallerInv' /\ CleanInv' /\ CtlReturned
  <2>1. at \in CtlWaits /\ at' \notin CtlWaits \cup {"refreshing"}
    BY <1>1, <1>4 DEF CtlWaits
  <2> QED BY ONLY <1>1, <2>1, CtlReturnOK, Inv
<1>6. Types'
  <2>1. at' \in Places
    BY <1>4 DEF Places, Building, Early
  <2>2. tracked' \in BOOLEAN
    BY <1>1, <1>2, Zenon DEF Types
  <2> QED BY <1>1, <1>2, <1>4, <1>5, <2>1, <2>2 DEF Types, CtlReturned
<1>7. StrayInv'
  BY <1>1, <1>2, <1>4, StrayMove
<1>8. TakeInv'
  <2>1. ~CtlScanning /\ at' \notin {"scanning", "flag", "control"}
    BY <1>1, <1>4 DEF CtlScanning
  <2> QED BY ONLY <1>1, <1>2, <1>5, <2>1, TakeMove DEF CtlReturned
<1>9. DispInv'
  <2>1. ASSUME late' = 0 PROVE ~tracked' /\ res' = NoRes
    <3>1. late = 0 /\ backlog = 0 /\ Got("ctl") /\ UNCHANGED <<answer, res>>
      BY <1>5, <2>1 DEF CtlReturned
    <3>2. res = NoRes /\ (answer = "err" => ~tracked)
      BY <1>1, <1>2, <3>1 DEF DispInv, PlaceInv
    <3>3. ~Lost("ctl")
      BY <3>1, <2>1 DEF Lost, Got, Types, Answered, TimedOut
    <3>4. answer # "err" => tracked' = FALSE
      BY <3>3 DEF TornDown, Failed
    <3>5. ~tracked'
      BY <1>1, <3>2, <3>4, Zenon
    <3> QED BY <3>1, <3>2, <3>5
  <2>2. ASSUME late' = 0 PROVE PlaceInv'
    <3>1. /\ at' \in {"create", "stopped", "setup", "refresh", "idle", "probe", "arm", "others"}
          /\ fbid' = 0 /\ ~tracked' /\ res' = NoRes
      BY <1>1, <1>4, <2>1, <2>2
    <3>2. CASE at' \in {"create", "stopped"}
      BY ONLY <3>1, <3>2 DEF PlaceInv, Building
    <3>3. CASE at' \in {"setup", "refresh", "idle", "probe", "arm", "others"}
      BY ONLY <3>1, <3>3 DEF PlaceInv, Building, Has
    <3> QED BY <3>1, <3>2, <3>3
  <2> QED BY <1>1, <2>2 DEF DispInv
<1> QED BY <1>4, <1>5, <1>6, <1>7, <1>8, <1>9 DEF Inv

LEMMA AnswerStep == Inv /\ (CreateFails \/ Created \/ Attached \/ ScanoutSet
                              \/ NegativeAnswered \/ ProbesDone \/ FirstDone) => Inv'
<1> SUFFICES ASSUME Inv, \/ CreateFails \/ Created \/ Attached \/ ScanoutSet
                         \/ NegativeAnswered \/ ProbesDone \/ FirstDone
             PROVE  Inv'
  OBVIOUS
<1>0. Types /\ CallerInv /\ CleanInv /\ PlanInv /\ DispInv /\ TakeInv /\ StrayInv
  BY DEF Inv
<1>g. ASSUME late' = 0, late = 0, Got("ctl") PROVE ~Lost("ctl")
  BY <1>g DEF Got, Lost, Answered, TimedOut
\* What the answers that lead from place to place have in common.
<1>c. ASSUME Got("ctl") \/ Lost("ctl"), at \in CtlWaits, at' \in Places \ (CtlWaits \cup {"refreshing"}),
             at' \notin {"closing", "releasing"}, tracked' \in BOOLEAN, taken' \in BOOLEAN,
             UNCHANGED <<ready, mode, width, height, fbid, timer, armed, ref, seen, rect, tick,
                         call, want, saved, app, asked, stray>>
      PROVE  Types' /\ CallerInv' /\ CleanInv' /\ StrayInv' /\ CtlReturned
  <2>1. CallerInv' /\ CleanInv' /\ CtlReturned
    BY ONLY <1>c, CtlReturnOK, Inv
  <2>2. Types'
    BY <1>0, <1>c, <2>1 DEF Types, CtlReturned
  <2>3. StrayInv'
    BY ONLY <1>0, <1>c, StrayMove
  <2> QED BY <2>1, <2>2, <2>3
<1>1. CASE CreateFails /\ at = "attach"
  <2>1. /\ at' = "cleanup" /\ NoCommandSent /\ at = "attach"
        /\ UNCHANGED <<ready, mode, width, height, fbid, taken, timer, armed, ref, seen, rect, tick,
                       tracked, call, want, saved, app, asked, stray>>
    BY <1>1 DEF CreateFails, CtlElsewhere, size, refresh, statics, locals, client, Over, Got, Lost
  <2>2. /\ ChannelTypeOK' /\ CleanInv'
        /\ UNCHANGED <<cmd, backlog, answer, res, shown, last, alive3d, late, overlap>>
    BY ONLY <1>0, <2>1, SilentKeeps
  <2>3. CallerInv'
    <3>1. at \notin CtlWaits /\ at' \notin CtlWaits /\ at # "refreshing" /\ at' # "refreshing"
      BY <2>1 DEF CtlWaits
    <3> QED BY ONLY <1>0, <2>1, <2>2, <3>1, CallerMove
  <2>4. Types'
    BY <1>0, <2>1, <2>2 DEF Types, Places, Building
  <2>5. PlanInv'
    BY <1>0, <2>1 DEF PlanInv, Building, Enabling, Early, size
  <2>6. DispInv'
    BY <1>0, <2>1, <2>2 DEF DispInv, PlaceInv, Building, Enabling, size
  <2>7. TakeInv'
    BY <1>0, <2>1, <2>2, TakeMove DEF CtlScanning
  <2>8. StrayInv'
    BY <1>0, <2>1, StrayMove
  <2> QED BY <2>2, <2>3, <2>4, <2>5, <2>6, <2>7, <2>8 DEF Inv
<1>2. CASE CreateFails /\ at # "attach"
  <2>1. /\ at' = "cleanup" /\ at \in {"creating", "attaching", "scanning", "overflowing"}
        /\ Got("ctl") \/ Lost("ctl")
        /\ at = "overflowing" \/ Failed("ctl")
        /\ UNCHANGED <<ready, mode, width, height, fbid, taken, timer, armed, ref, seen, rect, tick,
                       tracked, call, want, saved, app, asked, stray>>
    BY <1>2 DEF CreateFails, Failed, Over, CtlElsewhere, size, refresh, statics, locals, client
  <2>2. /\ at \in CtlWaits /\ at' \in Places \ (CtlWaits \cup {"refreshing"})
        /\ tracked' \in BOOLEAN /\ taken' \in BOOLEAN
    BY <1>0, <2>1 DEF CtlWaits, Places, Building, Types
  <2>3. Types' /\ CallerInv' /\ CleanInv' /\ StrayInv' /\ CtlReturned
    BY <1>c, <2>1, <2>2
  <2>5. PlanInv'
    BY <1>0, <2>1 DEF PlanInv, Building, Enabling, Early, size
  <2>4. ASSUME late' = 0 PROVE late = 0 /\ backlog = 0 /\ (at # "overflowing" => answer = "err")
    BY <2>1, <2>3, <2>4, <1>g DEF CtlReturned, Failed
  <2>6. DispInv'
    <3>1. ASSUME late' = 0 PROVE fbid' = 1 /\ (tracked' => res' # NoRes)
      <4>1. late = 0 /\ backlog = 0 /\ UNCHANGED <<res, tracked, fbid>> /\ PlaceInv
        BY <1>0, <2>1, <2>3, <2>4, <3>1 DEF CtlReturned, DispInv
      <4>2. at # "scanning" => fbid = 1 /\ ~tracked
        BY <2>1, <4>1 DEF PlaceInv
      <4>3. at = "scanning" => fbid = 1 /\ Has(want, TRUE)
        BY <4>1 DEF PlaceInv
      <4>4. Has(want, TRUE) => res # NoRes
        BY DEF Has, NoRes
      <4> QED BY <4>1, <4>2, <4>3, <4>4
    <3>2. call' # "none" /\ at' \notin Enabling
      BY <2>1, <1>0 DEF PlanInv, Building, Enabling
    <3> QED BY <2>1, <3>1, <3>2 DEF DispInv, PlaceInv, Building
  <2>7. TakeInv'
    BY <1>0, <2>1, <2>3, <2>4 DEF TakeInv, CtlReturned, CtlScanning, AppScanning, Agree, Focus, Done
  <2> QED BY <2>3, <2>5, <2>6, <2>7 DEF Inv
<1>3. CASE Created
  <2>1. /\ at = "creating" /\ at' = (IF answer = "nodata" THEN "attach" ELSE "scanout")
        /\ Got("ctl") /\ answer # "err"
        /\ UNCHANGED <<ready, mode, width, height, fbid, taken, timer, armed, ref, seen, rect, tick,
                       tracked, call, want, saved, app, asked, stray>>
    BY <1>3 DEF Created, Ok, CtlElsewhere, size, refresh, statics, locals, client
  <2>2. /\ at \in CtlWaits /\ at' \in Places \ (CtlWaits \cup {"refreshing"})
        /\ tracked' \in BOOLEAN /\ taken' \in BOOLEAN /\ at' \notin {"closing", "releasing"}
    BY <1>0, <2>1 DEF CtlWaits, Places, Building, Types
  <2>3. Types' /\ CallerInv' /\ CleanInv' /\ StrayInv' /\ CtlReturned
    BY <1>c, <2>1, <2>2
  <2>4. PlanInv'
    BY <1>0, <2>1 DEF PlanInv, Building, Enabling, Early, size
  <2>5. DispInv'
    BY <1>0, <2>1, <2>3 DEF DispInv, PlaceInv, Has, CtlReturned, Building, Enabling, size
  <2>6. TakeInv'
    BY <1>0, <2>1, <2>3, TakeMove DEF CtlReturned, CtlScanning
  <2> QED BY <2>3, <2>4, <2>5, <2>6 DEF Inv
<1>4. CASE Attached
  <2>1. /\ at = "attaching" /\ Got("ctl") /\ answer # "err"
        /\ (at' = "scanout" /\ tracked' = TRUE) \/ (at' = "overflow" /\ UNCHANGED tracked)
        /\ UNCHANGED <<ready, mode, width, height, fbid, taken, timer, armed, ref, seen, rect, tick,
                       call, want, saved, app, asked, stray>>
    BY <1>4 DEF Attached, Ok, CtlElsewhere, size, refresh, statics, locals, client
  <2>2. /\ at \in CtlWaits /\ at' \in Places \ (CtlWaits \cup {"refreshing"})
        /\ tracked' \in BOOLEAN /\ taken' \in BOOLEAN /\ at' \notin {"closing", "releasing"}
    BY <1>0, <2>1 DEF CtlWaits, Places, Building, Types
  <2>3. Types' /\ CallerInv' /\ CleanInv' /\ StrayInv' /\ CtlReturned
    BY <1>c, <2>1, <2>2
  <2>4. PlanInv'
    BY <1>0, <2>1 DEF PlanInv, Building, Enabling, Early, size
  <2>5. DispInv'
    BY <1>0, <2>1, <2>3 DEF DispInv, PlaceInv, Has, CtlReturned, Building, Enabling, size
  <2>6. TakeInv'
    BY <1>0, <2>1, <2>3, TakeMove DEF CtlReturned, CtlScanning
  <2> QED BY <2>3, <2>4, <2>5, <2>6 DEF Inv
<1>5. CASE ScanoutSet
  <2>1. /\ at = "scanning" /\ at' = "flag" /\ Got("ctl") /\ answer # "err"
        /\ UNCHANGED <<ready, mode, width, height, fbid, taken, timer, armed, ref, seen, rect, tick,
                       tracked, call, want, saved, app, asked, stray>>
    BY <1>5 DEF ScanoutSet, Ok, CtlElsewhere, size, refresh, statics, locals, client
  <2>2. /\ at \in CtlWaits /\ at' \in Places \ (CtlWaits \cup {"refreshing"})
        /\ tracked' \in BOOLEAN /\ taken' \in BOOLEAN /\ at' \notin {"closing", "releasing"}
    BY <1>0, <2>1 DEF CtlWaits, Places, Building, Types
  <2>3. Types' /\ CallerInv' /\ CleanInv' /\ StrayInv' /\ CtlReturned
    BY <1>c, <2>1, <2>2
  <2>4. PlanInv'
    BY <1>0, <2>1 DEF PlanInv, Building, Enabling, Early, size
  <2>5. DispInv'
    BY <1>0, <2>1, <2>3 DEF DispInv, PlaceInv, Has, CtlReturned, Building, Enabling, size
  <2>6. TakeInv'
    BY <1>0, <2>1, <2>3 DEF TakeInv, CtlReturned, CtlScanning, AppScanning, Agree, Focus, Done
  <2> QED BY <2>3, <2>4, <2>5, <2>6 DEF Inv
<1>6. CASE NegativeAnswered
  <2>1. /\ at = "control" /\ at' \in {"setup", "tracking"}
        /\ (Ok("ctl") /\ taken' = TRUE) \/ (Failed("ctl") /\ UNCHANGED taken)
        /\ UNCHANGED <<ready, mode, width, height, fbid, timer, armed, ref, seen, rect, tick,
                       tracked, call, want, saved, app, asked, stray>>
    BY <1>6 DEF NegativeAnswered, CtlElsewhere, size, refresh, statics, locals, client
  <2>2. /\ at \in CtlWaits /\ at' \in Places \ (CtlWaits \cup {"refreshing"})
        /\ tracked' \in BOOLEAN /\ taken' \in BOOLEAN /\ at' \notin {"closing", "releasing"}
        /\ Got("ctl") \/ Lost("ctl")
    BY <1>0, <2>1 DEF CtlWaits, Places, Enabling, Types, Ok, Failed
  <2>3. Types' /\ CallerInv' /\ CleanInv' /\ StrayInv' /\ CtlReturned
    BY <1>c, <2>1, <2>2
  <2>4. PlanInv'
    BY <1>0, <2>1 DEF PlanInv, Building, Enabling, Early, size
  <2>5. DispInv'
    BY <1>0, <2>1, <2>3 DEF DispInv, PlaceInv, Has, CtlReturned, Building, Enabling, size
  <2>6. TakeInv'
    <3>1. ASSUME late' = 0, ~overlap' PROVE Agree' /\ ~CtlScanning' /\ ~AppScanning'
      <4>1. late = 0 /\ ~overlap /\ backlog = 0
        BY <2>3, <3>1 DEF CtlReturned
      <4>2. answer = "err" /\ Agree /\ ~AppScanning
        BY <1>0, <2>1, <4>1 DEF TakeInv, Focus, CtlScanning
      <4>3. taken' = taken
        BY <2>1, <4>2 DEF Ok
      <4> QED BY <2>1, <2>3, <4>2, <4>3 DEF CtlReturned, Agree, Focus, CtlScanning, AppScanning
    <3> QED BY <3>1 DEF TakeInv, Focus, CtlScanning, AppScanning
  <2> QED BY <2>3, <2>4, <2>5, <2>6 DEF Inv
<1>7. CASE ProbesDone \/ FirstDone
  <2>1. /\ \/ at = "tracked" /\ at' = "setup"
           \/ at = "shown" /\ at' = "first"
           \/ at = "transferring" /\ at' = "firstFlush"
           \/ at = "flushing" /\ at' = "arm"
        /\ Got("ctl") \/ Lost("ctl")
        /\ UNCHANGED <<ready, mode, width, height, fbid, taken, timer, armed, ref, seen, rect, tick,
                       tracked, call, want, saved, app, asked, stray>>
    BY <1>7 DEF ProbesDone, FirstDone, Over, CtlElsewhere, size, refresh, statics, locals, client
  <2>2. /\ at \in CtlWaits /\ at' \in Places \ (CtlWaits \cup {"refreshing"})
        /\ tracked' \in BOOLEAN /\ taken' \in BOOLEAN /\ at' \notin {"closing", "releasing"}
    BY <1>0, <2>1 DEF CtlWaits, Places, Early, Types
  <2>3. Types' /\ CallerInv' /\ CleanInv' /\ StrayInv' /\ CtlReturned
    BY <1>c, <2>1, <2>2
  <2>4. PlanInv'
    BY <1>0, <2>1 DEF PlanInv, Building, Enabling, Early, size
  <2>5. DispInv'
    BY <1>0, <2>1, <2>3 DEF DispInv, PlaceInv, Has, CtlReturned, Building, Enabling, size
  <2>6. TakeInv'
    BY <1>0, <2>1, <2>3, TakeMove DEF CtlReturned, CtlScanning
  <2> QED BY <2>3, <2>4, <2>5, <2>6 DEF Inv
<1> QED BY <1>1, <1>2, <1>3, <1>4, <1>5, <1>6, <1>7

-----------------------------------------------------------------------------
(* Steps of "ctl" that send nothing.                                       *)

\* What they have in common; each has its plan, display and flag to add.
LEMMA CtlMoveOK ==
    ASSUME Inv, NoCommandSent, at \notin CtlWaits \cup {"refreshing"},
           at' \in Places \ (CtlWaits \cup {"refreshing"}),
           mode' \in ModeIds \cup {0}, ready' \in BOOLEAN,
           width' \in 1 .. BufferSize, height' \in 1 .. BufferSize,
           want' \in Sizes \cup {NoSize}, saved' \in Sizes \cup {NoSize},
           call' \in {"none", "mode", "enable", "probeA", "restoreA", "restoreC"},
           fbid' \in {0, 1}, taken' \in BOOLEAN, timer' \in BOOLEAN, armed' \in BOOLEAN,
           UNCHANGED <<ref, seen, rect, tick, tracked, app, asked, stray>>
    PROVE  /\ Types' /\ CallerInv' /\ CleanInv'
           /\ UNCHANGED <<backlog, answer, res, shown, last, alive3d, late, overlap>>
<1>1. Types /\ CallerInv /\ CleanInv
  BY DEF Inv
<1>2. /\ ChannelTypeOK' /\ CleanInv'
      /\ UNCHANGED <<cmd, backlog, answer, res, shown, last, alive3d, late, overlap>>
  BY ONLY <1>1, NoCommandSent, SilentKeeps
<1>3. CallerInv'
  BY ONLY <1>1, <1>2, CallerMove, NoCommandSent, at \notin CtlWaits \cup {"refreshing"},
          at' \in Places \ (CtlWaits \cup {"refreshing"}), UNCHANGED <<ref, app, asked>>
<1>4. Types'
  BY <1>1, <1>2 DEF Types
<1> QED BY <1>2, <1>3, <1>4

LEMMA SetupStep == Inv /\ (SetupBegin \/ SetHeight) => Inv'
<1> SUFFICES ASSUME Inv, SetupBegin \/ SetHeight PROVE Inv'
  OBVIOUS
<1>0. Types /\ CallerInv /\ CleanInv /\ PlanInv /\ DispInv /\ TakeInv /\ StrayInv
  BY DEF Inv
<1>s. /\ want \in Sizes => want[1] \in 1 .. BufferSize /\ want[2] \in 1 .. BufferSize
                           /\ want = <<want[1], want[2]>>
      /\ mode # 0 => /\ SizeOf(mode) \in Sizes
                     /\ SizeOf(mode)[1] \in 1 .. BufferSize /\ SizeOf(mode)[2] \in 1 .. BufferSize
                     /\ SizeOf(mode) = <<SizeOf(mode)[1], SizeOf(mode)[2]>>
                     /\ SizeOf(mode)[1] * SizeOf(mode)[2] <= BufferSize
  BY <1>0, SizesFacts, ModeFacts DEF Types
\* The routine returns: what there is of resource 1 is at rest.
<1>1. ASSUME NEW ok \in BOOLEAN, AfterSetup(ok), at \in {"setup", "setHeight"}, NoCommandSent,
             UNCHANGED <<ready, mode, width, fbid, taken, timer, armed, ref, seen, rect, tick, tracked,
                         app, asked, stray>>,
             height' \in 1 .. BufferSize,
             ok => width' = want[1] /\ height' = want[2],
             late = 0 => IF fbid = 1 THEN tracked /\ Has(<<width', height'>>, TRUE)
                                     ELSE ~tracked /\ res = NoRes,
             fbid = 1 /\ late = 0 => ok \/ call = "probeA"
      PROVE  Inv'
  <2>1. /\ PlanInv' /\ ready
        /\ at' \in {"setup", "refresh", "idle", "probe", "arm", "others"}
        /\ call' \in {"none", "restoreA", "restoreC"}
        /\ want' \in Sizes \cup {NoSize} /\ saved' \in Sizes \cup {NoSize}
        /\ call' = "none" => call # "probeA" /\ mode # 0 /\ want = SizeOf(mode)
        /\ ok /\ call' = "none" => mode' # 0 /\ size' = SizeOf(mode')
    <3>1. at \in Building \cup {"setup"}
      BY <1>1 DEF Building
    <3> QED BY ONLY <1>0, <1>1, <3>1, AfterSetupOK
  <2>2. /\ at \notin CtlWaits \cup {"refreshing"} /\ at' \in Places \ (CtlWaits \cup {"refreshing"})
        /\ at' \notin {"closing", "releasing"} /\ at' \notin {"scanning", "flag", "control"} /\ ~CtlScanning
    BY <1>1, <2>1 DEF CtlWaits, Places, Early, CtlScanning
  <2>3. /\ Types' /\ CallerInv' /\ CleanInv'
        /\ UNCHANGED <<backlog, answer, res, shown, last, alive3d, late, overlap>>
    BY <1>0, <1>1, <2>1, <2>2, CtlMoveOK DEF Types
  <2>4. StrayInv'
    BY ONLY <1>0, <1>1, <2>2, StrayMove
  <2>5. TakeInv'
    BY ONLY <1>0, <1>1, <2>2, <2>3, TakeMove
  <2>6. DispInv'
    <3>1. ASSUME late' = 0 PROVE PlaceInv'
      <4>1. /\ fbid' = 1 => tracked' /\ Has(size, TRUE)'
            /\ fbid' # 1 => ~tracked' /\ res' = NoRes
        BY <1>1, <2>3, <3>1 DEF Has, size
      <4> QED BY ONLY <2>1, <4>1 DEF PlaceInv, Building, Has
    <3>2. ASSUME late' = 0, fbid' = 1, call' = "none" PROVE mode' # 0 /\ size' = SizeOf(mode')
      BY <1>1, <2>1, <2>3, <3>2
    <3>3. at' \notin Enabling
      BY <2>1 DEF Enabling
    <3> QED BY <3>1, <3>2, <3>3 DEF DispInv
  <2> QED BY <2>1, <2>3, <2>4, <2>5, <2>6 DEF Inv
<1>2. CASE SetHeight /\ at = "setHeight"
  <2>1. /\ height' = want[2] /\ AfterSetup(TRUE) /\ NoCommandSent
        /\ UNCHANGED <<ready, mode, width, fbid, taken, timer, armed, ref, seen, rect, tick, tracked,
                       app, asked, stray>>
    BY <1>2 DEF SetHeight, CtlElsewhere, refresh, statics, locals, client
  <2>2. want \in Sizes /\ width = want[1]
    BY <1>0, <1>2 DEF PlanInv, Types, Building
  <2>3. late = 0 => fbid = 1 /\ tracked /\ Has(want, TRUE)
    BY <1>0, <1>2 DEF DispInv, PlaceInv
  <2>4. late = 0 => Has(<<width', height'>>, TRUE)
    BY <2>1, <2>2, <2>3 DEF Has
  <2>5. width' = want[1] /\ height' \in 1 .. BufferSize
    BY <2>1, <2>2, <1>s
  <2> QED BY <1>1, <1>2, <2>1, <2>3, <2>4, <2>5
<1>3. CASE SetHeight /\ at = "modeHeight"
  <2>1. /\ at = "modeHeight" /\ height' = SizeOf(mode)[2] /\ at' = "negative" /\ NoCommandSent
        /\ UNCHANGED <<ready, mode, width, fbid, taken, timer, armed, ref, seen, rect, tick, tracked,
                       call, want, saved, app, asked, stray>>
    BY <1>3 DEF SetHeight, CtlElsewhere, refresh, statics, locals, client
  <2>2. mode # 0 /\ width = SizeOf(mode)[1] /\ call = "enable"
    BY <1>0, <2>1 DEF PlanInv, Enabling
  <2>3. /\ at \notin CtlWaits \cup {"refreshing"} /\ at' \in Places \ (CtlWaits \cup {"refreshing"})
        /\ at' \notin {"closing", "releasing"} /\ at' \notin {"scanning", "flag", "control"} /\ ~CtlScanning
    BY <2>1 DEF CtlWaits, Places, Enabling, CtlScanning
  <2>4. height' \in 1 .. BufferSize
    BY <2>1, <2>2, <1>s
  <2>5. /\ Types' /\ CallerInv' /\ CleanInv'
        /\ UNCHANGED <<backlog, answer, res, shown, last, alive3d, late, overlap>>
    BY <1>0, <2>1, <2>3, <2>4, CtlMoveOK DEF Types
  <2>6. StrayInv'
    BY ONLY <1>0, <2>1, <2>3, StrayMove
  <2>7. TakeInv'
    BY ONLY <1>0, <2>1, <2>3, <2>5, TakeMove
  <2>8. PlanInv'
    BY <1>0, <2>1, <2>2 DEF PlanInv, Building, Enabling, Early, size
  <2>9. DispInv'
    <3>1. late = 0 /\ fbid = 1 => height' = height
      BY <1>0, <2>1, <2>2 DEF DispInv, Enabling, size
    <3> QED BY <1>0, <2>1, <2>2, <2>5, <3>1 DEF DispInv, PlaceInv, Has, Building, Enabling, size
  <2> QED BY <2>5, <2>6, <2>7, <2>8, <2>9 DEF Inv
<1>4. CASE SetupBegin
  <2>1. /\ at = "setup" /\ NoCommandSent
        /\ UNCHANGED <<ready, mode, width, height, fbid, taken, timer, armed, ref, seen, rect, tick, tracked,
                       app, asked, stray>>
    BY <1>4 DEF SetupBegin, CtlElsewhere, size, refresh, statics, client
  <2>2. want \in Sizes /\ call # "none"
    BY <1>0, <2>1 DEF PlanInv, Types, Building
  <2>3. late = 0 => IF fbid = 1 THEN tracked /\ Has(<<width', height'>>, TRUE)
                                ELSE ~tracked /\ res = NoRes
    BY <1>0, <2>1 DEF DispInv, PlaceInv, Building, Has, size
  <2>4. CASE fbid = 1 /\ size = want
    <3>1. AfterSetup(TRUE) /\ width' = want[1] /\ height' = want[2] /\ height' \in 1 .. BufferSize
      BY <1>0, <1>4, <2>1, <2>4 DEF SetupBegin, size, Types
    <3> QED BY <1>1, <2>1, <2>3, <3>1
  <2>5. CASE ~(fbid = 1 /\ size = want) /\ want[1] * want[2] > BufferSize
    <3>1. AfterSetup(FALSE) /\ height' \in 1 .. BufferSize
      BY <1>0, <1>4, <2>1, <2>5 DEF SetupBegin, Types
    <3>2. call = "probeA"
      <4>1. SUFFICES ASSUME call # "probeA" PROVE FALSE
        OBVIOUS
      <4>2. mode # 0 /\ want = SizeOf(mode)
        BY <1>0, <2>2, <4>1 DEF PlanInv, Types
      <4>3. SizeOf(mode)[1] * SizeOf(mode)[2] <= BufferSize /\ SizeOf(mode)[1] * SizeOf(mode)[2] > BufferSize
        BY <1>s, <4>2, <2>5
      <4>4. SizeOf(mode)[1] * SizeOf(mode)[2] \in Nat /\ BufferSize \in Nat
        BY <1>s, <4>2, FramebufferAssumption
      <4> QED BY ONLY <4>3, <4>4
    <3> QED BY <1>1, <2>1, <2>3, <3>1, <3>2
  <2>6. CASE ~(fbid = 1 /\ size = want) /\ ~(want[1] * want[2] > BufferSize)
    <3>1. /\ at' = (IF fbid = 1 THEN "teardown" ELSE "create")
          /\ UNCHANGED <<call, want, saved>>
      BY <1>4, <2>6 DEF SetupBegin, locals
    <3>2. /\ at \notin CtlWaits \cup {"refreshing"} /\ at' \in Places \ (CtlWaits \cup {"refreshing"})
          /\ at' \notin {"closing", "releasing"} /\ at' \notin {"scanning", "flag", "control"} /\ ~CtlScanning
      BY <2>1, <3>1 DEF CtlWaits, Places, Building, CtlScanning
    <3>3. /\ Types' /\ CallerInv' /\ CleanInv'
          /\ UNCHANGED <<backlog, answer, res, shown, last, alive3d, late, overlap>>
      BY <1>0, <2>1, <3>1, <3>2, CtlMoveOK DEF Types
    <3>4. StrayInv'
      BY ONLY <1>0, <2>1, <3>2, StrayMove
    <3>5. TakeInv'
      BY ONLY <1>0, <2>1, <3>2, <3>3, TakeMove
    <3>6. PlanInv'
      BY <1>0, <2>1, <3>1 DEF PlanInv, Building, Enabling, Early, size
    <3>7. fbid \in {0, 1}
      BY <1>0 DEF Types
    <3>8. DispInv'
      BY <1>0, <2>1, <2>2, <2>3, <3>1, <3>3, <3>7 DEF DispInv, PlaceInv, Has, Building, Enabling, size
    <3> QED BY <3>3, <3>4, <3>5, <3>6, <3>8 DEF Inv
  <2> QED BY <2>4, <2>5, <2>6
<1> QED BY <1>2, <1>3, <1>4 DEF SetHeight

\* A step outside setscanout that leaves the flag alone: its plan, its callbacks
\* and its display are all there is to show.
LEMMA CtlMoveInv ==
    ASSUME Inv, NoCommandSent, at \notin CtlWaits \cup {"refreshing", "flag"},
           at' \in Places \ (CtlWaits \cup {"refreshing", "flag"}),
           mode' \in ModeIds \cup {0}, ready' \in BOOLEAN,
           width' \in 1 .. BufferSize, height' \in 1 .. BufferSize,
           want' \in Sizes \cup {NoSize}, saved' \in Sizes \cup {NoSize},
           call' \in {"none", "mode", "enable", "probeA", "restoreA", "restoreC"},
           fbid' \in {0, 1}, taken' = taken, timer' \in BOOLEAN, armed' \in BOOLEAN,
           UNCHANGED <<ref, seen, rect, tick, tracked, app, asked, stray>>,
           PlanInv', StrayInv',
           UNCHANGED <<backlog, answer, res, late>> => DispInv'
    PROVE  Inv'
<1>1. at \notin CtlWaits \cup {"refreshing"} /\ at' \in Places \ (CtlWaits \cup {"refreshing"})
  OBVIOUS
<1>2. taken' \in BOOLEAN /\ TakeInv
  BY DEF Inv, Types
<1>3. /\ Types' /\ CallerInv' /\ CleanInv'
      /\ UNCHANGED <<backlog, answer, res, shown, last, alive3d, late, overlap>>
  BY <1>1, <1>2, CtlMoveOK
<1>4. ~CtlScanning /\ at' \notin {"scanning", "flag", "control"}
  BY DEF CtlScanning, CtlWaits
<1>5. TakeInv'
  BY ONLY <1>2, <1>3, <1>4, TakeMove, taken' = taken, UNCHANGED <<app, asked>>
<1> QED BY <1>3, <1>5 DEF Inv

\* setupFramebufferResource and enableController go on without a command.
LEMMA EnableStep == Inv /\ (SetWidth \/ ProbeRecreate \/ Arm) => Inv'
<1> SUFFICES ASSUME Inv, SetWidth \/ ProbeRecreate \/ Arm PROVE Inv'
  OBVIOUS
<1>0. Types /\ PlanInv /\ DispInv /\ StrayInv
  BY DEF Inv
<1>s. /\ want \in Sizes => want[1] \in 1 .. BufferSize /\ want[2] \in 1 .. BufferSize
      /\ mode # 0 => /\ SizeOf(mode) \in Sizes
                     /\ SizeOf(mode)[1] \in 1 .. BufferSize /\ SizeOf(mode)[2] \in 1 .. BufferSize
                     /\ SizeOf(mode)[1] > ProbeStep /\ SizeOf(mode)[2] > ProbeStep
  BY <1>0, SizesFacts, ModeFacts DEF Types
<1>1. CASE SetWidth
  <2>1. /\ \/ at = "setWidth" /\ width' = want[1] /\ at' = "setHeight"
           \/ at = "modeWidth" /\ width' = SizeOf(mode)[1] /\ at' = "modeHeight"
        /\ NoCommandSent
        /\ UNCHANGED <<ready, mode, height, fbid, taken, timer, armed, ref, seen, rect, tick, tracked,
                       call, want, saved, app, asked, stray>>
    BY <1>1 DEF SetWidth, CtlElsewhere, refresh, locals, client
  <2>2. /\ at = "setWidth" => want \in Sizes
        /\ at = "modeWidth" => mode # 0 /\ call = "enable"
    BY <1>0, <2>1 DEF PlanInv, Types, Building, Enabling
  <2>3. width' \in 1 .. BufferSize
    BY <1>s, <2>1, <2>2
  <2>4. /\ at \notin CtlWaits \cup {"refreshing", "flag"}
        /\ at' \in Places \ (CtlWaits \cup {"refreshing", "flag"})
        /\ at' \notin {"closing", "releasing"}
    BY <2>1 DEF CtlWaits, Places, Building, Enabling
  <2>5. PlanInv'
    BY <1>0, <2>1, <2>2 DEF PlanInv, Building, Enabling, Early, size
  <2>6. StrayInv'
    BY ONLY <1>0, <2>1, <2>4, StrayMove
  <2>7. ASSUME UNCHANGED <<backlog, answer, res, late>> PROVE DispInv'
    <3>1. CASE at = "setWidth"
      BY <1>0, <2>1, <2>7, <3>1 DEF DispInv, PlaceInv, PlanInv, Has, Building, Enabling, size
    <3>2. CASE at = "modeWidth"
      <4>1. late = 0 /\ fbid = 1 => width' = width
        BY <1>0, <2>1, <2>2, <3>2 DEF DispInv, Enabling, size
      <4> QED BY <1>0, <2>1, <2>2, <2>7, <3>2, <4>1 DEF DispInv, PlaceInv, Has, Building, Enabling, size
    <3> QED BY <2>1, <3>1, <3>2
  <2> QED BY <1>0, <2>1, <2>3, <2>4, <2>5, <2>6, <2>7, CtlMoveInv DEF Types
<1>2. CASE ProbeRecreate
  <2>1. /\ at = "probe" /\ NoCommandSent
        /\ \/ at' = "first" /\ UNCHANGED <<call, want, saved>>
           \/ at' = "setup" /\ call' = "probeA" /\ saved' = size /\ want' = <<Shrink(width), Shrink(height)>>
        /\ UNCHANGED <<ready, mode, width, height, fbid, taken, timer, armed, ref, seen, rect, tick, tracked,
                       app, asked, stray>>
    BY <1>2 DEF ProbeRecreate, CtlElsewhere, size, refresh, locals, client
  <2>2. mode # 0 /\ size = SizeOf(mode) /\ call = "none" /\ ready /\ want = NoSize /\ saved = NoSize
    BY <1>0, <2>1 DEF PlanInv, Building, Enabling, Early
  <2>3. <<Shrink(width), Shrink(height)>> \in Sizes /\ size \in Sizes
    <3>1. width = SizeOf(mode)[1] /\ height = SizeOf(mode)[2]
      BY <2>2 DEF size
    <3>2. /\ width > ProbeStep /\ height > ProbeStep
          /\ width \in 1 .. BufferSize /\ height \in 1 .. BufferSize
      BY <1>s, <2>2, <3>1
    <3>3. Shrink(width) \in 1 .. BufferSize /\ Shrink(height) \in 1 .. BufferSize
      BY <3>2, FramebufferAssumption DEF Shrink
    <3> QED BY <1>s, <2>2, <3>3, SizesFacts
  <2>4. /\ at \notin CtlWaits \cup {"refreshing", "flag"}
        /\ at' \in Places \ (CtlWaits \cup {"refreshing", "flag"})
        /\ at' \notin {"closing", "releasing"}
        /\ call' \in {"none", "mode", "enable", "probeA", "restoreA", "restoreC"}
        /\ want' \in Sizes \cup {NoSize} /\ saved' \in Sizes \cup {NoSize}
    BY <2>1, <2>2, <2>3 DEF CtlWaits, Places
  <2>5. PlanInv'
    BY <1>0, <2>1, <2>2, <2>3, SizesFacts DEF PlanInv, Building, Enabling, Early
  <2>6. StrayInv'
    BY ONLY <1>0, <2>1, <2>4, StrayMove
  <2>7. ASSUME UNCHANGED <<backlog, answer, res, late>> PROVE DispInv'
    BY <1>0, <2>1, <2>2, <2>7 DEF DispInv, PlaceInv, Has, Building, Enabling, size
  <2> QED BY <1>0, <2>1, <2>4, <2>5, <2>6, <2>7, CtlMoveInv DEF Types
<1>3. CASE Arm
  <2>1. /\ at = "arm" /\ at' = "idle" /\ NoCommandSent /\ armed' = (armed \/ timer)
        /\ UNCHANGED <<ready, mode, width, height, fbid, taken, timer, ref, seen, rect, tick, tracked,
                       call, want, saved, app, asked, stray>>
    BY <1>3 DEF Arm, CtlElsewhere, size, refresh, locals, client
  <2>4. /\ at \notin CtlWaits \cup {"refreshing", "flag"}
        /\ at' \in Places \ (CtlWaits \cup {"refreshing", "flag"})
    BY <2>1 DEF CtlWaits, Places, Early
  <2>5. PlanInv'
    BY <1>0, <2>1 DEF PlanInv, Building, Enabling, Early, size
  <2>6. StrayInv' /\ armed' \in BOOLEAN
    <3>1. timer \in BOOLEAN /\ armed \in BOOLEAN
      BY <1>0 DEF Types
    <3>2. armed' \in BOOLEAN /\ (~timer => armed' = armed)
      BY <2>1, <3>1, Zenon
    <3> QED BY <1>0, <2>1, <3>2 DEF StrayInv
  <2>7. ASSUME UNCHANGED <<backlog, answer, res, late>> PROVE DispInv'
    BY <1>0, <2>1, <2>7 DEF DispInv, PlaceInv, Has, Building, Enabling, size
  <2> QED BY <1>0, <2>1, <2>4, <2>5, <2>6, <2>7, CtlMoveInv DEF Types
<1> QED BY <1>1, <1>2, <1>3

\* close, stop and free take the timer and the resource away.
LEMMA CloseStep == Inv /\ (Close \/ close \/ stop) => Inv'
<1> SUFFICES ASSUME Inv, Close \/ close \/ stop PROVE Inv'
  OBVIOUS
<1>0. Types /\ PlanInv /\ DispInv /\ StrayInv
  BY DEF Inv
<1>1. /\ NoCommandSent /\ timer' \in BOOLEAN /\ armed' \in BOOLEAN
      /\ \/ at = "idle" /\ at' \in {"closing", "idle", "stop"}
         \/ at = "stop" /\ fbid = 0 /\ at' = "releasing"
         \/ at = "stopped" /\ at' = "releasing"
         \/ at = "closing" /\ at' = "idle"
         \/ at = "releasing" /\ at' = "free"
         \/ at = "free" /\ fbid = 0 /\ at' = "gone"
      /\ UNCHANGED <<ready, mode, width, height, fbid, taken, ref, seen, rect, tick, tracked,
                     call, want, saved, app, asked, stray>>
  BY <1>0 DEF Close, ReleaseTimer, Stopped, Freed, close, stop, CtlCall, CtlElsewhere, size, refresh,
              locals, client, Types
<1>2. /\ at \notin CtlWaits \cup {"refreshing", "flag"}
      /\ at' \in Places \ (CtlWaits \cup {"refreshing", "flag"})
  BY <1>1 DEF CtlWaits, Places, Early
<1>3. at = "stopped" => fbid = 0
  BY <1>0 DEF PlanInv
<1>4. PlanInv'
  BY <1>0, <1>1, <1>3 DEF PlanInv, Building, Enabling, Early, size
<1>5. StrayInv'
  <2>1. CASE ReleaseTimer
    <3>1. at \in {"closing", "releasing"} /\ timer' = FALSE /\ armed' = armed
      BY <2>1 DEF ReleaseTimer
    <3> QED BY <1>0, <1>1, <3>1 DEF StrayInv
  <2>2. CASE Stopped \/ close
    <3>1. armed' = (IF timer THEN FALSE ELSE armed) /\ timer' = timer
      BY <2>2 DEF Stopped, close
    <3> QED BY <1>0, <1>1, <3>1 DEF StrayInv
  <2>3. CASE Freed \/ stop
    <3>1. UNCHANGED <<armed, timer>> /\ at' \notin {"closing", "releasing"}
      BY <2>3 DEF Freed, stop
    <3> QED BY <1>0, <1>1, <3>1 DEF StrayInv
  <2> QED BY <2>1, <2>2, <2>3 DEF Close
<1>6. ASSUME UNCHANGED <<backlog, answer, res, late>> PROVE DispInv'
  BY <1>0, <1>1, <1>3, <1>6 DEF DispInv, PlaceInv, Has, Building, Enabling, size
<1> QED BY <1>0, <1>1, <1>2, <1>4, <1>5, <1>6, CtlMoveInv DEF Types

\* The calls that set the display up, and the end of start().
LEMMA CallStep ==
    Inv /\ ((\E m \in Modes : setDisplayMode(m)) \/ enableController \/ open \/ StartEnds) => Inv'
<1> SUFFICES ASSUME Inv, (\E m \in Modes : setDisplayMode(m)) \/ enableController \/ open \/ StartEnds
             PROVE  Inv'
  OBVIOUS
<1>0. Types /\ PlanInv /\ DispInv /\ StrayInv
  BY DEF Inv
<1>1. CASE \E m \in Modes : setDisplayMode(m)
  <2>0. PICK m \in Modes : setDisplayMode(m)
    BY <1>1
  <2>1. /\ at = "idle" /\ NoCommandSent /\ ready /\ m \in Advertised /\ mode' = m.id
        /\ IF size # <<m.w, m.h>> \/ fbid = 0
           THEN at' = "setup" /\ call' = "mode" /\ want' = <<m.w, m.h>> /\ UNCHANGED saved
           ELSE at' = "refresh" /\ UNCHANGED <<call, want, saved>>
        /\ UNCHANGED <<ready, width, height, fbid, taken, timer, armed, ref, seen, rect, tick, tracked,
                       app, asked, stray>>
    BY <2>0 DEF setDisplayMode, CtlCall, CtlElsewhere, size, refresh, locals, client
  <2>2. /\ m.id \in ModeIds /\ m.id # 0 /\ SizeOf(m.id) = <<m.w, m.h>>
        /\ SizeOf(m.id) \in Sizes /\ SizeOf(m.id) # NoSize
    BY <2>1, ModeFacts, SizesFacts
  <2>3. call = "none" /\ want = NoSize /\ saved = NoSize
    BY <1>0, <2>1 DEF PlanInv, Building, Enabling
  <2>4. /\ at \notin CtlWaits \cup {"refreshing", "flag"}
        /\ at' \in Places \ (CtlWaits \cup {"refreshing", "flag"})
        /\ at' \notin {"closing", "releasing"}
        /\ call' \in {"none", "mode", "enable", "probeA", "restoreA", "restoreC"}
        /\ want' \in Sizes \cup {NoSize} /\ saved' \in Sizes \cup {NoSize}
        /\ mode' \in ModeIds \cup {0}
    BY <2>1, <2>2, <2>3 DEF CtlWaits, Places
  <2>5. PlanInv'
    BY <1>0, <2>1, <2>2, <2>3 DEF PlanInv, Building, Enabling, Early
  <2>6. StrayInv'
    BY ONLY <1>0, <2>1, <2>4, StrayMove
  <2>7. ASSUME UNCHANGED <<backlog, answer, res, late>> PROVE DispInv'
    <3>1. late = 0 => PlaceInv'
      BY <1>0, <2>1, <2>7 DEF DispInv, PlaceInv, Has, Building, size
    <3>2. call' = "none" /\ fbid' = 1 => mode' # 0 /\ size' = SizeOf(mode')
      BY <2>1, <2>2 DEF size
    <3>3. at' \notin Enabling
      BY <2>1 DEF Enabling
    <3> QED BY <2>7, <3>1, <3>2, <3>3 DEF DispInv
  <2> QED BY <1>0, <2>1, <2>4, <2>5, <2>6, <2>7, CtlMoveInv DEF Types
<1>2. CASE enableController
  <2>1. /\ at = "idle" /\ NoCommandSent
        /\ \/ at' \in {"idle", "arm"} /\ UNCHANGED <<call, want, saved>>
           \/ mode # 0 /\ at' = "modeWidth" /\ call' = "enable" /\ want' = SizeOf(mode) /\ UNCHANGED saved
        /\ UNCHANGED <<ready, mode, width, height, fbid, taken, timer, armed, ref, seen, rect, tick, tracked,
                       app, asked, stray>>
    BY <1>2 DEF enableController, CtlCall, CtlElsewhere, size, refresh, locals, client
  <2>2. mode # 0 => ready /\ SizeOf(mode) \in Sizes /\ SizeOf(mode) # NoSize
    BY <1>0, ModeFacts, SizesFacts DEF Types, PlanInv
  <2>3. call = "none" /\ want = NoSize /\ saved = NoSize
    BY <1>0, <2>1 DEF PlanInv, Building, Enabling
  <2>4. /\ at \notin CtlWaits \cup {"refreshing", "flag"}
        /\ at' \in Places \ (CtlWaits \cup {"refreshing", "flag"})
        /\ at' \notin {"closing", "releasing"}
        /\ call' \in {"none", "mode", "enable", "probeA", "restoreA", "restoreC"}
        /\ want' \in Sizes \cup {NoSize} /\ saved' \in Sizes \cup {NoSize}
    BY <2>1, <2>2, <2>3 DEF CtlWaits, Places, Early, Enabling
  <2>5. PlanInv'
    BY <1>0, <2>1, <2>2, <2>3 DEF PlanInv, Building, Enabling, Early
  <2>6. StrayInv'
    BY ONLY <1>0, <2>1, <2>4, StrayMove
  <2>7. ASSUME UNCHANGED <<backlog, answer, res, late>> PROVE DispInv'
    BY <1>0, <2>1, <2>3, <2>7 DEF DispInv, PlaceInv, Has, Building, Enabling, size
  <2> QED BY <1>0, <2>1, <2>4, <2>5, <2>6, <2>7, CtlMoveInv DEF Types
<1>3. CASE open
  <2>1. /\ at = "idle" /\ at' = at /\ NoCommandSent
        /\ UNCHANGED <<ready, mode, width, height, fbid, taken, timer, armed, ref, seen, rect, tick, tracked,
                       call, want, saved, app, asked, stray>>
    BY <1>3 DEF open, CtlCall, CtlElsewhere, size, refresh, locals, client
  <2>4. /\ at \notin CtlWaits \cup {"refreshing", "flag"}
        /\ at' \in Places \ (CtlWaits \cup {"refreshing", "flag"})
    BY <2>1 DEF CtlWaits, Places, Early
  <2>5. PlanInv'
    BY <1>0, <2>1 DEF PlanInv, size
  <2>6. StrayInv'
    BY ONLY <1>0, <2>1, <2>4, StrayMove
  <2>7. ASSUME UNCHANGED <<backlog, answer, res, late>> PROVE DispInv'
    BY <1>0, <2>1, <2>7 DEF DispInv, PlaceInv, Has, Building, Enabling, size
  <2> QED BY <1>0, <2>1, <2>4, <2>5, <2>6, <2>7, CtlMoveInv DEF Types
<1>4. CASE StartEnds
  <2>1. /\ ~ready /\ ready' = TRUE /\ mode' = BootMode /\ at' = at /\ NoCommandSent
        /\ UNCHANGED <<width, height, fbid, taken, timer, armed, ref, seen, rect, tick, tracked,
                       call, want, saved, app, asked, stray>>
    BY <1>4 DEF StartEnds, size, refresh, locals, client
  <2>2. fbid = 0 /\ at \in Early /\ mode' \in ModeIds
    BY <1>0, <2>1, BootFacts DEF PlanInv
  <2>4. /\ at \notin CtlWaits \cup {"refreshing", "flag"}
        /\ at' \in Places \ (CtlWaits \cup {"refreshing", "flag"})
    BY <2>1, <2>2 DEF CtlWaits, Places, Early
  <2>5. PlanInv'
    <3>1. call = "none" /\ want = NoSize /\ saved = NoSize
      BY <1>0, <2>1, <2>2 DEF PlanInv, Building, Enabling, Early
    <3> QED BY <2>1, <2>2, <3>1 DEF PlanInv, Building, Enabling, Early
  <2>6. StrayInv'
    BY ONLY <1>0, <2>1, <2>4, StrayMove
  <2>7. ASSUME UNCHANGED <<backlog, answer, res, late>> PROVE DispInv'
    BY <1>0, <2>1, <2>2, <2>7 DEF DispInv, PlaceInv, Has, Building, Enabling, Early, size
  <2> QED BY <1>0, <2>1, <2>2, <2>4, <2>5, <2>6, <2>7, CtlMoveInv DEF Types
<1> QED BY <1>1, <1>2, <1>3, <1>4

\* The flag is cleared; nobody else is in setscanout unless two calls overlapped.
LEMMA ScanoutFlagStep == Inv /\ ScanoutFlag => Inv'
<1> SUFFICES ASSUME Inv, ScanoutFlag PROVE Inv'
  OBVIOUS
<1>0. Types /\ PlanInv /\ DispInv /\ TakeInv /\ StrayInv
  BY DEF Inv
<1>1. /\ at = "flag" /\ taken' = FALSE /\ at' = "setWidth" /\ NoCommandSent
      /\ UNCHANGED <<ready, mode, width, height, fbid, timer, armed, ref, seen, rect, tick, tracked,
                     call, want, saved, app, asked, stray>>
  BY DEF ScanoutFlag, CtlElsewhere, size, refresh, locals, client
<1>2. /\ at \notin CtlWaits \cup {"refreshing"} /\ at' \in Places \ (CtlWaits \cup {"refreshing"})
      /\ at' \notin {"closing", "releasing"} /\ taken' \in BOOLEAN
  BY <1>1 DEF CtlWaits, Places, Building
<1>3. /\ Types' /\ CallerInv' /\ CleanInv'
      /\ UNCHANGED <<backlog, answer, res, shown, last, alive3d, late, overlap>>
  BY <1>0, <1>1, <1>2, CtlMoveOK DEF Types
<1>4. StrayInv'
  BY ONLY <1>0, <1>1, <1>2, StrayMove
<1>5. PlanInv'
  BY <1>0, <1>1 DEF PlanInv, Building, Enabling, Early, size
<1>6. DispInv'
  BY <1>0, <1>1, <1>3 DEF DispInv, PlaceInv, Has, Building, Enabling, size
<1>7. TakeInv'
  BY <1>0, <1>1, <1>3 DEF TakeInv, Agree, Focus, CtlScanning, AppScanning
<1> QED BY <1>3, <1>4, <1>5, <1>6, <1>7 DEF Inv

\* An id in the pool is refused; otherwise CREATE_2D is sent.
LEMMA SendCreateStep == Inv /\ SendCreate => Inv'
<1> SUFFICES ASSUME Inv, SendCreate PROVE Inv'
  OBVIOUS
<1>0. Types /\ CallerInv /\ CleanInv /\ PlanInv /\ DispInv /\ TakeInv /\ StrayInv
  BY DEF Inv
<1>1. /\ at = "create" /\ fbid' = 1
      /\ UNCHANGED <<ready, mode, width, height, taken, timer, armed, ref, seen, rect, tick, tracked,
                     call, want, saved, app, asked, stray>>
  BY DEF SendCreate, CtlElsewhere, size, refresh, locals, client
<1>2. ready /\ want \in Sizes /\ call # "none"
  BY <1>0, <1>1 DEF PlanInv, Types, Building, Early
<1>3. CASE tracked
  <2>1. at' = "cleanup" /\ NoCommandSent
    BY <1>3 DEF SendCreate
  <2>2. /\ at \notin CtlWaits \cup {"refreshing", "flag"}
        /\ at' \in Places \ (CtlWaits \cup {"refreshing", "flag"})
        /\ at' \notin {"closing", "releasing"}
    BY <1>1, <2>1 DEF CtlWaits, Places, Building
  <2>3. PlanInv'
    BY <1>0, <1>1, <1>2, <2>1 DEF PlanInv, Building, Enabling, Early, size
  <2>4. StrayInv'
    BY ONLY <1>0, <1>1, <2>2, StrayMove
  <2>5. late # 0
    BY <1>0, <1>1, <1>3 DEF DispInv, PlaceInv
  <2>6. ASSUME UNCHANGED <<backlog, answer, res, late>> PROVE DispInv'
    BY <2>5, <2>6 DEF DispInv
  <2> QED BY <1>0, <1>1, <2>1, <2>2, <2>3, <2>4, <2>6, CtlMoveInv DEF Types
<1>4. CASE ~tracked
  <2> DEFINE c == Cmd("create", 1, want)
  <2>1. at' = "creating" /\ Submit("ctl", c)
    BY <1>4 DEF SendCreate
  <2>2. c \in FramebufferCommand /\ c.type = "create"
    BY <1>2, CmdFacts
  <2> HIDE DEF c
  <2>3. /\ ChannelTypeOK' /\ CleanInv'
        /\ caller = "none" /\ caller' = "ctl" /\ waiting' /\ cmd' = c /\ backlog' > 0
        /\ late = 0 => backlog' = 1
        /\ UNCHANGED <<res, shown, last, alive3d, late, answer>>
        /\ at \notin CtlWaits /\ ref["ctl"] \notin RefWaits /\ ref["timer"] \notin RefWaits
        /\ app \notin {"scanning", "dropping"}
        /\ overlap' \in BOOLEAN
        /\ ~overlap' => ~overlap /\ (c.type \in {"scanout", "second"} => ~CtlScanning /\ ~AppScanning)
    BY ONLY <1>0, <2>1, <2>2, SendKeeps
  <2>4. Types'
    BY <1>0, <1>1, <2>1, <2>3 DEF Types, Places, Building
  <2>5. CallerInv'
    <3>1. /\ ref["ctl"] = "no" /\ ref'["ctl"] = "no" /\ ref'["timer"] = ref["timer"]
          /\ \A t \in Threads : ref'[t] \notin RefWaits
      BY <1>0, <1>1, <2>3 DEF CallerInv, Threads
    <3>2. CtlCmd("creating", want', cmd') /\ "creating" \in CtlWaits
      BY <1>1, <2>3 DEF CtlCmd, CtlWaits, c
    <3> QED BY ONLY <1>0, <1>1, <2>1, <2>2, <2>3, <3>1, <3>2 DEF CallerInv, Threads
  <2>6. PlanInv'
    BY <1>0, <1>1, <1>2, <2>1 DEF PlanInv, Building, Enabling, Early, size
  <2>7. DispInv'
    BY <1>0, <1>1, <1>2, <1>4, <2>1, <2>3 DEF DispInv, PlaceInv, Has, Building, Enabling, size
  <2>8. TakeInv'
    <3>1. ~CtlScanning
      BY <1>1 DEF CtlScanning
    <3> QED BY ONLY <1>0, <1>1, <2>1, <2>3, <3>1, TakeMove
  <2>9. StrayInv'
    BY <1>0, <1>1, <2>1, StrayMove
  <2> QED BY <2>3, <2>4, <2>5, <2>6, <2>7, <2>8, <2>9 DEF Inv
<1> QED BY <1>3, <1>4

-----------------------------------------------------------------------------
(* Steps of the timer, of the application and of refreshDisplay.           *)

Aside == UNCHANGED <<ready, mode, width, height, fbid, tracked, call, want, saved>>

\* They leave the plan of "ctl" alone, and what it finds unless they execute.
LEMMA AsideKeeps ==
    ASSUME Inv, Aside,
           at' = at \/ (at \in {"refresh", "refreshing"} /\ at' \in {"refreshing", "idle"})
    PROVE  /\ PlanInv'
           /\ (res' = res /\ (late' = 0 => late = 0) /\ (at \in CtlWaits => UNCHANGED <<backlog, answer>>))
                 => DispInv'
<1>0. PlanInv /\ DispInv
  BY DEF Inv
<1>1. PlanInv'
  <2>1. CASE at' = at
    BY <1>0, <2>1 DEF Aside, PlanInv, size
  <2>2. CASE at \in {"refresh", "refreshing"} /\ at' \in {"refreshing", "idle"}
    BY <1>0, <2>2 DEF Aside, PlanInv, size, Building, Enabling, Early
  <2> QED BY <2>1, <2>2
<1>2. ASSUME res' = res, late' = 0 => late = 0, at \in CtlWaits => UNCHANGED <<backlog, answer>>
      PROVE  DispInv'
  <2>1. ASSUME late' = 0 PROVE PlaceInv'
    <3>1. PlaceInv
      BY <1>0, <1>2, <2>1 DEF DispInv
    <3>2. CASE at' = at
      <4>1. at' \notin CtlWaits \/ (at' \in CtlWaits /\ UNCHANGED <<backlog, answer>>)
        BY <1>2, <3>2
      <4>2. CASE at' \in CtlWaits /\ UNCHANGED <<backlog, answer>>
        BY <1>2, <3>1, <3>2, <4>2 DEF Aside, PlaceInv, Has, size
      <4>3. CASE at' \notin CtlWaits
        BY <1>2, <3>1, <3>2, <4>3 DEF Aside, PlaceInv, Has, size, CtlWaits, Building
      <4> QED BY <4>1, <4>2, <4>3
    <3>3. CASE at \in {"refresh", "refreshing"} /\ at' \in {"refreshing", "idle"}
      BY <1>2, <3>1, <3>3 DEF Aside, PlaceInv, Has, size, Building
    <3> QED BY <3>2, <3>3
  <2>2. ASSUME late' = 0, fbid' = 1, call' = "none" \/ at' \in Enabling, at' # "stopping"
        PROVE  mode' # 0 /\ size' = SizeOf(mode')
    <3>1. call = "none" \/ at \in Enabling
      BY <2>2 DEF Aside, Enabling
    <3>2. at # "stopping"
      BY <2>2
    <3> QED BY <1>0, <1>2, <2>2, <3>1, <3>2 DEF DispInv, Aside, size
  <2> QED BY <2>1, <2>2 DEF DispInv
<1> QED BY <1>1, <1>2

\* refreshDisplay and its callback, between the commands.
LEMMA RefSilent ==
    ASSUME Inv, NEW t \in Threads, NEW w \in RefPlaces \ RefWaits, NoCommandSent, RefElsewhere,
           Goto(t, w), ref[t] \notin RefWaits,
           at' = at \/ (at \in {"refresh", "refreshing"} /\ at' \in {"refreshing", "idle"}),
           t = "ctl" => (w # "no" <=> at' = "refreshing"),
           t = "timer" => at' = at,
           seen' \in [Threads -> 0 .. RefreshInterval - 1],
           rect' \in [Threads -> Sizes \cup {NoSize}],
           tick' \in 0 .. RefreshInterval - 1,
           armed' \in BOOLEAN, stray' \in 0 .. 2, StrayInv'
    PROVE  Inv'
<1>0. Types /\ CallerInv /\ CleanInv /\ TakeInv
  BY DEF Inv
<1>1. Aside /\ UNCHANGED <<taken, timer, app, asked>>
  BY DEF RefElsewhere, Aside, start, size, locals, client
<1>2. /\ ChannelTypeOK' /\ CleanInv'
      /\ UNCHANGED <<cmd, backlog, answer, waiting, caller, res, shown, last, alive3d, late, overlap>>
  BY ONLY <1>0, NoCommandSent, SilentKeeps
<1>3. ref' \in [Threads -> RefPlaces] /\ ref'[t] = w /\ \A u \in Threads \ {t} : ref'[u] = ref[u]
  BY <1>0 DEF Goto, Types
<1>4. at' \in Places
  BY <1>0 DEF Types, Places, Early
<1>5. Types'
  BY <1>0, <1>1, <1>2, <1>3, <1>4 DEF Types, Aside
<1>6. CallerInv'
  <2>1. "ctl" \in Threads /\ "timer" \in Threads /\ \A u \in Threads : u \in {"ctl", "timer"}
    BY DEF Threads
  <2>2. \A u \in Threads : ref'[u] \in RefWaits <=> ref[u] \in RefWaits
    BY <1>3
  <2>3. ref'["ctl"] # "no" <=> at' = "refreshing"
    <3>1. CASE t = "ctl"
      BY <1>3, <3>1
    <3>2. CASE t = "timer"
      BY <1>0, <1>3, <2>1, <3>2 DEF CallerInv
    <3> QED BY <2>1, <3>1, <3>2
  <2>4. at' \in CtlWaits <=> at \in CtlWaits
    BY DEF CtlWaits
  <2>5. at' \in CtlWaits => at' = at
    BY DEF CtlWaits
  <2>6. want' = want
    BY <1>1 DEF Aside
  <2> QED BY ONLY <1>0, <1>1, <1>2, <2>1, <2>2, <2>3, <2>4, <2>5, <2>6 DEF CallerInv
<1>7. PlanInv' /\ DispInv'
  BY <1>1, <1>2, AsideKeeps
<1>8. TakeInv'
  <2>1. at' = at \/ (~CtlScanning /\ at' \notin {"scanning", "flag", "control"})
    BY DEF CtlScanning
  <2> QED BY ONLY <1>0, <1>1, <1>2, <2>1, TakeMove
<1> QED BY <1>2, <1>5, <1>6, <1>7, <1>8 DEF Inv

LEMMA RefQuietStep ==
    Inv /\ (Fire \/ CtlRefresh \/ CtlRefreshed \/ TimerDone \/ Rearm) => Inv'
<1> SUFFICES ASSUME Inv, Fire \/ CtlRefresh \/ CtlRefreshed \/ TimerDone \/ Rearm PROVE Inv'
  OBVIOUS
<1>0. Types /\ CallerInv /\ StrayInv /\ "ctl" \in Threads /\ "timer" \in Threads
  BY DEF Inv, Threads
<1>t. /\ seen \in [Threads -> 0 .. RefreshInterval - 1] /\ rect \in [Threads -> Sizes \cup {NoSize}]
      /\ tick \in 0 .. RefreshInterval - 1 /\ armed \in BOOLEAN /\ stray \in 0 .. 2
      /\ ref \in [Threads -> RefPlaces] /\ timer \in BOOLEAN
  BY <1>0 DEF Types
<1>1. CASE Fire
  <2>1. /\ armed /\ ref["timer"] = "no" /\ armed' = FALSE /\ Goto("timer", "check")
        /\ stray' = (IF timer \/ stray = 2 THEN stray ELSE stray + 1)
        /\ UNCHANGED <<at, seen, rect, tick>> /\ NoCommandSent /\ RefElsewhere /\ timer' = timer
    BY <1>1 DEF Fire, RefElsewhere
  <2>2. ref'["timer"] = "check" /\ stray' \in 0 .. 2
    BY <1>0, <1>t, <2>1 DEF Goto
  <2>3. StrayInv'
    BY <1>0, <1>t, <2>1, <2>2 DEF StrayInv
  <2>4. "check" \in RefPlaces \ RefWaits /\ ref["timer"] \notin RefWaits
    BY <2>1 DEF RefPlaces, RefWaits
  <2> QED BY <1>0, <1>t, <2>1, <2>2, <2>3, <2>4, RefSilent
<1>2. CASE CtlRefresh
  <2>1. /\ at = "refresh" /\ at' = "refreshing" /\ Goto("ctl", "check")
        /\ UNCHANGED <<armed, seen, rect, tick, stray>> /\ NoCommandSent /\ RefElsewhere /\ timer' = timer
    BY <1>2 DEF CtlRefresh, RefElsewhere
  <2>2. ref'["timer"] = ref["timer"] /\ ref["ctl"] = "no"
    BY <1>0, <1>t, <2>1 DEF Goto, CallerInv
  <2>3. StrayInv'
    BY <1>0, <2>1, <2>2, StrayMove
  <2>4. "check" \in RefPlaces \ RefWaits /\ ref["ctl"] \notin RefWaits
    BY <2>2 DEF RefPlaces, RefWaits
  <2> QED BY <1>0, <1>t, <2>1, <2>3, <2>4, RefSilent
<1>3. CASE CtlRefreshed
  <2>1. /\ at = "refreshing" /\ ref["ctl"] = "done" /\ at' = "idle" /\ Goto("ctl", "no")
        /\ UNCHANGED <<armed, seen, rect, tick, stray>> /\ NoCommandSent /\ RefElsewhere /\ timer' = timer
    BY <1>3 DEF CtlRefreshed, RefElsewhere
  <2>2. ref'["timer"] = ref["timer"]
    BY <1>0, <1>t, <2>1 DEF Goto
  <2>3. StrayInv'
    BY <1>0, <2>1, <2>2, StrayMove
  <2>4. "no" \in RefPlaces \ RefWaits /\ ref["ctl"] \notin RefWaits
    BY <2>1 DEF RefPlaces, RefWaits
  <2> QED BY <1>0, <1>t, <2>1, <2>3, <2>4, RefSilent
<1>4. CASE TimerDone
  <2>1. /\ ref["timer"] = "done" /\ Goto("timer", IF timer THEN "rearm" ELSE "no")
        /\ UNCHANGED <<at, armed, seen, rect, tick, stray>> /\ NoCommandSent /\ RefElsewhere /\ timer' = timer
    BY <1>4 DEF TimerDone, RefElsewhere
  <2>2. ref'["timer"] = (IF timer THEN "rearm" ELSE "no")
    BY <1>0, <1>t, <2>1 DEF Goto
  <2>3. StrayInv'
    BY <1>0, <1>t, <2>1, <2>2 DEF StrayInv
  <2>4. /\ (IF timer THEN "rearm" ELSE "no") \in RefPlaces \ RefWaits
        /\ ref["timer"] \notin RefWaits
    BY <2>1 DEF RefPlaces, RefWaits
  <2> QED BY <1>0, <1>t, <2>1, <2>3, <2>4, RefSilent
<1>5. CASE Rearm
  <2>1. /\ ref["timer"] = "rearm" /\ armed' = TRUE /\ Goto("timer", "no")
        /\ UNCHANGED <<at, seen, rect, tick, stray>> /\ NoCommandSent /\ RefElsewhere /\ timer' = timer
    BY <1>5 DEF Rearm, RefElsewhere
  <2>2. ref'["timer"] = "no"
    BY <1>0, <1>t, <2>1 DEF Goto
  <2>3. StrayInv'
    BY <1>0, <1>t, <2>1, <2>2 DEF StrayInv
  <2>4. "no" \in RefPlaces \ RefWaits /\ ref["timer"] \notin RefWaits
    BY <2>1 DEF RefPlaces, RefWaits
  <2> QED BY <1>0, <1>t, <2>1, <2>3, <2>4, RefSilent
<1> QED BY <1>1, <1>2, <1>3, <1>4, <1>5

\* The tick count: however the two threads interleave, it stays below the interval.
LEMMA RefCountStep == ASSUME Inv, NEW t \in Threads, RefCheck(t) \/ RefCount(t) PROVE Inv'
<1>0. Types /\ CallerInv /\ StrayInv
  BY DEF Inv
<1>t. /\ seen \in [Threads -> 0 .. RefreshInterval - 1] /\ rect \in [Threads -> Sizes \cup {NoSize}]
      /\ tick \in 0 .. RefreshInterval - 1 /\ armed \in BOOLEAN /\ stray \in 0 .. 2
      /\ ref \in [Threads -> RefPlaces] /\ RefreshInterval \in Nat \ {0}
      /\ size \in Sizes
  BY <1>0, FramebufferAssumption, SizesFacts DEF Types, size
<1>1. /\ ref[t] \in {"check", "count"}
      /\ \E w \in {"done", "count", "transfer"} : Goto(t, w)
      /\ UNCHANGED <<at, armed, stray, timer>> /\ NoCommandSent /\ RefElsewhere
  BY DEF RefCheck, RefCount, RefElsewhere
<1>2. PICK w \in {"done", "count", "transfer"} : Goto(t, w)
  BY <1>1
<1>3. /\ w \in RefPlaces \ RefWaits /\ ref[t] \notin RefWaits /\ w # "no" /\ ref[t] # "no" /\ w # "rearm"
      /\ t = "ctl" => at = "refreshing"
  BY <1>0, <1>1 DEF RefPlaces, RefWaits, CallerInv
<1>4. StrayInv'
  <2>1. CASE t = "timer"
    <3>1. ref'["timer"] = w
      BY <1>t, <1>2, <2>1 DEF Goto
    <3>2. ref["timer"] # "no"
      BY <1>3, <2>1
    <3> QED BY <1>0, <1>1, <1>3, <3>1, <3>2 DEF StrayInv
  <2>2. CASE t # "timer"
    <3>1. ref'["timer"] = ref["timer"]
      BY <1>t, <1>2, <2>2 DEF Goto, Threads
    <3> QED BY <1>0, <1>1, <3>1, StrayMove
  <2> QED BY <2>1, <2>2
<1>5. seen' \in [Threads -> 0 .. RefreshInterval - 1] /\ tick' \in 0 .. RefreshInterval - 1
  <2>1. CASE RefCheck(t)
    <3>1. tick' = tick /\ seen' = [seen EXCEPT ![t] = IF taken THEN 0 ELSE tick]
      BY <2>1 DEF RefCheck
    <3>2. (IF taken THEN 0 ELSE tick) \in 0 .. RefreshInterval - 1
      BY <1>t
    <3> QED BY <1>t, <3>1, <3>2
  <2>2. CASE RefCount(t)
    <3>1. /\ seen' = [seen EXCEPT ![t] = 0]
          /\ (seen[t] + 1 < RefreshInterval /\ tick' = seen[t] + 1) \/ tick' = 0
      BY <2>2 DEF RefCount
    <3> QED BY <1>t, <3>1
  <2> QED BY <2>1, <2>2
<1>6. rect' \in [Threads -> Sizes \cup {NoSize}]
  <2>1. rect' = rect \/ rect' = [rect EXCEPT ![t] = size]
    BY DEF RefCheck, RefCount
  <2> QED BY <1>t, <2>1
<1> QED BY <1>t, <1>1, <1>2, <1>3, <1>4, <1>5, <1>6, RefSilent

\* A transfer or a flush is sent, or returns.
LEMMA RefCommandStep == ASSUME Inv, NEW t \in Threads, RefSend(t) \/ RefAnswer(t) PROVE Inv'
<1>0. Types /\ CallerInv /\ CleanInv /\ TakeInv /\ StrayInv
  BY DEF Inv
<1>t. /\ rect \in [Threads -> Sizes \cup {NoSize}] /\ ref \in [Threads -> RefPlaces] /\ size \in Sizes
      /\ "ctl" \in Threads /\ "timer" \in Threads /\ \A u \in Threads : u \in {"ctl", "timer"}
      /\ ref[t] \in RefPlaces
  BY <1>0, SizesFacts DEF Types, size, Threads
<1>1. /\ Aside /\ UNCHANGED <<at, armed, stray, timer, taken, app, asked, seen, tick>>
      /\ \E w \in RefPlaces \ {"no", "rearm", "check", "count"} : Goto(t, w)
      /\ ref[t] \in {"transfer", "flush", "transferring", "flushing"}
  BY DEF RefSend, RefAnswer, RefElsewhere, Aside, start, size, locals, client, RefPlaces
<1>2. PICK w \in RefPlaces \ {"no", "rearm", "check", "count"} : Goto(t, w)
  BY <1>1
<1>3. ref' \in [Threads -> RefPlaces] /\ ref'[t] = w /\ \A u \in Threads \ {t} : ref'[u] = ref[u]
  BY <1>t, <1>2 DEF Goto
<1>4. StrayInv'
  <2>1. CASE t = "timer"
    <3>1. ref["timer"] # "no" /\ ref'["timer"] # "rearm" /\ ref'["timer"] # "no"
      BY <1>1, <1>2, <1>3, <2>1
    <3> QED BY <1>0, <1>1, <3>1 DEF StrayInv
  <2>2. CASE t # "timer"
    BY <1>0, <1>1, <1>3, <1>t, <2>2, StrayMove
  <2> QED BY <2>1, <2>2
<1>5. ref'["ctl"] # "no" <=> at' = "refreshing"
  BY <1>0, <1>1, <1>2, <1>3, <1>t DEF CallerInv
<1>6. rect' \in [Threads -> Sizes \cup {NoSize}]
  <2>1. rect' = rect \/ rect' = [rect EXCEPT ![t] = size] \/ rect' = [rect EXCEPT ![t] = NoSize]
    BY DEF RefSend, RefAnswer
  <2> QED BY <1>t, <2>1
<1>7. CASE RefSend(t)
  <2>1. PICK type \in {"transfer", "flush"} : Submit(t, Cmd(type, 1, rect[t]))
    BY <1>7 DEF RefSend
  <2> DEFINE c == Cmd(type, 1, rect[t])
  <2>2. c \in FramebufferCommand /\ c.type \in {"transfer", "flush"} /\ Submit(t, c)
    BY <2>1, <1>t, CmdFacts
  <2> HIDE DEF c
  <2>3. w \in RefWaits /\ ref[t] \notin RefWaits
    <3>1. \/ ref[t] = "transfer" /\ Goto(t, "transferring")
          \/ ref[t] = "flush" /\ Goto(t, "flushing")
      BY <1>7 DEF RefSend
    <3> QED BY <1>t, <1>3, <3>1 DEF Goto, RefWaits
  <2>4. /\ ChannelTypeOK' /\ CleanInv'
        /\ caller = "none" /\ caller' = t /\ waiting' /\ cmd' = c /\ backlog' > 0
        /\ UNCHANGED <<res, shown, last, alive3d, late, answer>>
        /\ at \notin CtlWaits /\ ref["ctl"] \notin RefWaits /\ ref["timer"] \notin RefWaits
        /\ app \notin {"scanning", "dropping"}
        /\ overlap' \in BOOLEAN
        /\ ~overlap' => ~overlap
    BY ONLY <1>0, <2>2, SendKeeps
  <2>5. Types'
    BY <1>0, <1>1, <1>3, <1>6, <2>4 DEF Types, Aside
  <2>6. CallerInv'
    <3>1. caller' = "ctl" <=> at' \in CtlWaits \/ ref'["ctl"] \in RefWaits
      BY <1>1, <1>3, <1>t, <2>3, <2>4
    <3>2. caller' = "timer" <=> ref'["timer"] \in RefWaits
      BY <1>3, <1>t, <2>3, <2>4
    <3>3. caller' \notin {"none", "app"} /\ caller' \in Threads
      BY <1>t, <2>4
    <3> QED BY ONLY <1>0, <1>1, <1>5, <2>2, <2>4, <3>1, <3>2, <3>3 DEF CallerInv
  <2>7. PlanInv' /\ DispInv'
    BY <1>1, <2>4, AsideKeeps
  <2>8. TakeInv'
    <3>1. at \notin {"scanning", "control"}
      BY <2>4 DEF CtlWaits
    <3> QED BY ONLY <1>0, <1>1, <2>4, <3>1, TakeMove
  <2> QED BY <1>4, <2>4, <2>5, <2>6, <2>7, <2>8 DEF Inv
<1>8. CASE RefAnswer(t)
  <2>1. (Got(t) \/ Lost(t)) /\ w \notin RefWaits
    <3>1. /\ Got(t) \/ Lost(t)
          /\ Goto(t, "flush") \/ Goto(t, "done")
      BY <1>8 DEF RefAnswer, Ok, Failed, Over
    <3> QED BY <1>t, <1>3, <3>1 DEF Goto, RefWaits
  <2>3. /\ ChannelTypeOK' /\ CleanInv'
        /\ caller = t /\ caller' = "none" /\ ~waiting' /\ waiting
        /\ UNCHANGED <<cmd, backlog, answer, res, shown, last, alive3d, overlap>>
        /\ late' \in Nat
        /\ late' = 0 => late = 0
    BY ONLY <1>0, <2>1, ReturnKeeps
  <2>4. Types'
    BY <1>0, <1>1, <1>3, <1>6, <2>3 DEF Types, Aside
  <2>5. CallerInv'
    <3>1. at \notin CtlWaits /\ app \notin {"scanning", "dropping"}
      <4>1. CASE t = "ctl"
        <5>1. at = "refreshing"
          BY <1>0, <1>1, <4>1 DEF CallerInv
        <5> QED BY <1>0, <2>3, <4>1, <5>1 DEF CallerInv, CtlWaits
      <4>2. CASE t = "timer"
        BY <1>0, <2>3, <4>2 DEF CallerInv
      <4> QED BY <1>t, <4>1, <4>2
    <3>2. \A u \in Threads : ref'[u] \notin RefWaits
      <4>1. \A u \in Threads \ {t} : ref[u] \notin RefWaits
        BY <1>0, <1>t, <2>3 DEF CallerInv
      <4> QED BY <1>3, <2>1, <4>1
    <3> QED BY ONLY <1>0, <1>1, <1>5, <1>t, <2>3, <3>1, <3>2 DEF CallerInv
  <2>6. PlanInv' /\ DispInv'
    BY <1>1, <2>3, AsideKeeps
  <2>7. TakeInv'
    BY ONLY <1>0, <1>1, <2>3, TakeMove
  <2> QED BY <1>4, <2>3, <2>4, <2>5, <2>6, <2>7 DEF Inv
<1> QED BY <1>7, <1>8

\* What a step of the application leaves alone.
LEMMA AppAside ==
    ASSUME AppElsewhere
    PROVE  Aside /\ UNCHANGED <<at, timer, armed, stray, ref, seen, rect, tick>>
BY DEF AppElsewhere, Aside, start, size, refresh, locals

\* setscanout and the unreference of the application's resource are sent.
LEMMA AppSendStep == Inv /\ ((\E s \in Screens, r \in {0, 1, Res3D} : AppSetScanout(s, r)) \/ AppUnref) => Inv'
<1> SUFFICES ASSUME Inv, (\E s \in Screens, r \in {0, 1, Res3D} : AppSetScanout(s, r)) \/ AppUnref PROVE Inv'
  OBVIOUS
<1>0. Types /\ CallerInv /\ CleanInv /\ TakeInv /\ StrayInv
  BY DEF Inv
<1>1. /\ app = "idle" /\ taken' = taken /\ AppElsewhere
      /\ \/ AppUnref /\ app' = "dropping" /\ asked' = asked
         \/ app' = "scanning" /\ \E s \in Screens, r \in {0, 1, Res3D} : AppSetScanout(s, r) /\ asked' = r
  BY DEF AppSetScanout, AppUnref, AppCall
<1>2. PICK c \in FramebufferCommand :
         /\ Submit("app", c)
         /\ app' = "dropping" => c.type = "unref" /\ c.id = Res3D
         /\ app' = "scanning" => c.type \in {"scanout", "second"} /\ c.id = asked'
  <2>1. CASE AppUnref
    <3>1. Cmd("unref", Res3D, NoSize) \in FramebufferCommand
      BY CmdFacts
    <3> QED BY <1>1, <2>1, <3>1, CmdFacts DEF AppUnref
  <2>2. ASSUME NEW s \in Screens, NEW r \in {0, 1, Res3D}, AppSetScanout(s, r)
        PROVE  \E c \in FramebufferCommand :
                  Submit("app", c) /\ app' = "scanning" /\ c.type \in {"scanout", "second"} /\ c.id = asked'
    <3>1. <<1, 1>> \in Sizes
      BY BootFacts, SizesFacts, FramebufferAssumption
    <3> DEFINE type == IF s = 0 THEN "scanout" ELSE "second"
    <3>2. Cmd(type, r, <<1, 1>>) \in FramebufferCommand
      BY <3>1, CmdFacts
    <3>3. Cmd(type, r, <<1, 1>>).type \in {"scanout", "second"} /\ Cmd(type, r, <<1, 1>>).id = r
      BY CmdFacts
    <3>4. Submit("app", Cmd(type, r, <<1, 1>>)) /\ app' = "scanning" /\ asked' = r
      BY <2>2 DEF AppSetScanout
    <3> QED BY <3>2, <3>3, <3>4
  <2> QED BY <2>1, <2>2
<1>3. /\ ChannelTypeOK' /\ CleanInv'
      /\ caller = "none" /\ caller' = "app" /\ waiting' /\ cmd' = c /\ backlog' > 0
      /\ late = 0 => backlog' = 1
      /\ UNCHANGED <<res, shown, last, alive3d, late, answer>>
      /\ at \notin CtlWaits /\ ref["ctl"] \notin RefWaits /\ ref["timer"] \notin RefWaits
      /\ app \notin {"scanning", "dropping"}
      /\ overlap' \in BOOLEAN
      /\ ~overlap' => ~overlap /\ (c.type \in {"scanout", "second"} => ~CtlScanning /\ ~AppScanning)
  BY ONLY <1>0, <1>2, SendKeeps
<1>4. Aside /\ UNCHANGED <<at, timer, armed, stray, ref, seen, rect, tick>>
  BY <1>1, AppAside
<1>5. Types'
  BY <1>0, <1>1, <1>3, <1>4 DEF Types, Aside
<1>6. CallerInv'
  <2>1. /\ ref'["ctl"] = ref["ctl"] /\ ref'["timer"] = ref["timer"]
        /\ \A u \in Threads : ref'[u] \notin RefWaits
    BY <1>3, <1>4 DEF Threads
  <2>2. app' = "dropping" => asked' = 0
    BY <1>0, <1>1 DEF CallerInv
  <2> QED BY ONLY <1>0, <1>1, <1>2, <1>3, <1>4, <2>1, <2>2 DEF CallerInv
<1>7. PlanInv' /\ DispInv'
  BY <1>3, <1>4, AsideKeeps
<1>8. StrayInv'
  BY <1>0, <1>4, StrayMove
<1>9. TakeInv'
  <2>1. at \notin {"scanning", "control"}
    BY <1>3 DEF CtlWaits
  <2>2. ASSUME late' = 0, ~overlap'
        PROVE  /\ late = 0 /\ ~overlap /\ ~AppScanning /\ backlog' # 0
               /\ at = "flag" => app' # "scanning" /\ Focus # Res3D
               /\ at # "flag" => Agree
    BY <1>0, <1>1, <1>2, <1>3, <2>1, <2>2 DEF TakeInv, Focus, AppScanning, CtlScanning
  <2> QED BY <1>1, <1>3, <1>4, <2>1, <2>2 DEF TakeInv, Agree, Focus, Done, AppScanning, CtlScanning
<1> QED BY <1>3, <1>5, <1>6, <1>7, <1>8, <1>9 DEF Inv

\* Their answers; a setscanout that succeeded has still to set the flag.
LEMMA AppAnswerStep == Inv /\ (AppAnswer \/ AppDropped) => Inv'
<1> SUFFICES ASSUME Inv, AppAnswer \/ AppDropped PROVE Inv'
  OBVIOUS
<1>0. Types /\ CallerInv /\ CleanInv /\ TakeInv /\ StrayInv
  BY DEF Inv
<1>1. /\ taken' = taken /\ AppElsewhere /\ (Got("app") \/ Lost("app"))
      /\ \/ app = "scanning" /\ Ok("app") /\ app' = "flag" /\ asked' = asked
         \/ app = "scanning" /\ Failed("app") /\ app' = "idle" /\ asked' = 0
         \/ app = "dropping" /\ app' = "idle" /\ asked' = asked
  BY DEF AppAnswer, AppDropped, Ok, Failed, Over
<1>3. /\ ChannelTypeOK' /\ CleanInv'
      /\ caller = "app" /\ caller' = "none" /\ ~waiting' /\ waiting
      /\ UNCHANGED <<cmd, backlog, answer, res, shown, last, alive3d, overlap>>
      /\ late' \in Nat
      /\ late' = 0 => late = 0 /\ Got("app") /\ backlog = 0
  BY ONLY <1>0, <1>1, ReturnKeeps
<1>4. Aside /\ UNCHANGED <<at, timer, armed, stray, ref, seen, rect, tick>>
  BY <1>1, AppAside
<1>5. Types'
  BY <1>0, <1>1, <1>3, <1>4 DEF Types, Aside
<1>6. CallerInv'
  <2>1. /\ at \notin CtlWaits /\ ref'["ctl"] = ref["ctl"] /\ ref'["timer"] = ref["timer"]
        /\ \A u \in Threads : ref'[u] \notin RefWaits
    BY <1>0, <1>3, <1>4 DEF CallerInv, Threads
  <2>2. app' = "idle" => asked' = 0
    BY <1>0, <1>1 DEF CallerInv
  <2> QED BY ONLY <1>0, <1>1, <1>3, <1>4, <2>1, <2>2 DEF CallerInv, Threads
<1>7. PlanInv' /\ DispInv'
  BY <1>3, <1>4, AsideKeeps
<1>8. StrayInv'
  BY <1>0, <1>4, StrayMove
<1>9. TakeInv'
  <2>1. at \notin CtlWaits
    BY <1>0, <1>3 DEF CallerInv
  <2>2. at \notin {"scanning", "control"}
    BY <2>1 DEF CtlWaits
  <2>3. ASSUME late' = 0 PROVE app = "scanning" /\ app' = "idle" => answer = "err"
    <3>1. late' # late + 1
      BY <1>0, <1>3, <2>3 DEF Types
    <3> QED BY <1>1, <3>1 DEF Failed, Lost
  <2>4. ASSUME late' = 0 PROVE app' = "flag" => answer # "err"
    BY <1>1 DEF Ok
  <2> QED BY <1>0, <1>1, <1>3, <1>4, <2>2, <2>3, <2>4 DEF TakeInv, Agree, Focus, Done, AppScanning, CtlScanning
<1> QED BY <1>3, <1>5, <1>6, <1>7, <1>8, <1>9 DEF Inv

LEMMA AppFlagStep == Inv /\ AppFlag => Inv'
<1> SUFFICES ASSUME Inv, AppFlag PROVE Inv'
  OBVIOUS
<1>0. Types /\ CallerInv /\ CleanInv /\ TakeInv /\ StrayInv
  BY DEF Inv
<1>1. /\ app = "flag" /\ app' = "idle" /\ asked' = 0 /\ taken' = (asked \notin {0, 1})
      /\ NoCommandSent /\ AppElsewhere
  BY DEF AppFlag
<1>2. taken' \in BOOLEAN /\ (taken' <=> asked = Res3D)
  BY <1>0, <1>1, FramebufferAssumption DEF Types
<1>3. /\ ChannelTypeOK' /\ CleanInv'
      /\ UNCHANGED <<cmd, backlog, answer, waiting, caller, res, shown, last, alive3d, late, overlap>>
  BY ONLY <1>0, <1>1, SilentKeeps
<1>4. Aside /\ UNCHANGED <<at, timer, armed, stray, ref, seen, rect, tick>>
  BY <1>1, AppAside
<1>5. Types'
  BY <1>0, <1>1, <1>2, <1>3, <1>4 DEF Types, Aside
<1>6. CallerInv'
  <2>1. ref' = ref /\ want' = want /\ at' = at
    BY <1>4 DEF Aside
  <2> QED BY ONLY <1>0, <1>1, <1>3, <2>1 DEF CallerInv
<1>7. PlanInv' /\ DispInv'
  BY <1>3, <1>4, AsideKeeps
<1>8. StrayInv'
  BY <1>0, <1>4, StrayMove
<1>9. TakeInv'
  BY <1>0, <1>1, <1>2, <1>3, <1>4 DEF TakeInv, Agree, Focus, Done, AppScanning, CtlScanning
<1> QED BY <1>3, <1>5, <1>6, <1>7, <1>8, <1>9 DEF Inv

-----------------------------------------------------------------------------
(* The device.                                                             *)

\* What an executed command may have done, by its type.
Executed(c) ==
    /\ answer' \in Answers
    /\ c.type \in {"transfer", "flush", "other"} => UNCHANGED <<res, shown, last, alive3d>>
    /\ c.type \in {"scanout", "second"} =>
          /\ UNCHANGED <<res, alive3d>>
          /\ IF answer' = "err" THEN UNCHANGED <<shown, last>> ELSE Focus' = c.id
    /\ c.type = "create" =>
          /\ UNCHANGED <<shown, last, alive3d>>
          /\ IF answer' = "err" THEN res' = res
             ELSE answer' = "nodata" /\ res' = [w |-> c.w, h |-> c.h, mem |-> FALSE]
    /\ c.type = "attach" =>
          /\ UNCHANGED <<shown, last, alive3d>>
          /\ IF answer' = "err" THEN res' = res ELSE res' = [w |-> res.w, h |-> res.h, mem |-> TRUE]
    /\ c.type = "unref" =>
          IF answer' = "err"
          THEN ~Exists(c.id) /\ UNCHANGED <<res, shown, last, alive3d>>
          ELSE /\ res' = (IF c.id = 1 THEN NoRes ELSE res)
               /\ alive3d' = (alive3d /\ c.id # Res3D)
               /\ Focus' = (IF Focus = c.id THEN 0 ELSE Focus)

LEMMA ExecutedOK ==
    ASSUME Types, CallerInv, DevExecute
    PROVE  /\ cmd \in FramebufferCommand /\ Executed(cmd)
           /\ res' \in [w : 0 .. BufferSize, h : 0 .. BufferSize, mem : BOOLEAN]
           /\ shown' \in [Screens -> {0, 1, Res3D}] /\ last' \in Screens /\ alive3d' \in BOOLEAN
<1>1. cmd \in FramebufferCommand /\ backlog > 0
  BY DEF DevExecute, CallerInv
<1>2. /\ cmd.type \in {"create", "attach", "unref", "scanout", "second", "transfer", "flush", "other"}
      /\ cmd.w \in 0 .. BufferSize /\ cmd.h \in 0 .. BufferSize
  BY <1>1 DEF FramebufferCommand
<1>3. /\ res \in [w : 0 .. BufferSize, h : 0 .. BufferSize, mem : BOOLEAN]
      /\ shown \in [Screens -> {0, 1, Res3D}] /\ last \in Screens /\ alive3d \in BOOLEAN
      /\ NoRes \in [w : 0 .. BufferSize, h : 0 .. BufferSize, mem : BOOLEAN]
  BY FramebufferAssumption DEF Types, NoRes
<1>4. CASE Effect(cmd) /\ Execute(IF cmd.type = "other" THEN "data" ELSE "nodata")
  <2>1. answer' = (IF cmd.type = "other" THEN "data" ELSE "nodata") /\ answer' \in Answers /\ answer' # "err"
    BY <1>4 DEF Execute, Answers
  <2>2. CASE cmd.type \in {"transfer", "flush", "other"}
    BY <1>1, <1>3, <1>4, <2>1, <2>2 DEF Effect, Executed
  <2>3. CASE cmd.type \in {"scanout", "second"}
    <3>1. /\ last' \in Screens /\ shown' = [shown EXCEPT ![last'] = cmd.id]
          /\ UNCHANGED <<res, alive3d>> /\ cmd.id \in {0, 1, Res3D}
      BY <1>4, <2>3 DEF Effect, Exists, Screens
    <3>2. shown' \in [Screens -> {0, 1, Res3D}] /\ Focus' = cmd.id
      BY <1>3, <3>1 DEF Focus
    <3> QED BY <1>1, <1>3, <2>1, <2>3, <3>1, <3>2 DEF Executed
  <2>4. CASE cmd.type = "create"
    <3>1. res' = [w |-> cmd.w, h |-> cmd.h, mem |-> FALSE] /\ UNCHANGED <<shown, last, alive3d>>
      BY <1>4, <2>4 DEF Effect
    <3>2. res' \in [w : 0 .. BufferSize, h : 0 .. BufferSize, mem : BOOLEAN]
      BY <1>2, <3>1
    <3> QED BY <1>1, <1>3, <2>1, <2>4, <3>1, <3>2 DEF Executed
  <2>5. CASE cmd.type = "attach"
    <3>1. res' = [w |-> res.w, h |-> res.h, mem |-> TRUE] /\ UNCHANGED <<shown, last, alive3d>>
      BY <1>4, <2>5 DEF Effect
    <3>2. res' \in [w : 0 .. BufferSize, h : 0 .. BufferSize, mem : BOOLEAN]
      BY <1>3, <3>1
    <3> QED BY <1>1, <1>3, <2>1, <2>5, <3>1, <3>2 DEF Executed
  <2>6. CASE cmd.type = "unref"
    <3>1. /\ res' = (IF cmd.id = 1 THEN NoRes ELSE res)
          /\ alive3d' = (alive3d /\ cmd.id # Res3D)
          /\ shown' = [s \in Screens |-> IF shown[s] = cmd.id THEN 0 ELSE shown[s]] /\ last' = last
      BY <1>4, <2>6 DEF Effect
    <3>2. alive3d' \in BOOLEAN
      BY <3>1, <1>3, Zenon
    <3>3. shown' \in [Screens -> {0, 1, Res3D}] /\ Focus' = (IF Focus = cmd.id THEN 0 ELSE Focus)
      BY <1>3, <3>1 DEF Focus
    <3> QED BY <1>1, <1>3, <2>1, <2>6, <3>1, <3>2, <3>3 DEF Executed
  <2> QED BY <1>2, <2>2, <2>3, <2>4, <2>5, <2>6
<1>5. CASE ~Possible(cmd) /\ Execute("err") /\ UNCHANGED device
  <2>1. answer' = "err" /\ answer' \in Answers /\ UNCHANGED <<res, shown, last, alive3d>>
    BY <1>5 DEF Execute, Answers, device
  <2>2. cmd.type = "unref" => ~Exists(cmd.id)
    BY <1>5 DEF Possible
  <2> QED BY <1>1, <1>2, <1>3, <2>1, <2>2 DEF Executed
<1> QED BY <1>4, <1>5 DEF DevExecute

LEMMA DevExecuteStep == Inv /\ DevExecute => Inv'
<1> SUFFICES ASSUME Inv, DevExecute PROVE Inv'
  OBVIOUS
<1>0. Types /\ CallerInv /\ CleanInv /\ PlanInv /\ DispInv /\ TakeInv /\ StrayInv
  BY DEF Inv
<1>1. /\ cmd \in FramebufferCommand /\ Executed(cmd)
      /\ res' \in [w : 0 .. BufferSize, h : 0 .. BufferSize, mem : BOOLEAN]
      /\ shown' \in [Screens -> {0, 1, Res3D}] /\ last' \in Screens /\ alive3d' \in BOOLEAN
  BY <1>0, ExecutedOK
<1>2. /\ Aside
      /\ UNCHANGED <<at, timer, armed, stray, taken, ref, seen, rect, tick, app, asked, caller, late, overlap>>
      /\ backlog > 0 /\ ~pushing /\ backlog' = backlog - 1 /\ pushing' = TRUE
      /\ UNCHANGED <<cmd, moved, waiting>>
  BY DEF DevExecute, Execute, Aside, start, size, refresh, locals, client
<1>3. answer' \in Answers
  BY <1>1 DEF Executed
<1>4. Types'
  BY <1>0, <1>1, <1>2 DEF Types, Aside
<1>5. backlog' \in 0 .. MaxBacklog /\ backlog \in Nat
  BY <1>0, <1>2, ChannelAssumption DEF CallerInv, ChannelTypeOK
<1>6. ChannelTypeOK'
  <2>1. pushing' \in BOOLEAN
    BY <1>2
  <2> QED BY <1>0, <1>2, <1>3, <1>5, <2>1, Zenon DEF CallerInv, ChannelTypeOK
<1>7. CallerInv'
  <2>1. want' = want
    BY <1>2 DEF Aside
  <2> QED BY ONLY <1>0, <1>1, <1>2, <1>6, <2>1 DEF CallerInv
<1>8. late = 0 => waiting /\ backlog = 1 /\ backlog' = 0 /\ ~moved
  BY <1>0, <1>2, <1>5 DEF CleanInv, Quiet, Unanswered, Replied
<1>9. CleanInv'
  BY <1>2, <1>8 DEF CleanInv, Replied
<1>10. StrayInv'
  BY <1>0, <1>2, StrayMove
<1>11. PlanInv'
  BY <1>2, AsideKeeps
<1>b. BadRes \notin {0, 1, Res3D} /\ Res3D \notin {0, 1}
  BY FramebufferAssumption
\* Whose command it was, when none was ever late.
<1>w. ASSUME late = 0
      PROVE  \/ at \in CtlWaits /\ app \notin {"scanning", "dropping"}
             \/ at \notin CtlWaits /\ app \notin {"scanning", "dropping"} /\ cmd.type \in {"transfer", "flush"}
             \/ at \notin CtlWaits /\ app = "scanning" /\ cmd.type \in {"scanout", "second"} /\ cmd.id = asked
             \/ at \notin CtlWaits /\ app = "dropping" /\ cmd.type = "unref" /\ cmd.id = Res3D
  BY <1>0, <1>8, <1>w DEF CallerInv, Threads
<1>d. DispInv'
  <2>1. SUFFICES ASSUME late = 0 PROVE DispInv'
    BY <1>2 DEF DispInv
  <2>2. CASE at \notin CtlWaits
    <3>1. res' = res
      BY <1>1, <1>b, <1>w, <2>1, <2>2 DEF Executed
    <3> QED BY <1>2, <2>2, <3>1, AsideKeeps
  <2>3. CASE at \in CtlWaits
    <3>0. CtlCmd(at, want, cmd) /\ PlaceInv
      BY <1>0, <2>1, <2>3 DEF CallerInv, DispInv
    <3>1. fbid' = 1 /\ (call' = "none" \/ at' \in Enabling) /\ at' # "stopping" => mode' # 0 /\ size' = SizeOf(mode')
      BY <1>0, <1>2, <2>1 DEF DispInv, Aside, size
    <3>s. backlog = 1 /\ backlog' = 0
      BY <1>8, <2>1
    <3>z. size # NoSize /\ \A s \in Sizes, m \in BOOLEAN : Has(s, m) => res # NoRes
      BY <1>0, SizesFacts DEF Types, size, NoSize, Has, NoRes
    <3>y. size \in Sizes
      BY <1>0, SizesFacts DEF Types, size
    <3>2. CASE at \in {"dropping", "stopping"}
      <4>1. cmd.type = "unref" /\ cmd.id = 1
        BY <3>0, <3>2, CmdFacts DEF CtlCmd
      <4>2. fbid = 1 /\ tracked /\ Has(size, TRUE)
        BY <3>0, <3>2, <3>s DEF PlaceInv, Has
      <4>3. Exists(1)
        BY <3>y, <3>z, <4>2 DEF Exists
      <4>4. res' = NoRes /\ answer' # "err"
        BY <1>1, <4>1, <4>3 DEF Executed
      <4>5. PlaceInv'
        BY <1>2, <3>2, <3>s, <4>2, <4>4 DEF PlaceInv, Aside, Building, Has
      <4> QED BY <3>1, <4>5 DEF DispInv
    <3>3. CASE at = "discarding"
      <4>1. cmd.type = "unref" /\ cmd.id = 1
        BY <3>0, <3>3, CmdFacts DEF CtlCmd
      <4>2. fbid = 1 /\ (tracked => res # NoRes)
        BY <3>0, <3>3, <3>s DEF PlaceInv
      <4>3. res' = NoRes /\ (answer' = "err" => ~tracked)
        BY <1>1, <4>1, <4>2 DEF Executed, Exists
      <4>5. PlaceInv'
        BY <1>2, <3>3, <3>s, <4>2, <4>3 DEF PlaceInv, Aside, Building, Has
      <4> QED BY <3>1, <4>5 DEF DispInv
    <3>4. CASE at = "overflowing"
      <4>1. fbid = 1 /\ ~tracked
        BY <3>0, <3>4 DEF PlaceInv
      <4>5. PlaceInv'
        BY <1>2, <3>4, <4>1 DEF PlaceInv, Aside, Building, Has
      <4> QED BY <3>1, <4>5 DEF DispInv
    <3>5. CASE at = "creating"
      <4>1. cmd = Cmd("create", 1, want)
        BY <3>0, <3>5 DEF CtlCmd
      <4>2. cmd.type = "create" /\ cmd.w = want[1] /\ cmd.h = want[2]
        BY <4>1, CmdFacts
      <4>3. fbid = 1 /\ ~tracked /\ res = NoRes
        BY <3>0, <3>5, <3>s DEF PlaceInv
      <4>4. IF answer' = "err" THEN res' = NoRes ELSE answer' = "nodata" /\ Has(want, FALSE)'
        BY <1>1, <1>2, <4>2, <4>3 DEF Executed, Has, Aside
      <4>5. PlaceInv'
        BY <1>2, <3>5, <3>s, <4>3, <4>4 DEF PlaceInv, Aside, Building, Has
      <4> QED BY <3>1, <4>5 DEF DispInv
    <3>6. CASE at = "attaching"
      <4>1. cmd.type = "attach"
        BY <3>0, <3>6, CmdFacts DEF CtlCmd
      <4>3. fbid = 1 /\ ~tracked /\ Has(want, FALSE)
        BY <3>0, <3>6, <3>s DEF PlaceInv
      <4>4. IF answer' = "err" THEN Has(want, FALSE)' ELSE Has(want, TRUE)'
        BY <1>1, <1>2, <4>1, <4>3 DEF Executed, Has, Aside
      <4>5. PlaceInv'
        BY <1>2, <3>6, <3>s, <4>3, <4>4 DEF PlaceInv, Aside, Building, Has
      <4> QED BY <3>1, <4>5 DEF DispInv
    <3>7. CASE at \in {"scanning", "control", "tracked", "shown", "transferring", "flushing"}
      <4>1. cmd.type \in {"scanout", "other", "transfer", "flush"}
        BY <3>0, <3>7, CmdFacts DEF CtlCmd
      <4>2. res' = res
        BY <1>1, <4>1 DEF Executed
      <4>5. PlaceInv'
        BY <1>2, <3>0, <3>7, <4>2 DEF PlaceInv, Aside, Building, Has, size
      <4> QED BY <3>1, <4>5 DEF DispInv
    <3> QED BY <2>3, <3>2, <3>3, <3>4, <3>5, <3>6, <3>7 DEF CtlWaits
  <2> QED BY <2>2, <2>3
<1>t. TakeInv'
  <2>1. SUFFICES ASSUME late = 0, ~overlap PROVE TakeInv'
    BY <1>2 DEF TakeInv, Focus
  <2>2. ~Done /\ (Done' <=> answer' # "err")
    BY <1>8, <2>1 DEF Done
  <2>3. CASE at = "scanning"
    <3>1. cmd.type = "scanout" /\ cmd.id = 1
      BY <1>0, <2>3, CmdFacts DEF CallerInv, CtlCmd, CtlWaits
    <3>2. Agree /\ ~AppScanning
      BY <1>0, <2>1, <2>2, <2>3 DEF TakeInv, Focus, CtlScanning
    <3>3. /\ answer' = "err" => Agree'
          /\ answer' # "err" => Focus' = 1
      BY <1>1, <1>2, <3>1, <3>2 DEF Executed, Agree, Focus
    <3> QED BY <1>2, <1>b, <2>2, <2>3, <3>2, <3>3 DEF TakeInv, Focus, CtlScanning, AppScanning
  <2>4. CASE at = "control"
    <3>1. cmd.type = "scanout" /\ cmd.id = BadRes
      BY <1>0, <2>4, CmdFacts DEF CallerInv, CtlCmd, CtlWaits
    <3>2. Agree /\ ~AppScanning
      BY <1>0, <2>1, <2>4 DEF TakeInv, Focus, CtlScanning
    <3>3. answer' = "err" /\ Agree'
      BY <1>1, <1>2, <1>b, <3>1, <3>2 DEF Executed, Agree, Focus
    <3> QED BY <1>2, <2>4, <3>2, <3>3 DEF TakeInv, Focus, CtlScanning, AppScanning
  <2>5. CASE app = "scanning"
    <3>1. cmd.type \in {"scanout", "second"} /\ cmd.id = asked
      BY <1>0, <2>5 DEF CallerInv
    <3>2. Agree /\ ~CtlScanning
      BY <1>0, <2>1, <2>2, <2>5 DEF TakeInv, Focus, AppScanning
    <3>3. /\ answer' = "err" => Agree'
          /\ answer' # "err" => Focus' = asked
      BY <1>1, <1>2, <3>1, <3>2 DEF Executed, Agree, Focus
    <3> QED BY <1>2, <2>2, <2>5, <3>2, <3>3 DEF TakeInv, Focus, CtlScanning, AppScanning
  \* Anything else leaves the scanout of the 3D resource alone, unless it destroys it.
  <2>6. CASE at \notin {"scanning", "control"} /\ app # "scanning"
    <3>1. /\ cmd.type \notin {"scanout", "second"}
          /\ cmd.type = "unref" => cmd.id \in {1, Res3D}
          /\ cmd.type = "unref" /\ cmd.id = Res3D => app = "dropping"
      <4>1. CASE at \in CtlWaits
        <5>1. CtlCmd(at, want, cmd)
          BY <1>0, <4>1 DEF CallerInv
        <5> QED BY <1>b, <2>6, <4>1, <5>1, CmdFacts DEF CtlCmd, CtlWaits
      <4>2. CASE at \notin CtlWaits
        BY <1>w, <2>1, <2>6, <4>2
      <4> QED BY <4>1, <4>2
    <3>2. cmd.type \in {"create", "attach", "unref", "scanout", "second", "transfer", "flush", "other"}
      BY <1>1 DEF FramebufferCommand
    <3>3. \/ alive3d' = alive3d /\ (Focus' = Res3D <=> Focus = Res3D)
          \/ app = "dropping" /\ ~alive3d' /\ Focus' # Res3D
      <4>1. CASE cmd.type # "unref" \/ answer' = "err"
        <5>1. UNCHANGED <<shown, last, alive3d>>
          BY <1>1, <3>1, <3>2, <4>1 DEF Executed
        <5> QED BY <5>1 DEF Focus
      <4>2. CASE cmd.type = "unref" /\ answer' # "err" /\ cmd.id = 1
        <5>1. alive3d' = (alive3d /\ cmd.id # Res3D) /\ Focus' = (IF Focus = cmd.id THEN 0 ELSE Focus)
          BY <1>1, <4>2 DEF Executed
        <5>2. alive3d' = alive3d
          BY <1>0, <1>b, <4>2, <5>1 DEF Types
        <5> QED BY <1>b, <4>2, <5>1, <5>2
      <4>3. CASE cmd.type = "unref" /\ answer' # "err" /\ cmd.id = Res3D
        <5>1. alive3d' = (alive3d /\ cmd.id # Res3D) /\ Focus' = (IF Focus = cmd.id THEN 0 ELSE Focus)
          BY <1>1, <4>3 DEF Executed
        <5> QED BY <1>b, <3>1, <4>3, <5>1
      <4> QED BY <3>1, <4>1, <4>2, <4>3
    <3>4. Agree => Agree'
      BY <1>2, <3>3 DEF Agree, Focus
    <3>5. /\ at = "flag" => Focus' # Res3D
          /\ app = "flag" => (Focus' = Res3D <=> asked = Res3D)
      BY <1>0, <2>1, <3>3 DEF TakeInv, Focus
    <3> QED BY <1>0, <1>2, <2>1, <2>6, <3>4, <3>5 DEF TakeInv, Focus, CtlScanning, AppScanning
  <2> QED BY <2>3, <2>4, <2>5, <2>6
<1> QED BY <1>4, <1>7, <1>9, <1>10, <1>11, <1>d, <1>t DEF Inv

\* The completion becomes visible, or nothing happens at all.
LEMMA PushStep == Inv /\ (DevPush \/ UNCHANGED vars) => Inv'
<1> SUFFICES ASSUME Inv, DevPush \/ UNCHANGED vars PROVE Inv'
  OBVIOUS
<1>0. Types /\ CallerInv /\ CleanInv /\ TakeInv /\ StrayInv
  BY DEF Inv
<1>1. /\ Aside
      /\ UNCHANGED <<at, timer, armed, stray, taken, ref, seen, rect, tick, app, asked, caller, late, overlap,
                     res, shown, last, alive3d, cmd, backlog, answer, waiting>>
  BY DEF DevPush, Push, vars, Aside, start, size, refresh, locals, client, device, ghost, channel
<1>2. ChannelTypeOK' /\ CleanInv'
  <2>1. CASE DevPush
    <3>1. pushing /\ pushing' = FALSE /\ (moved' = TRUE \/ (~waiting /\ moved' = moved))
      BY <2>1 DEF DevPush, Push
    <3>2. ChannelTypeOK'
      BY <1>0, <1>1, <3>1, Zenon DEF CallerInv, ChannelTypeOK
    <3> QED BY <1>0, <1>1, <3>1, <3>2 DEF CallerInv, ChannelTypeOK, CleanInv, Quiet, Unanswered, Replied
  <2>2. CASE UNCHANGED vars
    <3>1. UNCHANGED <<pushing, moved>>
      BY <2>2 DEF vars, channel
    <3>2. ChannelTypeOK'
      BY <1>0, <1>1, <3>1, Zenon DEF CallerInv, ChannelTypeOK
    <3> QED BY <1>0, <1>1, <3>1, <3>2 DEF CleanInv, Quiet, Unanswered, Replied
  <2> QED BY <2>1, <2>2
<1>3. Types'
  BY <1>0, <1>1 DEF Types, Aside
<1>4. CallerInv'
  <2>1. want' = want
    BY <1>1 DEF Aside
  <2> QED BY ONLY <1>0, <1>1, <1>2, <2>1 DEF CallerInv
<1>5. PlanInv' /\ DispInv'
  BY <1>1, AsideKeeps
<1>6. TakeInv'
  BY ONLY <1>0, <1>1, TakeMove
<1>7. StrayInv'
  BY <1>0, <1>1, StrayMove
<1> QED BY <1>2, <1>3, <1>4, <1>5, <1>6, <1>7 DEF Inv

LEMMA NextInv == Inv /\ [Next]_vars => Inv'
<1> SUFFICES ASSUME Inv, Next \/ UNCHANGED vars PROVE Inv'
  OBVIOUS
<1>1. CASE Setup
  <2>1. \/ SetupBegin \/ SetHeight
        \/ SendUnref \/ SendAttach \/ SendOverflow \/ SendScanout
        \/ TornDown
        \/ SendCreate
        \/ CreateFails \/ Created \/ Attached \/ ScanoutSet
        \/ ScanoutFlag
        \/ SetWidth
    BY <1>1, Zenon DEF Setup
  <2> QED BY ONLY Inv, <2>1, SetupStep, CtlSendStep, TornDownStep, SendCreateStep, AnswerStep,
                  ScanoutFlagStep, EnableStep
<1>2. CASE Enable
  <2>1. \/ SendNegative \/ SendProbes \/ SendFirst
        \/ NegativeAnswered \/ ProbesDone \/ FirstDone
        \/ ProbeRecreate \/ Arm
    BY <1>2, Zenon DEF Enable
  <2> QED BY ONLY Inv, <2>1, CtlSendStep, AnswerStep, EnableStep
<1>3. CASE Close \/ CtlRefresh \/ CtlRefreshed
  BY ONLY Inv, <1>3, CloseStep, RefQuietStep
<1>4. ASSUME NEW t \in Threads, Refresh(t) PROVE Inv'
  BY ONLY Inv, <1>4, RefCountStep, RefCommandStep DEF Refresh
<1>5. CASE CtlStep
  <2>1. "ctl" \in Threads
    BY DEF Threads
  <2> QED BY ONLY <1>1, <1>2, <1>3, <1>4, <1>5, <2>1 DEF CtlStep
<1>6. CASE TimerStep \/ Fire
  <2>1. "timer" \in Threads
    BY DEF Threads
  <2> QED BY ONLY Inv, <1>4, <1>6, <2>1, RefQuietStep DEF TimerStep
<1>7. CASE AppStep
  BY ONLY Inv, <1>7, AppAnswerStep, AppFlagStep DEF AppStep
<1>8. CASE Calls
  BY ONLY Inv, <1>8, CallStep, CloseStep, AppSendStep DEF Calls
<1>9. CASE StartEnds
  BY ONLY Inv, <1>9, CallStep
<1>10. CASE DevExecute
  BY ONLY Inv, <1>10, DevExecuteStep
<1>11. CASE DevPush \/ Finished \/ UNCHANGED vars
  <2>1. DevPush \/ UNCHANGED vars
    BY <1>11 DEF Finished
  <2> QED BY ONLY Inv, <2>1, PushStep
<1> QED BY ONLY <1>5, <1>6, <1>7, <1>8, <1>9, <1>10, <1>11, Next \/ UNCHANGED vars DEF Next

LEMMA Invariance == Spec => []Inv
BY InitInv, NextInv, PTL DEF Spec

-----------------------------------------------------------------------------
(* The theorems.                                                           *)

\* Between two calls of IOFramebuffer, as long as no command was late, a live
\* m_fb_resource_id means that the pool and the device have resource 1 with
\* memory and in the current mode's size, and no live id that neither has it:
\* for every table of modes and buffer, whichever command of a recreation
\* failed, and whatever the timer and the application did meanwhile.
THEOREM DisplayTheorem == Spec => []DisplayResourceTrue
<1>1. Inv => DisplayResourceTrue
  <2> SUFFICES ASSUME Inv PROVE DisplayResourceTrue
    OBVIOUS
  <2>0. Types /\ CallerInv /\ DispInv
    BY DEF Inv
  <2>1. TypeOK
    <3>1. size \in Sizes
      BY <2>0, SizesFacts DEF Types, size
    <3>2. \A t \in Threads : ref[t] \in RefPlaces
      BY <2>0 DEF Types
    <3> QED BY <2>0, <3>1, <3>2 DEF TypeOK, Types, CallerInv, ModeIds, RefPlaces
  <2>2. Idle /\ late = 0 =>
          /\ fbid = 1 => tracked /\ Has(size, TRUE) /\ mode # 0 /\ size = SizeOf(mode)
          /\ fbid = 0 => ~tracked /\ res = NoRes
    <3>1. Idle => at \notin Building \cup {"stopping", "stopped"} /\ call = "none" /\ at # "stopping"
      BY DEF Inv, PlanInv, Idle, Building, Enabling
    <3> QED BY <2>0, <3>1 DEF DispInv, PlaceInv, Has
  <2> QED BY <2>1, <2>2 DEF DisplayResourceTrue, LiveResourceIsCurrentMode, NoLeftoverResource, Has, size
<1> QED BY <1>1, Invariance, PTL

\* setScanoutTakenOverBy3D is a plain store after the answer, by whichever
\* thread sent the SET_SCANOUT: as long as no two of them overlapped and no
\* command was late, the flag agrees with what the device shows.
THEOREM TakeoverTheorem == Spec => []TakeoverAgrees
<1>1. Inv => TakeoverAgrees
  BY DEF Inv, TakeInv, TakeoverAgrees, Agree, Focus
<1> QED BY <1>1, Invariance, PTL

\* cancelTimeout does not wait and the callback looks at m_refresh_timer before
\* it sets the timeout: for any number of calls, at most one callback begins
\* after close() or free() took the timer away.
THEOREM StrayTheorem == Spec => []OneStrayCallback
<1>1. Inv => OneStrayCallback
  BY DEF Inv, Types, StrayInv, OneStrayCallback
<1> QED BY <1>1, Invariance, PTL

-----------------------------------------------------------------------------
(* The cursor queue.                                                       *)

Holding == {"publish", "poll"}

\* The free list while a call has descriptors 0 and 1.
HeldFreeList == [head |-> FreshFreeList.next[1], next |-> FreshFreeList.next]

\* The owner of m_cursor_vq_lock is the one caller inside, and its command is
\* the last one numbered, with no result yet.
OwnerInv ==
    /\ \A t \in Callers : pc[t] # "idle" <=> lock = t
    /\ \A t \in Callers : pc[t] # "idle" => id[t] = seq /\ seq \in Commands
    /\ \A n \in Commands : n > seq => ret[n] = "none"
    /\ lock # NoCaller => ret[seq] = "none"

\* Every call is handed descriptors 0 and 1 and gives both back; a chain on the
\* ring has a command in the buffer.
DescInv ==
    /\ cmdBuf = 0 => devIdx = availIdx
    /\ (\A t \in Callers : pc[t] \notin Holding) => free = FreshFreeList
    /\ \A t \in Callers : pc[t] \in Holding =>
          /\ Size >= 2
          /\ free = HeldFreeList
          /\ cmdDesc[t] = 0 /\ respDesc[t] = 1
          /\ cmdBuf # 0

\* Until the first timeout the queue has at most one chain in flight, that of
\* the caller inside, and the device moves only after reading its bytes.
FreshInv ==
    CursorTimedOut = {} =>
        /\ (\A t \in Callers : pc[t] # "poll") =>
              lastUsed = availIdx /\ usedIdx = availIdx /\ devIdx = availIdx
        /\ \A t \in Callers : pc[t] \in Holding => cmdBuf = id[t]
        /\ \A t \in Callers : pc[t] = "poll" =>
              /\ availIdx = Inc(lastUsed)
              /\ usedIdx \in {lastUsed, availIdx} /\ devIdx \in {lastUsed, availIdx}
              /\ usedIdx # lastUsed => devIdx # lastUsed
              /\ devIdx # lastUsed => id[t] \in fetched
-----------------------------------------------------------------------------
\* A step of the specification is one of these actions.
LEMMA CursorCases ==
    ASSUME CursorNext
    PROVE  \/ \E t \in Callers :
                Enter(t) \/ Prepare(t) \/ Publish(t) \/ TimesOut(t) \/ Complete(t)
           \/ CursorRead \/ CursorPush
           \/ UNCHANGED cursorVars
BY DEF CursorNext, Submitter, CursorFinished

\* Ring indices stay in range.
LEMMA IndexTypes == 0 \in Descs /\ 0 \in Idx /\ \A i \in Idx : Inc(i) \in Idx
BY VringAssumption DEF Descs, Idx, Inc

\* What the free-list operators do to the list the set-up built.
LEMMA FreeListFacts ==
    /\ FreshFreeList \in FreeLists /\ FreshFreeList.head = 0
    /\ Size < 2 => /\ FreshFreeList.next[0] = EndOfList
                   /\ PushFree(PopFree(FreshFreeList), 0) = FreshFreeList
    /\ Size >= 2 => /\ FreshFreeList.next[0] = 1 /\ {0, 1} \subseteq Descs
                    /\ PopFree(PopFree(FreshFreeList)) = HeldFreeList
                    /\ HeldFreeList \in FreeLists
                    /\ ReturnChain(HeldFreeList, 0, 1) = FreshFreeList
<1>1. FreshFreeList \in FreeLists
  BY VringAssumption DEF FreshFreeList, FreeLists, Descs, EndOfList
<1> DEFINE F == FreshFreeList.next
<1>2. /\ F \in [Descs -> Descs \cup {EndOfList}]
      /\ FreshFreeList = [head |-> 0, next |-> F]
      /\ 0 \in Descs
      /\ Size < 2 => F[0] = EndOfList
      /\ Size >= 2 => 1 \in Descs /\ F[0] = 1
  BY VringAssumption DEF FreshFreeList, Descs, EndOfList
<1> HIDE DEF F
<1>3. [F EXCEPT ![0] = F[0]] = F
  BY <1>2
<1>4. ASSUME Size < 2
      PROVE  PushFree(PopFree(FreshFreeList), 0) = FreshFreeList
  <2>1. PopFree(FreshFreeList) = [head |-> F[0], next |-> F]
    BY <1>2 DEF PopFree
  <2>2. PushFree(PopFree(FreshFreeList), 0) = [head |-> 0, next |-> [F EXCEPT ![0] = F[0]]]
    BY <2>1 DEF PushFree
  <2> QED BY <1>2, <1>3, <2>2
<1>5. ASSUME Size >= 2
      PROVE  /\ PopFree(PopFree(FreshFreeList)) = HeldFreeList
             /\ HeldFreeList \in FreeLists
             /\ ReturnChain(HeldFreeList, 0, 1) = FreshFreeList
  <2>1. HeldFreeList = [head |-> F[1], next |-> F]
    BY <1>2 DEF HeldFreeList
  <2>2. PushFree(HeldFreeList, 1) = [head |-> 1, next |-> [F EXCEPT ![1] = F[1]]]
    BY <2>1 DEF PushFree
  <2>3. [F EXCEPT ![1] = F[1]] = F
    BY <1>2
  <2>4. ReturnChain(HeldFreeList, 0, 1) = [head |-> 0, next |-> [F EXCEPT ![0] = 1]]
    BY <2>2, <2>3 DEF PushFree, ReturnChain
  <2>5. [F EXCEPT ![0] = 1] = F
    BY <1>2, <1>5
  <2>6. PopFree(PopFree(FreshFreeList)) = HeldFreeList
    BY <1>2, <1>5, <2>1 DEF PopFree
  <2> QED BY <1>2, <1>5, <2>1, <2>4, <2>5, <2>6 DEF FreeLists
<1> QED BY <1>1, <1>2, <1>4, <1>5 DEF F

-----------------------------------------------------------------------------
\* Two callers are never inside together.
LEMMA OneInside ==
    ASSUME OwnerInv, NEW t \in Callers, pc[t] # "idle"
    PROVE  /\ lock = t /\ lock # NoCaller /\ id[t] = seq /\ seq \in Commands /\ ret[seq] = "none"
           /\ \A u \in Callers : u # t => pc[u] = "idle"
BY CursorQueueAssumption DEF OwnerInv

\* What a call does to the free list: two descriptors of a fresh list, or,
\* with fewer than two, nothing.
LEMMA PrepareFacts ==
    ASSUME CursorTypeOK, OwnerInv, DescInv, NEW t \in Callers, Prepare(t)
    PROVE  /\ pc[t] = "pop"
           /\ \/ /\ Size >= 2 /\ free' = HeldFreeList
                 /\ cmdDesc' = [cmdDesc EXCEPT ![t] = 0]
                 /\ respDesc' = [respDesc EXCEPT ![t] = 1]
                 /\ cmdBuf' = id[t] /\ pc' = [pc EXCEPT ![t] = "publish"]
                 /\ UNCHANGED <<lock, ret>>
              \/ /\ free' = FreshFreeList /\ Return(t, "NoResources")
                 /\ UNCHANGED <<cmdDesc, respDesc, cmdBuf>>
<1>1. free = FreshFreeList /\ free.head = 0
  BY OneInside, FreeListFacts DEF Prepare, DescInv, Holding
<1>2. CASE Size >= 2
  BY <1>1, <1>2, FreeListFacts DEF Prepare, EndOfList
<1>3. CASE Size < 2
  BY <1>1, <1>3, FreeListFacts DEF Prepare, EndOfList
<1> QED BY <1>2, <1>3, VringAssumption DEF Prepare

\* A call that has its two descriptors gives back a fresh list.
LEMMA GivesBack ==
    ASSUME DescInv, NEW t \in Callers, pc[t] \in Holding
    PROVE  ReturnChain(free, cmdDesc[t], respDesc[t]) = FreshFreeList
BY FreeListFacts DEF DescInv

\* Every action keeps the variables in their types.
LEMMA NextTypeOK == CursorTypeOK /\ OwnerInv /\ DescInv /\ [CursorNext]_cursorVars => CursorTypeOK'
<1> SUFFICES ASSUME CursorTypeOK, OwnerInv, DescInv, [CursorNext]_cursorVars PROVE CursorTypeOK'
  OBVIOUS
<1> USE IndexTypes, CursorQueueAssumption
<1>0. CASE UNCHANGED cursorVars
  BY <1>0 DEF CursorTypeOK, cursorVars
<1>1. ASSUME NEW t \in Callers, Enter(t) PROVE CursorTypeOK'
  BY <1>1 DEF CursorTypeOK, Enter, Commands
<1>2. ASSUME NEW t \in Callers, Prepare(t) PROVE CursorTypeOK'
  <2>1. UNCHANGED <<lastUsed, availIdx, usedIdx, kicked, devIdx, id, seq, fetched>>
    BY <1>2 DEF Prepare
  <2>2. pc[t] # "idle" /\ id[t] \in Commands
    BY <1>2, OneInside DEF Prepare
  <2>3. 0 \in Descs /\ (Size >= 2 => 1 \in Descs)
    BY FreeListFacts
  <2> QED BY <1>2, <2>1, <2>2, <2>3, PrepareFacts, FreeListFacts DEF CursorTypeOK, Return, Results
<1>3. ASSUME NEW t \in Callers, Publish(t) PROVE CursorTypeOK'
  BY <1>3 DEF CursorTypeOK, Publish
<1>4. ASSUME NEW t \in Callers, TimesOut(t) PROVE CursorTypeOK'
  <2>1. free' \in FreeLists
    BY <1>4, GivesBack, FreeListFacts DEF TimesOut, Holding
  <2> QED BY <1>4, <2>1 DEF CursorTypeOK, TimesOut, Return, Results
<1>5. ASSUME NEW t \in Callers, Complete(t) PROVE CursorTypeOK'
  <2>1. free' \in FreeLists
    BY <1>5, GivesBack, FreeListFacts DEF Complete, Holding
  <2>2. lastUsed' \in Idx
    BY <1>5 DEF CursorTypeOK, Complete
  <2>3. ret' \in [Commands -> Results]
    BY <1>5 DEF CursorTypeOK, Complete, Return, Results
  <2>4. pc' \in [Callers -> {"idle", "pop", "publish", "poll"}] /\ lock' = NoCaller
    BY <1>5 DEF CursorTypeOK, Complete, Return
  <2> QED BY <1>5, <2>1, <2>2, <2>3, <2>4 DEF CursorTypeOK, Complete
<1>6. CASE CursorRead
  BY <1>6 DEF CursorTypeOK, CursorRead, DescInv
<1>7. CASE CursorPush
  BY <1>7 DEF CursorTypeOK, CursorPush
<1> QED BY <1>0, <1>1, <1>2, <1>3, <1>4, <1>5, <1>6, <1>7, CursorCases

\* Each action moves pc, the lock and the numbering together.
LEMMA NextOwnerInv == CursorTypeOK /\ OwnerInv /\ DescInv /\ [CursorNext]_cursorVars => OwnerInv'
<1> SUFFICES ASSUME CursorTypeOK, OwnerInv, DescInv, [CursorNext]_cursorVars PROVE OwnerInv'
  OBVIOUS
<1> USE CursorQueueAssumption
\* A call of t returns.
<1>a. ASSUME NEW t \in Callers, pc[t] # "idle", NEW code, Return(t, code), UNCHANGED <<id, seq>>
      PROVE  OwnerInv'
  BY <1>a, OneInside DEF OwnerInv, Return, CursorTypeOK, Commands
\* A call of t goes on.
<1>b. ASSUME NEW t \in Callers, pc[t] # "idle", NEW q, q # "idle", pc' = [pc EXCEPT ![t] = q],
             UNCHANGED <<lock, ret, id, seq>>
      PROVE  OwnerInv'
  BY <1>b DEF OwnerInv, CursorTypeOK
<1>0. CASE UNCHANGED cursorVars
  BY <1>0 DEF OwnerInv, cursorVars
<1>1. ASSUME NEW t \in Callers, Enter(t) PROVE OwnerInv'
  BY <1>1 DEF OwnerInv, Enter, CursorTypeOK, Commands
<1>2. ASSUME NEW t \in Callers, Prepare(t) PROVE OwnerInv'
  BY <1>2, <1>a, <1>b, PrepareFacts DEF Prepare
<1>3. ASSUME NEW t \in Callers, Publish(t) PROVE OwnerInv'
  BY <1>3, <1>b DEF Publish
<1>4. ASSUME NEW t \in Callers, TimesOut(t) PROVE OwnerInv'
  BY <1>4, <1>a DEF TimesOut
<1>5. ASSUME NEW t \in Callers, Complete(t) PROVE OwnerInv'
  BY <1>5, <1>a DEF Complete
<1>6. CASE CursorRead \/ CursorPush
  BY <1>6 DEF OwnerInv, CursorRead, CursorPush
<1> QED BY <1>0, <1>1, <1>2, <1>3, <1>4, <1>5, <1>6, CursorCases

\* Every exit path restores the free list.
LEMMA NextDescInv == CursorTypeOK /\ OwnerInv /\ DescInv /\ [CursorNext]_cursorVars => DescInv'
<1> SUFFICES ASSUME CursorTypeOK, OwnerInv, DescInv, [CursorNext]_cursorVars PROVE DescInv'
  OBVIOUS
<1> USE DEF Holding
<1>a. ASSUME NEW t \in Callers, pc[t] # "idle", NEW code, Return(t, code), free' = FreshFreeList,
             UNCHANGED <<cmdBuf, devIdx, availIdx>>
      PROVE  DescInv'
  BY <1>a, OneInside DEF DescInv, Return, CursorTypeOK
<1>0. CASE UNCHANGED cursorVars
  BY <1>0 DEF DescInv, cursorVars
<1>1. ASSUME NEW t \in Callers, Enter(t) PROVE DescInv'
  BY <1>1 DEF DescInv, Enter, CursorTypeOK
<1>2. ASSUME NEW t \in Callers, Prepare(t) PROVE DescInv'
  <2>1. UNCHANGED <<devIdx, availIdx>> /\ pc[t] # "idle" /\ id[t] # 0
    BY <1>2, OneInside DEF Prepare, Commands
  <2> QED BY <1>2, <1>a, <2>1, OneInside, PrepareFacts DEF DescInv, CursorTypeOK
<1>3. ASSUME NEW t \in Callers, Publish(t) PROVE DescInv'
  BY <1>3 DEF DescInv, Publish, CursorTypeOK
<1>4. ASSUME NEW t \in Callers, TimesOut(t) PROVE DescInv'
  BY <1>4, <1>a, GivesBack DEF TimesOut
<1>5. ASSUME NEW t \in Callers, Complete(t) PROVE DescInv'
  BY <1>5, <1>a, GivesBack DEF Complete
<1>6. CASE CursorRead \/ CursorPush
  BY <1>6 DEF DescInv, CursorRead, CursorPush
<1> QED BY <1>0, <1>1, <1>2, <1>3, <1>4, <1>5, <1>6, CursorCases

\* The initial state has all parts of the invariant.
LEMMA CursorInitBasics == CursorInit => CursorTypeOK /\ OwnerInv /\ DescInv
<1> SUFFICES ASSUME CursorInit PROVE CursorTypeOK /\ OwnerInv /\ DescInv
  OBVIOUS
<1>1. free \in FreeLists
  BY FreeListFacts DEF CursorInit
<1>2. CursorTypeOK
  BY <1>1, IndexTypes, CursorQueueAssumption DEF CursorInit, CursorTypeOK, Commands, Results
<1> QED BY <1>2, CursorQueueAssumption DEF CursorInit, OwnerInv, DescInv, Holding, Commands
-----------------------------------------------------------------------------
\* Counting on modulo the width of an index.
LEMMA ModSucc ==
    ASSUME NEW a \in Nat
    PROVE  /\ a % IdxMod \in Idx
           /\ (a + 1) % IdxMod = Inc(a % IdxMod)
<1> DEFINE q == a \div IdxMod
           r == a % IdxMod
<1>1. q \in Int /\ r \in Idx /\ a = IdxMod * q + r
  BY VringAssumption DEF Idx
<1>2. \A k \in Int, i \in Idx : (IdxMod * k + i) % IdxMod = i
  BY VringAssumption DEF Idx
<1> HIDE DEF q, r
<1>3. CASE r = IdxMod - 1
  <2>1. a + 1 = IdxMod * (q + 1) + 0
    BY <1>1, <1>3, VringAssumption DEF Idx
  <2>2. 0 \in Idx /\ q + 1 \in Int
    BY <1>1, VringAssumption DEF Idx
  <2>3. (a + 1) % IdxMod = 0
    BY <1>2, <2>1, <2>2
  <2> QED BY <1>1, <1>3, <2>3 DEF Inc, r
<1>4. CASE r # IdxMod - 1
  <2>1. a + 1 = IdxMod * q + (r + 1) /\ r + 1 \in Idx
    BY <1>1, <1>4, VringAssumption DEF Idx
  <2>2. (a + 1) % IdxMod = r + 1
    BY <1>1, <1>2, <2>1
  <2> QED BY <1>1, <1>4, <2>2 DEF Inc, r
<1> QED BY <1>1, <1>3, <1>4 DEF r

\* Moving either end of a cyclic distance.
LEMMA DistFacts ==
    ASSUME NEW a \in Idx, NEW b \in Idx
    PROVE  /\ Dist(a, b) \in Idx
           /\ Dist(Inc(a), b) = Inc(Dist(a, b))
           /\ Inc(Dist(a, Inc(b))) = Dist(a, b)
           /\ Inc(a) = Inc(b) => a = b
BY VringAssumption DEF Dist, Inc, Idx

\* The two sets BehindByTimeouts counts are finite, and the second has at most
\* one element.
Counted ==
    /\ IsFiniteSet(CursorTimedOut) /\ Cardinality(CursorTimedOut) \in Nat
    /\ (\A t \in Callers : pc[t] # "poll") => Cardinality(InPoll) = 0
    /\ \A t \in Callers : pc[t] = "poll" => Cardinality(InPoll) = 1

\* The counts are natural numbers in every state of the queue.
LEMMA CountTypes == CursorTypeOK /\ OwnerInv => Counted
<1> SUFFICES ASSUME CursorTypeOK, OwnerInv PROVE Counted
  OBVIOUS
<1>1. IsFiniteSet(Commands)
  BY FS_Interval, CursorQueueAssumption DEF Commands
<1>2. IsFiniteSet(CursorTimedOut) /\ Cardinality(CursorTimedOut) \in Nat
  BY <1>1, FS_Subset, FS_CardinalityType DEF CursorTimedOut
<1>3. ASSUME \A t \in Callers : pc[t] # "poll" PROVE Cardinality(InPoll) = 0
  BY <1>3, FS_EmptySet DEF InPoll
<1>4. ASSUME NEW t \in Callers, pc[t] = "poll" PROVE Cardinality(InPoll) = 1
  <2>1. InPoll = {t}
    BY <1>4, OneInside DEF InPoll
  <2> QED BY <2>1, FS_Singleton
<1> QED BY <1>2, <1>3, <1>4 DEF Counted

\* They still are after a step.
LEMMA NextCounted ==
    CursorTypeOK /\ OwnerInv /\ DescInv /\ [CursorNext]_cursorVars => Counted /\ Counted'
BY CountTypes, NextTypeOK, NextOwnerInv, PTL

\* The lag: publishing adds one, completing takes one off, and a timeout only
\* moves the call from the one count to the other.
LEMMA NextBehind ==
    CursorTypeOK /\ OwnerInv /\ DescInv /\ BehindByTimeouts /\ [CursorNext]_cursorVars
      => BehindByTimeouts'
<1> SUFFICES ASSUME CursorTypeOK, OwnerInv, DescInv, BehindByTimeouts, [CursorNext]_cursorVars
             PROVE  BehindByTimeouts'
  OBVIOUS
<1> DEFINE T == Cardinality(CursorTimedOut)
           P == Cardinality(InPoll)
<1>a. CursorTypeOK'
  BY NextTypeOK
<1>b. /\ IsFiniteSet(CursorTimedOut) /\ T \in Nat /\ T' \in Nat
      /\ (\A t \in Callers : pc[t] # "poll") => P = 0
      /\ (\A t \in Callers : pc'[t] # "poll") => P' = 0
      /\ \A t \in Callers : pc[t] = "poll" => P = 1
      /\ \A t \in Callers : pc'[t] = "poll" => P' = 1
  BY NextCounted DEF Counted
<1>c. Dist(availIdx, lastUsed) = (T + P) % IdxMod
  BY DEF BehindByTimeouts
<1>d. ASSUME T' = T, P' = P, Dist(availIdx, lastUsed)' = Dist(availIdx, lastUsed)
      PROVE  BehindByTimeouts'
  BY <1>c, <1>d DEF BehindByTimeouts
\* A call that was not polling returns a code other than Timeout, or goes on.
<1>e. ASSUME \A n \in Commands : ret'[n] = "Timeout" <=> ret[n] = "Timeout"
      PROVE  T' = T
  BY <1>e DEF CursorTimedOut
<1>f. ASSUME \A t \in Callers : pc'[t] = "poll" <=> pc[t] = "poll" PROVE P' = P
  BY <1>f DEF InPoll
<1> HIDE DEF T, P
<1>0. CASE UNCHANGED cursorVars
  BY <1>0, <1>d, <1>e, <1>f DEF cursorVars
<1>1. ASSUME NEW t \in Callers, Enter(t) PROVE BehindByTimeouts'
  BY <1>1, <1>d, <1>e, <1>f DEF Enter, CursorTypeOK
<1>2. ASSUME NEW t \in Callers, Prepare(t) PROVE BehindByTimeouts'
  <2>1. T' = T
    BY <1>2, <1>e, PrepareFacts, OneInside DEF Return, CursorTypeOK
  <2>2. P' = P
    BY <1>2, <1>f, PrepareFacts DEF Return, CursorTypeOK
  <2>3. UNCHANGED <<availIdx, lastUsed>>
    BY <1>2 DEF Prepare
  <2> QED BY <1>d, <2>1, <2>2, <2>3
<1>3. ASSUME NEW t \in Callers, Publish(t) PROVE BehindByTimeouts'
  <2>1. T' = T
    BY <1>3, <1>e DEF Publish
  <2>2. P = 0
    BY <1>3, <1>b, OneInside DEF Publish
  <2>3. P' = 1
    BY <1>3, <1>b DEF Publish, CursorTypeOK
  <2>4. Dist(availIdx, lastUsed)' = Inc(Dist(availIdx, lastUsed))
    BY <1>3, DistFacts DEF Publish, CursorTypeOK
  <2>5. (T + 1) % IdxMod = Inc(T % IdxMod)
    BY <1>b, ModSucc
  <2>6. (T + P) % IdxMod = T % IdxMod
    BY <1>b, <2>2
  <2>7. (T' + P') % IdxMod = (T + 1) % IdxMod
    BY <2>1, <2>3
  <2>8. Dist(availIdx, lastUsed)' = (T' + P') % IdxMod
    BY <1>c, <2>4, <2>5, <2>6, <2>7
  <2> QED BY <2>8 DEF BehindByTimeouts, T, P
<1>4. ASSUME NEW t \in Callers, TimesOut(t) PROVE BehindByTimeouts'
  <2>1. id[t] \in Commands /\ ret[id[t]] = "none"
    BY <1>4, OneInside DEF TimesOut
  <2>2. CursorTimedOut' = CursorTimedOut \cup {id[t]} /\ id[t] \notin CursorTimedOut
    BY <1>4, <2>1 DEF TimesOut, Return, CursorTimedOut, CursorTypeOK
  <2>3. T' = T + 1
    BY <1>b, <2>2, FS_AddElement DEF T
  <2>4. P = 1
    BY <1>4, <1>b DEF TimesOut
  <2>5. P' = 0
    BY <1>4, <1>b, OneInside DEF TimesOut, Return, CursorTypeOK
  <2>6. UNCHANGED <<availIdx, lastUsed>>
    BY <1>4 DEF TimesOut
  <2>7. T' + P' = T + P
    BY <1>b, <2>3, <2>4, <2>5
  <2> QED BY <1>c, <2>6, <2>7 DEF BehindByTimeouts, T, P
<1>5. ASSUME NEW t \in Callers, Complete(t) PROVE BehindByTimeouts'
  <2>1. id[t] \in Commands /\ ret[id[t]] = "none"
    BY <1>5, OneInside DEF Complete
  <2>2. T' = T
    BY <1>5, <1>e, <2>1 DEF Complete, Return, CursorTypeOK
  <2>3. P = 1
    BY <1>5, <1>b DEF Complete
  <2>4. P' = 0
    BY <1>5, <1>b, OneInside DEF Complete, Return, CursorTypeOK
  <2>5. Inc(Dist(availIdx, lastUsed)') = Dist(availIdx, lastUsed)
    BY <1>5, DistFacts DEF Complete, CursorTypeOK
  <2>6. (T + 1) % IdxMod = Inc(T % IdxMod) /\ T % IdxMod \in Idx
    BY <1>b, ModSucc
  <2>7. Dist(availIdx, lastUsed)' \in Idx
    BY <1>a, DistFacts DEF CursorTypeOK
  <2>8. Dist(availIdx, lastUsed)' = T % IdxMod
    BY <1>c, <2>3, <2>5, <2>6, <2>7, DistFacts
  <2>9. T' + P' = T
    BY <1>b, <2>2, <2>4
  <2> QED BY <2>8, <2>9 DEF BehindByTimeouts, T, P
<1>6. CASE CursorRead \/ CursorPush
  BY <1>6, <1>d, <1>e, <1>f DEF CursorRead, CursorPush
<1> QED BY <1>0, <1>1, <1>2, <1>3, <1>4, <1>5, <1>6, CursorCases

\* The ring of the cursor queue is kept: types, free list and lag.
THEOREM CursorRingTheorem == CursorSpec => []CursorRingKept
<1>1. CursorInit => BehindByTimeouts
  <2> SUFFICES ASSUME CursorInit PROVE BehindByTimeouts
    OBVIOUS
  <2>1. CursorTypeOK /\ OwnerInv
    BY CursorInitBasics
  <2>2. Cardinality(InPoll) = 0
    BY <2>1, CountTypes DEF CursorInit, Counted
  <2>3. CursorTimedOut = {}
    BY DEF CursorInit, CursorTimedOut
  <2>4. Cardinality(CursorTimedOut) = 0
    BY <2>3, FS_EmptySet
  <2>5. 0 % IdxMod = 0
    BY VringAssumption
  <2>6. Dist(availIdx, lastUsed) = 0
    BY DEF CursorInit, Dist
  <2> QED BY <2>2, <2>4, <2>5, <2>6 DEF BehindByTimeouts
<1>2. CursorTypeOK /\ OwnerInv /\ DescInv => CursorFreeListIntact
  BY CursorQueueAssumption DEF OwnerInv, DescInv, CursorFreeListIntact, Holding
<1>3. CursorTypeOK /\ CursorFreeListIntact /\ BehindByTimeouts => CursorRingKept
  BY DEF CursorRingKept
<1> QED
  BY <1>1, <1>2, <1>3, CursorInitBasics, NextTypeOK, NextOwnerInv, NextDescInv, NextBehind, PTL
  DEF CursorSpec
-----------------------------------------------------------------------------
\* Until the first timeout the device sees one command at a time.
LEMMA NextFreshInv ==
    CursorTypeOK /\ OwnerInv /\ DescInv /\ FreshInv /\ [CursorNext]_cursorVars => FreshInv'
<1> SUFFICES ASSUME CursorTypeOK, OwnerInv, DescInv, FreshInv, [CursorNext]_cursorVars,
                    CursorTimedOut' = {}
             PROVE  FreshInv'
  BY DEF FreshInv
<1> USE DEF Holding
<1>0. CASE UNCHANGED cursorVars
  BY <1>0 DEF FreshInv, CursorTimedOut, cursorVars
<1>1. ASSUME NEW t \in Callers, Enter(t) PROVE FreshInv'
  BY <1>1 DEF FreshInv, CursorTimedOut, Enter, CursorTypeOK
<1>2. ASSUME NEW t \in Callers, Prepare(t) PROVE FreshInv'
  <2>1. UNCHANGED <<lastUsed, availIdx, usedIdx, devIdx, id, fetched>>
    BY <1>2 DEF Prepare
  <2>2. pc[t] = "pop" /\ ret[id[t]] = "none" /\ \A u \in Callers : u # t => pc[u] = "idle"
    BY <1>2, OneInside DEF Prepare
  <2>3. CursorTimedOut = {}
    BY <1>2, <2>2, PrepareFacts DEF CursorTimedOut, Return, CursorTypeOK
  <2>4. \A u \in Callers : pc'[u] # "poll" /\ (pc'[u] \in Holding => cmdBuf' = id[u])
    BY <1>2, <2>2, PrepareFacts DEF Return, CursorTypeOK
  <2> QED BY <2>1, <2>2, <2>3, <2>4 DEF FreshInv
<1>3. ASSUME NEW t \in Callers, Publish(t) PROVE FreshInv'
  <2>1. CursorTimedOut = {} /\ \A u \in Callers : u # t => pc[u] = "idle"
    BY <1>3, OneInside DEF Publish, CursorTimedOut
  <2>2. lastUsed = availIdx /\ usedIdx = availIdx /\ devIdx = availIdx /\ cmdBuf = id[t]
    BY <1>3, <2>1 DEF Publish, FreshInv
  <2> QED BY <1>3, <2>1, <2>2 DEF Publish, FreshInv, CursorTypeOK
<1>4. ASSUME NEW t \in Callers, TimesOut(t) PROVE FreshInv'
  <2>1. id[t] \in Commands
    BY <1>4, OneInside DEF TimesOut
  <2>2. id[t] \in CursorTimedOut'
    BY <1>4, <2>1 DEF TimesOut, Return, CursorTimedOut, CursorTypeOK
  <2> QED BY <2>2
<1>5. ASSUME NEW t \in Callers, Complete(t) PROVE FreshInv'
  <2>1. ret[id[t]] = "none" /\ \A u \in Callers : u # t => pc[u] = "idle"
    BY <1>5, OneInside DEF Complete
  <2>2. CursorTimedOut = {}
    BY <1>5, <2>1 DEF Complete, Return, CursorTimedOut, CursorTypeOK
  <2>3. lastUsed' = availIdx /\ usedIdx = availIdx /\ devIdx = availIdx
    BY <1>5, <2>2 DEF Complete, FreshInv
  <2>4. \A u \in Callers : pc'[u] = "idle"
    BY <1>5, <2>1 DEF Complete, Return, CursorTypeOK
  <2> QED BY <1>5, <2>3, <2>4 DEF Complete, FreshInv
<1>6. CASE CursorRead
  <2>1. CursorTimedOut = {}
    BY <1>6 DEF CursorRead, CursorTimedOut
  <2>2. ~(\A t \in Callers : pc[t] # "poll")
    BY <1>6, <2>1 DEF CursorRead, FreshInv
  <2>3. PICK t \in Callers : pc[t] = "poll"
    BY <2>2
  <2>4. /\ availIdx = Inc(lastUsed) /\ devIdx = lastUsed /\ usedIdx = lastUsed
        /\ cmdBuf = id[t]
    BY <1>6, <2>1, <2>3 DEF CursorRead, FreshInv
  <2>5. \A u \in Callers : u # t => pc[u] = "idle"
    BY <2>3, OneInside
  <2> QED BY <1>6, <2>1, <2>3, <2>4, <2>5 DEF CursorRead, FreshInv
<1>7. CASE CursorPush
  <2>1. CursorTimedOut = {}
    BY <1>7 DEF CursorPush, CursorTimedOut
  <2> QED BY <1>7, <2>1 DEF CursorPush, FreshInv
<1> QED BY <1>0, <1>1, <1>2, <1>3, <1>4, <1>5, <1>6, <1>7, CursorCases

\* A call can succeed without its command having been read only when the
\* entry it consumed is an earlier call's, which timed out.
LEMMA NextLost ==
    CursorTypeOK /\ OwnerInv /\ DescInv /\ FreshInv /\ LostOnlyAfterTimeout
    /\ [CursorNext]_cursorVars
      => LostOnlyAfterTimeout'
<1> SUFFICES ASSUME CursorTypeOK, OwnerInv, DescInv, FreshInv, LostOnlyAfterTimeout,
                    [CursorNext]_cursorVars
             PROVE  LostOnlyAfterTimeout'
  OBVIOUS
\* A step by which no call succeeds and none of those that timed out is lost.
<1>a. ASSUME \A n \in Commands : ret'[n] = "Success" => ret[n] = "Success",
             CursorTimedOut \subseteq CursorTimedOut', fetched \subseteq fetched'
      PROVE  LostOnlyAfterTimeout'
  BY <1>a DEF LostOnlyAfterTimeout
<1>0. CASE UNCHANGED <<ret, fetched>>
  BY <1>0, <1>a DEF CursorTimedOut
<1>1. ASSUME NEW t \in Callers, Enter(t) \/ Publish(t) PROVE LostOnlyAfterTimeout'
  BY <1>0, <1>1 DEF Enter, Publish
<1>2. ASSUME NEW t \in Callers, Prepare(t) PROVE LostOnlyAfterTimeout'
  <2>1. id[t] \in Commands /\ ret[id[t]] = "none" /\ UNCHANGED fetched
    BY <1>2, OneInside DEF Prepare
  <2> QED BY <1>2, <1>a, <2>1, PrepareFacts DEF CursorTimedOut, Return, CursorTypeOK
<1>4. ASSUME NEW t \in Callers, TimesOut(t) PROVE LostOnlyAfterTimeout'
  <2>1. id[t] \in Commands /\ ret[id[t]] = "none" /\ UNCHANGED fetched
    BY <1>4, OneInside DEF TimesOut
  <2> QED BY <1>4, <1>a, <2>1 DEF TimesOut, Return, CursorTimedOut, CursorTypeOK
<1>5. ASSUME NEW t \in Callers, Complete(t) PROVE LostOnlyAfterTimeout'
  <2>1. id[t] = seq /\ seq \in Commands /\ ret[seq] = "none" /\ UNCHANGED fetched
    BY <1>5, OneInside DEF Complete
  <2>2. CursorTimedOut' = CursorTimedOut /\ ret' = [ret EXCEPT ![seq] = "Success"]
    BY <1>5, <2>1 DEF Complete, Return, CursorTimedOut, CursorTypeOK
  <2>3. \A k \in CursorTimedOut : k < seq
    BY <2>1 DEF CursorTimedOut, OwnerInv, Commands
  <2>4. CursorTimedOut = {} => seq \in fetched
    BY <1>5, <2>1 DEF Complete, FreshInv
  <2> QED BY <2>1, <2>2, <2>3, <2>4 DEF LostOnlyAfterTimeout, CursorTypeOK
<1>6. CASE CursorRead \/ CursorPush
  BY <1>6, <1>a DEF CursorRead, CursorPush, CursorTimedOut
<1> QED BY <1>0, <1>1, <1>2, <1>4, <1>5, <1>6, CursorCases DEF cursorVars

\* An update that reported success and that the device never read has a
\* timed-out call before it.
THEOREM LostTheorem == CursorSpec => []LostOnlyAfterTimeout
<1>1. CursorInit => FreshInv /\ LostOnlyAfterTimeout
  BY DEF CursorInit, FreshInv, LostOnlyAfterTimeout, Holding
<1> QED
  BY <1>1, CursorInitBasics, NextTypeOK, NextOwnerInv, NextDescInv, NextFreshInv, NextLost, PTL
  DEF CursorSpec
=============================================================================
