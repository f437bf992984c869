-------------------------- MODULE UserClientProofs --------------------------
(***************************************************************************)
(* Proofs about the contexts, surfaces and probes of the user clients, for *)
(* any number of clients and calls in flight and whatever calls overlap:   *)
(* whose a context and a surface is, what is left on the device and by     *)
(* which path, and that the probe's pages are wired while they are used.   *)
(***************************************************************************)
EXTENDS UserClient, TLAPS

CtxAt == {"bump", "create", "destroy", "use"}
ProbeAt == {"A", "B", "C", "D", "E", "F", "U", "X"}
LaterOps == {"probe2", "close"}
Ops == {"none", "userctx", "kernctx", "virglctx", "destroyctx", "submit", "ctxattach",
        "surface", "probe1"} \cup LaterOps

-----------------------------------------------------------------------------
(* The inductive invariant.                                                *)

\* What the locals of a call are, by its position, after n calls.
LocalOk(p, o, c, i, d, n) ==
    /\ p # "idle" => c \in Clients
    /\ p \in CtxAt => i \in CtxIds
    /\ p \in {"bump", "create"} => i # 1
    /\ p = "bump" => i >= FirstUserCtx
    /\ p \in {"advance", "make"} => i \in 1 .. n
    /\ p \in ProbeAt => i = ProbeCtx /\ o \in LaterOps \cup {"probe1"}
    /\ p \in {"A", "B", "C", "D", "E"} => o = "probe1"
    /\ p = "F" => o = "probe2"
    /\ p \in ProbeAt /\ o = "probe1" => d \in 1 .. n
LocalInv == \A t \in Slots : LocalOk(pc[t], op[t], who[t], id[t], desc[t], calls)
LocalTypes ==
    /\ pc \in [Slots -> Sending \cup {"idle", "bump", "advance", "make"}]
    /\ op \in [Slots -> Ops]
    /\ who \in [Slots -> Clients \cup {NoClient}]
    /\ id \in [Slots -> Nat] /\ desc \in [Slots -> Descs \cup {NoDesc}]
    /\ calls \in 0 .. MaxCalls
ClientTypes == dev \subseteq Clients /\ open \subseteq Clients /\ freed \subseteq Clients
CtxTypes ==
    /\ ctxLock \in Slots \cup {NoSlot} /\ kernCtx \in CtxIds
    /\ nextCtx \in FirstUserCtx .. MaxCtx + 1
    /\ told \in [Clients -> SUBSET (CtxIds \ {1})]
SurfTypes ==
    /\ nextSurf \in [Clients -> 1 .. MaxCalls + 1] /\ \A c \in Clients : nextSurf[c] <= calls + 1
    /\ pool \subseteq Nat /\ surf \in [Clients -> SUBSET SurfIds]
ProbeTypes ==
    /\ busy \subseteq Clients /\ named \subseteq Clients
    /\ held \in [Clients -> Descs \cup {NoDesc}] /\ wired \subseteq Descs
    /\ \A c \in Clients : c \in busy <=> held[c] # NoDesc
DevTypes ==
    /\ ctxs \subseteq (CtxIds \ {1}) \cup {ProbeCtx} /\ backing \in Descs \cup {NoDesc}
    /\ owner \in [CtxIds \cup {ProbeCtx} -> SUBSET Clients]
    /\ \A x \in ctxs : owner[x] # {}
Types == LocalTypes /\ LocalInv /\ ClientTypes /\ CtxTypes /\ SurfTypes /\ ProbeTypes /\ DevTypes

\* The command in the buffer is the caller's, or one that is late; an id above
\* suspicion has one command there, executed once and answered once.
Unanswered == backlog = 1 /\ ~pushing /\ ~moved
Replied == backlog = 0 /\ pushing # moved
ChanInv ==
    /\ ChannelTypeOK /\ res \in BOOLEAN
    /\ caller \in Slots \cup {NoSlot} /\ (waiting <=> caller # NoSlot)
    /\ backlog > 0 => cmd \in ClientCommand
    /\ backlog > 0 /\ caller = NoSlot => cmd.ctx \in suspect
    /\ backlog > 0 /\ cmd.type \in {"rcreate", "attach", "xfer", "unref"} => cmd.ctx = ProbeCtx
    /\ backlog > 0 /\ cmd.type = "create" => cmd.ctx # 1
CallerInv ==
    caller # NoSlot =>
        /\ pc[caller] \in Sending
        /\ cmd \in ClientCommand /\ cmd.ctx = id[caller] /\ cmd.who = who[caller]
        /\ IF cmd.type = "none"
           THEN op[caller] # "probe1" /\ pc[caller] \in {"F", "U", "X"} /\ who[caller] \notin named
           ELSE cmd.type = TypeOf(caller) /\ cmd.desc = desc[caller]
        /\ id[caller] \notin suspect => Unanswered \/ Replied
\* What the device has done with such a command.
DoneInv ==
    caller # NoSlot /\ id[caller] \notin suspect /\ backlog = 0 =>
        /\ cmd.type = "destroy" => cmd.ctx \notin ctxs
        /\ cmd.type = "unref" => backing = NoDesc
BackingInv == ~res => backing = NoDesc
\* Whom a context id may belong to, and which ids were given out.
Claimed(x, c) ==
    \/ x \in told[c] \/ c \in owner[x]
    \/ \E t \in Slots : pc[t] \in CtxAt /\ id[t] = x /\ who[t] = c
    \/ cmd \in ClientCommand /\ cmd.ctx = x /\ cmd.who = c
Given(x) ==
    \/ x \in 2 .. kernCtx \/ (FirstUserCtx <= x /\ x < nextCtx)
    \/ \E t \in Slots : pc[t] = "bump" /\ id[t] = x
Apart ==
    /\ ~crossed
    /\ \A x \in CtxIds \ {1} : \A c, d \in Clients : Claimed(x, c) /\ Claimed(x, d) => c = d
    /\ \A x \in CtxIds \ {1} : \A c \in Clients : Claimed(x, c) => Given(x)
    /\ \A t \in Slots : pc[t] = "bump" => id[t] = nextCtx
    /\ \A t, u \in Slots : pc[t] = "bump" /\ pc[u] = "bump" => t = u
ApartInv == raced \/ kernCtx >= FirstUserCtx \/ Apart

\* Who answers for a context on the device.
Answers4(t, x) ==
    /\ id[t] = x
    /\ \/ pc[t] = "destroy"
       \/ pc[t] = "create" /\ caller = t /\ backlog = 0 /\ answer # "err"
LeakInv ==
    \A x \in (ctxs \cap CtxIds) \ (lost \cup suspect) :
        (\E c \in Clients : x \in told[c]) \/ \E t \in Slots : Answers4(t, x)

\* Who will destroy the probe's context.
Agent(t) ==
    \/ /\ op[t] = "probe1"
       /\ \/ pc[t] \in {"B", "C", "D", "E", "U", "X"}
          \/ pc[t] = "A" /\ caller = t /\ backlog = 0 /\ answer # "err"
    \/ op[t] \in LaterOps /\ pc[t] \in {"U", "X"} /\ who[t] \in named
AgentInv ==
    ProbeCtx \in ctxs =>
        \/ exposed \/ ProbeCtx \in suspect
        \/ \E c \in Clients : c \in busy /\ c \in named
        \/ \E t \in Slots : Agent(t)

\* The probe's pages, as long as no client overlaps its calls.
Pinned(t) == op[t] = "probe1" /\ pc[t] \in {"D", "E"}
Orderly ==
    /\ ~fault
    /\ \A t, u \in Slots : pc[t] # "idle" /\ pc[u] # "idle" /\ who[t] = who[u] => t = u
    /\ \A t \in Slots : pc[t] # "idle" => who[t] \in dev
    /\ \A d \in Descs : d \in wired <=> \/ \E c \in Clients : held[c] = d
                                        \/ \E t \in Slots : Pinned(t) /\ desc[t] = d
    /\ \A c \in Clients : held[c] <= calls
    /\ \A c, d \in Clients : held[c] = held[d] /\ held[c] # NoDesc => c = d
    /\ \A t \in Slots : op[t] = "probe1" /\ pc[t] \in ProbeAt =>
          /\ who[t] \notin busy
          /\ \A c \in Clients : held[c] # desc[t]
          /\ \A u \in Slots : op[u] = "probe1" /\ pc[u] \in ProbeAt /\ desc[u] = desc[t] => u = t
    /\ \A t \in Slots : op[t] \in LaterOps /\ pc[t] \in ProbeAt =>
          /\ who[t] \in named
          /\ pc[t] = "F" <=> who[t] \in busy
    /\ busy \subseteq named
PagesInv == overlap \/ Orderly

Inv == /\ Types /\ ChanInv /\ CallerInv /\ DoneInv /\ BackingInv
       /\ ApartInv /\ LeakInv /\ AgentInv /\ PagesInv /\ ProbeDanglingExplained
       /\ SurfaceOneHolder

-----------------------------------------------------------------------------
(* Calls and their locals.                                                 *)

\* A step that changes one call's slot, and what the slot becomes.
Becomes(t, p, o, c, i, d) ==
    /\ pc'[t] = p /\ op'[t] = o /\ who'[t] = c /\ id'[t] = i /\ desc'[t] = d
    /\ \A u \in Slots : u # t => /\ pc'[u] = pc[u] /\ op'[u] = op[u] /\ who'[u] = who[u]
                                 /\ id'[u] = id[u] /\ desc'[u] = desc[u]
Locals == LocalTypes /\ LocalInv

\* More calls leave the locals as good as they were.
LEMMA LocalMore ==
    ASSUME NEW p, NEW o, NEW c, NEW i, NEW d, NEW n \in Nat, NEW m \in Nat, n <= m,
           LocalOk(p, o, c, i, d, n)
    PROVE  LocalOk(p, o, c, i, d, m)
BY DEF LocalOk

\* A slot takes new values that suit its position.
LEMMA SlotStep ==
    ASSUME Locals, NEW t \in Slots, NEW p \in Sending \cup {"idle", "bump", "advance", "make"},
           NEW o \in Ops, NEW c \in Clients \cup {NoClient}, NEW i \in Nat,
           NEW d \in Descs \cup {NoDesc}, calls' \in 0 .. MaxCalls, calls <= calls',
           LocalOk(p, o, c, i, d, calls'),
           pc' = [pc EXCEPT ![t] = p], op' = [op EXCEPT ![t] = o],
           who' = [who EXCEPT ![t] = c], id' = [id EXCEPT ![t] = i],
           desc' = [desc EXCEPT ![t] = d]
    PROVE  Locals' /\ Becomes(t, p, o, c, i, d)
<1>1. Becomes(t, p, o, c, i, d)
  BY DEF Locals, LocalTypes, Becomes
<1>2. LocalTypes'
  BY DEF Locals, LocalTypes
<1>3. calls \in Nat /\ calls' \in Nat
  BY UserClientAssumption DEF Locals, LocalTypes
<1>4. ASSUME NEW u \in Slots
      PROVE  LocalOk(pc'[u], op'[u], who'[u], id'[u], desc'[u], calls')
  <2>1. CASE u = t
    BY <1>1, <2>1, Zenon DEF Becomes
  <2>2. CASE u # t
    <3>1. /\ pc'[u] = pc[u] /\ op'[u] = op[u] /\ who'[u] = who[u]
          /\ id'[u] = id[u] /\ desc'[u] = desc[u]
      BY <1>1, <2>2, Zenon DEF Becomes
    <3>2. LocalOk(pc[u], op[u], who[u], id[u], desc[u], calls)
      BY Zenon DEF Locals, LocalInv
    <3>3. LocalOk(pc[u], op[u], who[u], id[u], desc[u], calls')
      BY ONLY <1>3, <3>2, LocalMore, calls <= calls'
    <3> QED BY ONLY <3>1, <3>3, Zenon
  <2> QED BY <2>1, <2>2
<1> QED BY ONLY <1>1, <1>2, <1>4, Zenon DEF Locals, LocalInv

\* Nothing happens to any slot.
Same(t) == /\ pc'[t] = pc[t] /\ op'[t] = op[t] /\ who'[t] = who[t] /\ id'[t] = id[t]
           /\ desc'[t] = desc[t]
LEMMA SlotsStay ==
    ASSUME Locals, calls' \in 0 .. MaxCalls, calls <= calls', UNCHANGED <<pc, locals>>
    PROVE  Locals' /\ \A t \in Slots : Same(t)
<1>1. UNCHANGED <<pc, op, who, id, desc>>
  BY DEF locals
<1>2. LocalTypes'
  BY <1>1 DEF Locals, LocalTypes
<1>3. calls \in Nat /\ calls' \in Nat
  BY UserClientAssumption DEF Locals, LocalTypes
<1>4. ASSUME NEW u \in Slots
      PROVE  LocalOk(pc'[u], op'[u], who'[u], id'[u], desc'[u], calls')
  <2>1. LocalOk(pc[u], op[u], who[u], id[u], desc[u], calls)
    BY Zenon DEF Locals, LocalInv
  <2>2. LocalOk(pc[u], op[u], who[u], id[u], desc[u], calls')
    BY ONLY <1>3, <2>1, LocalMore, calls <= calls'
  <2> QED BY ONLY <1>1, <2>2, Zenon
<1> QED BY <1>1, <1>2, <1>4, Zenon DEF Locals, LocalInv, Same

\* A call begins in an idle slot.
FirstDesc(o) == IF o = "probe1" THEN calls + 1 ELSE NoDesc
LEMMA BeginStep ==
    ASSUME Locals, NEW t \in Slots, NEW p \in Sending \cup {"idle", "bump", "advance", "make"},
           NEW o \in Ops, NEW c \in Clients, NEW i \in Nat, Begin(t, c, o, i, p),
           calls' \in 0 .. MaxCalls, calls <= calls', o = "probe1" => calls' = calls + 1,
           LocalOk(p, o, c, i, FirstDesc(o), calls')
    PROVE  /\ Locals' /\ Becomes(t, p, o, c, i, FirstDesc(o))
           /\ pc[t] = "idle" /\ (overlap' <=> overlap \/ InCall(c))
<1>1. /\ pc' = [pc EXCEPT ![t] = p] /\ op' = [op EXCEPT ![t] = o]
      /\ who' = [who EXCEPT ![t] = c] /\ id' = [id EXCEPT ![t] = i]
      /\ desc' = [desc EXCEPT ![t] = FirstDesc(o)]
  BY Zenon DEF Begin, FirstDesc
<1>2. FirstDesc(o) \in Descs \cup {NoDesc}
  BY UserClientAssumption DEF Locals, LocalTypes, FirstDesc, Descs, NoDesc
<1>3. Locals' /\ Becomes(t, p, o, c, i, FirstDesc(o))
  BY <1>1, <1>2, SlotStep
<1> QED BY <1>3, Zenon DEF Begin

\* externalMethod starts a call.
Entered(t, c, o, i, p) ==
    /\ Becomes(t, p, o, c, i, FirstDesc(o))
    /\ pc[t] = "idle" /\ (overlap' <=> overlap \/ InCall(c))
    /\ calls' = calls + 1 /\ c \in open /\ c \in dev
LEMMA EnterStep ==
    ASSUME Locals, NEW t \in Slots, NEW p \in Sending \cup {"idle", "bump", "advance", "make"},
           NEW o \in Ops, NEW c \in Clients, NEW i \in Nat, Enter(t, c, o, i, p),
           LocalOk(p, o, c, i, FirstDesc(o), calls + 1)
    PROVE  Locals' /\ Entered(t, c, o, i, p)
<1>1. calls' = calls + 1 /\ calls < MaxCalls /\ c \in open /\ c \in dev /\ Begin(t, c, o, i, p)
  BY Zenon DEF Enter
<1>2. calls' \in 0 .. MaxCalls /\ calls <= calls'
  BY <1>1, UserClientAssumption DEF Locals, LocalTypes
<1>3. Locals' /\ Becomes(t, p, o, c, i, FirstDesc(o))
      /\ pc[t] = "idle" /\ (overlap' <=> overlap \/ InCall(c))
  BY <1>1, <1>2, BeginStep
<1> QED BY <1>1, <1>3, Zenon DEF Entered

\* A call goes on at another position.
Went(t, p) == Becomes(t, p, op[t], who[t], id[t], desc[t])
LEMMA GoStep ==
    ASSUME Locals, NEW t \in Slots, NEW p \in Sending \cup {"idle", "bump", "advance", "make"},
           Go(t, p), UNCHANGED calls,
           LocalOk(p, op[t], who[t], id[t], desc[t], calls)
    PROVE  Locals' /\ Went(t, p)
<1>1. /\ pc' = [pc EXCEPT ![t] = p]
      /\ UNCHANGED <<op, who, id, desc>>
  BY Zenon DEF Go, locals
<1>2. LocalTypes' /\ Went(t, p)
  BY <1>1 DEF Locals, LocalTypes, Becomes, Went
<1>3. ASSUME NEW u \in Slots
      PROVE  LocalOk(pc'[u], op'[u], who'[u], id'[u], desc'[u], calls')
  <2>1. CASE u = t
    BY <1>2, <2>1, Zenon DEF Becomes, Went
  <2>2. CASE u # t
    <3>1. /\ pc'[u] = pc[u] /\ op'[u] = op[u] /\ who'[u] = who[u]
          /\ id'[u] = id[u] /\ desc'[u] = desc[u]
      BY <1>2, <2>2, Zenon DEF Becomes, Went
    <3>2. LocalOk(pc[u], op[u], who[u], id[u], desc[u], calls)
      BY Zenon DEF Locals, LocalInv
    <3> QED BY <3>1, <3>2, Zenon
  <2> QED BY <2>1, <2>2
<1> QED BY ONLY <1>2, <1>3, Zenon DEF Locals, LocalInv

\* A call returns.
Left(t) == Becomes(t, "idle", "none", NoClient, 0, NoDesc)
LEMMA ReturnStep ==
    ASSUME Locals, NEW t \in Slots, Return(t), UNCHANGED calls
    PROVE  Locals' /\ Left(t)
<1>1. /\ pc' = [pc EXCEPT ![t] = "idle"] /\ op' = [op EXCEPT ![t] = "none"]
      /\ who' = [who EXCEPT ![t] = NoClient] /\ id' = [id EXCEPT ![t] = 0]
      /\ desc' = [desc EXCEPT ![t] = NoDesc]
  BY Zenon DEF Return
<1>2. LocalOk("idle", "none", NoClient, 0, NoDesc, calls')
  BY DEF LocalOk, CtxAt, ProbeAt
<1>3. calls' \in 0 .. MaxCalls /\ calls <= calls'
  BY UserClientAssumption DEF Locals, LocalTypes
<1>4. "none" \in Ops /\ 0 \in Nat /\ NoDesc \in Descs \cup {NoDesc}
  BY DEF Ops
<1> QED BY <1>1, <1>2, <1>3, <1>4, SlotStep, Zenon DEF Left

-----------------------------------------------------------------------------
(* The command buffer.                                                     *)

Chan == ChanInv /\ CallerInv /\ DoneInv /\ BackingInv
DevSame == UNCHANGED <<ctxs, owner, res, backing>>

\* A step that leaves the waiting call alone.
LEMMA ChanFrame ==
    ASSUME Chan, UNCHANGED <<channel, caller, suspect, ctxs, res, backing>>,
           caller # NoSlot => Same(caller), named' \subseteq named
    PROVE  Chan'
<1>1. /\ UNCHANGED <<cmd, backlog, pushing, moved, answer, waiting>>
      /\ UNCHANGED <<caller, suspect, ctxs, res, backing>>
  BY Zenon DEF channel
<1>2. ChanInv'
  BY <1>1, Zenon DEF Chan, ChanInv, ChannelTypeOK
<1>3. CallerInv'
  <2> SUFFICES ASSUME caller # NoSlot PROVE CallerInv'
    BY <1>1, Zenon DEF CallerInv
  <2>1. Same(caller)
    OBVIOUS
  <2>2. TypeOf(caller)' = TypeOf(caller)
    BY <1>1, <2>1, Zenon DEF TypeOf, Same
  <2>3. (Unanswered <=> Unanswered') /\ (Replied <=> Replied')
    BY <1>1, Zenon DEF Unanswered, Replied
  <2>4. /\ pc'[caller] = pc[caller] /\ op'[caller] = op[caller] /\ who'[caller] = who[caller]
        /\ id'[caller] = id[caller] /\ desc'[caller] = desc[caller]
    BY <2>1, Zenon DEF Same
  <2>5. who[caller] \notin named => who[caller] \notin named'
    OBVIOUS
  <2>6. CallerInv
    BY DEF Chan
  <2> QED BY ONLY <1>1, <2>2, <2>3, <2>4, <2>5, <2>6, Zenon DEF CallerInv
<1>4. DoneInv'
  <2> SUFFICES ASSUME caller # NoSlot PROVE DoneInv'
    BY <1>1, Zenon DEF DoneInv
  <2>1. id'[caller] = id[caller]
    BY Zenon DEF Same
  <2> QED BY <1>1, <2>1, Zenon DEF Chan, DoneInv
<1>5. BackingInv'
  BY <1>1 DEF Chan, BackingInv, NoDesc
<1> QED BY <1>2, <1>3, <1>4, <1>5, Zenon DEF Chan

\* A call sends its command.
Sent(t) ==
    /\ caller = NoSlot /\ caller' = t /\ pc[t] \in Sending
    /\ backlog' # 0 /\ suspect \subseteq suspect'
    /\ cmd' \in ClientCommand /\ cmd'.ctx = id[t] /\ cmd'.who = who[t]
    /\ DevSame
LEMMA SendStep ==
    ASSUME Locals, Chan, NEW t \in Slots, SendCommand(t)
    PROVE  Chan' /\ Sent(t)
<1> DEFINE full == [type |-> TypeOf(t), ctx |-> id[t], who |-> who[t], desc |-> desc[t]]
           c == IF Nameless(t) THEN Nothing(t) ELSE full
<1>1. /\ pc[t] \in Sending /\ Send(c) /\ caller' = t
      /\ suspect' = IF Quiet THEN suspect ELSE suspect \cup {id[t]}
      /\ UNCHANGED <<pc, op, who, id, desc, named, ctxs, owner, res, backing>>
  BY DEF SendCommand, locals, probe, device
<1>2. LocalOk(pc[t], op[t], who[t], id[t], desc[t], calls)
  BY Zenon DEF Locals, LocalInv
<1>3. /\ who[t] \in Clients /\ id[t] \in CtxIds \cup {ProbeCtx}
      /\ desc[t] \in Descs \cup {NoDesc}
      /\ pc[t] \in {"B", "D", "E", "F", "U"} => id[t] = ProbeCtx
      /\ pc[t] \in {"create", "A"} => id[t] # 1
  <2>1. desc[t] \in Descs \cup {NoDesc}
    BY DEF Locals, LocalTypes
  <2> QED BY <1>1, <1>2, <2>1, UserClientAssumption DEF LocalOk, Sending, CtxAt, ProbeAt, CtxIds
<1>4. /\ TypeOf(t) \in CommandTypes \ {"none"}
      /\ TypeOf(t) \in {"rcreate", "attach", "xfer", "unref"} => pc[t] \in {"B", "D", "E", "F", "U"}
      /\ TypeOf(t) = "create" => pc[t] \in {"create", "A"}
  BY <1>1 DEF TypeOf, Sending, CommandTypes
<1> HIDE DEF full
<1>5. full \in ClientCommand /\ full.type = TypeOf(t) /\ full.ctx = id[t] /\ full.who = who[t]
      /\ full.desc = desc[t]
  BY <1>3, <1>4 DEF full, ClientCommand
<1>6. /\ Nothing(t) \in ClientCommand /\ Nothing(t).type = "none" /\ Nothing(t).ctx = ProbeCtx
      /\ Nothing(t).who = who[t]
  BY <1>3 DEF Nothing, ClientCommand, CommandTypes
<1>7. Nameless(t) => /\ id[t] = ProbeCtx /\ op[t] # "probe1" /\ pc[t] \in {"F", "U", "X"}
                     /\ who[t] \notin named
  BY <1>2 DEF Nameless, LocalOk, ProbeAt
<1>8. /\ c \in ClientCommand /\ c.ctx = id[t] /\ c.who = who[t]
      /\ IF c.type = "none"
         THEN op[t] # "probe1" /\ pc[t] \in {"F", "U", "X"} /\ who[t] \notin named
         ELSE c.type = TypeOf(t) /\ c.desc = desc[t]
      /\ c.type \in {"rcreate", "attach", "xfer", "unref"} => c.ctx = ProbeCtx
      /\ c.type = "create" => c.ctx # 1
  <2>1. CASE Nameless(t)
    BY ONLY <2>1, <1>6, <1>7
  <2>2. CASE ~Nameless(t)
    BY ONLY <2>2, <1>3, <1>4, <1>5
  <2> QED BY <2>1, <2>2
<1> HIDE DEF c
<1>9. /\ ~waiting /\ backlog < MaxBacklog /\ cmd' = c /\ backlog' = backlog + 1
      /\ waiting' = TRUE /\ moved' = moved /\ pushing' = pushing /\ answer' = answer
  BY <1>1, Zenon DEF Send
<1>10. caller = NoSlot
  BY <1>9, Zenon DEF Chan, ChanInv
<1>11. backlog \in 0 .. MaxBacklog /\ backlog' \in 0 .. MaxBacklog /\ backlog' # 0
  BY <1>9, ChannelAssumption DEF Chan, ChanInv, ChannelTypeOK
<1>12. ChannelTypeOK'
  <2>1. c \in Command \cup {NoCommand}
    BY <1>8, ClientCommandAssumption
  <2> QED BY <1>9, <1>11, <2>1, Zenon DEF Chan, ChanInv, ChannelTypeOK
<1>13. ChanInv'
  <2>1. caller' \in Slots /\ caller' # NoSlot
    BY <1>1, UserClientAssumption
  <2>2. res' \in BOOLEAN
    BY <1>1, Zenon DEF Chan, ChanInv
  <2> QED BY ONLY <1>8, <1>9, <1>12, <2>1, <2>2, Zenon DEF ChanInv
<1>14. CallerInv'
  <2>1. TypeOf(caller)' = TypeOf(t)
    BY <1>1, Zenon DEF TypeOf
  <2>2. id[t] \notin suspect' => Quiet
    BY <1>1
  <2>3. Quiet => Unanswered'
    BY <1>9, ChannelAssumption DEF Quiet, Unanswered
  <2> QED BY ONLY <1>1, <1>8, <1>9, <2>1, <2>2, <2>3, Zenon DEF CallerInv
<1>15. DoneInv'
  BY <1>11, Zenon DEF DoneInv
<1>16. BackingInv'
  BY <1>1, Zenon DEF Chan, BackingInv, NoDesc
<1>17. suspect \subseteq suspect'
  BY <1>1
<1> QED BY <1>1, <1>8, <1>9, <1>10, <1>11, <1>13, <1>14, <1>15, <1>16, <1>17, Zenon
        DEF Chan, Sent, DevSame

\* submitCommand returns.  Above suspicion, the answer is the command's own.
Ended(t, ok) ==
    /\ caller = t /\ caller' = NoSlot /\ DevSame /\ UNCHANGED <<backlog, answer>>
    /\ suspect \subseteq suspect'
    /\ id[t] \notin suspect' =>
          /\ id[t] \notin suspect /\ backlog = 0 /\ (ok <=> answer # "err")
    /\ UNCHANGED <<dev, open, freed, nextCtx, kernCtx, nextSurf, pool, surf, calls, exposed,
                   raced, overlap, crossed, cmd>>
LEMMA ReturnedStep ==
    ASSUME Chan, NEW t \in Slots, NEW p, NEW ok, Returned(t, p, ok)
    PROVE  Chan' /\ Ended(t, ok) /\ pc[t] = p
<1>1. /\ pc[t] = p /\ caller = t /\ caller' = NoSlot
      /\ \/ Answered /\ ok = (answer # "err") /\ UNCHANGED <<suspect, timeouts>>
         \/ TimedOut /\ suspect' = suspect \cup {id[t]}
      /\ UNCHANGED <<ctxs, owner, res, backing>>
      /\ UNCHANGED <<dev, open, freed, nextCtx, kernCtx, nextSurf, pool, surf, calls, exposed,
                     raced, overlap, crossed>>
  BY Zenon DEF Returned, device, clients, surfaces
<1>2. t # NoSlot
  BY UserClientAssumption
<1>3. /\ UNCHANGED <<cmd, backlog, pushing, answer>> /\ waiting' = FALSE /\ moved' \in BOOLEAN
  BY <1>1, Zenon DEF Answered, TimedOut, Chan, ChanInv, ChannelTypeOK
<1>4. suspect \subseteq suspect'
  BY <1>1
<1>5. id[t] \notin suspect' => Answered /\ ok = (answer # "err") /\ id[t] \notin suspect
  BY <1>1
<1>6. id[t] \notin suspect' => backlog = 0
  <2>1. id[t] \notin suspect => Unanswered \/ Replied
    BY <1>1, <1>2, Zenon DEF Chan, CallerInv
  <2> QED BY <1>5, <2>1, Zenon DEF Unanswered, Replied, Answered
<1>7. ChanInv'
  <2>1. ChannelTypeOK' /\ res' \in BOOLEAN
    BY <1>1, <1>3, Zenon DEF Chan, ChanInv, ChannelTypeOK
  <2>2. cmd.ctx = id[t]
    BY <1>1, <1>2, Zenon DEF Chan, CallerInv
  <2>3. backlog > 0 => cmd.ctx \in suspect'
    BY <1>6, <2>2
  <2>4. caller' \in Slots \cup {NoSlot} /\ (waiting' <=> caller' # NoSlot)
    BY <1>1, <1>3, Zenon
  <2> QED BY <1>3, <2>1, <2>3, <2>4, Zenon DEF Chan, ChanInv
<1>8. CallerInv' /\ DoneInv'
  BY <1>1, Zenon DEF CallerInv, DoneInv
<1>9. BackingInv'
  BY <1>1 DEF Chan, BackingInv, NoDesc
<1> QED BY <1>1, <1>3, <1>4, <1>5, <1>6, <1>7, <1>8, <1>9, Zenon DEF Chan, Ended, DevSame

\* The device's completion.
LEMMA PushStep ==
    ASSUME Chan, Push, UNCHANGED <<caller, suspect, named, ctxs, res, backing, pc, locals>>
    PROVE  Chan' /\ UNCHANGED <<cmd, backlog, answer, waiting>>
<1>1. /\ pushing /\ pushing' = FALSE /\ (moved' = TRUE \/ (~waiting /\ moved' = moved))
      /\ UNCHANGED <<cmd, backlog, answer, waiting>>
  BY Zenon DEF Push
<1>2. UNCHANGED <<pc, op, who, id, desc, caller, suspect, named, ctxs, res, backing>>
  BY DEF locals
<1>3. moved' \in BOOLEAN
  BY <1>1, Zenon DEF Chan, ChanInv, ChannelTypeOK
<1>4. ChanInv'
  <2>1. ChannelTypeOK'
    BY <1>1, <1>3, Zenon DEF Chan, ChanInv, ChannelTypeOK
  <2> QED BY <1>1, <1>2, <2>1, Zenon DEF Chan, ChanInv
<1>5. CallerInv'
  <2> SUFFICES ASSUME caller # NoSlot PROVE CallerInv'
    BY <1>2, Zenon DEF CallerInv
  <2>1. TypeOf(caller)' = TypeOf(caller)
    BY <1>2, Zenon DEF TypeOf
  <2>2. waiting
    BY Zenon DEF Chan, ChanInv
  <2>3. moved' = TRUE
    BY <1>1, <2>2, Zenon
  <2>4. Replied => Replied'
    <3>1. Replied => backlog' = 0
      BY <1>1, Zenon DEF Replied
    <3>2. pushing' # moved'
      BY <1>1, <2>3
    <3> QED BY <3>1, <3>2, Zenon DEF Replied
  <2>5. ~Unanswered
    BY <1>1, Zenon DEF Unanswered
  <2>6. CallerInv
    BY DEF Chan
  <2> QED BY ONLY <1>1, <1>2, <2>1, <2>4, <2>5, <2>6, Zenon DEF CallerInv
<1>6. DoneInv'
  BY <1>1, <1>2, Zenon DEF Chan, DoneInv, NoDesc
<1>7. BackingInv'
  BY <1>2 DEF Chan, BackingInv, NoDesc
<1> QED BY <1>1, <1>4, <1>5, <1>6, <1>7, Zenon DEF Chan

\* What the device does, by the command it finds.
DidCreate ==
    /\ cmd.type = "create" /\ ctxs' = ctxs \cup {cmd.ctx} /\ answer' = "nodata"
    /\ owner' = [owner EXCEPT ![cmd.ctx] = {cmd.who}]
    /\ UNCHANGED <<res, backing>> /\ (crossed' <=> crossed)
DidDestroy ==
    /\ cmd.type = "destroy" /\ ctxs' = ctxs \ {cmd.ctx}
    /\ owner' = [owner EXCEPT ![cmd.ctx] = {}]
    /\ UNCHANGED <<res, backing>> /\ (crossed' <=> crossed)
DidUse ==
    /\ cmd.type = "use" /\ cmd.ctx \in ctxs
    /\ (crossed' <=> crossed \/ (cmd.ctx # ProbeCtx /\ owner[cmd.ctx] # {cmd.who}))
    /\ DevSame
DidMake ==
    /\ cmd.type = "rcreate" /\ res' = TRUE
    /\ UNCHANGED <<ctxs, owner, backing>> /\ (crossed' <=> crossed)
DidAttach ==
    /\ cmd.type = "attach" /\ res' = TRUE /\ backing' = cmd.desc
    /\ UNCHANGED <<ctxs, owner>> /\ (crossed' <=> crossed)
DidUnref ==
    /\ cmd.type = "unref" /\ res' = FALSE /\ backing' = NoDesc
    /\ UNCHANGED <<ctxs, owner>> /\ (crossed' <=> crossed)
DidNothing ==
    /\ (cmd.type = "destroy" => cmd.ctx \notin ctxs) /\ (cmd.type = "unref" => ~res)
    /\ DevSame /\ (crossed' <=> crossed)
Obeys == \/ DidCreate \/ DidDestroy \/ DidUse \/ DidMake \/ DidAttach \/ DidUnref
         \/ DidNothing
DevRest == UNCHANGED <<cmd, caller, timeouts, clients, counters, surfaces, told, probe, pc, locals,
                       calls, suspect, lost, exposed, raced, overlap, fault, waiting, moved>>
LEMMA ObeyStep ==
    ASSUME Chan, DevExecute
    PROVE  /\ Obeys /\ DevRest /\ cmd \in ClientCommand
           /\ backlog > 0 /\ backlog' = backlog - 1 /\ pushing' = TRUE /\ ~pushing
           /\ answer' \in Answers
<1>1. cmd \in ClientCommand /\ backlog > 0
  BY DEF DevExecute, Chan, ChanInv
<1>2. cmd.type \in CommandTypes
  BY <1>1 DEF ClientCommand
<1>3. /\ cmd.type = "create" => (Can <=> cmd.ctx \notin ctxs)
      /\ cmd.type \in {"destroy", "use"} => (Can <=> cmd.ctx \in ctxs)
      /\ cmd.type = "attach" => (Can <=> res /\ backing = NoDesc)
      /\ cmd.type = "unref" => (Can <=> res)
      /\ cmd.type = "none" => ~Can
  BY Zenon DEF Can
<1>4. /\ ~pushing /\ backlog' = backlog - 1 /\ pushing' = TRUE /\ DevRest
      /\ answer' \in {"nodata", "err"}
  BY Zenon DEF DevExecute, Execute, DevRest
<1> SUFFICES Obeys
  BY <1>1, <1>4, Zenon DEF Answers
<1>5. res \in BOOLEAN
  BY DEF Chan, ChanInv
<1>6. CASE Can /\ Execute("nodata")
           /\ ctxs' = (CASE cmd.type = "create" -> ctxs \cup {cmd.ctx}
                         [] cmd.type = "destroy" -> ctxs \ {cmd.ctx}
                         [] OTHER -> ctxs)
           /\ owner' = (CASE cmd.type = "create" -> [owner EXCEPT ![cmd.ctx] = {cmd.who}]
                          [] cmd.type = "destroy" -> [owner EXCEPT ![cmd.ctx] = {}]
                          [] OTHER -> owner)
           /\ res' = (IF cmd.type = "unref" THEN FALSE ELSE res \/ cmd.type = "rcreate")
           /\ backing' = (CASE cmd.type = "attach" -> cmd.desc
                            [] cmd.type = "unref" -> NoDesc
                            [] OTHER -> backing)
           /\ crossed' = (crossed \/ (/\ cmd.type = "use" /\ cmd.ctx # ProbeCtx
                                      /\ owner[cmd.ctx] # {cmd.who}))
  <2>1. answer' = "nodata"
    BY <1>6, Zenon DEF Execute
  <2>2. CASE cmd.type = "create"
    <3>1. ctxs' = ctxs \cup {cmd.ctx} /\ owner' = [owner EXCEPT ![cmd.ctx] = {cmd.who}]
          /\ backing' = backing
      BY <1>6, <2>2, Zenon
    <3>2. res' = res
      BY <1>3, <1>6, <2>2, <1>5, Zenon
    <3>3. crossed' <=> crossed
      BY <1>6, <2>2, Zenon
    <3>4. DidCreate
      BY ONLY <2>1, <2>2, <3>1, <3>2, <3>3, Zenon DEF DidCreate, DevSame
    <3> QED BY ONLY <3>4, Zenon DEF Obeys
  <2>3. CASE cmd.type = "destroy"
    <3>1. ctxs' = ctxs \ {cmd.ctx} /\ owner' = [owner EXCEPT ![cmd.ctx] = {}]
          /\ backing' = backing
      BY <1>6, <2>3, Zenon
    <3>2. res' = res
      BY <1>3, <1>6, <2>3, <1>5, Zenon
    <3>3. crossed' <=> crossed
      BY <1>6, <2>3, Zenon
    <3>4. DidDestroy
      BY ONLY <2>1, <2>3, <3>1, <3>2, <3>3, Zenon DEF DidDestroy, DevSame
    <3> QED BY ONLY <3>4, Zenon DEF Obeys
  <2>4. CASE cmd.type = "use"
    <3>1. ctxs' = ctxs /\ owner' = owner /\ backing' = backing
      BY <1>6, <2>4, Zenon
    <3>2. res' = res
      BY <1>3, <1>6, <2>4, <1>5, Zenon
    <3>3. crossed' <=> crossed \/ (cmd.ctx # ProbeCtx /\ owner[cmd.ctx] # {cmd.who})
      BY <1>6, <2>4, Zenon
    <3>5. Can
      BY <1>6
    <3>4. DidUse
      BY ONLY <1>3, <3>5, <2>1, <2>4, <3>1, <3>2, <3>3, Zenon DEF DidUse, DevSame
    <3> QED BY ONLY <3>4, Zenon DEF Obeys
  <2>5. CASE cmd.type = "rcreate"
    <3>1. ctxs' = ctxs /\ owner' = owner /\ backing' = backing
      BY <1>6, <2>5, Zenon
    <3>2. res' = TRUE
      BY <1>3, <1>6, <2>5, <1>5, Zenon
    <3>3. crossed' <=> crossed
      BY <1>6, <2>5, Zenon
    <3>4. DidMake
      BY ONLY <2>1, <2>5, <3>1, <3>2, <3>3, Zenon DEF DidMake, DevSame
    <3> QED BY ONLY <3>4, Zenon DEF Obeys
  <2>6. CASE cmd.type = "attach"
    <3>1. ctxs' = ctxs /\ owner' = owner /\ backing' = cmd.desc
      BY <1>6, <2>6, Zenon
    <3>2. res' = TRUE
      BY <1>3, <1>6, <2>6, <1>5, Zenon
    <3>3. crossed' <=> crossed
      BY <1>6, <2>6, Zenon
    <3>4. DidAttach
      BY ONLY <2>1, <2>6, <3>1, <3>2, <3>3, Zenon DEF DidAttach, DevSame
    <3> QED BY ONLY <3>4, Zenon DEF Obeys
  <2>7. CASE cmd.type = "unref"
    <3>1. ctxs' = ctxs /\ owner' = owner /\ backing' = NoDesc
      BY <1>6, <2>7, Zenon
    <3>2. res' = FALSE
      BY <1>3, <1>6, <2>7, <1>5, Zenon
    <3>3. crossed' <=> crossed
      BY <1>6, <2>7, Zenon
    <3>4. DidUnref
      BY ONLY <2>1, <2>7, <3>1, <3>2, <3>3, Zenon DEF DidUnref, DevSame
    <3> QED BY ONLY <3>4, Zenon DEF Obeys
  <2>8. CASE cmd.type = "xfer"
    <3>1. ctxs' = ctxs /\ owner' = owner /\ backing' = backing
      BY <1>6, <2>8, Zenon
    <3>2. res' = res
      BY <1>3, <1>6, <2>8, <1>5, Zenon
    <3>3. crossed' <=> crossed
      BY <1>6, <2>8, Zenon
    <3>4. DidNothing
      BY ONLY <2>1, <2>8, <3>1, <3>2, <3>3, Zenon DEF DidNothing, DevSame
    <3> QED BY ONLY <3>4, Zenon DEF Obeys
  <2> QED BY <1>2, <1>3, <1>6, <2>2, <2>3, <2>4, <2>5, <2>6, <2>7, <2>8, Zenon DEF CommandTypes
<1>7. CASE /\ UNCHANGED <<device, crossed>>
           /\ (Can => cmd.type \in {"create", "rcreate", "attach", "xfer"}) \/ cmd.type = "create"
  <2>1. DevSame /\ (crossed' <=> crossed)
    BY <1>7, Zenon DEF device, DevSame
  <2>2. (cmd.type = "destroy" => cmd.ctx \notin ctxs) /\ (cmd.type = "unref" => ~res)
    BY <1>3, <1>7, Zenon
  <2>3. DidNothing
    BY ONLY <2>1, <2>2, Zenon DEF DidNothing
  <2> QED BY ONLY <2>3, Zenon DEF Obeys
<1> QED BY <1>6, <1>7, Zenon DEF DevExecute

\* A command above suspicion is the waiting call's, and the last on the ring.
LEMMA Trusted ==
    ASSUME Chan, DevExecute, cmd.ctx \notin suspect
    PROVE  /\ caller \in Slots /\ caller' = caller /\ id[caller] = cmd.ctx /\ backlog' = 0
           /\ who[caller] = cmd.who
           /\ cmd.type # "none" => cmd.type = TypeOf(caller) /\ cmd.desc = desc[caller]
           /\ moved = FALSE
<1>1. /\ backlog > 0 /\ backlog' = backlog - 1 /\ caller' = caller
  BY ObeyStep DEF DevRest
<1>2. caller \in Slots /\ caller # NoSlot
  BY <1>1 DEF Chan, ChanInv
<1>3. id[caller] = cmd.ctx /\ who[caller] = cmd.who
      /\ (cmd.type # "none" => cmd.type = TypeOf(caller) /\ cmd.desc = desc[caller])
      /\ (Unanswered \/ Replied)
  BY <1>2, Zenon DEF Chan, CallerInv
<1>4. backlog = 1 /\ ~moved
  BY <1>1, <1>3 DEF Unanswered, Replied
<1>5. moved = FALSE
  BY <1>4, Zenon DEF Chan, ChanInv, ChannelTypeOK
<1> QED BY <1>1, <1>2, <1>3, <1>4, <1>5

\* The device executes what it finds.
LEMMA ExecuteChan ==
    ASSUME Chan, DevExecute
    PROVE  Chan'
<1>1. /\ Obeys /\ DevRest /\ cmd \in ClientCommand
      /\ backlog > 0 /\ backlog' = backlog - 1 /\ pushing' = TRUE /\ ~pushing
      /\ answer' \in Answers
  BY ObeyStep
<1>2. UNCHANGED <<cmd, caller, suspect, waiting, moved, pc, op, who, id, desc, named>>
  BY <1>1 DEF DevRest, locals, probe
<1>3. res' \in BOOLEAN
  BY <1>1, Zenon DEF Obeys, DidCreate, DidDestroy, DidUse, DidMake, DidAttach, DidUnref,
                     DidNothing, DevSame, Chan, ChanInv
<1>4. ChanInv'
  <2>1. backlog' \in 0 .. MaxBacklog
    BY <1>1, ChannelAssumption DEF Chan, ChanInv, ChannelTypeOK
  <2>2. ChannelTypeOK'
    BY <1>1, <1>2, <2>1, Zenon DEF Chan, ChanInv, ChannelTypeOK
  <2> QED BY <1>1, <1>2, <1>3, <2>2, Zenon DEF Chan, ChanInv
<1>5. CallerInv'
  <2> SUFFICES ASSUME caller # NoSlot PROVE CallerInv'
    BY <1>2, Zenon DEF CallerInv
  <2>1. TypeOf(caller)' = TypeOf(caller)
    BY <1>2, Zenon DEF TypeOf
  <2>2. CallerInv
    BY DEF Chan
  <2>3. id[caller] \notin suspect => backlog' = 0 /\ moved' = FALSE
    BY <1>2, <2>2, Trusted, Zenon DEF CallerInv
  <2>4. backlog' = 0 /\ moved' = FALSE => Replied'
    <3>1. moved' = FALSE => pushing' # moved'
      BY <1>1
    <3> QED BY <3>1, Zenon DEF Replied
  <2> QED BY ONLY <1>2, <2>1, <2>2, <2>3, <2>4, Zenon DEF CallerInv
<1>6. DoneInv'
  <2>1. cmd.type = "destroy" => cmd.ctx \notin ctxs'
    BY <1>1 DEF Obeys, DidCreate, DidDestroy, DidUse, DidMake, DidAttach, DidUnref,
                       DidNothing, DevSame
  <2>2. cmd.type = "unref" => backing' = NoDesc
    <3>1. ~res => backing = NoDesc
      BY DEF Chan, BackingInv
    <3> QED BY <1>1, <3>1, Zenon DEF Obeys, DidCreate, DidDestroy, DidUse, DidMake, DidAttach, DidUnref,
                       DidNothing, DevSame
  <2> QED BY <1>2, <2>1, <2>2, Zenon DEF DoneInv, NoDesc
<1>7. BackingInv'
  <2>1. ~res => backing = NoDesc
    BY DEF Chan, BackingInv
  <2>2. ~res' => backing' = NoDesc
    <3>1. (res' = res /\ backing' = backing) \/ res' = TRUE \/ backing' = NoDesc
      BY <1>1, Zenon DEF Obeys, DidCreate, DidDestroy, DidUse, DidMake, DidAttach, DidUnref,
                         DidNothing, DevSame
    <3> QED BY ONLY <2>1, <3>1
  <2> QED BY <2>2 DEF BackingInv, NoDesc
<1> QED BY <1>4, <1>5, <1>6, <1>7, Zenon DEF Chan

LEMMA ExecuteTypes ==
    ASSUME Types, Chan, DevExecute
    PROVE  Types'
<1>1. Obeys /\ DevRest /\ cmd \in ClientCommand /\ backlog > 0
  BY ObeyStep
<1>2. /\ UNCHANGED <<pc, op, who, id, desc, calls, dev, open, freed, ctxLock, kernCtx, nextCtx, told>>
      /\ UNCHANGED <<nextSurf, pool, surf, busy, named, held, wired>>
  BY <1>1, Zenon DEF DevRest, locals, clients, counters, surfaces, probe
<1>3. LocalTypes' /\ ClientTypes' /\ CtxTypes' /\ SurfTypes' /\ ProbeTypes'
  BY <1>2 DEF Types, LocalTypes, ClientTypes, CtxTypes, SurfTypes, ProbeTypes
<1>4. LocalInv'
  BY <1>2, Zenon DEF Types, LocalInv
<1>5. /\ cmd.ctx \in CtxIds \cup {ProbeCtx} /\ cmd.who \in Clients
      /\ cmd.desc \in Descs \cup {NoDesc} /\ (cmd.type = "create" => cmd.ctx # 1)
  BY <1>1 DEF ClientCommand, Chan, ChanInv
<1>6. DevTypes'
  <2>1. CASE DidCreate
    BY <1>5, <2>1 DEF Types, DevTypes, DidCreate
  <2>2. CASE DidDestroy
    BY <1>5, <2>2 DEF Types, DevTypes, DidDestroy
  <2>3. CASE DidUse \/ DidMake \/ DidAttach \/ DidUnref \/ DidNothing
    <3>1. ctxs' = ctxs /\ owner' = owner /\ backing' \in {backing, cmd.desc, NoDesc}
      BY <2>3 DEF DidUse, DidMake, DidAttach, DidUnref, DidNothing, DevSame
    <3> QED BY <1>5, <3>1 DEF Types, DevTypes
  <2> QED BY <1>1, <2>1, <2>2, <2>3 DEF Obeys
<1> QED BY <1>3, <1>4, <1>6, Zenon DEF Types

-----------------------------------------------------------------------------
(* What steps that do little leave in place.                               *)

UserIds == CtxIds \ {1}
\* No client comes to claim what it did not.
LEMMA ApartFrame ==
    ASSUME ApartInv, crossed' <=> crossed, raced => raced', UNCHANGED <<kernCtx, nextCtx>>,
           \A x \in UserIds : \A c \in Clients : Claimed(x, c)' => Claimed(x, c),
           \A t \in Slots : (pc'[t] = "bump" <=> pc[t] = "bump") /\ (pc[t] = "bump" => id'[t] = id[t])
    PROVE  ApartInv'
<1>1. CASE raced \/ kernCtx >= FirstUserCtx
  BY <1>1, Zenon DEF ApartInv
<1>2. CASE Apart
  <2>1. \A x \in UserIds : Given(x) => Given(x)'
    BY Zenon DEF Given
  <2>2. /\ ~crossed'
        /\ \A x \in UserIds : \A c, d \in Clients : Claimed(x, c)' /\ Claimed(x, d)' => c = d
        /\ \A x \in UserIds : \A c \in Clients : Claimed(x, c)' => Given(x)'
    BY <1>2, <2>1, Zenon DEF Apart, UserIds
  <2>3. /\ \A t \in Slots : pc'[t] = "bump" => id'[t] = nextCtx'
        /\ \A t, u \in Slots : pc'[t] = "bump" /\ pc'[u] = "bump" => t = u
    BY <1>2, Zenon DEF Apart
  <2> QED BY <2>2, <2>3, Zenon DEF ApartInv, Apart, UserIds
<1> QED BY <1>1, <1>2, Zenon DEF ApartInv

LEMMA ApartSlot ==
    ASSUME ApartInv, crossed' <=> crossed, raced => raced',
           UNCHANGED <<kernCtx, nextCtx, owner, cmd>>,
           NEW t \in Slots, NEW p, NEW o, NEW k, NEW i, NEW d, Becomes(t, p, o, k, i, d),
           p # "bump", pc[t] # "bump",
           \A x \in UserIds : \A c \in Clients : x \in told'[c] => Claimed(x, c),
           p \in CtxAt => i = 1 \/ Claimed(i, k)
    PROVE  ApartInv'
<1>1. ASSUME NEW x \in UserIds, NEW c \in Clients, Claimed(x, c)'
      PROVE  Claimed(x, c)
  <2>1. CASE x \in told'[c]
    BY <2>1
  <2>2. CASE c \in owner'[x] \/ (cmd' \in ClientCommand /\ cmd'.ctx = x /\ cmd'.who = c)
    BY <2>2, Zenon DEF Claimed
  <2>3. CASE \E u \in Slots : pc'[u] \in CtxAt /\ id'[u] = x /\ who'[u] = c
    <3>1. PICK u \in Slots : pc'[u] \in CtxAt /\ id'[u] = x /\ who'[u] = c
      BY <2>3
    <3>2. CASE u = t
      BY <3>1, <3>2 DEF Becomes, UserIds
    <3>3. CASE u # t
      BY <3>1, <3>3, Zenon DEF Becomes, Claimed
    <3> QED BY <3>2, <3>3
  <2> QED BY <1>1, <2>1, <2>2, <2>3, Zenon DEF Claimed, ClientCommand
<1>2. \A u \in Slots : (pc'[u] = "bump" <=> pc[u] = "bump") /\ (pc[u] = "bump" => id'[u] = id[u])
  BY Zenon DEF Becomes
<1> QED BY <1>1, <1>2, ApartFrame

LEMMA ApartStay ==
    ASSUME ApartInv, crossed' <=> crossed, raced => raced',
           UNCHANGED <<kernCtx, nextCtx, owner, cmd>>, \A t \in Slots : Same(t),
           \A x \in UserIds : \A c \in Clients : x \in told'[c] => Claimed(x, c)
    PROVE  ApartInv'
<1>1. ASSUME NEW x \in UserIds, NEW c \in Clients, Claimed(x, c)'
      PROVE  Claimed(x, c)
  <2>1. CASE x \in told'[c]
    BY <2>1
  <2>2. CASE c \in owner'[x] \/ (cmd' \in ClientCommand /\ cmd'.ctx = x /\ cmd'.who = c)
    BY <2>2, Zenon DEF Claimed
  <2>3. CASE \E u \in Slots : pc'[u] \in CtxAt /\ id'[u] = x /\ who'[u] = c
    BY <2>3, Zenon DEF Same, Claimed
  <2> QED BY <1>1, <2>1, <2>2, <2>3, Zenon DEF Claimed, ClientCommand
<1>2. \A u \in Slots : (pc'[u] = "bump" <=> pc[u] = "bump") /\ (pc[u] = "bump" => id'[u] = id[u])
  BY Zenon DEF Same
<1> QED BY <1>1, <1>2, ApartFrame

\* Every context keeps someone who answers for it.
Unexplained == (ctxs \cap CtxIds) \ (lost \cup suspect)
LEMMA LeakSlot ==
    ASSUME LeakInv, UNCHANGED <<ctxs, backlog, answer>>,
           lost \subseteq lost', suspect \subseteq suspect',
           NEW t \in Slots, NEW p, NEW o, NEW k, NEW i, NEW d, Becomes(t, p, o, k, i, d),
           caller # NoSlot /\ caller # t => caller' = caller,
           NoSlot \notin Slots,
           \A x \in Unexplained' : \A c \in Clients :
               x \in told[c] => (\E b \in Clients : x \in told'[b]) \/ (p = "destroy" /\ i = x),
           \A x \in Unexplained' : Answers4(t, x) => \E b \in Clients : x \in told'[b]
    PROVE  LeakInv'
<1> SUFFICES ASSUME NEW x \in Unexplained'
             PROVE  (\E c \in Clients : x \in told'[c]) \/ \E u \in Slots : Answers4(u, x)'
  BY Zenon DEF LeakInv, Unexplained, CtxIds
<1>1. x \in Unexplained
  BY DEF Unexplained, CtxIds
<1>2. (\E c \in Clients : x \in told[c]) \/ \E u \in Slots : Answers4(u, x)
  BY <1>1, Zenon DEF LeakInv, Unexplained
<1>3. CASE \E c \in Clients : x \in told[c]
  <2>1. p = "destroy" /\ i = x => Answers4(t, x)'
    BY Zenon DEF Becomes, Answers4
  <2> QED BY <1>3, <2>1, Zenon
<1>4. ASSUME NEW u \in Slots, Answers4(u, x)
      PROVE  (\E c \in Clients : x \in told'[c]) \/ \E v \in Slots : Answers4(v, x)'
  <2>1. CASE u = t
    BY <1>4, <2>1, Zenon
  <2>2. CASE u # t
    <3>1. pc'[u] = pc[u] /\ id'[u] = id[u]
      BY <2>2, Zenon DEF Becomes
    <3>2. caller = u => caller' = u
      BY <2>2
    <3>3. Answers4(u, x)'
      BY <1>4, <3>1, <3>2, Zenon DEF Answers4
    <3> QED BY <3>3
  <2> QED BY <2>1, <2>2
<1> QED BY <1>2, <1>3, <1>4, Zenon

LEMMA LeakStay ==
    ASSUME LeakInv, UNCHANGED <<ctxs, backlog, answer, caller>>,
           lost \subseteq lost', suspect \subseteq suspect', \A t \in Slots : Same(t),
           \A x \in Unexplained' : \A c \in Clients : x \in told[c] => \E b \in Clients : x \in told'[b]
    PROVE  LeakInv'
<1> SUFFICES ASSUME NEW x \in Unexplained'
             PROVE  (\E c \in Clients : x \in told'[c]) \/ \E u \in Slots : Answers4(u, x)'
  BY Zenon DEF LeakInv, Unexplained, CtxIds
<1>1. x \in Unexplained
  BY DEF Unexplained, CtxIds
<1>2. (\E c \in Clients : x \in told[c]) \/ \E u \in Slots : Answers4(u, x)
  BY <1>1, Zenon DEF LeakInv, Unexplained
<1>3. ASSUME NEW u \in Slots, Answers4(u, x) PROVE Answers4(u, x)'
  BY <1>3, Zenon DEF Same, Answers4
<1> QED BY <1>2, <1>3, Zenon

\* The probe's context keeps an agent.
AgentDue == ProbeCtx \in ctxs /\ ~exposed /\ ProbeCtx \notin suspect
LEMMA AgentSlot ==
    ASSUME AgentInv, UNCHANGED <<ctxs, backlog, answer>>,
           exposed => exposed', suspect \subseteq suspect', NoSlot \notin Slots,
           NEW t \in Slots, NEW p, NEW o, NEW k, NEW i, NEW d, Becomes(t, p, o, k, i, d),
           caller # NoSlot /\ caller # t => caller' = caller,
           AgentDue' => /\ named \subseteq named'
                        /\ Agent(t) => Agent(t)' \/ \E c \in Clients : c \in busy' /\ c \in named'
                        /\ \A c \in Clients : c \in busy /\ c \in named =>
                              Agent(t)' \/ \E b \in Clients : b \in busy' /\ b \in named'
    PROVE  AgentInv'
<1> SUFFICES ASSUME AgentDue'
             PROVE  (\E c \in Clients : c \in busy' /\ c \in named') \/ \E u \in Slots : Agent(u)'
  BY Zenon DEF AgentInv, AgentDue
<1>1. AgentDue
  BY DEF AgentDue
<1>2. (\E c \in Clients : c \in busy /\ c \in named) \/ \E u \in Slots : Agent(u)
  BY <1>1, Zenon DEF AgentInv, AgentDue
<1>3. ASSUME NEW u \in Slots, Agent(u), u # t PROVE Agent(u)'
  <2>1. pc'[u] = pc[u] /\ op'[u] = op[u] /\ who'[u] = who[u]
    BY <1>3, Zenon DEF Becomes
  <2>2. caller = u => caller' = u
    BY <1>3
  <2>3. who[u] \in named => who[u] \in named'
    OBVIOUS
  <2> QED BY <1>3, <2>1, <2>2, <2>3, Zenon DEF Agent
<1> QED BY <1>2, <1>3, Zenon

LEMMA AgentStay ==
    ASSUME AgentInv, UNCHANGED <<ctxs, backlog, answer, caller>>,
           exposed => exposed', suspect \subseteq suspect', \A t \in Slots : Same(t),
           named \subseteq Clients,
           AgentDue' => \A c \in Clients : c \in named =>
                /\ c \in busy => c \in busy' /\ c \in named'
                /\ InCall(c) => c \in named'
    PROVE  AgentInv'
<1> SUFFICES ASSUME AgentDue'
             PROVE  (\E c \in Clients : c \in busy' /\ c \in named') \/ \E u \in Slots : Agent(u)'
  BY Zenon DEF AgentInv, AgentDue
<1>1. AgentDue
  BY DEF AgentDue
<1>2. (\E c \in Clients : c \in busy /\ c \in named) \/ \E u \in Slots : Agent(u)
  BY <1>1, Zenon DEF AgentInv, AgentDue
<1>3. ASSUME NEW u \in Slots, Agent(u) PROVE Agent(u)'
  <2>1. pc'[u] = pc[u] /\ op'[u] = op[u] /\ who'[u] = who[u] /\ caller' = caller
    BY Zenon DEF Same
  <2>2. pc[u] # "idle"
    BY <1>3 DEF Agent
  <2>3. who[u] \in Clients /\ who[u] \in named => who[u] \in named'
    BY <2>2, Zenon DEF InCall
  <2> QED BY <1>3, <2>1, <2>3, Zenon DEF Agent
<1> QED BY <1>2, <1>3, Zenon

\* Steps of calls that have nothing to do with the probe.
ProbePart == AgentInv /\ PagesInv /\ ProbeDanglingExplained
KeepsDev == \A t \in Slots : pc[t] # "idle" /\ who[t] \in dev => who[t] \in dev'
ProbeSame == /\ UNCHANGED <<busy, held, named, wired, fault, ctxs, backing, backlog, answer>>
             /\ (exposed' <=> exposed) /\ suspect \subseteq suspect'
             /\ calls \in Nat /\ calls' \in Nat /\ calls <= calls' /\ KeepsDev
\* The call in slot t is the only one of its client, which has its device.
Alone(t) == who'[t] \in dev' /\ \A u \in Slots : u # t /\ pc'[u] # "idle" => who'[u] # who'[t]
LEMMA OutsideSlot ==
    ASSUME ProbePart, ProbeTypes, ProbeSame, NoSlot \notin Slots,
           NEW t \in Slots, NEW p, NEW o, NEW k, NEW i, NEW d, Becomes(t, p, o, k, i, d),
           caller # NoSlot /\ caller # t => caller' = caller,
           pc[t] \notin ProbeAt, p \notin ProbeAt,
           overlap => overlap', p # "idle" /\ ~overlap' => Alone(t)
    PROVE  ProbePart'
<1>1. ~Agent(t)
  BY DEF Agent, ProbeAt
<1>2. AgentInv'
  BY <1>1, AgentSlot, Zenon DEF ProbeSame, ProbePart
<1>3. \A u \in Slots : pc[u] = "U" => pc'[u] = "U"
  BY DEF Becomes, ProbeAt
<1>4. ProbeDanglingExplained'
  <2>1. backing' = backing /\ wired' = wired /\ (exposed => exposed') /\ suspect \subseteq suspect'
    BY DEF ProbeSame
  <2>2. ProbeDanglingExplained
    BY DEF ProbePart
  <2>3. ProbeCtx \in suspect => ProbeCtx \in suspect'
    BY <2>1
  <2> QED BY ONLY <1>3, <2>1, <2>2, <2>3, overlap => overlap', Zenon DEF ProbeDanglingExplained, NoDesc
<1>5. PagesInv'
  <2> SUFFICES ASSUME ~overlap' PROVE Orderly'
    BY Zenon DEF PagesInv
  <2>1. Orderly
    BY Zenon DEF ProbePart, PagesInv
  <2>2. /\ UNCHANGED <<busy, held, named, wired, fault>>
        /\ calls \in Nat /\ calls' \in Nat /\ calls <= calls'
    BY DEF ProbeSame
  <2>3. \A u \in Slots : pc'[u] \in ProbeAt =>
            /\ u # t /\ pc[u] = pc'[u] /\ op[u] = op'[u] /\ who[u] = who'[u] /\ desc[u] = desc'[u]
    BY DEF Becomes
  <2>4. \A u \in Slots : pc[u] \in ProbeAt =>
            /\ u # t /\ pc[u] = pc'[u] /\ op[u] = op'[u] /\ who[u] = who'[u] /\ desc[u] = desc'[u]
    BY DEF Becomes
  <2>5. \A u, v \in Slots : pc'[u] # "idle" /\ pc'[v] # "idle" /\ who'[u] = who'[v] => u = v
    <3> SUFFICES ASSUME NEW u \in Slots, NEW v \in Slots, pc'[u] # "idle", pc'[v] # "idle",
                        who'[u] = who'[v], u # v
                 PROVE  FALSE
      BY Zenon
    <3>1. \A w \in Slots : w # t => pc'[w] = pc[w] /\ who'[w] = who[w]
      BY Zenon DEF Becomes
    <3>4. \A w, y \in Slots : pc[w] # "idle" /\ pc[y] # "idle" /\ who[w] = who[y] => w = y
      BY <2>1, Zenon DEF Orderly
    <3>2. u = t \/ v = t
      BY <3>1, <3>4
    <3>3. pc'[t] = p
      BY Zenon DEF Becomes
    <3> QED BY <3>2, <3>3, Zenon DEF Alone
  <2>6. \A u \in Slots : (Pinned(u)' <=> Pinned(u)) /\ (Pinned(u) => desc'[u] = desc[u])
    BY <2>3, <2>4 DEF Pinned, ProbeAt
  <2>7. \A c \in Clients : held'[c] <= calls'
    BY <2>1, <2>2 DEF Orderly, ProbePart, ProbeTypes, Descs, NoDesc
  <2>8. ~fault'
    BY <2>1, <2>2 DEF Orderly
  <2>9. \A e \in Descs : e \in wired' <=> \/ \E c \in Clients : held'[c] = e
                                          \/ \E u \in Slots : Pinned(u)' /\ desc'[u] = e
    BY <2>1, <2>2, <2>6, ZenonT(30) DEF Orderly
  <2>10. \A u \in Slots : op'[u] = "probe1" /\ pc'[u] \in ProbeAt =>
          /\ who'[u] \notin busy'
          /\ \A c \in Clients : held'[c] # desc'[u]
          /\ \A v \in Slots : op'[v] = "probe1" /\ pc'[v] \in ProbeAt /\ desc'[v] = desc'[u] => v = u
    BY <2>1, <2>2, <2>3 DEF Orderly
  <2>11. \A u \in Slots : op'[u] \in LaterOps /\ pc'[u] \in ProbeAt =>
          /\ who'[u] \in named'
          /\ pc'[u] = "F" <=> who'[u] \in busy'
    BY <2>1, <2>2, <2>3 DEF Orderly
  <2>13. \A u \in Slots : pc'[u] # "idle" => who'[u] \in dev'
    <3>1. \A w \in Slots : w # t => pc'[w] = pc[w] /\ who'[w] = who[w]
      BY Zenon DEF Becomes
    <3>2. pc'[t] # "idle" => who'[t] \in dev'
      BY Zenon DEF Becomes, Alone
    <3>3. KeepsDev /\ \A w \in Slots : pc[w] # "idle" => who[w] \in dev
      BY <2>1, Zenon DEF Orderly, ProbeSame
    <3> QED BY ONLY <3>1, <3>2, <3>3, Zenon DEF KeepsDev
  <2>12. /\ \A c, e \in Clients : held'[c] = held'[e] /\ held'[c] # NoDesc => c = e
         /\ busy' \subseteq named'
    BY <2>1, <2>2 DEF Orderly
  <2> QED BY ONLY <2>5, <2>7, <2>8, <2>9, <2>10, <2>11, <2>12, <2>13, Zenon DEF Orderly, Descs, NoDesc
<1> QED BY <1>2, <1>4, <1>5, Zenon DEF ProbePart

\* Steps that touch neither a call nor the probe.
LEMMA PagesStay ==
    ASSUME PagesInv, ProbeTypes, UNCHANGED <<busy, held, named, wired, fault>>,
           calls \in Nat, calls' \in Nat, calls <= calls', \A t \in Slots : Same(t),
           overlap' <=> overlap, KeepsDev
    PROVE  PagesInv'
<1> SUFFICES ASSUME ~overlap' PROVE Orderly'
  BY Zenon DEF PagesInv
<1>1. Orderly
  BY Zenon DEF PagesInv
<1>2. /\ UNCHANGED <<busy, held, named, wired, fault>>
      /\ calls \in Nat /\ calls' \in Nat /\ calls <= calls'
  OBVIOUS
<1>3. \A u \in Slots : /\ pc'[u] = pc[u] /\ op'[u] = op[u] /\ who'[u] = who[u]
                       /\ desc'[u] = desc[u]
  BY Zenon DEF Same
<1>4. \A u \in Slots : Pinned(u)' <=> Pinned(u)
  BY <1>3, Zenon DEF Pinned
<1>5. \A c \in Clients : held'[c] <= calls'
  BY <1>1, <1>2 DEF Orderly, ProbeTypes, Descs, NoDesc
<1>6. \A e \in Descs : e \in wired' <=> \/ \E c \in Clients : held'[c] = e
                                        \/ \E u \in Slots : Pinned(u)' /\ desc'[u] = e
  <2>1. \A e \in Descs : e \in wired <=> \/ \E c \in Clients : held[c] = e
                                         \/ \E u \in Slots : Pinned(u) /\ desc[u] = e
    BY <1>1, Zenon DEF Orderly
  <2>2. \A u \in Slots : desc'[u] = desc[u] /\ (Pinned(u)' <=> Pinned(u))
    BY <1>3, <1>4, Zenon
  <2> QED BY ONLY <1>2, <2>1, <2>2
<1>7. ~fault' /\ busy' \subseteq named'
      /\ \A c, e \in Clients : held'[c] = held'[e] /\ held'[c] # NoDesc => c = e
  BY <1>1, <1>2 DEF Orderly
<1>8. \A u, v \in Slots : pc'[u] # "idle" /\ pc'[v] # "idle" /\ who'[u] = who'[v] => u = v
  <2>1. \A u, v \in Slots : pc[u] # "idle" /\ pc[v] # "idle" /\ who[u] = who[v] => u = v
    BY <1>1, Zenon DEF Orderly
  <2> QED BY <1>3, <2>1
<1>9. \A u \in Slots : op'[u] = "probe1" /\ pc'[u] \in ProbeAt =>
        /\ who'[u] \notin busy'
        /\ \A c \in Clients : held'[c] # desc'[u]
        /\ \A v \in Slots : op'[v] = "probe1" /\ pc'[v] \in ProbeAt /\ desc'[v] = desc'[u] => v = u
  BY <1>1, <1>2, <1>3 DEF Orderly
<1>10. \A u \in Slots : op'[u] \in LaterOps /\ pc'[u] \in ProbeAt =>
        /\ who'[u] \in named'
        /\ pc'[u] = "F" <=> who'[u] \in busy'
  BY <1>1, <1>2, <1>3 DEF Orderly
<1>11. \A u \in Slots : pc'[u] # "idle" => who'[u] \in dev'
  <2>1. \A u \in Slots : pc[u] # "idle" => who[u] \in dev
    BY <1>1, Zenon DEF Orderly
  <2> QED BY <1>3, <2>1, Zenon DEF KeepsDev
<1> QED BY ONLY <1>5, <1>6, <1>7, <1>8, <1>9, <1>10, <1>11, Zenon DEF Orderly, Descs, NoDesc

LEMMA DanglingStay ==
    ASSUME ProbeDanglingExplained, UNCHANGED <<backing, wired>>, exposed => exposed',
           suspect \subseteq suspect', \A t \in Slots : Same(t), overlap' <=> overlap
    PROVE  ProbeDanglingExplained'
<1>1. backing' = backing /\ wired' = wired /\ (exposed => exposed') /\ suspect \subseteq suspect'
  OBVIOUS
<1>2. \A u \in Slots : pc[u] = "U" => pc'[u] = "U"
  BY Zenon DEF Same
<1>3. ProbeDanglingExplained
  OBVIOUS
<1>4. ProbeCtx \in suspect => ProbeCtx \in suspect'
  BY <1>1
<1> QED BY ONLY <1>1, <1>2, <1>3, <1>4, overlap' <=> overlap, Zenon DEF ProbeDanglingExplained, NoDesc

LEMMA OutsideStay ==
    ASSUME ProbePart, ProbeTypes, ProbeSame, \A t \in Slots : Same(t), UNCHANGED caller,
           overlap' <=> overlap
    PROVE  ProbePart'
<1>1. AgentInv'
  BY AgentStay, Zenon DEF ProbeSame, ProbePart, ProbeTypes
<1>2. ProbeDanglingExplained'
  BY DanglingStay DEF ProbeSame, ProbePart
<1>3. PagesInv'
  BY PagesStay DEF ProbeSame, ProbePart
<1> QED BY <1>1, <1>2, <1>3, Zenon DEF ProbePart

LEMMA SurfaceFrame ==
    ASSUME SurfaceOneHolder, UNCHANGED <<pool, surf>>
    PROVE  SurfaceOneHolder'
BY Zenon DEF SurfaceOneHolder, ResourceOf

-----------------------------------------------------------------------------
(* Selectors that begin a call outside the probe.                          *)

LEMMA InvParts == Inv <=> /\ Types /\ Chan /\ ApartInv /\ LeakInv /\ ProbePart /\ SurfaceOneHolder
BY Zenon DEF Inv, Chan, ProbePart

EnterRest ==
    UNCHANGED <<channel, caller, timeouts, clients, surfaces, probe, device, suspect, lost, exposed,
                crossed, fault>>
LEMMA EnterKeeps ==
    ASSUME Inv, Locals', EnterRest, NEW t \in Slots, NEW p, NEW o, NEW c \in Clients, NEW i,
           Entered(t, c, o, i, p), CtxTypes'
    PROVE  Types' /\ Chan' /\ SurfaceOneHolder'
<1>0. Types /\ Chan /\ SurfaceOneHolder
  BY InvParts
<1>1. /\ UNCHANGED <<channel, caller, dev, open, freed, nextSurf, pool, surf, busy, held, named, wired>>
      /\ UNCHANGED <<ctxs, owner, res, backing, suspect, exposed, fault>>
  BY Zenon DEF EnterRest, clients, surfaces, probe, device
<1>2. calls \in Nat /\ calls' = calls + 1 /\ pc[t] = "idle" /\ (overlap' <=> overlap \/ InCall(c))
      /\ Becomes(t, p, o, c, i, FirstDesc(o))
  BY <1>0, UserClientAssumption DEF Entered, Types, LocalTypes
<1>3. Types'
  <2>1. LocalTypes' /\ LocalInv'
    BY DEF Locals
  <2>2. ClientTypes' /\ ProbeTypes' /\ DevTypes'
    BY <1>0, <1>1 DEF Types, ClientTypes, ProbeTypes, DevTypes
  <2>3. SurfTypes'
    BY <1>0, <1>1, <1>2, UserClientAssumption DEF Types, SurfTypes
  <2> QED BY <2>1, <2>2, <2>3 DEF Types
<1>4. Chan'
  <2>1. caller # NoSlot => caller \in Slots /\ pc[caller] \in Sending
    BY <1>0, Zenon DEF Chan, ChanInv, CallerInv
  <2>2. caller # NoSlot => caller # t
    BY <1>2, <2>1 DEF Sending
  <2>3. caller # NoSlot => Same(caller)
    BY <1>2, <2>1, <2>2, Zenon DEF Becomes, Same
  <2> QED BY <1>0, <1>1, <2>3, ChanFrame
<1>5. SurfaceOneHolder'
  BY <1>0, <1>1, SurfaceFrame
<1> QED BY <1>3, <1>4, <1>5

LEMMA EnterOutside ==
    ASSUME Inv, Locals', EnterRest, NEW t \in Slots, NEW p, NEW o, NEW c \in Clients, NEW i,
           Entered(t, c, o, i, p), p \notin ProbeAt, CtxTypes'
    PROVE  Types' /\ Chan' /\ ProbePart' /\ SurfaceOneHolder'
<1>0. Types /\ Chan /\ ProbePart /\ SurfaceOneHolder
  BY InvParts
<1>1. /\ UNCHANGED <<channel, caller, dev, open, freed, nextSurf, pool, surf, busy, held, named, wired>>
      /\ UNCHANGED <<ctxs, owner, res, backing, suspect, exposed, fault>>
  BY Zenon DEF EnterRest, clients, surfaces, probe, device
<1>2. calls \in Nat /\ calls' = calls + 1 /\ pc[t] = "idle" /\ (overlap' <=> overlap \/ InCall(c))
      /\ Becomes(t, p, o, c, i, FirstDesc(o))
  BY <1>0, UserClientAssumption DEF Entered, Types, LocalTypes
<1>3. Types' /\ Chan' /\ SurfaceOneHolder'
  BY EnterKeeps
<1>4. ProbePart'
  <2>1. ProbeTypes
    BY <1>0 DEF Types
  <2>2. ProbeSame
    <3>1. UNCHANGED <<backlog, answer>>
      BY <1>1 DEF channel
    <3>2. calls' \in Nat /\ calls <= calls'
      BY <1>2
    <3> QED BY <1>1, <1>2, <3>1, <3>2 DEF ProbeSame, KeepsDev
  <2>3. ~overlap' => Alone(t)
    <3>1. c \in dev'
      BY <1>1 DEF Entered
    <3> QED BY <1>2, <3>1, Zenon DEF Becomes, Alone, InCall
  <2>4. pc[t] \notin ProbeAt
    BY <1>2 DEF ProbeAt
  <2> QED BY <1>0, <1>1, <1>2, <2>1, <2>2, <2>3, <2>4, OutsideSlot, UserClientAssumption
<1> QED BY <1>3, <1>4

LEMMA EnterLeak ==
    ASSUME Inv, EnterRest, NEW t \in Slots, NEW p, NEW o, NEW c \in Clients, NEW i,
           Entered(t, c, o, i, p),
           \A x \in CtxIds : \A k \in Clients :
               x \in told[k] => (\E b \in Clients : x \in told'[b]) \/ (p = "destroy" /\ i = x)
    PROVE  LeakInv'
<1>1. LeakInv
  BY InvParts
<1>2. UNCHANGED <<ctxs, backlog, answer, lost, suspect, caller>>
  BY Zenon DEF EnterRest, device, channel
<1>3. pc[t] = "idle" /\ Becomes(t, p, o, c, i, FirstDesc(o))
  BY DEF Entered
<1>4. \A x : ~Answers4(t, x)
  BY <1>3 DEF Answers4
<1>5. Unexplained' \subseteq CtxIds
  BY DEF Unexplained, CtxIds
<1>6. \A x \in Unexplained' : \A k \in Clients :
        x \in told[k] => (\E b \in Clients : x \in told'[b]) \/ (p = "destroy" /\ i = x)
  BY <1>5
<1>7. lost \subseteq lost' /\ suspect \subseteq suspect'
  BY <1>2
<1>8. NoSlot \notin Slots
  BY UserClientAssumption
<1>9. caller # NoSlot /\ caller # t => caller' = caller
  BY <1>2
<1>10. \A x \in Unexplained' : Answers4(t, x) => \E b \in Clients : x \in told'[b]
  BY <1>4
<1>11. UNCHANGED <<ctxs, backlog, answer>>
  BY <1>2
<1> HIDE DEF Unexplained
<1> QED BY ONLY <1>1, <1>3, <1>6, <1>7, <1>8, <1>9, <1>10, <1>11, LeakSlot

\* A call for a context the client knows, or for none.
LEMMA EnterApart ==
    ASSUME Inv, EnterRest, NEW t \in Slots, NEW p, NEW o, NEW c \in Clients, NEW i,
           Entered(t, c, o, i, p), UNCHANGED <<kernCtx, nextCtx, raced>>, p # "bump",
           \A k \in Clients : told'[k] \subseteq told[k],
           p \in CtxAt => i \in told[c] \cup {1}
    PROVE  ApartInv'
<1>1. ApartInv
  BY InvParts
<1>2. UNCHANGED <<owner, cmd, kernCtx, nextCtx>> /\ (crossed' <=> crossed) /\ (raced => raced')
  BY Zenon DEF EnterRest, device, channel
<1>3. pc[t] # "bump" /\ Becomes(t, p, o, c, i, FirstDesc(o))
  BY DEF Entered
<1>4. \A x \in UserIds : \A k \in Clients : x \in told'[k] => Claimed(x, k)
  <2>1. \A x \in UserIds : \A k \in Clients : x \in told[k] => Claimed(x, k)
    BY Zenon DEF Claimed
  <2> QED BY <2>1
<1>5. p \in CtxAt => i = 1 \/ Claimed(i, c)
  <2>1. i \in told[c] => Claimed(i, c)
    BY Zenon DEF Claimed
  <2> QED BY <2>1
<1>6. p # "bump"
  OBVIOUS
<1> QED BY ONLY <1>1, <1>2, <1>3, <1>4, <1>5, <1>6, ApartSlot, Zenon

\* destroyVirglContextEx, submitVirglCommandsEx, ctxAttachResource.
LEMMA KnownContextInv ==
    ASSUME Inv, NEW t \in Slots, NEW c \in Clients, NEW x \in CtxIds,
           destroyVirglContextEx(t, c, x) \/ submitVirglCommandsEx(t, c, x) \/ ctxAttachResource(t, c, x)
    PROVE  Inv'
<1>0. Types /\ Locals /\ CtxTypes /\ calls \in Nat
  BY InvParts, UserClientAssumption DEF Types, Locals, LocalTypes
<1> DEFINE o == IF destroyVirglContextEx(t, c, x) THEN "destroyctx"
                ELSE IF submitVirglCommandsEx(t, c, x) THEN "submit" ELSE "ctxattach"
           p == IF destroyVirglContextEx(t, c, x) THEN "destroy" ELSE "use"
<1>1. /\ EnterRest /\ Enter(t, c, o, x, p) /\ UNCHANGED <<kernCtx, nextCtx, raced>>
      /\ o \in Ops /\ p \in {"destroy", "use"} /\ x \in told[c] \cup {1}
      /\ o # "probe1" /\ ctxLock' \in {ctxLock, t}
      /\ \/ p = "destroy" /\ told' = [told EXCEPT ![c] = @ \ {x}]
         \/ told' = told
  <2>1. CASE destroyVirglContextEx(t, c, x)
    BY <2>1 DEF destroyVirglContextEx, EnterRest, Ops, queue, counters
  <2>2. CASE ~destroyVirglContextEx(t, c, x) /\ submitVirglCommandsEx(t, c, x)
    BY <2>2 DEF submitVirglCommandsEx, EnterRest, Ops, queue, counters
  <2>3. CASE ~destroyVirglContextEx(t, c, x) /\ ~submitVirglCommandsEx(t, c, x)
    BY <2>3 DEF ctxAttachResource, EnterRest, Ops, queue, counters
  <2> QED BY <2>1, <2>2, <2>3
<1> HIDE DEF o, p
<1>2. LocalOk(p, o, c, x, FirstDesc(o), calls + 1)
  BY <1>1 DEF LocalOk, CtxAt, ProbeAt
<1>3. x \in Nat /\ p \in Sending
  BY <1>1 DEF CtxIds, Sending
<1>4. Locals' /\ Entered(t, c, o, x, p)
  BY <1>0, <1>1, <1>2, <1>3, EnterStep
<1>5. CtxTypes'
  BY <1>0, <1>1 DEF CtxTypes
<1>6. Types' /\ Chan' /\ ProbePart' /\ SurfaceOneHolder'
  BY <1>1, <1>4, <1>5, EnterOutside DEF ProbeAt
<1>7. \A k \in Clients : told'[k] \subseteq told[k]
  BY <1>0, <1>1 DEF CtxTypes
<1>8. \A y \in CtxIds : \A k \in Clients :
        y \in told[k] => (\E b \in Clients : y \in told'[b]) \/ (p = "destroy" /\ x = y)
  BY <1>0, <1>1 DEF CtxTypes
<1>9. LeakInv'
  BY <1>1, <1>4, <1>8, EnterLeak
<1>10. ApartInv'
  BY <1>1, <1>4, <1>7, EnterApart
<1> QED BY ONLY <1>6, <1>9, <1>10, InvParts, Zenon DEF Inv, Chan, ProbePart

\* createSurface
LEMMA CreateSurfaceInv ==
    ASSUME Inv, NEW t \in Slots, NEW c \in Clients, createSurface(t, c)
    PROVE  Inv'
<1>0. Types /\ Locals /\ CtxTypes /\ SurfTypes /\ calls \in Nat
  BY InvParts, UserClientAssumption DEF Types, Locals, LocalTypes
<1>1. /\ EnterRest /\ Enter(t, c, "surface", nextSurf[c], "advance")
      /\ UNCHANGED <<kernCtx, nextCtx, raced, told, ctxLock>>
  BY DEF createSurface, EnterRest, queue, counters
<1>2. nextSurf[c] \in 1 .. calls + 1 /\ nextSurf[c] \in Nat
  BY <1>0 DEF SurfTypes
<1>3. LocalOk("advance", "surface", c, nextSurf[c], FirstDesc("surface"), calls + 1)
  BY <1>2 DEF LocalOk, CtxAt, ProbeAt
<1>4. "surface" \in Ops
  BY DEF Ops
<1>5. Locals' /\ Entered(t, c, "surface", nextSurf[c], "advance")
  BY <1>0, <1>1, <1>2, <1>3, <1>4, EnterStep
<1>6. CtxTypes'
  BY <1>0, <1>1 DEF CtxTypes
<1>7. Types' /\ Chan' /\ ProbePart' /\ SurfaceOneHolder'
  BY <1>1, <1>5, <1>6, EnterOutside DEF ProbeAt
<1>8. LeakInv'
  BY <1>1, <1>5, EnterLeak
<1>9. ApartInv'
  BY <1>1, <1>5, EnterApart DEF CtxAt
<1> QED BY ONLY <1>7, <1>8, <1>9, InvParts, Zenon DEF Inv, Chan, ProbePart

\* A context id that nobody was given yet.
LEMMA FreshApart ==
    ASSUME Apart, EnterRest, UNCHANGED told,
           NEW t \in Slots, NEW p, NEW o, NEW c \in Clients, NEW n \in UserIds,
           Entered(t, c, o, n, p), ~Given(n), Given(n)',
           \A x \in UserIds : Given(x) => Given(x)',
           \A u \in Slots : pc'[u] = "bump" => id'[u] = nextCtx',
           \A u, v \in Slots : pc'[u] = "bump" /\ pc'[v] = "bump" => u = v
    PROVE  Apart'
<1>1. UNCHANGED <<told, owner, cmd>> /\ (crossed' <=> crossed)
  BY Zenon DEF EnterRest, device, channel
<1>2. Becomes(t, p, o, c, n, FirstDesc(o)) /\ pc[t] = "idle"
  BY DEF Entered
<1>3. \A d \in Clients : ~Claimed(n, d)
  BY Zenon DEF Apart, UserIds
<1>4. ASSUME NEW x \in UserIds, NEW d \in Clients, Claimed(x, d)'
      PROVE  Claimed(x, d) \/ (x = n /\ d = c)
  <2>1. CASE x \in told'[d] \/ d \in owner'[x] \/ (cmd' \in ClientCommand /\ cmd'.ctx = x /\ cmd'.who = d)
    BY <1>1, <2>1, Zenon DEF Claimed
  <2>2. CASE \E u \in Slots : pc'[u] \in CtxAt /\ id'[u] = x /\ who'[u] = d
    <3>1. PICK u \in Slots : pc'[u] \in CtxAt /\ id'[u] = x /\ who'[u] = d
      BY <2>2
    <3>2. CASE u = t
      BY <1>2, <3>1, <3>2, Zenon DEF Becomes
    <3>3. CASE u # t
      BY <1>2, <3>1, <3>3, Zenon DEF Becomes, Claimed
    <3> QED BY <3>2, <3>3
  <2> QED BY <1>4, <2>1, <2>2, Zenon DEF Claimed, ClientCommand
<1>5. \A x \in UserIds : \A d, e \in Clients : Claimed(x, d)' /\ Claimed(x, e)' => d = e
  BY <1>3, <1>4, Zenon DEF Apart, UserIds
<1>6. \A x \in UserIds : \A d \in Clients : Claimed(x, d)' => Given(x)'
  BY <1>4, Zenon DEF Apart, UserIds
<1>7. ~crossed'
  BY <1>1, Zenon DEF Apart
<1> QED BY <1>5, <1>6, <1>7, Zenon DEF Apart, UserIds

\* createVirglContextEx
LEMMA CreateExInv ==
    ASSUME Inv, NEW t \in Slots, NEW c \in Clients, createVirglContextEx(t, c)
    PROVE  Inv'
<1>0. Types /\ Locals /\ CtxTypes /\ calls \in Nat
  BY InvParts, UserClientAssumption DEF Types, Locals, LocalTypes
<1>1. /\ EnterRest /\ Enter(t, c, "userctx", nextCtx, "bump") /\ nextCtx <= MaxCtx
      /\ UNCHANGED <<kernCtx, nextCtx, told, ctxLock>>
      /\ (raced' <=> raced \/ \E u \in Slots : pc[u] = "bump")
  BY Zenon DEF createVirglContextEx, EnterRest, queue, counters
<1>2. nextCtx \in UserIds /\ nextCtx \in Nat /\ nextCtx >= FirstUserCtx
  BY <1>0, <1>1, UserClientAssumption DEF CtxTypes, UserIds, CtxIds
<1>3. LocalOk("bump", "userctx", c, nextCtx, FirstDesc("userctx"), calls + 1)
  BY <1>2 DEF LocalOk, CtxAt, ProbeAt, UserIds
<1>4. "userctx" \in Ops
  BY DEF Ops
<1>5. Locals' /\ Entered(t, c, "userctx", nextCtx, "bump")
  BY <1>0, <1>1, <1>2, <1>3, <1>4, EnterStep
<1>6. CtxTypes'
  BY <1>0, <1>1 DEF CtxTypes
<1>7. Types' /\ Chan' /\ ProbePart' /\ SurfaceOneHolder'
  BY <1>1, <1>5, <1>6, EnterOutside DEF ProbeAt
<1>8. LeakInv'
  BY <1>1, <1>5, EnterLeak
<1>9. ApartInv'
  <2>1. ApartInv
    BY InvParts
  <2>2. CASE raced' \/ kernCtx >= FirstUserCtx
    BY <1>1, <2>2, Zenon DEF ApartInv
  <2>3. CASE ~raced' /\ ~(kernCtx >= FirstUserCtx)
    <3>1. Apart
      BY <1>1, <2>1, <2>3, Zenon DEF ApartInv
    <3>2. \A u \in Slots : pc[u] # "bump"
      BY <1>1, <2>3, Zenon
    <3>3. ~Given(nextCtx)
      BY <1>0, <1>2, <2>3, <3>2, UserClientAssumption DEF Given, CtxTypes, CtxIds
    <3>4. /\ pc'[t] = "bump" /\ id'[t] = nextCtx
          /\ \A u \in Slots : u # t => pc'[u] = pc[u] /\ id'[u] = id[u]
      BY <1>5, Zenon DEF Entered, Becomes
    <3>6. \A x \in UserIds : Given(x) => Given(x)'
      BY <1>1, <3>2, Zenon DEF Given
    <3>7. /\ \A u \in Slots : pc'[u] = "bump" => id'[u] = nextCtx'
          /\ \A u, v \in Slots : pc'[u] = "bump" /\ pc'[v] = "bump" => u = v
      BY <1>1, <3>2, <3>4
    <3>9. PICK n \in UserIds : n = nextCtx
      BY <1>2
    <3>10. Entered(t, c, "userctx", n, "bump") /\ ~Given(n)
      BY <1>5, <3>3, <3>9
    <3>11. Given(n)'
      BY <1>1, <3>4, <3>9, Zenon DEF Given
    <3>12. Apart'
      BY ONLY <1>1, <3>1, <3>6, <3>7, <3>10, <3>11, FreshApart
    <3> QED BY <3>12, Zenon DEF ApartInv
  <2> QED BY <2>2, <2>3
<1> QED BY ONLY <1>7, <1>8, <1>9, InvParts, Zenon DEF Inv, Chan, ProbePart

\* createRenderContext
LEMMA CreateRenderInv ==
    ASSUME Inv, NEW t \in Slots, NEW c \in Clients, NEW o \in {"kernctx", "virglctx"},
           createRenderContext(t, c, o)
    PROVE  Inv'
<1>0. Types /\ Locals /\ CtxTypes /\ calls \in Nat
  BY InvParts, UserClientAssumption DEF Types, Locals, LocalTypes
<1>1. /\ EnterRest /\ Enter(t, c, o, kernCtx + 1, "create") /\ kernCtx < MaxCtx
      /\ kernCtx' = kernCtx + 1 /\ ctxLock' = t
      /\ UNCHANGED <<nextCtx, told, raced>>
  BY Zenon DEF createRenderContext, EnterRest, queue, counters
<1>2. PICK n \in UserIds : n = kernCtx + 1
  BY <1>0, <1>1, UserClientAssumption DEF CtxTypes, UserIds, CtxIds
<1>3. LocalOk("create", o, c, n, FirstDesc(o), calls + 1) /\ n \in Nat
  BY <1>2 DEF LocalOk, CtxAt, ProbeAt, UserIds, CtxIds
<1>4. o \in Ops /\ "create" \in Sending
  BY DEF Ops, Sending
<1>5. Locals' /\ Entered(t, c, o, n, "create")
  BY <1>0, <1>1, <1>2, <1>3, <1>4, EnterStep
<1>6. CtxTypes'
  BY <1>0, <1>1, UserClientAssumption DEF CtxTypes, CtxIds
<1>7. Types' /\ Chan' /\ ProbePart' /\ SurfaceOneHolder'
  BY <1>1, <1>5, <1>6, EnterOutside DEF ProbeAt
<1>8. LeakInv'
  BY <1>1, <1>5, EnterLeak
<1>9. ApartInv'
  <2>1. ApartInv
    BY InvParts
  <2>2. CASE raced' \/ kernCtx' >= FirstUserCtx
    BY <1>1, <2>2, Zenon DEF ApartInv
  <2>3. CASE ~raced' /\ ~(kernCtx' >= FirstUserCtx)
    <3>0. n < FirstUserCtx /\ kernCtx \in Nat /\ ~(kernCtx >= FirstUserCtx)
      BY <1>0, <1>1, <1>2, <2>3, UserClientAssumption DEF CtxTypes, CtxIds, UserIds
    <3>1. Apart
      BY <1>1, <2>1, <2>3, <3>0, Zenon DEF ApartInv
    <3>2. \A u \in Slots : pc[u] = "bump" => id[u] = nextCtx
      BY <3>1, Zenon DEF Apart
    <3>3. ~Given(n)
      BY <1>0, <1>2, <3>0, <3>2, UserClientAssumption DEF Given, CtxTypes, CtxIds
    <3>4. /\ pc'[t] = "create" /\ pc[t] = "idle"
          /\ \A u \in Slots : u # t => pc'[u] = pc[u] /\ id'[u] = id[u]
      BY <1>5, Zenon DEF Entered, Becomes
    <3>5. \A u \in Slots : (pc'[u] = "bump" <=> pc[u] = "bump") /\ (pc[u] = "bump" => id'[u] = id[u])
      BY <3>4
    <3>6. \A x \in UserIds : Given(x) => Given(x)'
      BY <1>0, <1>1, <3>5 DEF Given, UserIds, CtxIds, CtxTypes
    <3>7. /\ \A u \in Slots : pc'[u] = "bump" => id'[u] = nextCtx'
          /\ \A u, v \in Slots : pc'[u] = "bump" /\ pc'[v] = "bump" => u = v
      BY <1>1, <3>1, <3>2, <3>5, Zenon DEF Apart
    <3>8. Given(n)'
      BY <1>1, <1>2 DEF Given, UserIds, CtxIds
    <3>9. Apart'
      BY ONLY <1>1, <1>5, <3>1, <3>3, <3>6, <3>7, <3>8, FreshApart
    <3> QED BY <3>9, Zenon DEF ApartInv
  <2> QED BY <2>2, <2>3
<1> QED BY ONLY <1>7, <1>8, <1>9, InvParts, Zenon DEF Inv, Chan, ProbePart

-----------------------------------------------------------------------------
(* Steps of a call between its commands.                                   *)

\* A call that was the only one of its client still is.
LEMMA StillAlone ==
    ASSUME PagesInv, ~overlap, NEW t \in Slots, NEW p, NEW o, NEW i, NEW d, pc[t] # "idle",
           Becomes(t, p, o, who[t], i, d), UNCHANGED dev
    PROVE  Alone(t)
<1>1. \A u, v \in Slots : pc[u] # "idle" /\ pc[v] # "idle" /\ who[u] = who[v] => u = v
  BY Zenon DEF PagesInv, Orderly
<1>2. \A u \in Slots : u # t => pc'[u] = pc[u] /\ who'[u] = who[u]
  BY Zenon DEF Becomes
<1>3. who'[t] = who[t]
  BY Zenon DEF Becomes
<1>4. who[t] \in dev'
  BY Zenon DEF PagesInv, Orderly
<1> QED BY ONLY <1>1, <1>2, <1>3, <1>4, pc[t] # "idle", t \in Slots, Zenon DEF Alone

InnerRest ==
    UNCHANGED <<channel, caller, timeouts, clients, probe, told, calls, device, suspect, lost, exposed,
                raced, overlap, crossed, fault>>
LEMMA InnerStep ==
    ASSUME Inv, InnerRest, NEW t \in Slots, NEW p, NEW o, NEW c, NEW i, NEW d,
           Becomes(t, p, o, c, i, d), pc[t] \in {"bump", "advance", "make"}, p \notin ProbeAt,
           p # "idle" => c = who[t]
    PROVE  Chan' /\ ProbePart' /\ LeakInv' /\ ClientTypes' /\ ProbeTypes' /\ DevTypes'
<1>0. Types /\ Chan /\ ProbePart /\ LeakInv
  BY InvParts
<1>1. /\ UNCHANGED <<channel, caller, dev, open, freed, busy, held, named, wired, told, calls>>
      /\ UNCHANGED <<ctxs, owner, res, backing, suspect, lost, exposed, overlap, fault>>
  BY Zenon DEF InnerRest, clients, probe, device
<1>2. UNCHANGED <<backlog, answer>>
  BY <1>1 DEF channel
<1>3. Chan'
  <2>1. caller # NoSlot => caller \in Slots /\ pc[caller] \in Sending
    BY <1>0, Zenon DEF Chan, ChanInv, CallerInv
  <2>2. caller # NoSlot => caller # t
    BY <2>1 DEF Sending
  <2>3. caller # NoSlot => Same(caller)
    BY <2>1, <2>2, Zenon DEF Becomes, Same
  <2> QED BY <1>0, <1>1, <2>3, ChanFrame
<1>4. ProbePart'
  <2>1. ProbeTypes
    BY <1>0 DEF Types
  <2>2. ProbeSame
    <3>1. calls \in Nat
      BY <1>0, UserClientAssumption DEF Types, LocalTypes
    <3> QED BY <1>1, <1>2, <3>1 DEF ProbeSame, KeepsDev
  <2>3. p # "idle" /\ ~overlap' => Alone(t)
    BY <1>0, <1>1, StillAlone DEF ProbePart
  <2>4. pc[t] \notin ProbeAt
    BY DEF ProbeAt
  <2> QED BY <1>0, <1>1, <2>1, <2>2, <2>3, <2>4, OutsideSlot, UserClientAssumption
<1>5. LeakInv'
  <2>1. \A x : ~Answers4(t, x)
    BY DEF Answers4
  <2>2. lost \subseteq lost' /\ suspect \subseteq suspect' /\ NoSlot \notin Slots
        /\ (caller # NoSlot /\ caller # t => caller' = caller)
    BY <1>1, UserClientAssumption
  <2>3. \A x \in Unexplained' : \A k \in Clients :
           x \in told[k] => (\E b \in Clients : x \in told'[b]) \/ (p = "destroy" /\ i = x)
    BY <1>1, Zenon
  <2>4. \A x \in Unexplained' : Answers4(t, x) => \E b \in Clients : x \in told'[b]
    BY <2>1
  <2>5. UNCHANGED <<ctxs, backlog, answer>>
    BY <1>1, <1>2
  <2> QED BY ONLY <1>0, <2>2, <2>3, <2>4, <2>5, Becomes(t, p, o, c, i, d), t \in Slots, LeakSlot
<1>6. ClientTypes' /\ ProbeTypes' /\ DevTypes'
  BY <1>0, <1>1 DEF Types, ClientTypes, ProbeTypes, DevTypes
<1> QED BY <1>3, <1>4, <1>5, <1>6

\* The facts about a slot's own locals.
LEMMA LocalsOf ==
    ASSUME Inv, NEW t \in Slots
    PROVE  /\ LocalOk(pc[t], op[t], who[t], id[t], desc[t], calls) /\ Locals
           /\ calls \in 0 .. MaxCalls /\ id[t] \in Nat
BY InvParts DEF Types, Locals, LocalInv, LocalTypes

\* The store of s_next_user_ctx_id++.
LEMMA BumpInv ==
    ASSUME Inv, NEW t \in Slots, Bump(t)
    PROVE  Inv'
<1>0. Types /\ CtxTypes /\ SurfTypes /\ SurfaceOneHolder /\ ApartInv
  BY InvParts DEF Types
<1>1. /\ InnerRest /\ pc[t] = "bump" /\ nextCtx' = id[t] + 1 /\ Go(t, "create")
      /\ UNCHANGED <<kernCtx, ctxLock, nextSurf, pool, surf, calls, told, owner, cmd, crossed, raced>>
  BY Zenon DEF Bump, InnerRest, queue, surfaces, ghost, device, channel
<1>2. /\ LocalOk(pc[t], op[t], who[t], id[t], desc[t], calls) /\ Locals
      /\ calls \in 0 .. MaxCalls /\ id[t] \in Nat
  BY LocalsOf
<1>3. id[t] \in UserIds /\ who[t] \in Clients
      /\ LocalOk("create", op[t], who[t], id[t], desc[t], calls)
  BY <1>1, <1>2 DEF LocalOk, CtxAt, ProbeAt, UserIds
<1>4. Locals' /\ Went(t, "create")
  BY <1>1, <1>2, <1>3, GoStep DEF Sending
<1>5. Becomes(t, "create", op[t], who[t], id[t], desc[t])
  BY <1>4 DEF Went
<1>6. Chan' /\ ProbePart' /\ LeakInv' /\ ClientTypes' /\ ProbeTypes' /\ DevTypes'
  BY <1>1, <1>5, InnerStep DEF ProbeAt
<1>7. SurfTypes' /\ SurfaceOneHolder'
  BY <1>0, <1>1, SurfaceFrame DEF SurfTypes
<1>8. CtxTypes'
  <2>1. id[t] >= FirstUserCtx
    BY <1>1, <1>2 DEF LocalOk
  <2> QED BY <1>0, <1>1, <1>3, <2>1, UserClientAssumption DEF CtxTypes, UserIds, CtxIds
<1>9. ApartInv'
  <2>1. CASE raced \/ kernCtx >= FirstUserCtx
    BY <1>1, <2>1, Zenon DEF ApartInv
  <2>2. CASE Apart
    <3>1. /\ id[t] = nextCtx /\ \A u \in Slots : pc[u] = "bump" => u = t
      BY <1>1, <2>2, Zenon DEF Apart
    <3>2. /\ pc'[t] = "create" /\ id'[t] = id[t] /\ who'[t] = who[t]
          /\ \A u \in Slots : u # t => pc'[u] = pc[u] /\ id'[u] = id[u] /\ who'[u] = who[u]
      BY <1>5, Zenon DEF Becomes
    <3>3. \A u \in Slots : pc'[u] # "bump"
      BY <3>1, <3>2
    <3>4. \A u \in Slots : /\ id'[u] = id[u] /\ who'[u] = who[u]
                           /\ pc'[u] \in CtxAt => pc[u] \in CtxAt
      BY <1>1, <3>2 DEF CtxAt
    <3>5. \A x \in UserIds : \A c \in Clients : Claimed(x, c)' => Claimed(x, c)
      BY <1>1, <3>4, Zenon DEF Claimed, ClientCommand
    <3>6. nextCtx \in Nat /\ nextCtx' = nextCtx + 1 /\ kernCtx' = kernCtx /\ nextCtx >= FirstUserCtx
      BY <1>0, <1>1, <3>1, UserClientAssumption DEF CtxTypes
    <3>7. \A x \in UserIds : Given(x) => Given(x)'
      <4> SUFFICES ASSUME NEW x \in UserIds, Given(x) PROVE Given(x)'
        OBVIOUS
      <4>1. x \in Nat
        BY DEF UserIds, CtxIds
      <4>2. x \in 2 .. kernCtx \/ (FirstUserCtx <= x /\ x < nextCtx) \/ x = nextCtx
        BY <3>1, Zenon DEF Given
      <4>3. x \in 2 .. kernCtx' \/ (FirstUserCtx <= x /\ x < nextCtx')
        BY <3>6, <4>1, <4>2, UserClientAssumption
      <4> QED BY <4>3, Zenon DEF Given
    <3>8. /\ ~crossed'
          /\ \A x \in UserIds : \A c, d \in Clients : Claimed(x, c)' /\ Claimed(x, d)' => c = d
          /\ \A x \in UserIds : \A c \in Clients : Claimed(x, c)' => Given(x)'
      BY <1>1, <2>2, <3>5, <3>7, Zenon DEF Apart, UserIds
    <3>9. Apart'
      BY ONLY <3>3, <3>8, Zenon DEF Apart, UserIds
    <3> QED BY <3>9, Zenon DEF ApartInv
  <2> QED BY <1>0, <2>1, <2>2, Zenon DEF ApartInv
<1>10. Types'
  BY <1>4, <1>6, <1>7, <1>8 DEF Types, Locals
<1> QED BY ONLY <1>6, <1>7, <1>9, <1>10, InvParts, Zenon DEF Inv, Chan, ProbePart

\* The store of m_next_surface_id, and the surface's resource.
LEMMA AdvanceInv ==
    ASSUME Inv, NEW t \in Slots, Advance(t)
    PROVE  Inv'
<1>0. Types /\ CtxTypes /\ SurfTypes /\ SurfaceOneHolder /\ ApartInv
  BY InvParts DEF Types
<1>1. /\ InnerRest /\ pc[t] = "advance" /\ nextSurf' = [nextSurf EXCEPT ![who[t]] = id[t] + 1]
      /\ Go(t, "make")
      /\ UNCHANGED <<kernCtx, nextCtx, ctxLock, pool, surf, calls, told, owner, cmd, crossed, raced>>
  BY Zenon DEF Advance, InnerRest, queue, counters, ghost, device, channel
<1>2. /\ LocalOk(pc[t], op[t], who[t], id[t], desc[t], calls) /\ Locals
      /\ calls \in 0 .. MaxCalls /\ id[t] \in Nat
  BY LocalsOf
<1>3. id[t] \in 1 .. calls /\ who[t] \in Clients
      /\ LocalOk("make", op[t], who[t], id[t], desc[t], calls)
  BY <1>1, <1>2 DEF LocalOk, CtxAt, ProbeAt
<1>4. Locals' /\ Went(t, "make")
  BY <1>1, <1>2, <1>3, GoStep
<1>5. Becomes(t, "make", op[t], who[t], id[t], desc[t])
  BY <1>4 DEF Went
<1>6. Chan' /\ ProbePart' /\ LeakInv' /\ ClientTypes' /\ ProbeTypes' /\ DevTypes'
  BY <1>1, <1>5, InnerStep DEF ProbeAt
<1>7. SurfTypes' /\ SurfaceOneHolder'
  <2>1. id[t] + 1 \in 1 .. MaxCalls + 1 /\ id[t] + 1 <= calls + 1
    BY <1>2, <1>3, UserClientAssumption
  <2> QED BY <1>0, <1>1, <1>3, <2>1, SurfaceFrame DEF SurfTypes
<1>8. CtxTypes'
  BY <1>0, <1>1 DEF CtxTypes
<1>9. ApartInv'
  <2>1. \A x \in UserIds : \A c \in Clients : x \in told'[c] => Claimed(x, c)
    BY <1>1, Zenon DEF Claimed
  <2>2. "make" \notin CtxAt /\ pc[t] # "bump"
    BY <1>1 DEF CtxAt
  <2> QED BY <1>0, <1>1, <1>5, <2>1, <2>2, ApartSlot
<1>10. Types'
  BY <1>4, <1>6, <1>7, <1>8 DEF Types, Locals
<1> QED BY ONLY <1>6, <1>7, <1>9, <1>10, InvParts, Zenon DEF Inv, Chan, ProbePart

LEMMA MakeSurfaceInv ==
    ASSUME Inv, NEW t \in Slots, MakeSurface(t)
    PROVE  Inv'
<1>0. Types /\ CtxTypes /\ SurfTypes /\ SurfaceOneHolder /\ ApartInv
  BY InvParts DEF Types
<1>1. /\ InnerRest /\ pc[t] = "make" /\ Return(t)
      /\ UNCHANGED <<kernCtx, nextCtx, ctxLock, nextSurf, calls, told, owner, cmd, crossed, raced>>
      /\ \/ /\ ~Taken(ResourceOf(id[t])) /\ pool' = pool \cup {ResourceOf(id[t])}
            /\ surf' = [surf EXCEPT ![who[t]] = @ \cup {id[t]}]
         \/ UNCHANGED <<pool, surf>>
  BY Zenon DEF MakeSurface, InnerRest, queue, counters, ghost, device, channel
<1>2. /\ LocalOk(pc[t], op[t], who[t], id[t], desc[t], calls) /\ Locals
      /\ calls \in 0 .. MaxCalls /\ id[t] \in Nat
  BY LocalsOf
<1>3. id[t] \in 1 .. calls /\ who[t] \in Clients
  BY <1>1, <1>2 DEF LocalOk
<1>4. Locals' /\ Left(t)
  BY <1>1, <1>2, ReturnStep
<1>5. Becomes(t, "idle", "none", NoClient, 0, NoDesc)
  BY <1>4 DEF Left
<1>6. Chan' /\ ProbePart' /\ LeakInv' /\ ClientTypes' /\ ProbeTypes' /\ DevTypes'
  BY <1>1, <1>5, InnerStep DEF ProbeAt
<1>7. SurfTypes' /\ SurfaceOneHolder'
  <2>1. CASE UNCHANGED <<pool, surf>>
    BY <1>0, <1>1, <2>1, SurfaceFrame DEF SurfTypes
  <2>2. CASE /\ ~Taken(ResourceOf(id[t])) /\ pool' = pool \cup {ResourceOf(id[t])}
             /\ surf' = [surf EXCEPT ![who[t]] = @ \cup {id[t]}]
    <3>1. ResourceOf(id[t]) \in Nat /\ id[t] \in SurfIds
      <4>1. id[t] \in Nat /\ id[t] + SurfaceBit \in Nat /\ id[t] \in SurfIds
        BY <1>2, <1>3, UserClientAssumption DEF SurfIds
      <4> QED BY ONLY <4>1, Zenon DEF ResourceOf
    <3>2. ResourceOf(id[t]) \notin pool
      BY <2>2, Zenon DEF Taken
    <3>3. SurfTypes'
      BY <1>0, <1>1, <1>3, <2>2, <3>1 DEF SurfTypes
    <3>4. \A c \in Clients : \A s \in surf'[c] : s \in surf[c] \/ (c = who[t] /\ s = id[t])
      BY <1>0, <2>2 DEF SurfTypes
    <3>5. \A c \in Clients : \A s \in surf[c] : ResourceOf(s) \in pool /\ ResourceOf(s) # ResourceOf(id[t])
      BY <1>0, <3>2, Zenon DEF SurfaceOneHolder
    <3>6. \A c \in Clients : \A s \in surf'[c] : ResourceOf(s) \in pool'
      BY <2>2, <3>4, <3>5
    <3>7. \A c, d \in Clients : \A s \in surf'[c], r \in surf'[d] :
             ResourceOf(s) = ResourceOf(r) => c = d /\ s = r
      <4> SUFFICES ASSUME NEW c \in Clients, NEW d \in Clients, NEW s \in surf'[c], NEW r \in surf'[d],
                          ResourceOf(s) = ResourceOf(r)
                   PROVE  c = d /\ s = r
        BY Zenon
      <4>1. CASE s \in surf[c] /\ r \in surf[d]
        BY <1>0, <4>1, Zenon DEF SurfaceOneHolder
      <4>2. CASE (c = who[t] /\ s = id[t]) /\ (d = who[t] /\ r = id[t])
        BY ONLY <4>2
      <4>3. CASE s \in surf[c] /\ r = id[t]
        BY ONLY <3>5, <4>3, ResourceOf(s) = ResourceOf(r), c \in Clients, Zenon
      <4>4. CASE s = id[t] /\ r \in surf[d]
        BY ONLY <3>5, <4>4, ResourceOf(s) = ResourceOf(r), d \in Clients, Zenon
      <4> QED BY ONLY <3>4, <4>1, <4>2, <4>3, <4>4, c \in Clients, d \in Clients,
                      s \in surf'[c], r \in surf'[d], Zenon
    <3> QED BY <3>3, <3>6, <3>7, Zenon DEF SurfaceOneHolder, ResourceOf
  <2> QED BY <1>1, <2>1, <2>2
<1>8. CtxTypes'
  BY <1>0, <1>1 DEF CtxTypes
<1>9. ApartInv'
  <2>1. \A x \in UserIds : \A c \in Clients : x \in told'[c] => Claimed(x, c)
    BY <1>1, Zenon DEF Claimed
  <2>2. "idle" \notin CtxAt /\ pc[t] # "bump"
    BY <1>1 DEF CtxAt
  <2> QED BY <1>0, <1>1, <1>5, <2>1, <2>2, ApartSlot
<1>10. Types'
  BY <1>4, <1>6, <1>7, <1>8 DEF Types, Locals
<1> QED BY ONLY <1>6, <1>7, <1>9, <1>10, InvParts, Zenon DEF Inv, Chan, ProbePart

-----------------------------------------------------------------------------
(* Steps that change no call.                                              *)

LEMMA QuietStep ==
    ASSUME Inv, UNCHANGED <<channel, caller, pc, locals, probe, device, suspect, exposed, overlap,
                            crossed, fault, raced, kernCtx, nextCtx, ctxLock>>,
           calls' \in 0 .. MaxCalls, calls <= calls', lost \subseteq lost', KeepsDev,
           told' \in [Clients -> SUBSET UserIds],
           \A k \in Clients : told'[k] \subseteq told[k],
           \A x \in Unexplained' : \A k \in Clients : x \in told[k] => \E b \in Clients : x \in told'[b]
    PROVE  Locals' /\ Chan' /\ ProbePart' /\ LeakInv' /\ ApartInv' /\ ProbeTypes' /\ DevTypes' /\ CtxTypes'
<1>0. Types /\ Chan /\ ProbePart /\ LeakInv /\ ApartInv /\ Locals /\ CtxTypes
  BY InvParts DEF Types, Locals
<1>1. /\ UNCHANGED <<channel, caller, busy, held, named, wired, ctxs, owner, res, backing, suspect>>
      /\ UNCHANGED <<exposed, overlap, crossed, fault, raced, kernCtx, nextCtx, ctxLock>>
  BY Zenon DEF probe, device
<1>2. UNCHANGED <<backlog, answer, cmd>>
  BY <1>1 DEF channel
<1>3. Locals' /\ \A t \in Slots : Same(t)
  BY <1>0, SlotsStay
<1>4. Chan'
  <2>1. caller # NoSlot => Same(caller)
    BY <1>0, <1>3, Zenon DEF Chan, ChanInv
  <2> QED BY <1>0, <1>1, <2>1, ChanFrame
<1>5. ProbePart'
  <2>1. ProbeTypes
    BY <1>0 DEF Types
  <2>2. ProbeSame
    <3>1. calls \in Nat /\ calls' \in Nat
      BY <1>0, UserClientAssumption DEF Types, LocalTypes
    <3> QED BY <1>1, <1>2, <3>1 DEF ProbeSame
  <2> QED BY <1>0, <1>1, <1>3, <2>1, <2>2, OutsideStay
<1>6. LeakInv'
  <2>1. suspect \subseteq suspect'
    BY <1>1
  <2> QED BY <1>0, <1>1, <1>2, <1>3, <2>1, LeakStay
<1>7. ApartInv'
  <2>1. \A x \in UserIds : \A k \in Clients : x \in told'[k] => Claimed(x, k)
    <3>1. \A x \in UserIds : \A k \in Clients : x \in told[k] => Claimed(x, k)
      BY Zenon DEF Claimed
    <3> QED BY <3>1
  <2> QED BY <1>0, <1>1, <1>2, <1>3, <2>1, ApartStay
<1>8. ProbeTypes' /\ DevTypes'
  BY <1>0, <1>1 DEF Types, ProbeTypes, DevTypes
<1>9. CtxTypes'
  BY <1>0, <1>1 DEF CtxTypes, UserIds
<1> QED BY <1>3, <1>4, <1>5, <1>6, <1>7, <1>8, <1>9

LEMMA Destroy3DInv ==
    ASSUME Inv, NEW c \in Clients, NEW x \in CtxIds, destroy3DContext(c, x)
    PROVE  Inv'
<1>0. Types /\ CtxTypes /\ SurfTypes /\ SurfaceOneHolder /\ ClientTypes /\ calls \in 0 .. MaxCalls
  BY InvParts DEF Types, LocalTypes
<1>1. /\ UNCHANGED <<channel, caller, pc, locals, probe, device, suspect, exposed, overlap,
                     crossed, fault, raced, kernCtx, nextCtx, ctxLock>>
      /\ UNCHANGED <<dev, open, freed, nextSurf, pool, surf>>
      /\ calls < MaxCalls /\ calls' = calls + 1
      /\ told' = [told EXCEPT ![c] = @ \ {x}] /\ lost' = lost \cup {x}
  BY Zenon DEF destroy3DContext, queue, clients, counters, surfaces
<1>2. calls' \in 0 .. MaxCalls /\ calls <= calls'
  BY <1>0, <1>1, UserClientAssumption
<1>3. /\ told' \in [Clients -> SUBSET UserIds] /\ lost \subseteq lost'
      /\ \A k \in Clients : told'[k] \subseteq told[k]
  BY <1>0, <1>1 DEF CtxTypes, UserIds
<1>4. \A y \in Unexplained' : \A k \in Clients : y \in told[k] => \E b \in Clients : y \in told'[b]
  <2>1. \A y \in Unexplained' : y # x
    BY <1>1 DEF Unexplained
  <2>2. \A y : \A k \in Clients : y \in told[k] /\ y # x => y \in told'[k]
    BY <1>0, <1>1 DEF CtxTypes
  <2> QED BY <2>1, <2>2, Zenon
<1>5. Locals' /\ Chan' /\ ProbePart' /\ LeakInv' /\ ApartInv' /\ ProbeTypes' /\ DevTypes' /\ CtxTypes'
  BY <1>1, <1>2, <1>3, <1>4, QuietStep DEF KeepsDev
<1>6. ClientTypes' /\ SurfaceOneHolder'
  BY <1>0, <1>1, SurfaceFrame DEF ClientTypes
<1>7. SurfTypes'
  BY <1>0, <1>1, <1>2, UserClientAssumption DEF SurfTypes
<1>8. Types'
  BY <1>5, <1>6, <1>7 DEF Types, Locals
<1> QED BY ONLY <1>5, <1>6, <1>8, InvParts, Zenon DEF Inv, Chan, ProbePart

LEMMA ToldStay ==
    ASSUME Inv, UNCHANGED told
    PROVE  /\ told' \in [Clients -> SUBSET UserIds]
           /\ \A k \in Clients : told'[k] \subseteq told[k]
           /\ \A x \in Unexplained' : \A k \in Clients : x \in told[k] => \E b \in Clients : x \in told'[b]
<1>1. told \in [Clients -> SUBSET UserIds]
  BY InvParts, Zenon DEF Types, CtxTypes, UserIds
<1>2. \A x \in Unexplained' : \A k \in Clients : x \in told[k] => \E b \in Clients : x \in told'[b]
  BY Zenon
<1> QED BY <1>1, <1>2

LEMMA DestroySurfaceInv ==
    ASSUME Inv, NEW c \in Clients, NEW s \in SurfIds, destroySurface(c, s)
    PROVE  Inv'
<1>0. Types /\ CtxTypes /\ SurfTypes /\ SurfaceOneHolder /\ ClientTypes /\ calls \in 0 .. MaxCalls
  BY InvParts DEF Types, LocalTypes
<1>1. /\ UNCHANGED <<channel, caller, pc, locals, probe, device, suspect, exposed, overlap,
                     crossed, fault, raced, kernCtx, nextCtx, ctxLock>>
      /\ UNCHANGED <<dev, open, freed, nextSurf, told, lost>>
      /\ calls < MaxCalls /\ calls' = calls + 1 /\ s \in surf[c]
      /\ \/ pool' = pool \ {ResourceOf(s)} /\ surf' = [surf EXCEPT ![c] = @ \ {s}]
         \/ UNCHANGED <<pool, surf>>
  BY Zenon DEF destroySurface, queue, clients, counters, ghost
<1>2. calls' \in 0 .. MaxCalls /\ calls <= calls' /\ lost \subseteq lost'
  BY <1>0, <1>1, UserClientAssumption
<1>3. Locals' /\ Chan' /\ ProbePart' /\ LeakInv' /\ ApartInv' /\ ProbeTypes' /\ DevTypes' /\ CtxTypes'
  BY <1>1, <1>2, ToldStay, QuietStep DEF KeepsDev
<1>4. ClientTypes' /\ SurfTypes'
  <2>1. ClientTypes'
    BY <1>0, <1>1 DEF ClientTypes
  <2>2. pool' \subseteq Nat /\ surf' \in [Clients -> SUBSET SurfIds]
    BY <1>0, <1>1 DEF SurfTypes, SurfIds
  <2>3. /\ nextSurf' \in [Clients -> 1 .. MaxCalls + 1]
        /\ \A d \in Clients : nextSurf'[d] <= calls' + 1
    BY <1>0, <1>1, UserClientAssumption DEF SurfTypes
  <2> QED BY <2>1, <2>2, <2>3 DEF SurfTypes, SurfIds
<1>5. SurfaceOneHolder'
  <2>1. CASE UNCHANGED <<pool, surf>>
    BY <1>0, <2>1, SurfaceFrame
  <2>2. CASE pool' = pool \ {ResourceOf(s)} /\ surf' = [surf EXCEPT ![c] = @ \ {s}]
    <3>1. \A d \in Clients : \A r \in surf'[d] : r \in surf[d] /\ ~(d = c /\ r = s)
      BY <1>0, <2>2 DEF SurfTypes
    <3>2. \A d \in Clients : \A r \in surf'[d] : ResourceOf(r) \in pool /\ ResourceOf(r) # ResourceOf(s)
      BY <1>0, <1>1, <3>1, Zenon DEF SurfaceOneHolder
    <3>3. \A d \in Clients : \A r \in surf'[d] : ResourceOf(r) \in pool'
      BY <2>2, <3>2
    <3>4. \A d, e \in Clients : \A r \in surf'[d], q \in surf'[e] :
             ResourceOf(r) = ResourceOf(q) => d = e /\ r = q
      BY <1>0, <3>1, Zenon DEF SurfaceOneHolder
    <3> QED BY <3>3, <3>4, Zenon DEF SurfaceOneHolder, ResourceOf
  <2> QED BY <1>1, <2>1, <2>2
<1>6. Types'
  BY <1>3, <1>4 DEF Types, Locals
<1> QED BY ONLY <1>3, <1>5, <1>6, InvParts, Zenon DEF Inv, Chan, ProbePart

\* stop, and a step of something else.
LEMMA StopInv ==
    ASSUME Inv, NEW c \in Clients, stop(c)
    PROVE  Inv'
<1>0. Types /\ CtxTypes /\ SurfTypes /\ SurfaceOneHolder /\ ClientTypes /\ calls \in 0 .. MaxCalls
  BY InvParts DEF Types, LocalTypes
<1>1. /\ UNCHANGED <<channel, caller, pc, locals, probe, device, suspect, exposed, overlap,
                     crossed, fault, raced, kernCtx, nextCtx, ctxLock>>
      /\ UNCHANGED <<open, freed, nextSurf, pool, surf, told, lost, calls>> /\ dev' = dev \ {c}
  BY Zenon DEF stop, queue, surfaces, counters, ghost
<1>2. calls' \in 0 .. MaxCalls /\ calls <= calls' /\ lost \subseteq lost'
  BY <1>0, <1>1, UserClientAssumption
<1>3. Locals' /\ Chan' /\ ProbePart' /\ LeakInv' /\ ApartInv' /\ ProbeTypes' /\ DevTypes' /\ CtxTypes'
  <2>1. KeepsDev
    BY <1>1, Zenon DEF stop, InCall, KeepsDev
  <2> QED BY <1>1, <1>2, <2>1, ToldStay, QuietStep
<1>4. ClientTypes' /\ SurfTypes' /\ SurfaceOneHolder'
  BY <1>0, <1>1, SurfaceFrame DEF ClientTypes, SurfTypes
<1>5. Types'
  BY <1>3, <1>4 DEF Types, Locals
<1> QED BY ONLY <1>3, <1>4, <1>5, InvParts, Zenon DEF Inv, Chan, ProbePart

LEMMA StutterInv ==
    ASSUME Inv, UNCHANGED vars
    PROVE  Inv'
<1>0. Types /\ CtxTypes /\ SurfTypes /\ SurfaceOneHolder /\ ClientTypes /\ calls \in 0 .. MaxCalls
  BY InvParts DEF Types, LocalTypes
<1>1. /\ UNCHANGED <<channel, caller, pc, locals, probe, device, suspect, exposed, overlap,
                     crossed, fault, raced, kernCtx, nextCtx, ctxLock>>
      /\ UNCHANGED <<dev, open, freed, nextSurf, pool, surf, told, lost, calls>>
  BY Zenon DEF vars, queue, clients, surfaces, counters, ghost
<1>2. calls' \in 0 .. MaxCalls /\ calls <= calls' /\ lost \subseteq lost'
  BY <1>0, <1>1, UserClientAssumption
<1>3. Locals' /\ Chan' /\ ProbePart' /\ LeakInv' /\ ApartInv' /\ ProbeTypes' /\ DevTypes' /\ CtxTypes'
  BY <1>1, <1>2, ToldStay, QuietStep DEF KeepsDev
<1>4. ClientTypes' /\ SurfTypes' /\ SurfaceOneHolder'
  BY <1>0, <1>1, SurfaceFrame DEF ClientTypes, SurfTypes
<1>5. Types'
  BY <1>3, <1>4 DEF Types, Locals
<1> QED BY ONLY <1>3, <1>4, <1>5, InvParts, Zenon DEF Inv, Chan, ProbePart

-----------------------------------------------------------------------------
(* The command path.                                                       *)

\* The position a command tells of.
LEMMA TypeOfAt ==
    ASSUME NEW t \in Slots, pc[t] \in Sending
    PROVE  /\ TypeOf(t) = "create" => pc[t] \in {"create", "A"}
           /\ TypeOf(t) = "attach" => pc[t] = "D"
           /\ pc[t] \in {"destroy", "X"} => TypeOf(t) = "destroy"
           /\ pc[t] = "U" => TypeOf(t) = "unref"
BY DEF TypeOf, Sending

\* What a step that changes only the channel and the device keeps.
LEMMA ChannelRest ==
    ASSUME Inv, UNCHANGED <<clients, counters, surfaces, told, probe, pc, locals, calls>>
    PROVE  /\ Locals' /\ (\A t \in Slots : Same(t)) /\ ClientTypes' /\ CtxTypes' /\ SurfTypes'
           /\ ProbeTypes' /\ SurfaceOneHolder' /\ calls \in Nat
<1>0. Types /\ Locals /\ CtxTypes /\ SurfTypes /\ SurfaceOneHolder /\ ClientTypes /\ ProbeTypes
      /\ calls \in 0 .. MaxCalls
  BY InvParts DEF Types, LocalTypes, Locals
<1>1. /\ UNCHANGED <<dev, open, freed, nextCtx, kernCtx, ctxLock, nextSurf, pool, surf, told, calls>>
      /\ UNCHANGED <<busy, held, named, wired>>
  BY Zenon DEF clients, counters, surfaces, probe
<1>2. calls' \in 0 .. MaxCalls /\ calls <= calls' /\ calls \in Nat
  BY <1>0, <1>1, UserClientAssumption
<1>3. Locals' /\ \A t \in Slots : Same(t)
  BY <1>0, <1>2, SlotsStay
<1>4. ClientTypes' /\ CtxTypes' /\ SurfTypes' /\ ProbeTypes' /\ SurfaceOneHolder'
  BY <1>0, <1>1, SurfaceFrame DEF ClientTypes, CtxTypes, SurfTypes, ProbeTypes
<1> QED BY <1>2, <1>3, <1>4

LEMMA DevPushInv ==
    ASSUME Inv, DevPush
    PROVE  Inv'
<1>0. Types /\ Chan /\ LeakInv /\ ApartInv /\ ProbePart /\ ProbeTypes
  BY InvParts DEF Types
<1>1. /\ Push /\ UNCHANGED <<caller, clients, counters, surfaces, told, probe, pc, locals, calls>>
      /\ UNCHANGED <<ctxs, owner, res, backing, suspect, lost, exposed, raced, overlap, crossed, fault>>
      /\ UNCHANGED dev
  BY Zenon DEF DevPush, device, ghost, clients
<1>2. UNCHANGED <<nextCtx, kernCtx, busy, held, named, wired>>
  BY <1>1, Zenon DEF counters, probe
<1>3. Chan' /\ UNCHANGED <<cmd, backlog, answer, waiting>>
  BY <1>0, <1>1, <1>2, PushStep
<1>4. /\ Locals' /\ (\A t \in Slots : Same(t)) /\ ClientTypes' /\ CtxTypes' /\ SurfTypes'
      /\ ProbeTypes' /\ SurfaceOneHolder' /\ calls \in Nat
  BY <1>1, ChannelRest
<1>5. ProbePart'
  <2>1. ProbeSame
    BY <1>1, <1>2, <1>3, <1>4 DEF ProbeSame, KeepsDev
  <2> QED BY <1>0, <1>1, <1>4, <2>1, OutsideStay
<1>6. LeakInv'
  BY <1>0, <1>1, <1>3, <1>4, ToldStay, LeakStay
<1>7. ApartInv'
  <2>1. \A x \in UserIds : \A k \in Clients : x \in told'[k] => Claimed(x, k)
    BY <1>1, Zenon DEF Claimed
  <2> QED BY <1>0, <1>1, <1>2, <1>3, <1>4, <2>1, ApartStay
<1>8. DevTypes'
  BY <1>0, <1>1 DEF Types, DevTypes
<1>9. Types'
  BY <1>4, <1>8 DEF Types, Locals
<1> QED BY ONLY <1>3, <1>4, <1>5, <1>6, <1>7, <1>9, InvParts, Zenon DEF Inv, Chan, ProbePart

LEMMA SendCommandInv ==
    ASSUME Inv, NEW t \in Slots, SendCommand(t)
    PROVE  Inv'
<1>0. Types /\ Chan /\ LeakInv /\ ApartInv /\ ProbePart /\ ProbeTypes
  BY InvParts DEF Types
<1>1. /\ UNCHANGED <<clients, counters, surfaces, told, probe, pc, locals, calls>>
      /\ UNCHANGED <<ctxs, owner, res, backing, lost, exposed, raced, overlap, crossed, fault>>
  BY Zenon DEF SendCommand, device
<1>2. UNCHANGED <<nextCtx, kernCtx, busy, held, named, wired>>
  BY <1>1, Zenon DEF counters, probe
<1>3. /\ LocalOk(pc[t], op[t], who[t], id[t], desc[t], calls) /\ Locals
  BY LocalsOf
<1>4. Chan' /\ Sent(t)
  BY <1>0, <1>3, SendStep
<1>5. /\ Locals' /\ (\A u \in Slots : Same(u)) /\ ClientTypes' /\ CtxTypes' /\ SurfTypes'
      /\ ProbeTypes' /\ SurfaceOneHolder' /\ calls \in Nat
  BY <1>1, ChannelRest
<1>6. caller = NoSlot /\ pc[t] \in Sending /\ suspect \subseteq suspect'
      /\ cmd'.ctx = id[t] /\ cmd'.who = who[t]
  BY <1>4 DEF Sent
<1>7. \A u \in Slots : caller # u
  BY <1>6, UserClientAssumption
<1>8. ApartInv'
  <2>1. id[t] \in UserIds => pc[t] \in CtxAt
    BY <1>3, <1>6, UserClientAssumption DEF LocalOk, Sending, CtxAt, ProbeAt, UserIds, CtxIds
  <2>2. ASSUME NEW x \in UserIds, NEW c \in Clients, Claimed(x, c)' PROVE Claimed(x, c)
    <3>1. CASE cmd'.ctx = x /\ cmd'.who = c
      BY <1>6, <2>1, <3>1, Zenon DEF Claimed
    <3>2. CASE x \in told'[c] \/ c \in owner'[x]
               \/ \E u \in Slots : pc'[u] \in CtxAt /\ id'[u] = x /\ who'[u] = c
      BY <1>1, <1>5, <3>2, Zenon DEF Claimed, Same
    <3> QED BY <2>2, <3>1, <3>2, Zenon DEF Claimed
  <2>3. \A u \in Slots : (pc'[u] = "bump" <=> pc[u] = "bump") /\ (pc[u] = "bump" => id'[u] = id[u])
    BY <1>5, Zenon DEF Same
  <2> QED BY <1>0, <1>1, <1>2, <2>2, <2>3, ApartFrame
<1>9. LeakInv'
  <2> SUFFICES ASSUME NEW x \in Unexplained'
               PROVE  (\E c \in Clients : x \in told'[c]) \/ \E u \in Slots : Answers4(u, x)'
    BY Zenon DEF LeakInv, Unexplained, CtxIds
  <2>1. x \in Unexplained
    BY <1>1, <1>6 DEF Unexplained, CtxIds
  <2>2. (\E c \in Clients : x \in told[c]) \/ \E u \in Slots : Answers4(u, x)
    BY <1>0, <2>1, Zenon DEF LeakInv, Unexplained
  <2>3. \A u \in Slots : Answers4(u, x) => Answers4(u, x)'
    BY <1>5, <1>7, Zenon DEF Answers4, Same
  <2> QED BY <1>1, <2>2, <2>3, Zenon
<1>10. AgentInv'
  <2> SUFFICES ASSUME AgentDue'
               PROVE  (\E c \in Clients : c \in busy' /\ c \in named') \/ \E u \in Slots : Agent(u)'
    BY Zenon DEF AgentInv, AgentDue
  <2>1. AgentDue
    BY <1>1, <1>6 DEF AgentDue
  <2>2. (\E c \in Clients : c \in busy /\ c \in named) \/ \E u \in Slots : Agent(u)
    BY <1>0, <2>1, Zenon DEF ProbePart, AgentInv, AgentDue
  <2>3. \A u \in Slots : Agent(u) => Agent(u)'
    BY <1>2, <1>5, <1>7, Zenon DEF Agent, Same
  <2> QED BY <1>2, <2>2, <2>3, Zenon
<1>11. PagesInv' /\ ProbeDanglingExplained'
  <2>1. calls' = calls /\ calls <= calls'
    BY <1>1, <1>5
  <2>2. PagesInv'
    BY <1>0, <1>1, <1>2, <1>5, <2>1, PagesStay DEF ProbePart, KeepsDev, clients
  <2>3. ProbeDanglingExplained'
    BY <1>0, <1>1, <1>2, <1>5, <1>6, DanglingStay DEF ProbePart
  <2> QED BY <2>2, <2>3
<1>12. DevTypes'
  BY <1>0, <1>1 DEF Types, DevTypes
<1>13. Types'
  BY <1>5, <1>12 DEF Types, Locals
<1> QED BY ONLY <1>4, <1>5, <1>8, <1>9, <1>10, <1>11, <1>13, InvParts, Zenon DEF Inv, Chan

LEMMA DevExecuteInv ==
    ASSUME Inv, DevExecute
    PROVE  Inv'
<1>0. Types /\ Chan /\ LeakInv /\ ApartInv /\ ProbePart /\ ProbeTypes /\ DevTypes
  BY InvParts DEF Types
<1>1. Obeys /\ DevRest /\ cmd \in ClientCommand /\ backlog > 0
  BY <1>0, ObeyStep
<1>2. /\ UNCHANGED <<clients, counters, surfaces, told, probe, pc, locals, calls>>
      /\ UNCHANGED <<cmd, caller, suspect, lost, exposed, raced, overlap, fault>>
  BY <1>1, Zenon DEF DevRest
<1>3. UNCHANGED <<nextCtx, kernCtx, busy, held, named, wired>>
  BY <1>2, Zenon DEF counters, probe
<1>4. /\ Locals' /\ (\A u \in Slots : Same(u)) /\ ClientTypes' /\ CtxTypes' /\ SurfTypes'
      /\ ProbeTypes' /\ SurfaceOneHolder' /\ calls \in Nat
  BY <1>2, ChannelRest
<1>5. Chan' /\ Types'
  BY <1>0, ExecuteChan, ExecuteTypes
<1>6. /\ cmd.ctx \in CtxIds \cup {ProbeCtx} /\ cmd.who \in Clients
      /\ cmd.type = "attach" => cmd.ctx = ProbeCtx
  BY <1>0, <1>1 DEF ClientCommand, Chan, ChanInv
<1>7. ApartInv'
  <2>1. ASSUME NEW x \in UserIds, NEW c \in Clients, c \in owner'[x] PROVE Claimed(x, c)
    <3>1. x \in CtxIds
      BY DEF UserIds
    <3>2. c \in owner[x] \/ (cmd.ctx = x /\ cmd.who = c)
      <4>1. CASE DidCreate
        BY <1>0, <1>6, <2>1, <3>1, <4>1 DEF DidCreate, DevTypes
      <4>2. CASE DidDestroy
        BY <1>0, <1>6, <2>1, <3>1, <4>2 DEF DidDestroy, DevTypes
      <4>3. CASE DidUse \/ DidMake \/ DidAttach \/ DidUnref \/ DidNothing
        BY <2>1, <4>3, Zenon DEF DidUse, DidMake, DidAttach, DidUnref, DidNothing, DevSame
      <4> QED BY <1>1, <4>1, <4>2, <4>3, Zenon DEF Obeys
    <3> QED BY <1>1, <3>2, Zenon DEF Claimed
  <2>2. ASSUME NEW x \in UserIds, NEW c \in Clients, Claimed(x, c)' PROVE Claimed(x, c)
    <3>1. CASE c \in owner'[x]
      BY <2>1, <3>1
    <3>2. CASE x \in told'[c] \/ (cmd' \in ClientCommand /\ cmd'.ctx = x /\ cmd'.who = c)
               \/ \E u \in Slots : pc'[u] \in CtxAt /\ id'[u] = x /\ who'[u] = c
      BY <1>2, <1>4, <3>2, Zenon DEF Claimed, Same
    <3> QED BY <2>2, <3>1, <3>2, Zenon DEF Claimed, ClientCommand
  <2>3. \A u \in Slots : (pc'[u] = "bump" <=> pc[u] = "bump") /\ (pc[u] = "bump" => id'[u] = id[u])
    BY <1>4, Zenon DEF Same
  <2>4. CASE raced \/ kernCtx >= FirstUserCtx
    BY <1>2, <1>3, <2>4, Zenon DEF ApartInv
  <2>5. CASE Apart
    <3>1. crossed' <=> crossed
      <4>1. CASE DidUse
        <5>1. cmd.ctx \in ctxs
          BY <4>1 DEF DidUse
        <5>2. CASE cmd.ctx = ProbeCtx
          BY <4>1, <5>2, Zenon DEF DidUse
        <5>3. CASE cmd.ctx # ProbeCtx
          <6>1. cmd.ctx \in UserIds /\ owner[cmd.ctx] # {} /\ owner[cmd.ctx] \subseteq Clients
            BY <1>0, <1>6, <5>1, <5>3 DEF DevTypes, UserIds
          <6>2. Claimed(cmd.ctx, cmd.who)
            BY <1>1, Zenon DEF Claimed
          <6>3. \A c \in owner[cmd.ctx] : Claimed(cmd.ctx, c)
            BY Zenon DEF Claimed
          <6>4. \A x \in UserIds : \A c, d \in Clients : Claimed(x, c) /\ Claimed(x, d) => c = d
            BY <2>5, Zenon DEF Apart, UserIds
          <6>5. \A c \in owner[cmd.ctx] : c = cmd.who
            BY <1>6, <6>1, <6>2, <6>3, <6>4
          <6>6. owner[cmd.ctx] = {cmd.who}
            BY <6>1, <6>5
          <6> QED BY <4>1, <6>6, Zenon DEF DidUse
        <5> QED BY <5>2, <5>3
      <4>2. CASE DidCreate \/ DidDestroy \/ DidMake \/ DidAttach \/ DidUnref \/ DidNothing
        BY <4>2, Zenon DEF DidCreate, DidDestroy, DidMake, DidAttach, DidUnref, DidNothing
      <4> QED BY <1>1, <4>1, <4>2, Zenon DEF Obeys
    <3> QED BY <1>0, <1>2, <1>3, <2>2, <2>3, <3>1, ApartFrame
  <2> QED BY <1>0, <2>4, <2>5, Zenon DEF ApartInv
<1>8. \A x \in ctxs' : x \in ctxs \/ (DidCreate /\ x = cmd.ctx)
  <2>1. CASE DidCreate
    BY <2>1 DEF DidCreate
  <2>2. CASE DidDestroy
    BY <2>2 DEF DidDestroy
  <2>3. CASE DidUse \/ DidMake \/ DidAttach \/ DidUnref \/ DidNothing
    BY <2>3, Zenon DEF DidUse, DidMake, DidAttach, DidUnref, DidNothing, DevSame
  <2> QED BY <1>1, <2>1, <2>2, <2>3, Zenon DEF Obeys
<1>9. ASSUME DidCreate, cmd.ctx \notin suspect
      PROVE  /\ caller \in Slots /\ caller' = caller /\ id'[caller] = cmd.ctx
             /\ backlog' = 0 /\ answer' # "err" /\ pc'[caller] \in {"create", "A"}
             /\ LocalOk(pc[caller], op[caller], who[caller], id[caller], desc[caller], calls)
  <2>1. /\ caller \in Slots /\ caller' = caller /\ id[caller] = cmd.ctx /\ backlog' = 0
        /\ cmd.type # "none" => cmd.type = TypeOf(caller)
    BY <1>0, <1>9, Trusted
  <2>2. cmd.type = "create" /\ answer' = "nodata"
    BY <1>9 DEF DidCreate
  <2>3. pc[caller] \in Sending
    BY <1>0, <2>1, UserClientAssumption DEF Chan, CallerInv
  <2>4. pc[caller] \in {"create", "A"}
    BY <2>1, <2>2, <2>3, TypeOfAt
  <2>5. Same(caller)
    BY <1>4, <2>1
  <2>6. LocalOk(pc[caller], op[caller], who[caller], id[caller], desc[caller], calls)
    BY <2>1, LocalsOf
  <2> QED BY <2>1, <2>2, <2>4, <2>5, <2>6 DEF Same
<1>10. LeakInv'
  <2> SUFFICES ASSUME NEW x \in Unexplained'
               PROVE  (\E c \in Clients : x \in told'[c]) \/ \E u \in Slots : Answers4(u, x)'
    BY Zenon DEF LeakInv, Unexplained, CtxIds
  <2>1. x \in CtxIds /\ x \in ctxs' /\ x \notin lost /\ x \notin suspect
    BY <1>2 DEF Unexplained, CtxIds
  <2>2. CASE x \in ctxs
    <3>1. (\E c \in Clients : x \in told[c]) \/ \E u \in Slots : Answers4(u, x)
      BY <1>0, <2>1, <2>2 DEF LeakInv
    <3>2. backlog # 0
      BY <1>1
    <3>3. \A u \in Slots : Answers4(u, x) => Answers4(u, x)'
      BY <1>4, <3>2, Zenon DEF Answers4, Same
    <3> QED BY <1>2, <3>1, <3>3, Zenon
  <2>3. CASE DidCreate /\ x = cmd.ctx
    <3>1. /\ caller \in Slots /\ caller' = caller /\ id'[caller] = cmd.ctx
          /\ backlog' = 0 /\ answer' # "err" /\ pc'[caller] \in {"create", "A"}
          /\ LocalOk(pc[caller], op[caller], who[caller], id[caller], desc[caller], calls)
      BY <1>9, <2>1, <2>3
    <3>2. Same(caller)
      BY <1>4, <3>1
    <3>3. pc'[caller] # "A"
      BY <2>1, <2>3, <3>1, <3>2, UserClientAssumption DEF LocalOk, ProbeAt, CtxIds, Same
    <3>5. \E u \in Slots : Answers4(u, x)'
      BY <1>2, <2>3, <3>1, <3>3, Zenon DEF Answers4
    <3> QED BY <3>5
  <2> QED BY <1>8, <2>1, <2>2, <2>3
<1>11. AgentInv'
  <2> SUFFICES ASSUME AgentDue'
               PROVE  (\E c \in Clients : c \in busy' /\ c \in named') \/ \E u \in Slots : Agent(u)'
    BY Zenon DEF AgentInv, AgentDue
  <2>1. ProbeCtx \in ctxs' /\ ~exposed /\ ProbeCtx \notin suspect
    BY <1>2 DEF AgentDue
  <2>2. CASE ProbeCtx \in ctxs
    <3>1. (\E c \in Clients : c \in busy /\ c \in named) \/ \E u \in Slots : Agent(u)
      BY <1>0, <2>1, <2>2, Zenon DEF ProbePart, AgentInv
    <3>2. backlog # 0
      BY <1>1
    <3>3. \A u \in Slots : Agent(u) => Agent(u)'
      BY <1>3, <1>4, <3>2, Zenon DEF Agent, Same
    <3> QED BY <1>3, <3>1, <3>3, Zenon
  <2>3. CASE DidCreate /\ ProbeCtx = cmd.ctx
    <3>1. /\ caller \in Slots /\ caller' = caller /\ id'[caller] = cmd.ctx
          /\ backlog' = 0 /\ answer' # "err" /\ pc'[caller] \in {"create", "A"}
          /\ LocalOk(pc[caller], op[caller], who[caller], id[caller], desc[caller], calls)
      BY <1>9, <2>1, <2>3
    <3>2. Same(caller)
      BY <1>4, <3>1
    <3>3. pc'[caller] = "A" /\ op'[caller] = "probe1"
      BY <2>1, <2>3, <3>1, <3>2, UserClientAssumption DEF LocalOk, ProbeAt, CtxAt, CtxIds, Same
    <3>4. \E u \in Slots : Agent(u)'
      BY <3>1, <3>3, Zenon DEF Agent
    <3> QED BY <3>4
  <2> QED BY <1>8, <2>1, <2>2, <2>3
<1>12. PagesInv'
  <2>1. calls' = calls /\ calls <= calls'
    BY <1>2, <1>4
  <2> QED BY <1>0, <1>2, <1>3, <1>4, <2>1, PagesStay DEF ProbePart, KeepsDev, clients
<1>13. ProbeDanglingExplained'
  <2>1. CASE backing' = backing
    BY <1>0, <1>2, <1>3, <1>4, <2>1, DanglingStay DEF ProbePart
  <2>2. CASE backing' = NoDesc
    BY <2>2, Zenon DEF ProbeDanglingExplained, NoDesc
  <2>3. CASE DidAttach
    <3> SUFFICES ASSUME ProbeCtx \notin suspect, ~overlap PROVE backing' \in wired'
      BY <1>2, Zenon DEF ProbeDanglingExplained
    <3>1. backing' = cmd.desc /\ cmd.type = "attach" /\ cmd.ctx = ProbeCtx
      BY <1>6, <2>3 DEF DidAttach
    <3>2. caller \in Slots /\ cmd.type = TypeOf(caller) /\ cmd.desc = desc[caller]
      BY <1>0, <3>1, Trusted
    <3>3. pc[caller] = "D"
      <4>1. pc[caller] \in Sending
        BY <1>0, <3>2, UserClientAssumption DEF Chan, CallerInv
      <4> QED BY <3>1, <3>2, <4>1, TypeOfAt
    <3>4. op[caller] = "probe1" /\ desc[caller] \in Descs
      <4>1. LocalOk(pc[caller], op[caller], who[caller], id[caller], desc[caller], calls)
            /\ calls \in 0 .. MaxCalls
        BY <3>2, LocalsOf
      <4> QED BY <3>3, <4>1, UserClientAssumption DEF LocalOk, ProbeAt, Descs
    <3>5. Orderly
      BY <1>0, Zenon DEF ProbePart, PagesInv
    <3>6. desc[caller] \in wired
      BY <3>2, <3>3, <3>4, <3>5 DEF Orderly, Pinned
    <3> QED BY <1>3, <3>1, <3>2, <3>6
  <2>4. backing' = backing \/ backing' = NoDesc \/ DidAttach
    BY <1>1, Zenon DEF Obeys, DidCreate, DidDestroy, DidUse, DidMake, DidUnref, DidNothing, DevSame
  <2> QED BY <2>1, <2>2, <2>3, <2>4
<1> QED BY ONLY <1>4, <1>5, <1>7, <1>10, <1>11, <1>12, <1>13, InvParts, Zenon DEF Inv, Chan

-----------------------------------------------------------------------------
(* Calls whose command returned.                                           *)

\* Above suspicion, the command of a call that returns was executed.
LEMMA Performed ==
    ASSUME Inv, NEW t \in Slots, NEW ok, Ended(t, ok), id[t] \notin suspect'
    PROVE  /\ pc[t] = "destroy" \/ (pc[t] = "X" /\ (op[t] = "probe1" \/ who[t] \in named))
                => id[t] \notin ctxs
           /\ pc[t] = "U" /\ (op[t] = "probe1" \/ who[t] \in named) => backing = NoDesc
<1>0. Chan
  BY InvParts
<1>1. caller = t /\ t # NoSlot /\ id[t] \notin suspect /\ backlog = 0
  BY UserClientAssumption DEF Ended
<1>2. /\ pc[t] \in Sending /\ cmd.ctx = id[t]
      /\ IF cmd.type = "none"
         THEN op[t] # "probe1" /\ pc[t] \in {"F", "U", "X"} /\ who[t] \notin named
         ELSE cmd.type = TypeOf(t)
  BY <1>0, <1>1, Zenon DEF Chan, CallerInv
<1>3. /\ cmd.type = "destroy" => cmd.ctx \notin ctxs
      /\ cmd.type = "unref" => backing = NoDesc
  BY <1>0, <1>1, Zenon DEF Chan, DoneInv
<1>4. /\ pc[t] \in {"destroy", "X"} => TypeOf(t) = "destroy"
      /\ pc[t] = "U" => TypeOf(t) = "unref"
  BY <1>2, TypeOfAt
<1> QED BY <1>2, <1>3, <1>4

\* What such a step keeps whatever it does to the call.
LEMMA EndRest ==
    ASSUME Inv, NEW t \in Slots, NEW ok, Ended(t, ok), NEW p, NEW o, NEW c, NEW i, NEW d,
           Becomes(t, p, o, c, i, d), p \notin CtxAt, pc[t] # "bump",
           ctxLock' \in Slots \cup {NoSlot}, told' \in [Clients -> SUBSET UserIds],
           \A x \in UserIds : \A k \in Clients : x \in told'[k] => Claimed(x, k)
    PROVE  ClientTypes' /\ SurfTypes' /\ DevTypes' /\ CtxTypes' /\ SurfaceOneHolder' /\ ApartInv'
<1>0. Types /\ ClientTypes /\ SurfTypes /\ DevTypes /\ CtxTypes /\ SurfaceOneHolder /\ ApartInv
  BY InvParts DEF Types
<1>1. UNCHANGED <<ctxs, owner, res, backing, dev, open, freed, nextCtx, kernCtx, nextSurf, pool, surf,
                  calls, raced, crossed, cmd>>
  BY Zenon DEF Ended, DevSame
<1>2. ClientTypes' /\ SurfTypes' /\ DevTypes' /\ SurfaceOneHolder'
  BY <1>0, <1>1, SurfaceFrame DEF ClientTypes, SurfTypes, DevTypes
<1>3. CtxTypes'
  BY <1>0, <1>1 DEF CtxTypes, UserIds
<1>4. ApartInv'
  <2>1. p # "bump"
    BY DEF CtxAt
  <2> QED BY <1>0, <1>1, <2>1, ApartSlot
<1> QED BY <1>2, <1>3, <1>4

LEMMA EndLeak ==
    ASSUME Inv, NEW t \in Slots, NEW ok, Ended(t, ok), NEW p, NEW o, NEW c, NEW i, NEW d,
           Becomes(t, p, o, c, i, d), lost \subseteq lost',
           \A k \in Clients : told[k] \subseteq told'[k],
           \A x \in Unexplained' : Answers4(t, x) => \E b \in Clients : x \in told'[b]
    PROVE  LeakInv'
<1>1. LeakInv
  BY InvParts
<1>2. UNCHANGED <<ctxs, backlog, answer>> /\ suspect \subseteq suspect' /\ caller = t
      /\ NoSlot \notin Slots
  BY UserClientAssumption DEF Ended, DevSame
<1>3. \A x \in Unexplained' : \A k \in Clients :
         x \in told[k] => (\E b \in Clients : x \in told'[b]) \/ (p = "destroy" /\ i = x)
  <2>1. \A x : \A k \in Clients : x \in told[k] => x \in told'[k]
    OBVIOUS
  <2> QED BY ONLY <2>1, Zenon
<1> QED BY <1>1, <1>2, <1>3, LeakSlot

LEMMA CreatedInv ==
    ASSUME Inv, NEW t \in Slots, Created(t)
    PROVE  Inv'
<1>0. Types /\ Chan /\ ProbePart /\ ProbeTypes /\ CtxTypes
  BY InvParts DEF Types
<1>1. PICK ok \in BOOLEAN :
        /\ Returned(t, "create", ok)
        /\ LET tell == ok /\ op[t] # "virglctx" /\ who[t] \in open
           IN /\ told' = IF tell THEN [told EXCEPT ![who[t]] = @ \cup {id[t]}] ELSE told
              /\ lost' = IF ok /\ ~tell THEN lost \cup {id[t]} ELSE lost
  BY Zenon DEF Created
<1>2. Chan' /\ Ended(t, ok) /\ pc[t] = "create"
  BY <1>0, <1>1, ReturnedStep
<1>3. /\ Return(t) /\ UNCHANGED <<busy, held, named, wired, fault>> /\ ctxLock' \in {ctxLock, NoSlot}
  BY DEF Created, Unlock, probe
<1>4. /\ LocalOk(pc[t], op[t], who[t], id[t], desc[t], calls) /\ Locals
  BY LocalsOf
<1>5. UNCHANGED <<calls, overlap, exposed, ctxs, backing, backlog, answer, dev>> /\ suspect \subseteq suspect'
      /\ caller = t
  BY <1>2 DEF Ended, DevSame
<1>6. Locals' /\ Left(t)
  BY <1>3, <1>4, <1>5, ReturnStep
<1>7. Becomes(t, "idle", "none", NoClient, 0, NoDesc)
  BY <1>6 DEF Left
<1>8. who[t] \in Clients /\ id[t] \in UserIds
  BY <1>2, <1>4 DEF LocalOk, CtxAt, UserIds
<1>9. /\ told' \in [Clients -> SUBSET UserIds] /\ lost \subseteq lost'
      /\ \A k \in Clients : told[k] \subseteq told'[k]
      /\ \A k \in Clients : \A x \in told'[k] : x \in told[k] \/ (k = who[t] /\ x = id[t])
  <2>1. told \in [Clients -> SUBSET UserIds]
    BY <1>0 DEF CtxTypes, UserIds
  <2>2. told' = told \/ told' = [told EXCEPT ![who[t]] = @ \cup {id[t]}]
    BY <1>1
  <2>3. lost \subseteq lost'
    BY <1>1
  <2> QED BY ONLY <1>8, <2>1, <2>2, <2>3
<1>10. \A x \in UserIds : \A k \in Clients : x \in told'[k] => Claimed(x, k)
  <2>1. Claimed(id[t], who[t])
    <3>1. pc[t] \in CtxAt
      BY <1>2 DEF CtxAt
    <3> QED BY <3>1, Zenon DEF Claimed
  <2>2. \A x \in UserIds : \A k \in Clients : x \in told[k] => Claimed(x, k)
    BY Zenon DEF Claimed
  <2> QED BY <1>9, <2>1, <2>2
<1>11. ClientTypes' /\ SurfTypes' /\ DevTypes' /\ CtxTypes' /\ SurfaceOneHolder' /\ ApartInv'
  <2>1. ctxLock' \in Slots \cup {NoSlot}
    BY <1>0, <1>3 DEF CtxTypes
  <2>2. "idle" \notin CtxAt /\ pc[t] # "bump"
    BY <1>2 DEF CtxAt
  <2> QED BY <1>2, <1>7, <1>9, <1>10, <2>1, <2>2, EndRest
<1>12. LeakInv'
  <2>1. ASSUME NEW x \in Unexplained', Answers4(t, x) PROVE \E b \in Clients : x \in told'[b]
    <3>1. x = id[t] /\ answer # "err"
      BY <1>2, <2>1 DEF Answers4
    <3>2. x \notin suspect' /\ x \notin lost'
      BY DEF Unexplained
    <3>3. ok
      BY <1>2, <3>1, <3>2 DEF Ended
    <3>4. told' = [told EXCEPT ![who[t]] = @ \cup {id[t]}]
      BY <1>1, <3>1, <3>2, <3>3
    <3>5. x \in told'[who[t]]
      BY <1>0, <1>8, <3>1, <3>4 DEF CtxTypes
    <3> QED BY <1>8, <3>5
  <2> QED BY <1>2, <1>7, <1>9, <2>1, EndLeak
<1>13. ProbePart' /\ ProbeTypes'
  <2>1. ProbeSame
    <3>1. calls \in Nat
      BY <1>0, UserClientAssumption DEF Types, LocalTypes
    <3> QED BY <1>3, <1>5, <3>1 DEF ProbeSame, KeepsDev
  <2>2. "idle" \notin ProbeAt /\ pc[t] \notin ProbeAt /\ NoSlot \notin Slots
    BY <1>2, UserClientAssumption DEF ProbeAt
  <2>3. ProbePart'
    BY <1>0, <1>5, <1>7, <2>1, <2>2, OutsideSlot
  <2>4. ProbeTypes'
    BY <1>0, <1>3 DEF ProbeTypes
  <2> QED BY <2>3, <2>4
<1>14. Types'
  BY <1>6, <1>11, <1>13 DEF Types, Locals
<1> QED BY ONLY <1>2, <1>11, <1>12, <1>13, <1>14, InvParts, Zenon DEF Inv, Chan, ProbePart

LEMMA UsedInv ==
    ASSUME Inv, NEW t \in Slots, Used(t)
    PROVE  Inv'
<1>0. Types /\ Chan /\ ProbePart /\ ProbeTypes /\ CtxTypes
  BY InvParts DEF Types
<1>1. PICK ok \in BOOLEAN : Returned(t, "destroy", ok) \/ Returned(t, "use", ok)
  BY Zenon DEF Used
<1>2. Chan' /\ Ended(t, ok) /\ pc[t] \in {"destroy", "use"}
  BY <1>0, <1>1, ReturnedStep
<1>3. /\ Return(t) /\ UNCHANGED <<busy, held, named, wired, fault, told, lost>>
      /\ ctxLock' \in {ctxLock, NoSlot}
  BY DEF Used, Unlock, probe
<1>4. Locals
  BY LocalsOf
<1>5. UNCHANGED <<calls, overlap, exposed, ctxs, backing, backlog, answer, dev>> /\ suspect \subseteq suspect'
      /\ caller = t
  BY <1>2 DEF Ended, DevSame
<1>6. Locals' /\ Left(t)
  BY <1>3, <1>4, <1>5, ReturnStep
<1>7. Becomes(t, "idle", "none", NoClient, 0, NoDesc)
  BY <1>6 DEF Left
<1>8. \A x \in UserIds : \A k \in Clients : x \in told'[k] => Claimed(x, k)
  BY <1>3, Zenon DEF Claimed
<1>9. ClientTypes' /\ SurfTypes' /\ DevTypes' /\ CtxTypes' /\ SurfaceOneHolder' /\ ApartInv'
  <2>1. ctxLock' \in Slots \cup {NoSlot} /\ told' \in [Clients -> SUBSET UserIds]
    BY <1>0, <1>3 DEF CtxTypes, UserIds
  <2>2. "idle" \notin CtxAt /\ pc[t] # "bump"
    BY <1>2 DEF CtxAt
  <2> QED BY <1>2, <1>7, <1>8, <2>1, <2>2, EndRest
<1>10. LeakInv'
  <2>1. ASSUME NEW x \in Unexplained', Answers4(t, x) PROVE FALSE
    <3>1. x = id[t] /\ pc[t] = "destroy"
      BY <1>2, <2>1 DEF Answers4
    <3>2. x \notin suspect' /\ x \in ctxs
      BY <1>5 DEF Unexplained
    <3> QED BY <1>2, <3>1, <3>2, Performed
  <2>2. lost \subseteq lost' /\ \A k \in Clients : told[k] \subseteq told'[k]
    BY <1>3
  <2> QED BY <1>2, <1>7, <2>1, <2>2, EndLeak
<1>11. ProbePart' /\ ProbeTypes'
  <2>1. ProbeSame
    <3>1. calls \in Nat
      BY <1>0, UserClientAssumption DEF Types, LocalTypes
    <3> QED BY <1>3, <1>5, <3>1 DEF ProbeSame, KeepsDev
  <2>2. "idle" \notin ProbeAt /\ pc[t] \notin ProbeAt /\ NoSlot \notin Slots
    BY <1>2, UserClientAssumption DEF ProbeAt
  <2>3. ProbePart'
    BY <1>0, <1>5, <1>7, <2>1, <2>2, OutsideSlot
  <2>4. ProbeTypes'
    BY <1>0, <1>3 DEF ProbeTypes
  <2> QED BY <2>3, <2>4
<1>12. Types'
  BY <1>6, <1>9, <1>11 DEF Types, Locals
<1> QED BY ONLY <1>2, <1>9, <1>10, <1>11, <1>12, InvParts, Zenon DEF Inv, Chan, ProbePart

-----------------------------------------------------------------------------
(* The probe.                                                              *)

First(t) == op[t] = "probe1" /\ pc[t] \in ProbeAt
Later(t) == op[t] \in LaterOps /\ pc[t] \in ProbeAt

\* The order of the probe after a step of one call.
LEMMA OrderlySlot ==
    ASSUME Orderly, NEW t \in Slots, NEW p, NEW o, NEW k, NEW i, NEW d,
           Becomes(t, p, o, k, i, d), UNCHANGED dev, p # "idle" => Alone(t), ~fault',
           \A e \in Descs : e \in wired' <=> \/ \E c \in Clients : held'[c] = e
                                             \/ \E u \in Slots : Pinned(u)' /\ desc'[u] = e,
           \A c \in Clients : held'[c] <= calls',
           \A c, e \in Clients : held'[c] = held'[e] /\ held'[c] # NoDesc => c = e,
           \A u \in Slots : u # t /\ First(u) =>
               /\ who[u] \notin busy' /\ \A c \in Clients : held'[c] # desc[u]
               /\ First(t)' => desc[u] # d,
           First(t)' => k \notin busy' /\ \A c \in Clients : held'[c] # d,
           \A u \in Slots : u # t /\ Later(u) => who[u] \in named' /\ (pc[u] = "F" <=> who[u] \in busy'),
           Later(t)' => k \in named' /\ (p = "F" <=> k \in busy'),
           busy' \subseteq named'
    PROVE  Orderly'
<1>1. \A u \in Slots : u # t => /\ pc'[u] = pc[u] /\ op'[u] = op[u] /\ who'[u] = who[u]
                                /\ desc'[u] = desc[u]
  BY Zenon DEF Becomes
<1>2. pc'[t] = p /\ op'[t] = o /\ who'[t] = k /\ desc'[t] = d
  BY Zenon DEF Becomes
<1>3. /\ \A u, v \in Slots : pc[u] # "idle" /\ pc[v] # "idle" /\ who[u] = who[v] => u = v
      /\ \A u \in Slots : pc[u] # "idle" => who[u] \in dev
      /\ \A u \in Slots : First(u) => \A v \in Slots : First(v) /\ desc[v] = desc[u] => v = u
  BY Zenon DEF Orderly, First
<1>4. \A u, v \in Slots : pc'[u] # "idle" /\ pc'[v] # "idle" /\ who'[u] = who'[v] => u = v
  <2> SUFFICES ASSUME NEW u \in Slots, NEW v \in Slots, pc'[u] # "idle", pc'[v] # "idle",
                      who'[u] = who'[v], u # v
               PROVE  FALSE
    BY Zenon
  <2>1. u = t \/ v = t
    BY <1>1, <1>3
  <2> QED BY <1>2, <2>1, Zenon DEF Alone
<1>5. \A u \in Slots : pc'[u] # "idle" => who'[u] \in dev'
  BY <1>1, <1>2, <1>3 DEF Alone
<1>6. \A u \in Slots : u # t => (First(u)' <=> First(u)) /\ (Later(u)' <=> Later(u))
  BY <1>1, Zenon DEF First, Later
<1>7. \A u \in Slots : First(u)' => /\ who'[u] \notin busy' /\ \A c \in Clients : held'[c] # desc'[u]
  BY <1>1, <1>2, <1>6
<1>8. \A u, v \in Slots : First(u)' /\ First(v)' /\ desc'[v] = desc'[u] => v = u
  BY <1>1, <1>2, <1>3, <1>6
<1>9. \A u \in Slots : Later(u)' => who'[u] \in named' /\ (pc'[u] = "F" <=> who'[u] \in busy')
  BY <1>1, <1>2, <1>6
<1>10. \A u \in Slots : op'[u] = "probe1" /\ pc'[u] \in ProbeAt =>
          /\ who'[u] \notin busy'
          /\ \A c \in Clients : held'[c] # desc'[u]
          /\ \A v \in Slots : op'[v] = "probe1" /\ pc'[v] \in ProbeAt /\ desc'[v] = desc'[u] => v = u
  BY <1>7, <1>8, Zenon DEF First
<1>11. \A u \in Slots : op'[u] \in LaterOps /\ pc'[u] \in ProbeAt =>
          who'[u] \in named' /\ (pc'[u] = "F" <=> who'[u] \in busy')
  BY <1>9, Zenon DEF Later
<1> HIDE DEF First, Later
<1> QED BY <1>4, <1>5, <1>10, <1>11, Zenon DEF Orderly, Descs, NoDesc

\* What Orderly says, for citing.
LEMMA OrderlyParts ==
    ASSUME Orderly
    PROVE  /\ ~fault
           /\ \A u, v \in Slots : pc[u] # "idle" /\ pc[v] # "idle" /\ who[u] = who[v] => u = v
           /\ \A u \in Slots : pc[u] # "idle" => who[u] \in dev
           /\ \A e \in Descs : e \in wired <=> \/ \E c \in Clients : held[c] = e
                                               \/ \E u \in Slots : Pinned(u) /\ desc[u] = e
           /\ \A c \in Clients : held[c] <= calls
           /\ \A c, e \in Clients : held[c] = held[e] /\ held[c] # NoDesc => c = e
           /\ \A u \in Slots : First(u) =>
                 /\ who[u] \notin busy /\ \A c \in Clients : held[c] # desc[u]
                 /\ \A v \in Slots : First(v) /\ desc[v] = desc[u] => v = u
           /\ \A u \in Slots : Later(u) => who[u] \in named /\ (pc[u] = "F" <=> who[u] \in busy)
           /\ busy \subseteq named
BY Zenon DEF Orderly, First, Later

\* A call of the probe moves on, or returns, and the probe's state stays.
LEMMA OrderlyMove ==
    ASSUME Orderly, NEW t \in Slots, NEW p, NEW o, NEW k, NEW i, NEW d,
           Becomes(t, p, o, k, i, d), UNCHANGED <<dev, busy, held, named, wired, calls>>,
           fault' <=> fault, pc[t] \in ProbeAt, op[t] \in LaterOps \cup {"probe1"},
           Pinned(t)' <=> Pinned(t),
           \/ p = "idle"
           \/ p \in ProbeAt \ {"F"} /\ pc[t] # "F" /\ o = op[t] /\ k = who[t] /\ d = desc[t]
    PROVE  Orderly'
<1>0. /\ ~fault
      /\ \A u, v \in Slots : pc[u] # "idle" /\ pc[v] # "idle" /\ who[u] = who[v] => u = v
      /\ \A u \in Slots : pc[u] # "idle" => who[u] \in dev
      /\ \A e \in Descs : e \in wired <=> \/ \E c \in Clients : held[c] = e
                                          \/ \E u \in Slots : Pinned(u) /\ desc[u] = e
      /\ \A c \in Clients : held[c] <= calls
      /\ \A c, e \in Clients : held[c] = held[e] /\ held[c] # NoDesc => c = e
      /\ \A u \in Slots : First(u) =>
            /\ who[u] \notin busy /\ \A c \in Clients : held[c] # desc[u]
            /\ \A v \in Slots : First(v) /\ desc[v] = desc[u] => v = u
      /\ \A u \in Slots : Later(u) => who[u] \in named /\ (pc[u] = "F" <=> who[u] \in busy)
      /\ busy \subseteq named
  BY OrderlyParts
<1>1. /\ \A u \in Slots : u # t => /\ pc'[u] = pc[u] /\ op'[u] = op[u] /\ who'[u] = who[u]
                                   /\ desc'[u] = desc[u]
      /\ pc'[t] = p /\ op'[t] = o /\ who'[t] = k /\ desc'[t] = d
  BY Zenon DEF Becomes
<1>2. p # "idle" => Alone(t)
  <2>1. pc[t] # "idle"
    BY DEF ProbeAt
  <2> QED BY <1>0, <1>1, <2>1 DEF Alone
<1>3. \A u \in Slots : (Pinned(u)' <=> Pinned(u)) /\ (Pinned(u)' => desc'[u] = desc[u])
  <2>1. \A u \in Slots : u # t => (Pinned(u)' <=> Pinned(u))
    BY <1>1, Zenon DEF Pinned
  <2>2. Pinned(t)' => p # "idle"
    BY <1>1 DEF Pinned
  <2> QED BY <1>1, <2>1, <2>2
<1>4. \A e \in Descs : e \in wired' <=> \/ \E c \in Clients : held'[c] = e
                                        \/ \E u \in Slots : Pinned(u)' /\ desc'[u] = e
  BY <1>0, <1>3
<1>5. First(t)' => First(t) /\ k = who[t] /\ d = desc[t]
  BY <1>1 DEF First, ProbeAt
<1>6. Later(t)' => Later(t) /\ k = who[t] /\ p # "F" /\ pc[t] # "F"
  BY <1>1 DEF Later, ProbeAt
<1>7. \A u \in Slots : u # t /\ First(u) =>
               /\ who[u] \notin busy' /\ \A c \in Clients : held'[c] # desc[u]
               /\ First(t)' => desc[u] # d
  BY <1>0, <1>5
<1>8. First(t)' => k \notin busy' /\ \A c \in Clients : held'[c] # d
  BY <1>0, <1>5
<1>9. \A u \in Slots : u # t /\ Later(u) => who[u] \in named' /\ (pc[u] = "F" <=> who[u] \in busy')
  BY <1>0
<1>10. Later(t)' => k \in named' /\ (p = "F" <=> k \in busy')
  BY <1>0, <1>6
<1>11. /\ \A c \in Clients : held'[c] <= calls'
       /\ \A c, e \in Clients : held'[c] = held'[e] /\ held'[c] # NoDesc => c = e
       /\ busy' \subseteq named' /\ ~fault'
  BY <1>0
<1> QED BY <1>2, <1>4, <1>7, <1>8, <1>9, <1>10, <1>11, OrderlySlot

\* What the end of a command of the probe keeps.
LEMMA EndProbe ==
    ASSUME Inv, NEW t \in Slots, NEW ok, NEW at \in ProbeAt, Returned(t, at, ok),
           NEW p, NEW o, NEW k, NEW i, NEW d, Becomes(t, p, o, k, i, d), p \notin CtxAt, Locals',
           UNCHANGED <<ctxLock, told, lost>>, ProbeTypes'
    PROVE  /\ Chan' /\ Ended(t, ok) /\ pc[t] = at /\ id[t] = ProbeCtx
           /\ op[t] \in LaterOps \cup {"probe1"} /\ who[t] \in Clients
           /\ Types' /\ SurfaceOneHolder' /\ ApartInv' /\ LeakInv'
<1>0. Types /\ Chan /\ CtxTypes
  BY InvParts DEF Types
<1>1. Chan' /\ Ended(t, ok) /\ pc[t] = at
  BY <1>0, ReturnedStep
<1>2. id[t] = ProbeCtx /\ op[t] \in LaterOps \cup {"probe1"} /\ who[t] \in Clients
  <2>1. LocalOk(pc[t], op[t], who[t], id[t], desc[t], calls)
    BY LocalsOf
  <2> QED BY <1>1, <2>1 DEF LocalOk, ProbeAt
<1>3. pc[t] # "bump" /\ pc[t] # "create" /\ pc[t] # "destroy"
  BY <1>1 DEF ProbeAt
<1>4. \A x \in UserIds : \A c \in Clients : x \in told'[c] => Claimed(x, c)
  BY Zenon DEF Claimed
<1>5. ctxLock' \in Slots \cup {NoSlot} /\ told' \in [Clients -> SUBSET UserIds]
  BY <1>0 DEF CtxTypes, UserIds
<1>6. ClientTypes' /\ SurfTypes' /\ DevTypes' /\ CtxTypes' /\ SurfaceOneHolder' /\ ApartInv'
  BY <1>1, <1>3, <1>4, <1>5, EndRest
<1>7. LeakInv'
  <2>1. \A x : ~Answers4(t, x)
    BY <1>3 DEF Answers4
  <2>2. lost \subseteq lost' /\ \A c \in Clients : told[c] \subseteq told'[c]
    OBVIOUS
  <2> QED BY <1>1, <2>1, <2>2, EndLeak
<1>8. Types'
  BY <1>6 DEF Types, Locals
<1> QED BY <1>1, <1>2, <1>6, <1>7, <1>8

\* The next command of a call, when the probe's own state stays.
LEMMA ProbeMove ==
    ASSUME Inv, NEW t \in Slots, NEW ok, NEW at \in ProbeAt, Returned(t, at, ok),
           NEW p, NEW o, NEW k, NEW i, NEW d, Becomes(t, p, o, k, i, d), Locals',
           UNCHANGED <<ctxLock, told, lost, busy, held, named, wired, fault>>,
           Pinned(t)' <=> Pinned(t),
           \/ p = "idle"
           \/ p \in ProbeAt \ {"F"} /\ at # "F" /\ o = op[t] /\ k = who[t] /\ d = desc[t],
           AgentDue' /\ Agent(t) => Agent(t)',
           at = "U" => backing = NoDesc \/ ProbeCtx \in suspect' \/ overlap
    PROVE  Inv'
<1>0. Types /\ Chan /\ ProbePart /\ ProbeTypes
  BY InvParts DEF Types
<1>1. ProbeTypes' /\ p \notin CtxAt
  BY <1>0 DEF ProbeTypes, CtxAt, ProbeAt
<1>2. /\ Chan' /\ Ended(t, ok) /\ pc[t] = at /\ id[t] = ProbeCtx
      /\ op[t] \in LaterOps \cup {"probe1"} /\ who[t] \in Clients
      /\ Types' /\ SurfaceOneHolder' /\ ApartInv' /\ LeakInv'
  BY <1>1, EndProbe
<1>3. /\ UNCHANGED <<ctxs, backing, backlog, answer, dev, calls, exposed, overlap>>
      /\ suspect \subseteq suspect' /\ caller = t /\ NoSlot \notin Slots
  BY <1>2, UserClientAssumption DEF Ended, DevSame
<1>4. AgentInv'
  <2>1. AgentDue' => /\ named \subseteq named'
                     /\ Agent(t) => Agent(t)' \/ \E c \in Clients : c \in busy' /\ c \in named'
                     /\ \A c \in Clients : c \in busy /\ c \in named =>
                           Agent(t)' \/ \E b \in Clients : b \in busy' /\ b \in named'
    <3>1. named \subseteq named'
      OBVIOUS
    <3> QED BY <3>1, Zenon
  <2>2. AgentInv
    BY <1>0 DEF ProbePart
  <2> QED BY <1>3, <2>1, <2>2, AgentSlot
<1>5. PagesInv'
  <2> SUFFICES ASSUME ~overlap PROVE Orderly'
    BY <1>3, Zenon DEF PagesInv
  <2>1. Orderly
    BY <1>0, Zenon DEF ProbePart, PagesInv
  <2> QED BY <1>2, <1>3, <2>1, OrderlyMove
<1>6. ProbeDanglingExplained'
  <2>1. \A u \in Slots : u # t /\ pc[u] = "U" => pc'[u] = "U"
    BY Zenon DEF Becomes
  <2>2. (\E u \in Slots : pc[u] = "U") => pc[t] = "U" \/ \E u \in Slots : pc'[u] = "U"
    BY <2>1, Zenon
  <2>3. ProbeCtx \in suspect => ProbeCtx \in suspect'
    BY <1>3
  <2>4. ProbeDanglingExplained
    BY <1>0 DEF ProbePart
  <2> QED BY <1>2, <1>3, <2>2, <2>3, <2>4, Zenon DEF ProbeDanglingExplained, NoDesc
<1> QED BY ONLY <1>2, <1>4, <1>5, <1>6, InvParts, Zenon DEF Inv, Chan

LEMMA AfterAInv ==
    ASSUME Inv, NEW t \in Slots, AfterA(t)
    PROVE  Inv'
<1>0. LocalOk(pc[t], op[t], who[t], id[t], desc[t], calls) /\ Locals
  BY LocalsOf
<1>1. UNCHANGED <<ctxLock, told, lost, busy, held, named, wired, fault>>
  BY DEF AfterA, probe
<1>2. CASE Returned(t, "A", TRUE) /\ Go(t, "B")
  <2>1. pc[t] = "A" /\ UNCHANGED calls
    BY <1>2, Zenon DEF Returned
  <2>2. LocalOk("B", op[t], who[t], id[t], desc[t], calls) /\ op[t] = "probe1"
    BY <1>0, <2>1 DEF LocalOk, CtxAt, ProbeAt
  <2>3. Locals' /\ Becomes(t, "B", op[t], who[t], id[t], desc[t])
    BY <1>0, <1>2, <2>1, <2>2, GoStep DEF Went, Sending
  <2>4. (Pinned(t)' <=> Pinned(t)) /\ Agent(t)'
    BY <2>1, <2>2, <2>3 DEF Pinned, Agent, Becomes
  <2> QED BY <1>1, <1>2, <2>3, <2>4, ProbeMove DEF ProbeAt
<1>3. CASE Returned(t, "A", FALSE) /\ Return(t)
  <2>1. pc[t] = "A" /\ UNCHANGED calls
    BY <1>3, Zenon DEF Returned
  <2>2. Locals' /\ Becomes(t, "idle", "none", NoClient, 0, NoDesc)
    BY <1>0, <1>3, <2>1, ReturnStep DEF Left
  <2>3. Pinned(t)' <=> Pinned(t)
    BY <2>1, <2>2 DEF Pinned, Becomes
  <2>4. AgentDue' => ~Agent(t)
    <3>1. Ended(t, FALSE)
      BY <1>3, InvParts, ReturnedStep
    <3>2. id[t] = ProbeCtx
      BY <1>0, <2>1 DEF LocalOk, ProbeAt
    <3>3. AgentDue' => backlog = 0 /\ answer = "err"
      BY <3>1, <3>2 DEF Ended, AgentDue
    <3>4. answer = "err" => ~Agent(t)
      BY <2>1 DEF Agent, LaterOps
    <3> QED BY <3>3, <3>4
  <2> QED BY <1>1, <1>3, <2>2, <2>3, <2>4, ProbeMove DEF ProbeAt
<1> QED BY <1>2, <1>3 DEF AfterA

LEMMA AfterBInv ==
    ASSUME Inv, NEW t \in Slots, AfterB(t)
    PROVE  Inv'
<1>0. LocalOk(pc[t], op[t], who[t], id[t], desc[t], calls) /\ Locals
  BY LocalsOf
<1>1. UNCHANGED <<ctxLock, told, lost, busy, held, named, wired, fault>>
  BY DEF AfterB, probe
<1>2. PICK ok \in BOOLEAN, p \in {"C", "X"} : Returned(t, "B", ok) /\ Go(t, p)
  BY Zenon DEF AfterB
<1>3. pc[t] = "B" /\ UNCHANGED calls
  BY <1>2, Zenon DEF Returned
<1>4. LocalOk(p, op[t], who[t], id[t], desc[t], calls) /\ op[t] = "probe1"
  BY <1>0, <1>3 DEF LocalOk, CtxAt, ProbeAt
<1>5. Locals' /\ Becomes(t, p, op[t], who[t], id[t], desc[t])
  BY <1>0, <1>2, <1>3, <1>4, GoStep DEF Went, Sending
<1>6. (Pinned(t)' <=> Pinned(t)) /\ Agent(t)'
  BY <1>3, <1>4, <1>5 DEF Pinned, Agent, Becomes
<1> QED BY <1>1, <1>2, <1>5, <1>6, ProbeMove DEF ProbeAt

LEMMA AfterUInv ==
    ASSUME Inv, NEW t \in Slots, AfterU(t)
    PROVE  Inv'
<1>0. LocalOk(pc[t], op[t], who[t], id[t], desc[t], calls) /\ Locals
  BY LocalsOf
<1>1. UNCHANGED <<ctxLock, told, lost, busy, held, named, wired, fault>>
  BY DEF AfterU, probe
<1>2. PICK ok \in BOOLEAN : Returned(t, "U", ok) /\ Go(t, "X")
  BY Zenon DEF AfterU
<1>3. pc[t] = "U" /\ UNCHANGED calls
  BY <1>2, Zenon DEF Returned
<1>4. LocalOk("X", op[t], who[t], id[t], desc[t], calls)
      /\ op[t] \in LaterOps \cup {"probe1"} /\ id[t] = ProbeCtx
  BY <1>0, <1>3 DEF LocalOk, CtxAt, ProbeAt
<1>5. Locals' /\ Becomes(t, "X", op[t], who[t], id[t], desc[t])
  BY <1>0, <1>2, <1>3, <1>4, GoStep DEF Went, Sending
<1>6. (Pinned(t)' <=> Pinned(t)) /\ (Agent(t) => Agent(t)')
  BY <1>1, <1>3, <1>5 DEF Pinned, Agent, Becomes
<1>7. backing = NoDesc \/ ProbeCtx \in suspect' \/ overlap
  <2> SUFFICES ASSUME ProbeCtx \notin suspect', ~overlap PROVE backing = NoDesc
    OBVIOUS
  <2>1. Orderly
    BY InvParts, Zenon DEF ProbePart, PagesInv
  <2>2. op[t] = "probe1" \/ who[t] \in named
    BY <1>3, <1>4, <2>1, OrderlyParts DEF Later, ProbeAt
  <2>3. Ended(t, ok)
    BY <1>2, InvParts, ReturnedStep
  <2> QED BY <1>3, <1>4, <2>2, <2>3, Performed
<1> QED BY <1>1, <1>2, <1>5, <1>6, <1>7, ProbeMove DEF ProbeAt

\* The next command of a call, when the probe's own state changes.
LEMMA ProbeChange ==
    ASSUME Inv, NEW t \in Slots, NEW ok, NEW at \in ProbeAt \ {"U"}, Returned(t, at, ok),
           NEW p, NEW o, NEW k, NEW i, NEW d, Becomes(t, p, o, k, i, d), p \notin CtxAt, Locals',
           UNCHANGED <<ctxLock, told, lost>>, ProbeTypes',
           AgentDue' => /\ named \subseteq named'
                        /\ Agent(t) => Agent(t)' \/ \E c \in Clients : c \in busy' /\ c \in named'
                        /\ \A c \in Clients : c \in busy /\ c \in named =>
                              Agent(t)' \/ \E b \in Clients : b \in busy' /\ b \in named',
           Orderly /\ ~overlap => Orderly',
           p = "U" \/ wired' = wired \/ wired \subseteq wired'
    PROVE  Inv'
<1>0. Types /\ Chan /\ ProbePart
  BY InvParts DEF Types
<1>1. /\ Chan' /\ Ended(t, ok) /\ pc[t] = at /\ id[t] = ProbeCtx
      /\ Types' /\ SurfaceOneHolder' /\ ApartInv' /\ LeakInv'
  BY EndProbe
<1>2. /\ UNCHANGED <<ctxs, backing, backlog, answer, dev, calls, exposed, overlap>>
      /\ suspect \subseteq suspect' /\ caller = t /\ NoSlot \notin Slots
  BY <1>1, UserClientAssumption DEF Ended, DevSame
<1>3. AgentInv'
  <2>1. AgentInv
    BY <1>0 DEF ProbePart
  <2> QED BY <1>2, <2>1, AgentSlot
<1>4. PagesInv'
  BY <1>0, <1>2, Zenon DEF ProbePart, PagesInv
<1>5. ProbeDanglingExplained'
  <2>1. CASE p = "U"
    <3>1. pc'[t] = "U"
      BY <2>1, Zenon DEF Becomes
    <3> QED BY <3>1, Zenon DEF ProbeDanglingExplained
  <2>2. CASE wired \subseteq wired'
    <3>1. \A u \in Slots : pc[u] = "U" => pc'[u] = "U"
      BY <1>1 DEF Becomes
    <3>2. (\E u \in Slots : pc[u] = "U") => \E u \in Slots : pc'[u] = "U"
      BY <3>1, Zenon
    <3>3. (ProbeCtx \in suspect => ProbeCtx \in suspect') /\ (backing \in wired => backing \in wired')
      BY <1>2, <2>2
    <3>4. ProbeDanglingExplained
      BY <1>0 DEF ProbePart
    <3> QED BY <1>2, <3>2, <3>3, <3>4, Zenon DEF ProbeDanglingExplained, NoDesc
  <2> QED BY <2>1, <2>2
<1> QED BY ONLY <1>1, <1>3, <1>4, <1>5, InvParts, Zenon DEF Inv, Chan

LEMMA AfterCInv ==
    ASSUME Inv, NEW t \in Slots, AfterC(t)
    PROVE  Inv'
<1>0. /\ LocalOk(pc[t], op[t], who[t], id[t], desc[t], calls) /\ Locals /\ calls \in 0 .. MaxCalls
      /\ ProbeTypes
  BY LocalsOf, InvParts DEF Types
<1>1. UNCHANGED <<ctxLock, told, lost, busy, held, named, fault>>
  BY DEF AfterC
<1>2. PICK ok \in BOOLEAN : Returned(t, "C", ok)
  BY Zenon DEF AfterC
<1>3. pc[t] = "C" /\ UNCHANGED calls
  BY <1>2, Zenon DEF Returned
<1>4. op[t] = "probe1" /\ desc[t] \in 1 .. calls /\ desc[t] \in Descs
      /\ \A p \in {"D", "U"} : LocalOk(p, op[t], who[t], id[t], desc[t], calls)
  BY <1>0, <1>3, UserClientAssumption DEF LocalOk, CtxAt, ProbeAt, Descs
<1>5. CASE Go(t, "U") /\ UNCHANGED wired
  <2>1. Locals' /\ Becomes(t, "U", op[t], who[t], id[t], desc[t])
    BY <1>0, <1>3, <1>4, <1>5, GoStep DEF Went, Sending
  <2>2. (Pinned(t)' <=> Pinned(t)) /\ Agent(t)'
    BY <1>3, <1>4, <2>1 DEF Pinned, Agent, Becomes
  <2> QED BY <1>1, <1>2, <1>5, <2>1, <2>2, ProbeMove DEF ProbeAt
<1>6. CASE Go(t, "D") /\ wired' = wired \cup {desc[t]}
  <2>1. Locals' /\ Becomes(t, "D", op[t], who[t], id[t], desc[t])
    BY <1>0, <1>3, <1>4, <1>6, GoStep DEF Went, Sending
  <2>2. Agent(t)' /\ Pinned(t)' /\ ~Pinned(t) /\ First(t) /\ First(t)' /\ ~Later(t)' /\ desc'[t] = desc[t]
    BY <1>3, <1>4, <2>1 DEF Pinned, Agent, Becomes, First, Later, LaterOps, ProbeAt
  <2>3. ProbeTypes'
    BY <1>0, <1>1, <1>4, <1>6 DEF ProbeTypes
  <2>4. ASSUME Orderly, ~overlap PROVE Orderly'
    <3>0. UNCHANGED dev
      BY <1>2, InvParts, ReturnedStep DEF Ended
    <3>1. Alone(t)
      BY <1>3, <2>1, <2>4, <3>0, StillAlone DEF PagesInv
    <3>2. \A u \in Slots : u # t => (Pinned(u)' <=> Pinned(u)) /\ desc'[u] = desc[u]
      BY <2>1, Zenon DEF Becomes, Pinned
    <3>3. \A e \in Descs : e \in wired <=> \/ \E c \in Clients : held[c] = e
                                           \/ \E u \in Slots : Pinned(u) /\ desc[u] = e
      BY <2>4, OrderlyParts
    <3>4. \A e \in Descs : e \in wired' <=> \/ \E c \in Clients : held'[c] = e
                                            \/ \E u \in Slots : Pinned(u)' /\ desc'[u] = e
      BY <1>1, <1>6, <2>2, <3>2, <3>3
    <3>5. /\ ~fault' /\ \A c \in Clients : held'[c] <= calls'
          /\ \A c, e \in Clients : held'[c] = held'[e] /\ held'[c] # NoDesc => c = e
          /\ busy' \subseteq named'
      BY <1>1, <1>3, <2>4, OrderlyParts
    <3>6. \A u \in Slots : u # t /\ First(u) =>
               /\ who[u] \notin busy' /\ \A c \in Clients : held'[c] # desc[u]
               /\ First(t)' => desc[u] # desc[t]
      BY <1>1, <2>2, <2>4, OrderlyParts
    <3>7. who[t] \notin busy' /\ \A c \in Clients : held'[c] # desc[t]
      BY <1>1, <2>2, <2>4, OrderlyParts
    <3>8. \A u \in Slots : u # t /\ Later(u) => who[u] \in named' /\ (pc[u] = "F" <=> who[u] \in busy')
      BY <1>1, <2>4, OrderlyParts
    <3> QED BY <2>1, <2>2, <2>4, <3>0, <3>1, <3>4, <3>5, <3>6, <3>7, <3>8, OrderlySlot
  <2> QED BY <1>1, <1>2, <1>6, <2>1, <2>2, <2>3, <2>4, ProbeChange DEF ProbeAt, CtxAt
<1> QED BY <1>5, <1>6 DEF AfterC

\* A call of the first phase lets go of its own descriptor.
LEMMA DropOwnInv ==
    ASSUME Inv, NEW t \in Slots, NEW at \in {"D", "E"}, NEW ok, Returned(t, at, ok), DropOwn(t),
           UNCHANGED <<ctxLock, told, lost, busy, held, named, fault>>
    PROVE  Inv'
<1>0. /\ LocalOk(pc[t], op[t], who[t], id[t], desc[t], calls) /\ Locals /\ calls \in 0 .. MaxCalls
      /\ ProbeTypes
  BY LocalsOf, InvParts DEF Types
<1>1. pc[t] = at /\ UNCHANGED calls
  BY Zenon DEF Returned
<1>2. op[t] = "probe1" /\ LocalOk("U", op[t], who[t], id[t], desc[t], calls)
  BY <1>0, <1>1 DEF LocalOk, CtxAt, ProbeAt
<1>3. wired' = wired \ {desc[t]} /\ Go(t, "U")
  BY DEF DropOwn
<1>4. Locals' /\ Becomes(t, "U", op[t], who[t], id[t], desc[t])
  BY <1>0, <1>1, <1>2, <1>3, GoStep DEF Went, Sending
<1>5. Agent(t)' /\ ~Pinned(t)' /\ Pinned(t) /\ First(t) /\ First(t)' /\ ~Later(t)'
  BY <1>1, <1>2, <1>4 DEF Pinned, Agent, Becomes, First, Later, LaterOps, ProbeAt
<1>6. ProbeTypes'
  BY <1>0, <1>3 DEF ProbeTypes
<1>7. ASSUME Orderly, ~overlap PROVE Orderly'
  <2>0. UNCHANGED dev
    BY InvParts, ReturnedStep DEF Ended
  <2>1. Alone(t)
    BY <1>1, <1>4, <1>7, <2>0, StillAlone DEF PagesInv
  <2>2. \A u \in Slots : u # t => (Pinned(u)' <=> Pinned(u)) /\ desc'[u] = desc[u]
    BY <1>4, Zenon DEF Becomes, Pinned
  <2>3. \A e \in Descs : e \in wired <=> \/ \E c \in Clients : held[c] = e
                                         \/ \E u \in Slots : Pinned(u) /\ desc[u] = e
    BY <1>7, OrderlyParts
  <2>4. \A u \in Slots : Pinned(u) => First(u)
    BY DEF Pinned, First, ProbeAt
  <2>5. /\ \A c \in Clients : held[c] # desc[t]
        /\ \A u \in Slots : u # t /\ Pinned(u) => desc[u] # desc[t]
    BY <1>5, <1>7, <2>4, OrderlyParts
  <2>6. \A e \in Descs : e \in wired' <=> \/ \E c \in Clients : held'[c] = e
                                          \/ \E u \in Slots : Pinned(u)' /\ desc'[u] = e
    BY <1>3, <1>5, <2>2, <2>3, <2>5
  <2>7. /\ ~fault' /\ \A c \in Clients : held'[c] <= calls'
        /\ \A c, e \in Clients : held'[c] = held'[e] /\ held'[c] # NoDesc => c = e
        /\ busy' \subseteq named'
    BY <1>1, <1>7, OrderlyParts
  <2>8. \A u \in Slots : u # t /\ First(u) =>
             /\ who[u] \notin busy' /\ \A c \in Clients : held'[c] # desc[u]
             /\ First(t)' => desc[u] # desc[t]
    BY <1>5, <1>7, OrderlyParts
  <2>9. who[t] \notin busy' /\ \A c \in Clients : held'[c] # desc[t]
    BY <1>5, <1>7, OrderlyParts
  <2>10. \A u \in Slots : u # t /\ Later(u) => who[u] \in named' /\ (pc[u] = "F" <=> who[u] \in busy')
    BY <1>7, OrderlyParts
  <2> QED BY <1>4, <1>5, <1>7, <2>0, <2>1, <2>6, <2>7, <2>8, <2>9, <2>10, OrderlySlot
<1> QED BY <1>4, <1>5, <1>6, <1>7, ProbeChange DEF ProbeAt, CtxAt

LEMMA AfterDInv ==
    ASSUME Inv, NEW t \in Slots, AfterD(t)
    PROVE  Inv'
<1>0. LocalOk(pc[t], op[t], who[t], id[t], desc[t], calls) /\ Locals
  BY LocalsOf
<1>1. UNCHANGED <<ctxLock, told, lost, busy, held, named, fault>>
  BY DEF AfterD
<1>2. CASE Returned(t, "D", TRUE) /\ Go(t, "E") /\ UNCHANGED wired
  <2>1. pc[t] = "D" /\ UNCHANGED calls
    BY <1>2, Zenon DEF Returned
  <2>2. LocalOk("E", op[t], who[t], id[t], desc[t], calls) /\ op[t] = "probe1"
    BY <1>0, <2>1 DEF LocalOk, CtxAt, ProbeAt
  <2>3. Locals' /\ Becomes(t, "E", op[t], who[t], id[t], desc[t])
    BY <1>0, <1>2, <2>1, <2>2, GoStep DEF Went, Sending
  <2>4. (Pinned(t)' <=> Pinned(t)) /\ Agent(t)'
    BY <2>1, <2>2, <2>3 DEF Pinned, Agent, Becomes
  <2> QED BY <1>1, <1>2, <2>3, <2>4, ProbeMove DEF ProbeAt
<1>3. CASE Returned(t, "D", FALSE) /\ DropOwn(t)
  BY <1>1, <1>3, DropOwnInv
<1> QED BY <1>2, <1>3 DEF AfterD

LEMMA AfterEInv ==
    ASSUME Inv, NEW t \in Slots, AfterE(t)
    PROVE  Inv'
<1>0. /\ LocalOk(pc[t], op[t], who[t], id[t], desc[t], calls) /\ Locals /\ calls \in 0 .. MaxCalls
      /\ ProbeTypes
  BY LocalsOf, InvParts DEF Types
<1>1. UNCHANGED <<ctxLock, told, lost, fault>>
  BY DEF AfterE
<1>2. CASE /\ Returned(t, "E", TRUE) /\ held' = [held EXCEPT ![who[t]] = desc[t]]
           /\ busy' = busy \cup {who[t]} /\ named' = named \cup {who[t]}
           /\ Return(t) /\ UNCHANGED wired
  <2>1. pc[t] = "E" /\ UNCHANGED calls
    BY <1>2, Zenon DEF Returned
  <2>2. op[t] = "probe1" /\ desc[t] \in 1 .. calls /\ desc[t] \in Descs /\ who[t] \in Clients
    BY <1>0, <2>1, UserClientAssumption DEF LocalOk, ProbeAt, Descs
  <2>3. Locals' /\ Becomes(t, "idle", "none", NoClient, 0, NoDesc)
    BY <1>0, <1>2, <2>1, ReturnStep DEF Left
  <2>4. Pinned(t) /\ ~Pinned(t)' /\ First(t) /\ ~First(t)' /\ ~Later(t)'
    BY <2>1, <2>2, <2>3 DEF Pinned, Becomes, First, Later, ProbeAt
  <2>5. /\ held'[who[t]] = desc[t] /\ desc[t] # NoDesc
        /\ \A c \in Clients : c # who[t] => held'[c] = held[c]
        /\ held' \in [Clients -> Descs \cup {NoDesc}]
    BY <1>0, <1>2, <2>2 DEF ProbeTypes, Descs, NoDesc
  <2>6. ProbeTypes'
    BY <1>0, <1>2, <2>2, <2>5 DEF ProbeTypes
  <2>7. ASSUME Orderly, ~overlap PROVE Orderly'
    <3>0. UNCHANGED dev
      BY <1>2, InvParts, ReturnedStep DEF Ended
    <3>1. held[who[t]] = NoDesc
      BY <1>0, <2>2, <2>4, <2>7, OrderlyParts DEF ProbeTypes
    <3>2. \A u \in Slots : u # t => (Pinned(u)' <=> Pinned(u)) /\ desc'[u] = desc[u]
      BY <2>3, Zenon DEF Becomes, Pinned
    <3>3. \A e \in Descs : e \in wired <=> \/ \E c \in Clients : held[c] = e
                                           \/ \E u \in Slots : Pinned(u) /\ desc[u] = e
      BY <2>7, OrderlyParts
    <3>4. \A e \in Descs : e # NoDesc
      BY DEF Descs, NoDesc
    <3>5. \A e \in Descs : e \in wired' <=> \/ \E c \in Clients : held'[c] = e
                                            \/ \E u \in Slots : Pinned(u)' /\ desc'[u] = e
      BY <1>2, <2>2, <2>4, <2>5, <3>1, <3>2, <3>3, <3>4
    <3>6. \A c \in Clients : held[c] # desc[t]
      BY <2>4, <2>7, OrderlyParts
    <3>7. /\ ~fault' /\ \A c \in Clients : held'[c] <= calls'
          /\ busy' \subseteq named'
      BY <1>1, <1>2, <2>1, <2>2, <2>5, <2>7, OrderlyParts
    <3>8. \A c, e \in Clients : held'[c] = held'[e] /\ held'[c] # NoDesc => c = e
      BY <2>5, <2>7, <3>6, OrderlyParts
    <3>9. \A u \in Slots : u # t /\ pc[u] # "idle" => who[u] # who[t]
      BY <2>1, <2>7, OrderlyParts
    <3>10. \A u \in Slots : First(u) \/ Later(u) => pc[u] # "idle"
      BY DEF First, Later, ProbeAt
    <3>11. \A u \in Slots : u # t /\ First(u) =>
               /\ who[u] \notin busy' /\ \A c \in Clients : held'[c] # desc[u]
      BY <1>2, <2>4, <2>5, <2>7, <3>9, <3>10, OrderlyParts
    <3>12. \A u \in Slots : u # t /\ Later(u) => who[u] \in named' /\ (pc[u] = "F" <=> who[u] \in busy')
      BY <1>2, <2>7, <3>9, <3>10, OrderlyParts
    <3> QED BY <2>3, <2>4, <2>7, <3>0, <3>5, <3>7, <3>8, <3>11, <3>12, OrderlySlot
  <2>8. /\ named \subseteq named' /\ \E c \in Clients : c \in busy' /\ c \in named'
    BY <1>2, <2>2
  <2> QED BY <1>1, <1>2, <2>3, <2>6, <2>7, <2>8, ProbeChange DEF ProbeAt, CtxAt
<1>3. CASE Returned(t, "E", FALSE) /\ DropOwn(t) /\ UNCHANGED <<busy, held, named>>
  BY <1>1, <1>3, DropOwnInv
<1> QED BY <1>2, <1>3 DEF AfterE

LEMMA AfterFInv ==
    ASSUME Inv, NEW t \in Slots, AfterF(t)
    PROVE  Inv'
<1>0. /\ LocalOk(pc[t], op[t], who[t], id[t], desc[t], calls) /\ Locals /\ calls \in 0 .. MaxCalls
      /\ ProbeTypes
  BY LocalsOf, InvParts DEF Types
<1>1. UNCHANGED <<ctxLock, told, lost, named>>
  BY DEF AfterF
<1>2. PICK ok \in BOOLEAN : Returned(t, "F", ok)
  BY Zenon DEF AfterF
<1>3. pc[t] = "F" /\ UNCHANGED calls
  BY <1>2, Zenon DEF Returned
<1>4. op[t] = "probe2" /\ who[t] \in Clients /\ LocalOk("U", op[t], who[t], id[t], desc[t], calls)
  BY <1>0, <1>3 DEF LocalOk, CtxAt, ProbeAt, LaterOps
<1>5. Later(t) /\ ~Agent(t) /\ ~Pinned(t)
  BY <1>3, <1>4 DEF Later, LaterOps, ProbeAt, Agent, Pinned
<1>6. CASE held[who[t]] = NoDesc
  <2>1. fault' = TRUE /\ Return(t) /\ UNCHANGED <<busy, held, wired>>
    BY <1>6, Zenon DEF AfterF, NoDesc
  <2>2. Locals' /\ Becomes(t, "idle", "none", NoClient, 0, NoDesc)
    BY <1>0, <1>3, <2>1, ReturnStep DEF Left
  <2>3. ProbeTypes'
    BY <1>0, <1>1, <2>1 DEF ProbeTypes
  <2>4. ~Orderly
    <3> SUFFICES ASSUME Orderly PROVE FALSE
      OBVIOUS
    <3>1. who[t] \in busy
      BY <1>3, <1>5, OrderlyParts
    <3> QED BY <1>0, <1>4, <1>6, <3>1 DEF ProbeTypes
  <2>5. /\ named \subseteq named'
        /\ \A c \in Clients : c \in busy /\ c \in named => \E b \in Clients : b \in busy' /\ b \in named'
    BY <1>1, <2>1
  <2> QED BY <1>1, <1>2, <1>5, <2>1, <2>2, <2>3, <2>4, <2>5, ProbeChange DEF ProbeAt, CtxAt
<1>7. CASE held[who[t]] # NoDesc
  <2>1. /\ wired' = wired \ {held[who[t]]} /\ held' = [held EXCEPT ![who[t]] = NoDesc]
        /\ busy' = busy \ {who[t]} /\ Go(t, "U") /\ UNCHANGED fault
    BY <1>7, Zenon DEF AfterF, DropHeld, NoDesc
  <2>2. Locals' /\ Becomes(t, "U", op[t], who[t], id[t], desc[t])
    BY <1>0, <1>3, <1>4, <2>1, GoStep DEF Went, Sending
  <2>3. /\ held'[who[t]] = NoDesc /\ \A c \in Clients : c # who[t] => held'[c] = held[c]
        /\ held' \in [Clients -> Descs \cup {NoDesc}]
    BY <1>0, <1>4, <2>1 DEF ProbeTypes
  <2>4. ProbeTypes'
    BY <1>0, <1>1, <2>1, <2>3 DEF ProbeTypes
  <2>5. ~Pinned(t)' /\ ~First(t)' /\ (who[t] \in named => Agent(t)')
    BY <1>1, <1>4, <2>2 DEF Pinned, Becomes, First, Agent, LaterOps
  <2>6. ASSUME Orderly, ~overlap PROVE Orderly'
    <3>0. UNCHANGED dev
      BY <1>2, InvParts, ReturnedStep DEF Ended
    <3>1. Alone(t)
      BY <1>3, <2>2, <2>6, <3>0, StillAlone DEF PagesInv
    <3>2. \A u \in Slots : u # t => (Pinned(u)' <=> Pinned(u)) /\ desc'[u] = desc[u]
      BY <2>2, Zenon DEF Becomes, Pinned
    <3>3. \A e \in Descs : e \in wired <=> \/ \E c \in Clients : held[c] = e
                                           \/ \E u \in Slots : Pinned(u) /\ desc[u] = e
      BY <2>6, OrderlyParts
    <3>4. \A e \in Descs : e # NoDesc
      BY DEF Descs, NoDesc
    <3>5. \A u \in Slots : Pinned(u) => First(u)
      BY DEF Pinned, First, ProbeAt
    <3>6. /\ \A c \in Clients : c # who[t] => held[c] # held[who[t]]
          /\ \A u \in Slots : Pinned(u) => desc[u] # held[who[t]]
      BY <1>4, <1>7, <2>6, <3>5, OrderlyParts
    <3>7. \A e \in Descs : e \in wired' <=> \/ \E c \in Clients : held'[c] = e
                                            \/ \E u \in Slots : Pinned(u)' /\ desc'[u] = e
      BY <1>4, <1>5, <2>1, <2>3, <2>5, <3>2, <3>3, <3>4, <3>6
    <3>8. /\ ~fault' /\ busy' \subseteq named'
          /\ \A c, e \in Clients : held'[c] = held'[e] /\ held'[c] # NoDesc => c = e
      BY <1>1, <2>1, <2>3, <2>6, OrderlyParts
    <3>9. \A c \in Clients : held'[c] <= calls'
      <4>1. \A c \in Clients : held[c] <= calls
        BY <2>6, OrderlyParts
      <4> QED BY <1>0, <1>3, <2>3, <4>1 DEF NoDesc
    <3>10. \A u \in Slots : u # t /\ pc[u] # "idle" => who[u] # who[t]
      BY <1>3, <2>6, OrderlyParts
    <3>11. \A u \in Slots : First(u) \/ Later(u) => pc[u] # "idle"
      BY DEF First, Later, ProbeAt
    <3>12. \A u \in Slots : First(u) => desc[u] # NoDesc
      <4> SUFFICES ASSUME NEW u \in Slots, First(u) PROVE desc[u] # NoDesc
        OBVIOUS
      <4>1. LocalOk(pc[u], op[u], who[u], id[u], desc[u], calls)
        BY LocalsOf
      <4> QED BY <1>0, <4>1 DEF LocalOk, First, NoDesc
    <3>13. \A u \in Slots : u # t /\ First(u) =>
               /\ who[u] \notin busy' /\ \A c \in Clients : held'[c] # desc[u]
      BY <2>1, <2>3, <2>6, <3>12, OrderlyParts
    <3>14. \A u \in Slots : u # t /\ Later(u) => who[u] \in named' /\ (pc[u] = "F" <=> who[u] \in busy')
      BY <1>1, <2>1, <2>6, <3>10, <3>11, OrderlyParts
    <3>15. who[t] \in named' /\ who[t] \notin busy'
      BY <1>1, <1>5, <2>1, <2>6, OrderlyParts
    <3> QED BY <2>2, <2>5, <2>6, <3>0, <3>1, <3>7, <3>8, <3>9, <3>13, <3>14, <3>15, OrderlySlot
  <2>7. named \subseteq named' /\ (Agent(t) => Agent(t)')
    BY <1>1, <1>5
  <2>8. \A c \in Clients : c \in busy /\ c \in named =>
                              Agent(t)' \/ \E b \in Clients : b \in busy' /\ b \in named'
    <3> SUFFICES ASSUME NEW c \in Clients, c \in busy, c \in named
                 PROVE  Agent(t)' \/ \E b \in Clients : b \in busy' /\ b \in named'
      OBVIOUS
    <3>1. CASE c = who[t]
      BY <2>5, <3>1
    <3>2. CASE c # who[t]
      <4>1. c \in busy' /\ c \in named'
        BY <1>1, <2>1, <3>2
      <4> QED BY <4>1, Zenon
    <3> QED BY <3>1, <3>2
  <2> QED BY <1>1, <1>2, <2>2, <2>4, <2>6, <2>7, <2>8, ProbeChange DEF ProbeAt, CtxAt
<1> QED BY <1>6, <1>7

LEMMA AfterXInv ==
    ASSUME Inv, NEW t \in Slots, AfterX(t)
    PROVE  Inv'
<1>0. /\ LocalOk(pc[t], op[t], who[t], id[t], desc[t], calls) /\ Locals /\ calls \in 0 .. MaxCalls
      /\ ProbeTypes
  BY LocalsOf, InvParts DEF Types
<1>1. /\ UNCHANGED <<ctxLock, told, lost, busy, held, wired, fault>> /\ Return(t)
      /\ named' = IF op[t] = "probe1" THEN named ELSE named \ {who[t]}
  BY DEF AfterX
<1>2. PICK ok \in BOOLEAN : Returned(t, "X", ok)
  BY Zenon DEF AfterX
<1>3. pc[t] = "X" /\ UNCHANGED calls
  BY <1>2, Zenon DEF Returned
<1>4. op[t] \in LaterOps \cup {"probe1"} /\ id[t] = ProbeCtx
  BY <1>0, <1>3 DEF LocalOk, ProbeAt
<1>5. Locals' /\ Becomes(t, "idle", "none", NoClient, 0, NoDesc)
  BY <1>0, <1>1, <1>3, ReturnStep DEF Left
<1>6. ~Pinned(t) /\ ~Pinned(t)' /\ ~First(t)' /\ ~Later(t)' /\ (op[t] # "probe1" => Later(t))
  BY <1>3, <1>4, <1>5 DEF Pinned, Becomes, First, Later, ProbeAt
<1>7. ProbeTypes'
  BY <1>0, <1>1 DEF ProbeTypes
<1>8. AgentDue' => named' = named /\ ~Agent(t)
  <2> SUFFICES ASSUME AgentDue' PROVE named' = named /\ ~Agent(t)
    OBVIOUS
  <2>1. Ended(t, ok)
    BY <1>2, InvParts, ReturnedStep
  <2>2. id[t] \notin suspect' /\ id[t] \in ctxs
    BY <1>4, <2>1 DEF AgentDue, Ended, DevSame
  <2>3. op[t] # "probe1" /\ who[t] \notin named
    BY <1>3, <2>1, <2>2, Performed
  <2> QED BY <1>1, <2>3 DEF Agent
<1>9. ASSUME Orderly, ~overlap PROVE Orderly'
  <2>0. UNCHANGED dev
    BY <1>2, InvParts, ReturnedStep DEF Ended
  <2>1. \A u \in Slots : u # t => (Pinned(u)' <=> Pinned(u)) /\ desc'[u] = desc[u]
    BY <1>5, Zenon DEF Becomes, Pinned
  <2>2. \A e \in Descs : e \in wired <=> \/ \E c \in Clients : held[c] = e
                                         \/ \E u \in Slots : Pinned(u) /\ desc[u] = e
    BY <1>9, OrderlyParts
  <2>3. \A e \in Descs : e \in wired' <=> \/ \E c \in Clients : held'[c] = e
                                          \/ \E u \in Slots : Pinned(u)' /\ desc'[u] = e
    BY <1>1, <1>6, <2>1, <2>2
  <2>4. /\ ~fault' /\ \A c \in Clients : held'[c] <= calls'
        /\ \A c, e \in Clients : held'[c] = held'[e] /\ held'[c] # NoDesc => c = e
    BY <1>1, <1>3, <1>9, OrderlyParts
  <2>5. \A u \in Slots : u # t /\ pc[u] # "idle" => who[u] # who[t]
    BY <1>3, <1>9, OrderlyParts
  <2>6. \A u \in Slots : First(u) \/ Later(u) => pc[u] # "idle"
    BY DEF First, Later, ProbeAt
  <2>7. \A u \in Slots : u # t /\ First(u) =>
             who[u] \notin busy' /\ \A c \in Clients : held'[c] # desc[u]
    BY <1>1, <1>9, OrderlyParts
  <2>8. \A u \in Slots : u # t /\ Later(u) => who[u] \in named' /\ (pc[u] = "F" <=> who[u] \in busy')
    BY <1>1, <1>9, <2>5, <2>6, OrderlyParts
  <2>9. busy' \subseteq named'
    <3>1. op[t] # "probe1" => who[t] \notin busy
      BY <1>3, <1>6, <1>9, OrderlyParts
    <3>2. busy \subseteq named
      BY <1>9, OrderlyParts
    <3> QED BY <1>1, <3>1, <3>2
  <2> QED BY <1>5, <1>6, <1>9, <2>0, <2>3, <2>4, <2>7, <2>8, <2>9, OrderlySlot
<1>10. AgentDue' => /\ named \subseteq named'
                    /\ \A c \in Clients : c \in busy /\ c \in named =>
                          \E b \in Clients : b \in busy' /\ b \in named'
  BY <1>1, <1>8
<1> QED BY <1>1, <1>2, <1>5, <1>7, <1>8, <1>9, <1>10, ProbeChange DEF ProbeAt, CtxAt

\* The two phases begin.
LEMMA EnterProbe ==
    ASSUME Inv, EnterRest, NEW t \in Slots, NEW c \in Clients, NEW o \in {"probe1", "probe2"},
           NEW p, Enter(t, c, o, ProbeCtx, p), UNCHANGED <<told, kernCtx, nextCtx, ctxLock, raced>>,
           o = "probe1" => p = "A" /\ c \notin busy, o = "probe2" => p = "F" /\ c \in busy
    PROVE  Inv'
<1>0. Types /\ Locals /\ ProbeTypes /\ CtxTypes /\ calls \in Nat /\ ProbePart /\ NoSlot \notin Slots
  BY InvParts, UserClientAssumption DEF Types, Locals, LocalTypes
<1>1. LocalOk(p, o, c, ProbeCtx, FirstDesc(o), calls + 1)
  <2>1. (o = "probe1" /\ p = "A") \/ (o = "probe2" /\ p = "F")
    OBVIOUS
  <2>2. o = "probe1" => FirstDesc(o) \in 1 .. calls + 1
    BY <1>0 DEF FirstDesc
  <2> QED BY <2>1, <2>2 DEF LocalOk, CtxAt, ProbeAt, LaterOps
<1>2. p \in Sending /\ o \in Ops /\ ProbeCtx \in Nat /\ p \in ProbeAt /\ p \notin CtxAt
  BY UserClientAssumption DEF Sending, Ops, ProbeAt, CtxAt, LaterOps
<1>3. Locals' /\ Entered(t, c, o, ProbeCtx, p)
  BY <1>0, <1>1, <1>2, EnterStep
<1>4. CtxTypes'
  BY <1>0 DEF CtxTypes
<1>5. Types' /\ Chan' /\ SurfaceOneHolder'
  BY <1>3, <1>4, EnterKeeps
<1>6. LeakInv'
  <2>1. \A x \in CtxIds : \A k \in Clients :
           x \in told[k] => (\E b \in Clients : x \in told'[b]) \/ (p = "destroy" /\ ProbeCtx = x)
    BY Zenon
  <2> QED BY <1>3, <2>1, EnterLeak
<1>7. ApartInv'
  <2>1. p # "bump" /\ \A k \in Clients : told'[k] \subseteq told[k]
    BY <1>2 DEF CtxAt
  <2> QED BY <1>2, <1>3, <2>1, EnterApart
<1>8. /\ UNCHANGED <<channel, caller, dev, busy, held, named, wired, ctxs, backing, suspect, exposed, fault>>
      /\ UNCHANGED <<backlog, answer>>
  BY Zenon DEF EnterRest, clients, probe, device, channel
<1>9. /\ pc[t] = "idle" /\ (overlap' <=> overlap \/ InCall(c)) /\ calls' = calls + 1 /\ c \in dev
      /\ Becomes(t, p, o, c, ProbeCtx, FirstDesc(o))
  BY <1>3, Zenon DEF Entered
<1>10. AgentInv'
  <2>1. ~Agent(t) /\ AgentInv
    BY <1>0, <1>9 DEF Agent, ProbePart
  <2>2. /\ named \subseteq named' /\ suspect \subseteq suspect' /\ (exposed => exposed')
        /\ \A k \in Clients : k \in busy /\ k \in named => \E b \in Clients : b \in busy' /\ b \in named'
    BY <1>8
  <2> QED BY <1>0, <1>8, <1>9, <2>1, <2>2, AgentSlot
<1>11. ProbeDanglingExplained'
  <2>1. \A u \in Slots : pc[u] = "U" => pc'[u] = "U"
    BY <1>9 DEF Becomes
  <2>2. (\E u \in Slots : pc[u] = "U") => \E u \in Slots : pc'[u] = "U"
    BY <2>1, Zenon
  <2>3. ProbeDanglingExplained
    BY <1>0 DEF ProbePart
  <2> QED BY <1>8, <1>9, <2>2, <2>3, Zenon DEF ProbeDanglingExplained, NoDesc
<1>12. ASSUME ~overlap' PROVE Orderly'
  <2>0. Orderly /\ ~InCall(c)
    BY <1>0, <1>9, <1>12, Zenon DEF ProbePart, PagesInv
  <2>1. Alone(t)
    BY <1>8, <1>9, <2>0, Zenon DEF Becomes, Alone, InCall
  <2>2. \A u \in Slots : u # t => (Pinned(u)' <=> Pinned(u)) /\ desc'[u] = desc[u]
    BY <1>9, Zenon DEF Becomes, Pinned
  <2>3. ~Pinned(t) /\ ~Pinned(t)' /\ (First(t)' => o = "probe1") /\ (Later(t)' => o = "probe2")
    BY <1>9 DEF Becomes, Pinned, First, Later, LaterOps
  <2>4. \A e \in Descs : e \in wired <=> \/ \E k \in Clients : held[k] = e
                                         \/ \E u \in Slots : Pinned(u) /\ desc[u] = e
    BY <2>0, OrderlyParts
  <2>5. \A e \in Descs : e \in wired' <=> \/ \E k \in Clients : held'[k] = e
                                          \/ \E u \in Slots : Pinned(u)' /\ desc'[u] = e
    BY <1>8, <2>2, <2>3, <2>4
  <2>6. /\ ~fault' /\ busy' \subseteq named'
        /\ \A k, e \in Clients : held'[k] = held'[e] /\ held'[k] # NoDesc => k = e
    BY <1>8, <2>0, OrderlyParts
  <2>7. \A k \in Clients : held[k] \in Int /\ held[k] <= calls
    <3>1. \A k \in Clients : held[k] <= calls
      BY <2>0, OrderlyParts
    <3> QED BY <1>0, <3>1 DEF ProbeTypes, Descs, NoDesc
  <2>8. \A k \in Clients : held'[k] <= calls'
    BY <1>0, <1>8, <1>9, <2>7
  <2>9. \A u \in Slots : First(u) => desc[u] \in Int /\ desc[u] <= calls
    <3> SUFFICES ASSUME NEW u \in Slots, First(u) PROVE desc[u] \in Int /\ desc[u] <= calls
      OBVIOUS
    <3>1. LocalOk(pc[u], op[u], who[u], id[u], desc[u], calls)
      BY LocalsOf
    <3> QED BY <1>0, <3>1 DEF LocalOk, First
  <2>10. o = "probe1" => FirstDesc(o) = calls + 1
    BY DEF FirstDesc
  <2>11. \A u \in Slots : u # t /\ First(u) =>
             /\ who[u] \notin busy' /\ \A k \in Clients : held'[k] # desc[u]
             /\ First(t)' => desc[u] # FirstDesc(o)
    <3>1. \A u \in Slots : u # t /\ First(u) =>
             who[u] \notin busy' /\ \A k \in Clients : held'[k] # desc[u]
      BY <1>8, <2>0, OrderlyParts
    <3>2. \A u \in Slots : u # t /\ First(u) /\ First(t)' => desc[u] # FirstDesc(o)
      BY <1>0, <2>3, <2>9, <2>10
    <3> QED BY <3>1, <3>2
  <2>12. First(t)' => c \notin busy' /\ \A k \in Clients : held'[k] # FirstDesc(o)
    BY <1>0, <1>8, <2>3, <2>7, <2>10
  <2>13. \A u \in Slots : u # t /\ Later(u) => who[u] \in named' /\ (pc[u] = "F" <=> who[u] \in busy')
    BY <1>8, <2>0, OrderlyParts
  <2>14. Later(t)' => c \in named' /\ (p = "F" <=> c \in busy')
    BY <1>8, <2>3, <2>6
  <2>15. PICK d \in Nat : d = FirstDesc(o)
    BY <1>0 DEF FirstDesc, NoDesc
  <2> QED BY <1>8, <1>9, <2>0, <2>1, <2>5, <2>6, <2>8, <2>11, <2>12, <2>13, <2>14, <2>15, OrderlySlot
<1>13. PagesInv'
  BY <1>12, Zenon DEF PagesInv
<1> QED BY ONLY <1>5, <1>6, <1>7, <1>10, <1>11, <1>13, InvParts, Zenon DEF Inv, Chan

LEMMA ProbePhasesInv ==
    ASSUME Inv, NEW t \in Slots, NEW c \in Clients, probePhase1(t, c) \/ probePhase2(t, c)
    PROVE  Inv'
<1>1. CASE probePhase1(t, c)
  <2>1. EnterRest /\ UNCHANGED <<told, kernCtx, nextCtx, ctxLock, raced>> /\ c \notin busy
        /\ Enter(t, c, "probe1", ProbeCtx, "A")
    BY <1>1, Zenon DEF probePhase1, EnterRest, queue, counters
  <2> QED BY <2>1, EnterProbe
<1>2. CASE probePhase2(t, c)
  <2>1. EnterRest /\ UNCHANGED <<told, kernCtx, nextCtx, ctxLock, raced>> /\ c \in busy
        /\ Enter(t, c, "probe2", ProbeCtx, "F")
    BY <1>2, Zenon DEF probePhase2, EnterRest, queue, counters
  <2> QED BY <2>1, EnterProbe
<1> QED BY <1>1, <1>2

-----------------------------------------------------------------------------
(* The end of a client.                                                    *)

\* The stored descriptor goes, and its pages with it.
LEMMA DropHeldStep ==
    ASSUME ProbeTypes, NEW c \in Clients, DropHeld(c), named' \subseteq named
    PROVE  /\ held'[c] = NoDesc /\ \A k \in Clients : k # c => held'[k] = held[k]
           /\ busy' = busy \ {c} /\ wired' = wired \ {held[c]} /\ ProbeTypes'
<1>1. wired' = wired \ {held[c]} /\ held' = [held EXCEPT ![c] = NoDesc] /\ busy' = busy \ {c}
  BY DEF DropHeld
<1>2. /\ held'[c] = NoDesc /\ \A k \in Clients : k # c => held'[k] = held[k]
      /\ held' \in [Clients -> Descs \cup {NoDesc}]
  BY <1>1 DEF ProbeTypes
<1> QED BY <1>1, <1>2 DEF ProbeTypes

\* ... and the order of the other descriptors stays.
LEMMA DropHeldOrder ==
    ASSUME Inv, Orderly, NEW c \in Clients, DropHeld(c), named' \subseteq named
    PROVE  /\ \A e \in Descs : e \in wired' <=> \/ \E k \in Clients : held'[k] = e
                                                \/ \E u \in Slots : Pinned(u) /\ desc[u] = e
           /\ \A k \in Clients : held'[k] <= calls
           /\ \A k, e \in Clients : held'[k] = held'[e] /\ held'[k] # NoDesc => k = e
           /\ \A u \in Slots : First(u) => who[u] \notin busy' /\ \A k \in Clients : held'[k] # desc[u]
<1>0. ProbeTypes /\ calls \in Nat
  BY InvParts, UserClientAssumption DEF Types, LocalTypes
<1>1. /\ held'[c] = NoDesc /\ \A k \in Clients : k # c => held'[k] = held[k]
      /\ busy' = busy \ {c} /\ wired' = wired \ {held[c]}
  BY <1>0, DropHeldStep
<1>2. \A e \in Descs : e \in wired <=> \/ \E k \in Clients : held[k] = e
                                       \/ \E u \in Slots : Pinned(u) /\ desc[u] = e
  BY OrderlyParts
<1>3. \A e \in Descs : e # NoDesc
  BY DEF Descs, NoDesc
<1>4. \A u \in Slots : Pinned(u) => First(u)
  BY DEF Pinned, First, ProbeAt
<1>5. /\ \A k \in Clients : k # c /\ held[c] # NoDesc => held[k] # held[c]
      /\ \A u \in Slots : Pinned(u) => desc[u] # held[c]
  BY <1>4, OrderlyParts
<1>6. \A e \in Descs : e \in wired' <=> \/ \E k \in Clients : held'[k] = e
                                        \/ \E u \in Slots : Pinned(u) /\ desc[u] = e
  BY <1>1, <1>2, <1>3, <1>5
<1>7. \A k \in Clients : held'[k] <= calls
  <2>1. \A k \in Clients : held[k] <= calls
    BY OrderlyParts
  <2> QED BY <1>0, <1>1, <2>1 DEF NoDesc
<1>8. \A k, e \in Clients : held'[k] = held'[e] /\ held'[k] # NoDesc => k = e
  BY <1>1, OrderlyParts
<1>9. \A u \in Slots : First(u) => desc[u] # NoDesc
  <2> SUFFICES ASSUME NEW u \in Slots, First(u) PROVE desc[u] # NoDesc
    OBVIOUS
  <2>1. LocalOk(pc[u], op[u], who[u], id[u], desc[u], calls)
    BY LocalsOf
  <2> QED BY <1>0, <2>1 DEF LocalOk, First, NoDesc
<1>10. \A u \in Slots : First(u) => who[u] \notin busy' /\ \A k \in Clients : held'[k] # desc[u]
  BY <1>1, <1>9, OrderlyParts
<1> QED BY <1>6, <1>7, <1>8, <1>10

\* A client with no call in flight forgets its probe altogether.
LEMMA ForgetOrder ==
    ASSUME Inv, Orderly, NEW c \in Clients, DropHeld(c), named' = named \ {c}, ~InCall(c),
           \A t \in Slots : Same(t), KeepsDev, UNCHANGED <<calls, fault>>
    PROVE  Orderly'
<1>1. /\ \A e \in Descs : e \in wired' <=> \/ \E k \in Clients : held'[k] = e
                                           \/ \E u \in Slots : Pinned(u) /\ desc[u] = e
      /\ \A k \in Clients : held'[k] <= calls
      /\ \A k, e \in Clients : held'[k] = held'[e] /\ held'[k] # NoDesc => k = e
      /\ \A u \in Slots : First(u) => who[u] \notin busy' /\ \A k \in Clients : held'[k] # desc[u]
  BY DropHeldOrder
<1>2. \A u \in Slots : /\ pc'[u] = pc[u] /\ op'[u] = op[u] /\ who'[u] = who[u]
                       /\ desc'[u] = desc[u]
  BY Zenon DEF Same
<1>3. \A u \in Slots : (Pinned(u)' <=> Pinned(u)) /\ (First(u)' <=> First(u)) /\ (Later(u)' <=> Later(u))
  BY <1>2, Zenon DEF Pinned, First, Later
<1>4. \A e \in Descs : e \in wired' <=> \/ \E k \in Clients : held'[k] = e
                                        \/ \E u \in Slots : Pinned(u)' /\ desc'[u] = e
  BY <1>1, <1>2, <1>3
<1>5. /\ ~fault' /\ busy' \subseteq named' /\ busy' = busy \ {c}
      /\ \A k \in Clients : held'[k] <= calls'
  BY <1>1, OrderlyParts DEF DropHeld
<1>6. \A u \in Slots : pc[u] # "idle" => who[u] # c
  BY Zenon DEF InCall
<1>7. \A u, v \in Slots : pc'[u] # "idle" /\ pc'[v] # "idle" /\ who'[u] = who'[v] => u = v
  BY <1>2, OrderlyParts
<1>8. \A u \in Slots : pc'[u] # "idle" => who'[u] \in dev'
  BY <1>2, OrderlyParts DEF KeepsDev
<1>9. \A u \in Slots : First(u)' =>
        /\ who'[u] \notin busy' /\ \A k \in Clients : held'[k] # desc'[u]
        /\ \A v \in Slots : First(v)' /\ desc'[v] = desc'[u] => v = u
  BY <1>1, <1>2, <1>3, OrderlyParts
<1>10. \A u \in Slots : Later(u) => pc[u] # "idle"
  BY DEF Later, ProbeAt
<1>11. \A u \in Slots : Later(u)' => who'[u] \in named' /\ (pc'[u] = "F" <=> who'[u] \in busy')
  BY <1>2, <1>3, <1>5, <1>6, <1>10, OrderlyParts
<1>12. \A u \in Slots : op'[u] = "probe1" /\ pc'[u] \in ProbeAt =>
          /\ who'[u] \notin busy'
          /\ \A k \in Clients : held'[k] # desc'[u]
          /\ \A v \in Slots : op'[v] = "probe1" /\ pc'[v] \in ProbeAt /\ desc'[v] = desc'[u] => v = u
  BY <1>9, Zenon DEF First
<1>13. \A u \in Slots : op'[u] \in LaterOps /\ pc'[u] \in ProbeAt =>
          who'[u] \in named' /\ (pc'[u] = "F" <=> who'[u] \in busy')
  BY <1>11, Zenon DEF Later
<1> QED BY ONLY <1>1, <1>4, <1>5, <1>7, <1>8, <1>12, <1>13, Zenon DEF Orderly, Descs, NoDesc

\* What a step keeps that only takes contexts and surfaces from clients.
LEMMA ForsakeRest ==
    ASSUME Inv, UNCHANGED <<channel, caller, nextSurf, pool, calls, counters, device, suspect, raced, crossed>>,
           dev' \subseteq dev, open' \subseteq open, freed' \subseteq Clients,
           NEW c \in Clients, told' \in {told, [told EXCEPT ![c] = {}]},
           surf' \in {surf, [surf EXCEPT ![c] = {}]}
    PROVE  /\ ClientTypes' /\ CtxTypes' /\ SurfTypes' /\ DevTypes' /\ SurfaceOneHolder'
           /\ \A k \in Clients : told'[k] \subseteq told[k]
           /\ \A k \in Clients : k # c => told'[k] = told[k]
           /\ UNCHANGED <<ctxs, owner, res, backing, kernCtx, nextCtx, backlog, answer, cmd>>
<1>0. ClientTypes /\ CtxTypes /\ SurfTypes /\ DevTypes /\ SurfaceOneHolder
  BY InvParts DEF Types
<1>1. UNCHANGED <<ctxs, owner, res, backing, kernCtx, nextCtx, ctxLock, backlog, answer, cmd>>
  BY Zenon DEF device, counters, channel
<1>2. /\ told' \in [Clients -> SUBSET (CtxIds \ {1})]
      /\ \A k \in Clients : told'[k] \subseteq told[k] /\ (k # c => told'[k] = told[k])
  BY <1>0 DEF CtxTypes
<1>3. ClientTypes' /\ CtxTypes' /\ DevTypes'
  BY <1>0, <1>1, <1>2 DEF ClientTypes, CtxTypes, DevTypes
<1>4. surf' \in [Clients -> SUBSET SurfIds] /\ \A k \in Clients : surf'[k] \subseteq surf[k]
  BY <1>0 DEF SurfTypes
<1>5. SurfTypes'
  BY <1>0, <1>4 DEF SurfTypes
<1>6. SurfaceOneHolder'
  <2>1. \A k \in Clients : \A s \in surf'[k] : s \in surf[k]
    BY <1>4
  <2> QED BY <1>0, <2>1, Zenon DEF SurfaceOneHolder, ResourceOf
<1> QED BY <1>1, <1>2, <1>3, <1>5, <1>6

\* The parts that do not look at the probe, when no call moves.
LEMMA ForsakeStay ==
    ASSUME Inv, UNCHANGED <<channel, caller, nextSurf, pool, calls, counters, device, suspect, raced, crossed,
                            pc, locals>>,
           dev' \subseteq dev, open' \subseteq open, freed' \subseteq Clients,
           NEW c \in Clients, \/ told' = told /\ lost' = lost
                              \/ told' = [told EXCEPT ![c] = {}] /\ lost' = lost \cup told[c],
           surf' \in {surf, [surf EXCEPT ![c] = {}]}, ProbeTypes', named' \subseteq named
    PROVE  /\ Types' /\ Chan' /\ ApartInv' /\ LeakInv' /\ SurfaceOneHolder' /\ Locals
           /\ (\A t \in Slots : Same(t)) /\ UNCHANGED <<ctxs, backing, backlog, answer>>
<1>0. Types /\ Chan /\ ApartInv /\ LeakInv /\ Locals /\ calls \in 0 .. MaxCalls
  BY InvParts DEF Types, Locals, LocalTypes
<1>1. /\ ClientTypes' /\ CtxTypes' /\ SurfTypes' /\ DevTypes' /\ SurfaceOneHolder'
      /\ \A k \in Clients : told'[k] \subseteq told[k]
      /\ \A k \in Clients : k # c => told'[k] = told[k]
      /\ UNCHANGED <<ctxs, owner, res, backing, kernCtx, nextCtx, backlog, answer, cmd>>
  BY ForsakeRest
<1>2. calls' \in 0 .. MaxCalls /\ calls <= calls'
  BY <1>0, UserClientAssumption
<1>3. Locals' /\ \A t \in Slots : Same(t)
  BY <1>0, <1>2, SlotsStay
<1>4. Chan'
  <2>1. caller # NoSlot => Same(caller)
    BY <1>0, <1>3, Zenon DEF Chan, ChanInv
  <2> QED BY <1>0, <1>1, <2>1, ChanFrame
<1>5. ApartInv'
  <2>1. \A x \in UserIds : \A k \in Clients : x \in told[k] => Claimed(x, k)
    BY Zenon DEF Claimed
  <2>2. \A x \in UserIds : \A k \in Clients : x \in told'[k] => Claimed(x, k)
    BY <1>1, <2>1
  <2> QED BY <1>0, <1>1, <1>3, <2>2, ApartStay
<1>6. LeakInv'
  <2>1. \A x \in Unexplained' : \A k \in Clients : x \in told[k] => x \in told'[k]
    BY <1>1 DEF Unexplained
  <2>2. \A x \in Unexplained' : \A k \in Clients : x \in told[k] => \E b \in Clients : x \in told'[b]
    BY <2>1, Zenon
  <2>3. lost \subseteq lost' /\ suspect \subseteq suspect'
    OBVIOUS
  <2> QED BY <1>0, <1>1, <1>3, <2>2, <2>3, LeakStay
<1>7. Types'
  BY <1>1, <1>3 DEF Types, Locals
<1> QED BY <1>0, <1>1, <1>3, <1>4, <1>5, <1>6, <1>7

LEMMA FreeInv ==
    ASSUME Inv, NEW c \in Clients, free(c)
    PROVE  Inv'
<1>0. Types /\ ProbePart /\ ProbeTypes /\ ClientTypes
  BY InvParts DEF Types
<1>1. /\ UNCHANGED <<channel, caller, nextSurf, pool, surf, told, calls, counters, device, suspect, lost>>
      /\ UNCHANGED <<raced, crossed, pc, locals, open, overlap, fault>>
      /\ dev' = dev \ {c} /\ freed' = freed \cup {c} /\ DropHeld(c) /\ named' = named \ {c}
      /\ (exposed' <=> exposed \/ c \in busy) /\ ~InCall(c)
  BY Zenon DEF free, queue, surfaces
<1>2. /\ dev' \subseteq dev /\ open' \subseteq open /\ freed' \subseteq Clients /\ named' \subseteq named
      /\ suspect \subseteq suspect'
  BY <1>0, <1>1 DEF ClientTypes
<1>3. /\ held'[c] = NoDesc /\ \A k \in Clients : k # c => held'[k] = held[k]
      /\ busy' = busy \ {c} /\ wired' = wired \ {held[c]} /\ ProbeTypes'
  BY <1>0, <1>1, <1>2, DropHeldStep
<1>4. /\ Types' /\ Chan' /\ ApartInv' /\ LeakInv' /\ SurfaceOneHolder'
      /\ (\A t \in Slots : Same(t)) /\ UNCHANGED <<ctxs, backing, backlog, answer>>
  BY <1>1, <1>2, <1>3, ForsakeStay
<1>5. AgentInv'
  <2>1. AgentDue' => \A k \in Clients : k \in named =>
            /\ k \in busy => k \in busy' /\ k \in named'
            /\ InCall(k) => k \in named'
    BY <1>1, <1>3 DEF AgentDue
  <2>2. AgentInv /\ named \subseteq Clients
    BY <1>0 DEF ProbePart, ProbeTypes
  <2> QED BY <1>1, <1>2, <1>4, <2>1, <2>2, AgentStay
<1>6. PagesInv'
  <2>1. KeepsDev
    BY <1>1 DEF KeepsDev, InCall
  <2>2. Orderly => Orderly'
    BY <1>1, <1>4, <2>1, ForgetOrder
  <2> QED BY <1>0, <1>1, <2>2, Zenon DEF ProbePart, PagesInv
<1>7. ProbeDanglingExplained'
  <2>1. CASE c \in busy
    BY <1>1, <2>1, Zenon DEF ProbeDanglingExplained
  <2>2. CASE c \notin busy
    <3>1. held[c] = NoDesc /\ NoDesc \notin wired
      BY <1>0, <2>2 DEF ProbeTypes, Descs, NoDesc
    <3>2. wired' = wired
      BY <1>3, <3>1
    <3>3. ProbeDanglingExplained
      BY <1>0 DEF ProbePart
    <3> QED BY <1>1, <1>2, <1>4, <3>2, <3>3, DanglingStay
  <2> QED BY <2>1, <2>2
<1> QED BY ONLY <1>4, <1>5, <1>6, <1>7, InvParts, Zenon DEF Inv, Chan

LEMMA ClientCloseInv ==
    ASSUME Inv, NEW t \in Slots, NEW c \in Clients, clientClose(t, c)
    PROVE  Inv'
<1>0. Types /\ Chan /\ ApartInv /\ LeakInv /\ ProbePart /\ ProbeTypes /\ ClientTypes /\ Locals
      /\ calls \in 0 .. MaxCalls /\ NoSlot \notin Slots
  BY InvParts, UserClientAssumption DEF Types, Locals, LocalTypes
<1>1. /\ UNCHANGED <<channel, caller, nextSurf, pool, calls, counters, device, suspect, raced, crossed>>
      /\ UNCHANGED <<dev, freed, fault>> /\ open' = open \ {c}
      /\ told' = [told EXCEPT ![c] = {}] /\ lost' = lost \cup told[c] /\ surf' = [surf EXCEPT ![c] = {}]
  BY Zenon DEF clientClose, queue
<1>2. /\ dev' \subseteq dev /\ open' \subseteq open /\ freed' \subseteq Clients
      /\ suspect \subseteq suspect' /\ lost \subseteq lost'
      /\ told' \in {told, [told EXCEPT ![c] = {}]} /\ surf' \in {surf, [surf EXCEPT ![c] = {}]}
  BY <1>0, <1>1 DEF ClientTypes
<1>3. CASE c \in busy /\ held[c] # NoDesc /\ c \in dev
  <2>1. DropHeld(c) /\ Begin(t, c, "close", ProbeCtx, "U") /\ UNCHANGED <<named, exposed>>
    BY <1>3, Zenon DEF clientClose, NoDesc
  <2>2. /\ held'[c] = NoDesc /\ \A k \in Clients : k # c => held'[k] = held[k]
        /\ busy' = busy \ {c} /\ wired' = wired \ {held[c]} /\ ProbeTypes'
    BY <1>0, <2>1, DropHeldStep
  <2>3. LocalOk("U", "close", c, ProbeCtx, FirstDesc("close"), calls')
    BY DEF LocalOk, CtxAt, ProbeAt, LaterOps
  <2>4. calls' \in 0 .. MaxCalls /\ calls <= calls' /\ "U" \in Sending /\ "close" \in Ops /\ ProbeCtx \in Nat
    BY <1>0, <1>1, UserClientAssumption DEF Sending, Ops, LaterOps
  <2>5. FirstDesc("close") = NoDesc
    BY DEF FirstDesc
  <2>6. /\ Locals' /\ Becomes(t, "U", "close", c, ProbeCtx, NoDesc)
        /\ pc[t] = "idle" /\ (overlap' <=> overlap \/ InCall(c))
    BY <1>0, <2>1, <2>3, <2>4, <2>5, BeginStep
  <2>7. /\ ClientTypes' /\ CtxTypes' /\ SurfTypes' /\ DevTypes' /\ SurfaceOneHolder'
        /\ \A k \in Clients : told'[k] \subseteq told[k]
        /\ \A k \in Clients : k # c => told'[k] = told[k]
        /\ UNCHANGED <<ctxs, owner, res, backing, kernCtx, nextCtx, backlog, answer, cmd>>
    BY <1>1, <1>2, ForsakeRest
  <2>8. Types'
    BY <2>2, <2>6, <2>7 DEF Types, Locals
  <2>9. Chan'
    <3>1. caller # NoSlot => caller \in Slots /\ pc[caller] \in Sending
      BY <1>0, Zenon DEF Chan, ChanInv, CallerInv
    <3>2. caller # NoSlot => caller # t
      BY <2>6, <3>1 DEF Sending
    <3>3. caller # NoSlot => Same(caller)
      BY <2>6, <3>1, <3>2, Zenon DEF Becomes, Same
    <3> QED BY <1>0, <1>1, <2>1, <2>7, <3>3, ChanFrame
  <2>10. ApartInv'
    <3>1. \A x \in UserIds : \A k \in Clients : x \in told[k] => Claimed(x, k)
      BY Zenon DEF Claimed
    <3>2. \A x \in UserIds : \A k \in Clients : x \in told'[k] => Claimed(x, k)
      BY <2>7, <3>1
    <3>3. pc[t] # "bump" /\ "U" \notin CtxAt
      BY <2>6 DEF CtxAt
    <3> QED BY <1>0, <1>1, <2>6, <2>7, <3>2, <3>3, ApartSlot
  <2>11. LeakInv'
    <3>1. \A x \in Unexplained' : \A k \in Clients : x \in told[k] => x \in told'[k]
      BY <1>1, <2>7 DEF Unexplained
    <3>2. \A x \in Unexplained' : \A k \in Clients :
             x \in told[k] => (\E b \in Clients : x \in told'[b]) \/ ("U" = "destroy" /\ ProbeCtx = x)
      BY <3>1, Zenon
    <3>3. \A x : ~Answers4(t, x)
      BY <2>6 DEF Answers4
    <3> QED BY <1>0, <1>1, <1>2, <2>6, <2>7, <3>2, <3>3, LeakSlot
  <2>12. AgentInv'
    <3>1. AgentInv /\ ~Agent(t) /\ named \subseteq named' /\ (exposed => exposed')
      BY <1>0, <2>1, <2>6 DEF Agent, ProbePart
    <3>2. c \in named => Agent(t)'
      BY <2>1, <2>6 DEF Agent, Becomes, LaterOps
    <3>3. \A k \in Clients : k \in busy /\ k \in named =>
             Agent(t)' \/ \E b \in Clients : b \in busy' /\ b \in named'
      <4> SUFFICES ASSUME NEW k \in Clients, k \in busy, k \in named
                   PROVE  Agent(t)' \/ \E b \in Clients : b \in busy' /\ b \in named'
        OBVIOUS
      <4>1. CASE k = c
        BY <3>2, <4>1
      <4>2. CASE k # c
        <5>1. k \in busy' /\ k \in named'
          BY <2>1, <2>2, <4>2
        <5> QED BY <5>1, Zenon
      <4> QED BY <4>1, <4>2
    <3> QED BY <1>0, <1>1, <1>2, <2>6, <2>7, <3>1, <3>3, AgentSlot
  <2>13. ASSUME ~overlap' PROVE Orderly'
    <3>0. Orderly /\ ~InCall(c)
      BY <1>0, <2>6, <2>13, Zenon DEF ProbePart, PagesInv
    <3>1. Alone(t)
      BY <1>1, <1>3, <2>6, <3>0, Zenon DEF Becomes, Alone, InCall
    <3>2. /\ \A e \in Descs : e \in wired' <=> \/ \E k \in Clients : held'[k] = e
                                               \/ \E u \in Slots : Pinned(u) /\ desc[u] = e
          /\ \A k \in Clients : held'[k] <= calls
          /\ \A k, e \in Clients : held'[k] = held'[e] /\ held'[k] # NoDesc => k = e
          /\ \A u \in Slots : First(u) => who[u] \notin busy' /\ \A k \in Clients : held'[k] # desc[u]
      BY <2>1, <3>0, DropHeldOrder
    <3>3. \A u \in Slots : u # t => (Pinned(u)' <=> Pinned(u)) /\ desc'[u] = desc[u]
      BY <2>6, Zenon DEF Becomes, Pinned
    <3>4. ~Pinned(t) /\ ~Pinned(t)' /\ ~First(t)'
      BY <2>6 DEF Becomes, Pinned, First
    <3>5. \A e \in Descs : e \in wired' <=> \/ \E k \in Clients : held'[k] = e
                                            \/ \E u \in Slots : Pinned(u)' /\ desc'[u] = e
      BY <3>2, <3>3, <3>4
    <3>6. ~fault' /\ busy' \subseteq named' /\ \A k \in Clients : held'[k] <= calls'
      BY <1>1, <2>1, <2>2, <3>0, <3>2, OrderlyParts
    <3>7. \A u \in Slots : Later(u) => pc[u] # "idle"
      BY DEF Later, ProbeAt
    <3>8. \A u \in Slots : pc[u] # "idle" => who[u] # c
      BY <3>0, Zenon DEF InCall
    <3>9. \A u \in Slots : u # t /\ Later(u) => who[u] \in named' /\ (pc[u] = "F" <=> who[u] \in busy')
      BY <2>1, <2>2, <3>0, <3>7, <3>8, OrderlyParts
    <3>10. c \in named' /\ c \notin busy'
      BY <1>3, <2>1, <2>2, <3>0, OrderlyParts
    <3> QED BY <1>1, <2>6, <3>0, <3>1, <3>2, <3>4, <3>5, <3>6, <3>9, <3>10, OrderlySlot
  <2>14. PagesInv'
    BY <2>13, Zenon DEF PagesInv
  <2>15. ProbeDanglingExplained'
    <3>1. pc'[t] = "U"
      BY <2>6, Zenon DEF Becomes
    <3> QED BY <3>1, Zenon DEF ProbeDanglingExplained
  <2> QED BY ONLY <2>7, <2>8, <2>9, <2>10, <2>11, <2>12, <2>14, <2>15, InvParts, Zenon DEF Inv, Chan
<1>4. CASE c \in busy /\ held[c] # NoDesc /\ c \notin dev
  <2>1. DropHeld(c) /\ named' = named \ {c} /\ exposed' /\ UNCHANGED <<pc, locals, overlap>>
    BY <1>4, Zenon DEF clientClose, NoDesc
  <2>2. named' \subseteq named /\ ProbeTypes'
    BY <1>0, <2>1, DropHeldStep
  <2>3. /\ Types' /\ Chan' /\ ApartInv' /\ LeakInv' /\ SurfaceOneHolder'
        /\ (\A u \in Slots : Same(u)) /\ UNCHANGED <<ctxs, backing, backlog, answer>>
    BY <1>1, <1>2, <2>1, <2>2, ForsakeStay
  <2>4. AgentInv' /\ ProbeDanglingExplained'
    BY <2>1, Zenon DEF AgentInv, ProbeDanglingExplained
  <2>5. PagesInv'
    <3>1. Orderly => ~InCall(c)
      <4> SUFFICES ASSUME Orderly, InCall(c) PROVE FALSE
        OBVIOUS
      <4>1. PICK u \in Slots : who[u] = c /\ pc[u] # "idle"
        BY Zenon DEF InCall
      <4> QED BY <1>4, <4>1, OrderlyParts
    <3>2. KeepsDev
      BY <1>1, Zenon DEF KeepsDev
    <3>3. Orderly => Orderly'
      BY <1>1, <2>1, <2>3, <3>1, <3>2, ForgetOrder
    <3> QED BY <1>0, <2>1, <3>3, Zenon DEF ProbePart, PagesInv
  <2> QED BY ONLY <2>3, <2>4, <2>5, InvParts, Zenon DEF Inv, Chan
<1>5. CASE ~(c \in busy /\ held[c] # NoDesc)
  <2>1. /\ (overlap' <=> overlap \/ InCall(c)) /\ UNCHANGED <<pc, locals, exposed>>
        /\ UNCHANGED <<busy, held, named, wired>>
    BY <1>5, Zenon DEF clientClose, NoDesc, probe
  <2>2. named' \subseteq named /\ ProbeTypes'
    BY <1>0, <2>1 DEF ProbeTypes
  <2>3. /\ Types' /\ Chan' /\ ApartInv' /\ LeakInv' /\ SurfaceOneHolder'
        /\ (\A u \in Slots : Same(u)) /\ UNCHANGED <<ctxs, backing, backlog, answer>>
    BY <1>1, <1>2, <2>1, <2>2, ForsakeStay
  <2>4. AgentInv'
    <3>1. AgentInv /\ named \subseteq Clients /\ (exposed => exposed')
      BY <1>0, <2>1 DEF ProbePart, ProbeTypes
    <3> QED BY <1>1, <1>2, <2>1, <2>3, <3>1, AgentStay
  <2>5. CASE overlap'
    <3>1. PagesInv' /\ ProbeDanglingExplained'
      BY <2>5, Zenon DEF PagesInv, ProbeDanglingExplained
    <3> QED BY ONLY <2>3, <2>4, <3>1, InvParts, Zenon DEF Inv, Chan
  <2>6. CASE ~overlap'
    <3>1. PagesInv /\ ProbeDanglingExplained /\ (overlap' <=> overlap) /\ (exposed => exposed')
      BY <1>0, <2>1, <2>6, Zenon DEF ProbePart
    <3>2. KeepsDev
      BY <1>1, Zenon DEF KeepsDev
    <3>3. calls \in Nat /\ calls' \in Nat /\ calls <= calls'
      BY <1>0, <1>1, UserClientAssumption
    <3>4. PagesInv'
      BY <1>0, <1>1, <2>1, <2>3, <3>1, <3>2, <3>3, PagesStay
    <3>5. ProbeDanglingExplained'
      BY <1>2, <2>1, <2>3, <3>1, DanglingStay
    <3> QED BY ONLY <2>3, <2>4, <3>4, <3>5, InvParts, Zenon DEF Inv, Chan
  <2> QED BY <2>5, <2>6
<1> QED BY <1>3, <1>4, <1>5

-----------------------------------------------------------------------------
(* The invariant holds.                                                    *)

LEMMA InitInv == Init => Inv
<1> SUFFICES ASSUME Init PROVE Inv
  OBVIOUS
<1>1. /\ cmd = NoCommand /\ backlog = 0 /\ pushing = FALSE /\ moved = FALSE /\ answer = "err"
      /\ waiting = FALSE /\ caller = NoSlot
      /\ dev = Clients /\ open = Clients /\ freed = {}
      /\ nextCtx = FirstUserCtx /\ kernCtx = 1 /\ ctxLock = NoSlot
      /\ nextSurf = [c \in Clients |-> 1] /\ pool = {}
      /\ told = [c \in Clients |-> {}] /\ surf = [c \in Clients |-> {}]
      /\ busy = {} /\ held = [c \in Clients |-> NoDesc] /\ named = {} /\ wired = {}
      /\ pc = [t \in Slots |-> "idle"] /\ op = [t \in Slots |-> "none"]
      /\ who = [t \in Slots |-> NoClient] /\ id = [t \in Slots |-> 0]
      /\ desc = [t \in Slots |-> NoDesc] /\ calls = 0
      /\ ctxs = {} /\ owner = [x \in CtxIds \cup {ProbeCtx} |-> {}]
      /\ res = FALSE /\ backing = NoDesc /\ suspect = {} /\ crossed = FALSE /\ fault = FALSE
  BY DEF Init, ChannelInit
<1>2. \A t \in Slots : pc[t] = "idle" /\ op[t] = "none" /\ who[t] = NoClient /\ id[t] = 0 /\ desc[t] = NoDesc
  BY <1>1
<1>3. LocalTypes
  BY <1>1, UserClientAssumption DEF LocalTypes, Ops
<1>4. LocalInv
  BY <1>2 DEF LocalInv, LocalOk, CtxAt, ProbeAt
<1>5. ClientTypes /\ CtxTypes /\ SurfTypes
  BY <1>1, UserClientAssumption DEF ClientTypes, CtxTypes, SurfTypes, CtxIds
<1>6. ProbeTypes /\ DevTypes
  BY <1>1 DEF ProbeTypes, DevTypes
<1>7. Types
  BY <1>3, <1>4, <1>5, <1>6 DEF Types
<1>8. Chan
  <2>1. backlog \in 0 .. MaxBacklog /\ answer \in Answers /\ ~(backlog > 0)
    BY <1>1, ChannelAssumption DEF Answers
  <2>2. ChanInv
    BY <1>1, <2>1, Zenon DEF ChanInv, ChannelTypeOK
  <2>3. CallerInv /\ DoneInv /\ BackingInv
    BY <1>1 DEF CallerInv, DoneInv, BackingInv
  <2> QED BY <2>2, <2>3, Zenon DEF Chan
<1>9. ApartInv
  <2>1. cmd \notin ClientCommand
    BY <1>1, ChannelAssumption, ClientCommandAssumption
  <2>2. \A x \in UserIds : \A c \in Clients : ~Claimed(x, c)
    <3> SUFFICES ASSUME NEW x \in UserIds, NEW c \in Clients PROVE ~Claimed(x, c)
      OBVIOUS
    <3>1. told[c] = {} /\ owner[x] = {}
      BY <1>1 DEF UserIds
    <3>2. \A t \in Slots : pc[t] \notin CtxAt
      BY <1>2 DEF CtxAt
    <3> QED BY <2>1, <3>1, <3>2 DEF Claimed
  <2>3. \A t \in Slots : pc[t] # "bump"
    BY <1>2
  <2>4. ~crossed
    BY <1>1
  <2> QED BY <2>2, <2>3, <2>4, Zenon DEF ApartInv, Apart, UserIds
<1>10. LeakInv /\ AgentInv
  BY <1>1 DEF LeakInv, AgentInv
<1>11. PagesInv
  <2>1. \A e \in Descs : e # NoDesc
    BY DEF Descs, NoDesc
  <2>2. \A t \in Slots : ~Pinned(t)
    BY <1>2 DEF Pinned
  <2>3. \A c \in Clients : held[c] = NoDesc
    BY <1>1
  <2>4. \A e \in Descs : e \in wired <=> \/ \E c \in Clients : held[c] = e
                                         \/ \E t \in Slots : Pinned(t) /\ desc[t] = e
    BY <1>1, <2>1, <2>2, <2>3
  <2>5. ~fault /\ busy \subseteq named /\ \A c \in Clients : held[c] <= calls
    BY <1>1, <2>3 DEF NoDesc
  <2>6. \A t \in Slots : pc[t] = "idle" /\ op[t] = "none"
    BY <1>2
  <2>7. "none" # "probe1" /\ "none" \notin LaterOps
    BY DEF LaterOps
  <2> QED BY <2>3, <2>4, <2>5, <2>6, <2>7, Zenon DEF PagesInv, Orderly
<1>12. ProbeDanglingExplained /\ SurfaceOneHolder
  BY <1>1 DEF ProbeDanglingExplained, SurfaceOneHolder
<1> QED BY ONLY <1>7, <1>8, <1>9, <1>10, <1>11, <1>12, Zenon DEF Inv, Chan

\* One step per action.
LEMMA NextInv ==
    ASSUME Inv, [Next]_vars
    PROVE  Inv'
<1>1. ASSUME NEW t \in Slots, Step(t) PROVE Inv'
  BY <1>1, BumpInv, AdvanceInv, MakeSurfaceInv, SendCommandInv, CreatedInv, UsedInv, AfterAInv,
     AfterBInv, AfterCInv, AfterDInv, AfterEInv, AfterFInv, AfterUInv, AfterXInv, Zenon DEF Step
<1>2. ASSUME NEW t \in Slots, NEW c \in Clients, Selector(t, c) PROVE Inv'
  <2>1. CASE createVirglContextEx(t, c)
    BY <2>1, CreateExInv
  <2>2. CASE \E o \in {"kernctx", "virglctx"} : createRenderContext(t, c, o)
    BY <2>2, CreateRenderInv
  <2>3. CASE \E x \in CtxIds : \/ destroyVirglContextEx(t, c, x) \/ submitVirglCommandsEx(t, c, x)
                               \/ ctxAttachResource(t, c, x)
    BY <2>3, KnownContextInv
  <2>4. CASE \E x \in CtxIds : destroy3DContext(c, x)
    BY <2>4, Destroy3DInv
  <2>5. CASE createSurface(t, c)
    BY <2>5, CreateSurfaceInv
  <2>6. CASE \E s \in SurfIds : destroySurface(c, s)
    BY <2>6, DestroySurfaceInv
  <2>7. CASE probePhase1(t, c) \/ probePhase2(t, c)
    BY <2>7, ProbePhasesInv
  <2> QED BY <1>2, <2>1, <2>2, <2>3, <2>4, <2>5, <2>6, <2>7, Zenon DEF Selector
<1>3. ASSUME NEW t \in Slots, NEW c \in Clients, clientClose(t, c) PROVE Inv'
  BY <1>3, ClientCloseInv
<1>4. ASSUME NEW c \in Clients, stop(c) \/ free(c) PROVE Inv'
  BY <1>4, StopInv, FreeInv
<1>5. CASE DevExecute \/ DevPush
  BY <1>5, DevExecuteInv, DevPushInv
<1>6. CASE UNCHANGED vars
  BY <1>6, StutterInv
<1> QED BY <1>1, <1>2, <1>3, <1>4, <1>5, <1>6, Zenon DEF Next, Finished

LEMMA InvAlways == Spec => []Inv
BY InitInv, NextInv, PTL DEF Spec

-----------------------------------------------------------------------------
(* What follows from it.                                                   *)

\* Two clients never know the same context and no client's commands run in
\* another's, whatever commands are late and whatever the device refuses,
\* unless two calls raced inside s_next_user_ctx_id++ or the driver's own
\* counter reached the users' range; and every variable keeps its type.
THEOREM ContextsKeptAlways == Spec => []ContextsKept
<1>1. Inv => ContextsKept
  <2> SUFFICES ASSUME Inv PROVE ContextsKept
    OBVIOUS
  <2>0. Types /\ Chan /\ ApartInv
    BY InvParts
  <2>1. TypeOK
    <3>1. ChannelTypeOK /\ caller \in Slots \cup {NoSlot} /\ res \in BOOLEAN
      BY <2>0, Zenon DEF Chan, ChanInv
    <3>2. /\ ctxLock \in Slots \cup {NoSlot} /\ kernCtx \in CtxIds /\ nextCtx \in 1 .. MaxCtx + 1
          /\ told \in [Clients -> SUBSET CtxIds]
      BY <2>0, UserClientAssumption DEF Types, CtxTypes
    <3>3. ctxs \subseteq CtxIds \cup {ProbeCtx} /\ backing \in Descs \cup {NoDesc}
      BY <2>0 DEF Types, DevTypes
    <3> QED BY <2>0, <3>1, <3>2, <3>3, Zenon
        DEF TypeOK, Types, LocalTypes, ClientTypes, SurfTypes, ProbeTypes
  <2>2. ContextsApart
    <3> SUFFICES ASSUME Apart PROVE ~crossed /\ \A c, d \in Clients : c # d => told[c] \cap told[d] = {}
      BY <2>0, Zenon DEF ApartInv, ContextsApart
    <3>1. \A x \in UserIds : \A c, d \in Clients : x \in told[c] /\ x \in told[d] => c = d
      BY Zenon DEF Apart, Claimed, UserIds
    <3>2. \A c \in Clients : told[c] \subseteq UserIds
      BY <2>0 DEF Types, CtxTypes, UserIds
    <3>3. ~crossed
      BY Zenon DEF Apart
    <3> QED BY <3>1, <3>2, <3>3
  <2> QED BY <2>1, <2>2 DEF ContextsKept
<1> QED BY <1>1, InvAlways, PTL

\* No context is left on the device but by a path that has a name: it is known
\* to a client that is open, in the hands of a call, or was given up by a
\* selector that keeps ids to itself, by a close or by a late command; the
\* probe's context goes with its probe.
THEOREM ContextLeaksExplainedAlways == Spec => []ContextLeaksExplained
<1>1. Inv => ContextLeaksExplained
  <2> SUFFICES ASSUME Inv PROVE ContextLeaksExplained
    OBVIOUS
  <2>0. Types /\ LeakInv /\ AgentInv
    BY InvParts DEF ProbePart
  <2>1. ASSUME NEW x \in ctxs \ {ProbeCtx}
        PROVE  x \in (UNION {told[c] : c \in Clients}) \cup InHand \cup lost \cup suspect
    <3>1. x \in CtxIds
      BY <2>0 DEF Types, DevTypes
    <3>2. \/ x \in lost \/ x \in suspect \/ \E c \in Clients : x \in told[c]
          \/ \E t \in Slots : Answers4(t, x)
      BY <2>0, <2>1, <3>1 DEF LeakInv
    <3>3. \A t \in Slots : Answers4(t, x) => x \in InHand
      BY DEF Answers4, InHand
    <3>4. (\E c \in Clients : x \in told[c]) => x \in UNION {told[c] : c \in Clients}
      OBVIOUS
    <3>5. (\E t \in Slots : Answers4(t, x)) => x \in InHand
      BY <3>3, Zenon
    <3> QED BY <3>2, <3>4, <3>5, Zenon
  <2>2. ProbeCtx \in ctxs => ProbeOn \/ exposed \/ ProbeCtx \in suspect
    <3>1. \A t \in Slots : Agent(t) => ProbeOn
      BY DEF Agent, ProbeOn, LaterOps
    <3>2. (\E c \in Clients : c \in busy /\ c \in named) => ProbeOn
      BY DEF ProbeOn
    <3> QED BY <2>0, <3>1, <3>2, Zenon DEF AgentInv
  <2> QED BY <2>1, <2>2 DEF ContextLeaksExplained
<1> QED BY <1>1, InvAlways, PTL

\* The probe's pages are wired exactly while a call or m_probe_descriptor
\* holds them, and no null descriptor is used, unless a client overlaps its
\* own calls: whichever command fails, and whatever other clients do to the
\* ids that all of them share.
THEOREM ProbePagesAccountedAlways == Spec => []ProbePagesAccounted
<1>1. Inv => ProbePagesAccounted
  <2> SUFFICES ASSUME Inv, ~overlap
               PROVE  /\ ~fault
                      /\ wired = ({held[c] : c \in Clients} \ {NoDesc}) \cup
                           {desc[t] : t \in {u \in Slots : op[u] = "probe1" /\ pc[u] \in {"D", "E"}}}
    BY Zenon DEF ProbePagesAccounted, NoDesc
  <2>0. Orderly /\ ProbeTypes /\ LocalTypes
    BY InvParts, Zenon DEF ProbePart, PagesInv, Types
  <2>1. ~fault /\ \A e \in Descs : e \in wired <=> \/ \E c \in Clients : held[c] = e
                                                   \/ \E t \in Slots : Pinned(t) /\ desc[t] = e
    BY <2>0, OrderlyParts
  <2>2. wired \subseteq Descs /\ \A c \in Clients : held[c] # NoDesc => held[c] \in Descs
    BY <2>0 DEF ProbeTypes
  <2>3. \A t \in Slots : Pinned(t) => desc[t] \in Descs
    <3> SUFFICES ASSUME NEW t \in Slots, Pinned(t) PROVE desc[t] \in Descs
      OBVIOUS
    <3>1. LocalOk(pc[t], op[t], who[t], id[t], desc[t], calls) /\ calls \in 0 .. MaxCalls
      BY LocalsOf
    <3> QED BY <3>1, UserClientAssumption DEF LocalOk, Pinned, ProbeAt, Descs
  <2>4. \A e \in Descs : e # NoDesc
    BY DEF Descs, NoDesc
  <2>5. \A e : e \in wired <=> \/ e # NoDesc /\ \E c \in Clients : held[c] = e
                               \/ \E t \in Slots : Pinned(t) /\ desc[t] = e
    BY <2>1, <2>2, <2>3, <2>4
  <2> QED BY <2>1, <2>5 DEF Pinned
<1> QED BY <1>1, InvAlways, PTL

\* The device holds addresses of unwired pages only between the release and
\* the UNREF of a running call, or after one of the named accidents.
THEOREM ProbeDanglingExplainedAlways == Spec => []ProbeDanglingExplained
<1>1. Inv => ProbeDanglingExplained
  BY DEF Inv
<1> QED BY <1>1, InvAlways, PTL

\* A surface that a client was given has a slot of the driver's pool, and no
\* two surfaces of any clients share one, although all clients count from 1.
THEOREM SurfaceOneHolderAlways == Spec => []SurfaceOneHolder
<1>1. Inv => SurfaceOneHolder
  BY DEF Inv
<1> QED BY <1>1, InvAlways, PTL
=============================================================================
