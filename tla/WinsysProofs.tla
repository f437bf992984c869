---------------------------- MODULE WinsysProofs ----------------------------
(***************************************************************************)
(* Proofs about the winsys selectors for any number of clients, threads,   *)
(* slots and calls, as long as each client makes one call at a time        *)
(* (Serial): wired memory is accounted for on every path, a client has one *)
(* backing per resource, and the device is left with pages that are no     *)
(* longer wired by three paths only.                                       *)
(***************************************************************************)
EXTENDS Winsys, WellFoundedInduction, TLAPS

Removing == {"remove", "drop", "clear"}
Places == {"idle", "bump", "send", "wait", "add", "store"} \cup Removing
-----------------------------------------------------------------------------
(* The inductive invariant.                                                *)

\* A client has one call at a time, and none once it is closed.
SerialInv ==
    /\ \A t, u \in Threads :
          pc[t] # "idle" /\ pc[u] # "idle" /\ ClientOf[t] = ClientOf[u] => t = u
    /\ \A t \in Threads : pc[t] # "idle" => state[ClientOf[t]] = "open"
    /\ \A c \in Clients : state[c] # "open" => \A s \in Slots : table[c][s] = FreeSlot

Cell(c, s) == table[c][s]

\* A thread's locals, by its position.
LocalOk(t) ==
    /\ pc[t] # "idle" => rid[t] \in Ids
    /\ pc[t] = "bump" => op[t] = "create"
    /\ pc[t] \in {"add", "store"} => op[t] = "attach"
    /\ pc[t] \in Removing => op[t] \in {"detach", "unref"}
    /\ desc[t] # NoDesc <=> pc[t] # "idle" /\ op[t] = "attach"
    /\ desc[t] # NoDesc => desc[t][1] = ClientOf[t] /\ desc[t][2] <= calls
    /\ pc[t] \in {"store", "drop", "clear"} => slot[t] \in Slots
    /\ pc[t] # "idle" /\ op[t] = "attach" => findUserBacking(ClientOf[t], rid[t]) = {}
    /\ pc[t] = "store" => Cell(ClientOf[t], slot[t]).id = 0
    /\ pc[t] \in {"drop", "clear"} => Cell(ClientOf[t], slot[t]).id = rid[t]
LocalInv == \A t \in Threads : LocalOk(t)

\* The slots: free ones hold nothing, the others descriptors of the client's
\* own earlier calls, each in one slot and with no running call.
TableInv ==
    /\ \A c \in Clients, s \in Slots :
          /\ Cell(c, s).id = 0 <=> Cell(c, s).desc = NoDesc
          /\ Cell(c, s).desc # NoDesc => Cell(c, s).desc[1] = c /\ Cell(c, s).desc[2] <= calls
          /\ \A r \in Slots : Cell(c, s).desc # NoDesc /\ Cell(c, s).desc = Cell(c, r).desc => s = r
          /\ \A t \in Threads : Cell(c, s).desc # NoDesc => Cell(c, s).desc # desc[t]
    /\ \A t, u \in Threads : desc[t] # NoDesc /\ desc[t] = desc[u] => t = u

\* The command in the buffer is that of the one call that waits, or it is late
\* and its resource is under suspicion; for one above suspicion it is executed
\* once and answered once.
Unanswered == backlog = 1 /\ ~pushing /\ ~moved
Replied == backlog = 0 /\ pushing # moved
ChanInv ==
    /\ waiting <=> \E t \in Threads : pc[t] = "wait"
    /\ \A t, u \in Threads : pc[t] = "wait" /\ pc[u] = "wait" => t = u
    /\ \A t \in Threads : pc[t] = "wait" =>
          /\ cmd = [type |-> op[t], id |-> rid[t], desc |-> desc[t]]
          /\ rid[t] \notin suspect => Unanswered \/ Replied
    /\ cmd # NoCommand => cmd \in WinsysCommand
    /\ backlog > 0 => cmd # NoCommand /\ (waiting \/ cmd.id \in suspect)

\* Descriptor d, wherever it is held, is held for resource i, and it is no
\* later call's.
Names(i, d) ==
    /\ \A c \in Clients, s \in Slots : Cell(c, s).desc = d => Cell(c, s).id = i
    /\ \A t \in Threads : desc[t] = d => rid[t] = i
    /\ d[2] <= calls
NamesInv ==
    /\ \A i \in Ids : backing[i] # NoDesc => i \in host /\ Names(i, backing[i])
    /\ cmd # NoCommand /\ cmd.desc # NoDesc => Names(cmd.id, cmd.desc)
    /\ \A t \in Threads : pc[t] = "send" /\ op[t] = "attach" =>
          /\ \A i \in Ids : backing[i] # desc[t]
          /\ cmd # NoCommand => cmd.desc # desc[t]

\* What the device has done, for resources above suspicion: an attach that is
\* not executed yet or was refused has given it nothing, and after a detach it
\* has none of the pages of the client's slot.
NotGiven == backlog > 0 \/ answer = "err"
Detaching(t) == pc[t] \in Removing \/ (pc[t] = "wait" /\ backlog = 0)
DoneOk(t) ==
    pc[t] # "idle" /\ rid[t] \notin suspect =>
        /\ pc[t] = "wait" /\ op[t] = "attach" /\ NotGiven => backing[rid[t]] # desc[t]
        /\ op[t] = "detach" /\ Detaching(t) =>
              \A s \in findUserBacking(ClientOf[t], rid[t]) :
                  backing[rid[t]] # Cell(ClientOf[t], s).desc
DoneInv == \A t \in Threads : DoneOk(t)

\* WiredAccounted, one descriptor at a time.
HeldBy(d) == \/ \E c \in Clients, s \in Slots : ~Dropping(c, s) /\ Cell(c, s).desc = d
             \/ \E t \in Threads : desc[t] = d
WiredInv == twice = {} /\ \A d \in Descs : d \in wired <=> HeldBy(d)

Inv == /\ TypeOK /\ SerialInv /\ LocalInv /\ TableInv /\ OneBackingPerResource /\ WiredInv
       /\ ChanInv /\ NamesInv /\ DoneInv /\ DanglingExplained

-----------------------------------------------------------------------------
(* Descriptors, and what the parts of the invariant come to.               *)

LEMMA NoDescApart == NoDesc \notin Descs
BY DEF NoDesc, Descs

\* A descriptor's call number.
LEMMA DescNumber == \A d \in Descs : d[1] \in Clients /\ d[2] \in Nat
BY DEF Descs

\* The descriptor of a call that begins.
LEMMA NewDesc ==
    ASSUME NEW c \in Clients, calls \in 0 .. MaxCalls, calls < MaxCalls
    PROVE  <<c, calls + 1>> \in Descs
BY WinsysAssumption DEF Descs

\* WiredInv is WiredAccounted, one descriptor at a time.
LEMMA WiredMeans ==
    ASSUME TypeOK
    PROVE  WiredInv <=> WiredAccounted
<1>1. \A d \in Descs : d \in Held <=> HeldBy(d)
  <2> TAKE d \in Descs
  <2>1. ASSUME d \in Held PROVE HeldBy(d)
    <3>1. CASE \E p \in Kept : table[p[1]][p[2]].desc = d
      BY <3>1 DEF HeldBy, Kept, Cell
    <3>2. CASE \E t \in Threads : desc[t] = d
      BY <3>2 DEF HeldBy
    <3> QED BY <2>1, <3>1, <3>2 DEF Held
  <2>2. ASSUME NEW c \in Clients, NEW s \in Slots, ~Dropping(c, s), Cell(c, s).desc = d
        PROVE  d \in Held
    <3>1. <<c, s>> \in Kept
      BY <2>2 DEF Kept
    <3> QED BY <2>2, <3>1 DEF Held, Cell
  <2> QED BY <2>1, <2>2 DEF HeldBy, Held
<1>2. Held \ {NoDesc} \subseteq Descs
  BY DEF Held, Kept, TypeOK
<1>3. NoDesc \notin Descs /\ wired \subseteq Descs
  BY NoDescApart DEF TypeOK
<1> QED BY <1>1, <1>2, <1>3 DEF WiredInv, WiredAccounted

-----------------------------------------------------------------------------
(* What one thread does, and what that leaves of the invariant.            *)

ThreadTypes ==
    /\ pc \in [Threads -> Places] /\ op \in [Threads -> Ops] /\ rid \in [Threads -> Ids \cup {0}]
    /\ desc \in [Threads -> Descs \cup {NoDesc}] /\ slot \in [Threads -> Slots \cup {0}]
OtherTypes ==
    /\ table \in [Clients -> [Slots -> [id : Ids \cup {0}, desc : Descs \cup {NoDesc}]]]
    /\ wired \subseteq Descs /\ twice \subseteq Descs
    /\ nextId \in 1 .. MaxIds + 1
    /\ state \in [Clients -> {"open", "closed", "freed"}]
    /\ calls \in 0 .. MaxCalls
    /\ host \subseteq Ids /\ backing \in [Ids -> Descs \cup {NoDesc}]
    /\ suspect \subseteq Ids /\ exposed \subseteq Ids

LEMMA TypeParts == TypeOK <=> ChannelTypeOK /\ ThreadTypes /\ OtherTypes
BY Zenon DEF TypeOK, ThreadTypes, OtherTypes, Places, Removing

\* A thread comes to a position with these locals.
Same(u) == /\ pc'[u] = pc[u] /\ op'[u] = op[u] /\ rid'[u] = rid[u]
           /\ desc'[u] = desc[u] /\ slot'[u] = slot[u]
Others(t) == \A u \in Threads : u # t => Same(u)
Becomes(t, p, o, i, d, s) ==
    /\ pc'[t] = p /\ op'[t] = o /\ rid'[t] = i /\ desc'[t] = d /\ slot'[t] = s
    /\ Others(t)

LEMMA ThreadStep ==
    ASSUME ThreadTypes, NEW t \in Threads, NEW p \in Places, NEW o \in Ops,
           NEW i \in Ids \cup {0}, NEW d \in Descs \cup {NoDesc}, NEW s \in Slots \cup {0},
           pc' = [pc EXCEPT ![t] = p], op' = [op EXCEPT ![t] = o],
           rid' = [rid EXCEPT ![t] = i], desc' = [desc EXCEPT ![t] = d],
           slot' = [slot EXCEPT ![t] = s]
    PROVE  ThreadTypes' /\ Becomes(t, p, o, i, d, s)
BY DEF ThreadTypes, Becomes, Others, Same

\* A call begins.
Began(t, o, i, p, d) ==
    /\ Becomes(t, p, o, i, d, slot[t])
    /\ pc[t] = "idle" /\ state[ClientOf[t]] = "open" /\ calls' = calls + 1 /\ calls < MaxCalls
    /\ Serial => ~InCall(ClientOf[t])
LEMMA EnterStep ==
    ASSUME ThreadTypes, NEW t \in Threads, NEW p \in Places, NEW o \in Ops,
           NEW i \in Ids, NEW d \in Descs \cup {NoDesc}, Enter(t, o, i, p),
           desc' = [desc EXCEPT ![t] = d], UNCHANGED slot
    PROVE  ThreadTypes' /\ Began(t, o, i, p, d)
<1>1. ThreadTypes' /\ Becomes(t, p, o, i, d, slot[t])
  BY DEF ThreadTypes, Becomes, Others, Same, Enter
<1> QED BY <1>1, Zenon DEF Began, Enter

\* A call goes on at another position, or returns.
Went(t, p) == Becomes(t, p, op[t], rid[t], desc[t], slot[t])
LEMMA GoStep ==
    ASSUME ThreadTypes, NEW t \in Threads, NEW p \in Places, Go(t, p)
    PROVE  ThreadTypes' /\ Went(t, p)
BY DEF ThreadTypes, Becomes, Others, Same, Went, Go, locals

Left(t) == Becomes(t, "idle", "create", 0, NoDesc, 0)
LEMMA ReturnStep ==
    ASSUME ThreadTypes, NEW t \in Threads, Return(t)
    PROVE  ThreadTypes' /\ Left(t)
<1>1. /\ pc' = [pc EXCEPT ![t] = "idle"] /\ op' = [op EXCEPT ![t] = "create"]
      /\ rid' = [rid EXCEPT ![t] = 0] /\ desc' = [desc EXCEPT ![t] = NoDesc]
      /\ slot' = [slot EXCEPT ![t] = 0]
  BY DEF Return
<1>2. "idle" \in Places /\ "create" \in Ops
  BY DEF Places, Ops
<1> QED BY <1>1, <1>2, ThreadStep DEF Left

\* A call has found the slot it goes on with.
Found(t, p, s) == Becomes(t, p, op[t], rid[t], desc[t], s)
LEMMA FoundStep ==
    ASSUME ThreadTypes, NEW t \in Threads, NEW p \in Places, NEW s \in Slots,
           pc' = [pc EXCEPT ![t] = p], slot' = [slot EXCEPT ![t] = s],
           UNCHANGED <<op, rid, desc>>
    PROVE  ThreadTypes' /\ Found(t, p, s)
BY DEF ThreadTypes, Becomes, Others, Same, Found

\* What a step outside the threads leaves them.
LEMMA ThreadsStay ==
    ASSUME ThreadTypes, UNCHANGED <<pc, locals>>
    PROVE  ThreadTypes' /\ \A u \in Threads : Same(u)
BY DEF ThreadTypes, Same, locals

-----------------------------------------------------------------------------
(* SerialInv.                                                              *)

LEMMA SerialBegins ==
    ASSUME SerialInv, NEW t \in Threads, ~InCall(ClientOf[t]), state[ClientOf[t]] = "open",
           Others(t), UNCHANGED <<state, table>>
    PROVE  SerialInv'
BY DEF SerialInv, InCall, Others, Same

LEMMA SerialGoes ==
    ASSUME SerialInv, NEW t \in Threads, pc[t] # "idle", Others(t), UNCHANGED state,
           \A c \in Clients : c # ClientOf[t] => table'[c] = table[c]
    PROVE  SerialInv'
<1>1. \A u, v \in Threads :
         pc'[u] # "idle" /\ pc'[v] # "idle" /\ ClientOf[u] = ClientOf[v] => u = v
  BY DEF SerialInv, Others, Same
<1>2. \A u \in Threads : pc'[u] # "idle" => state'[ClientOf[u]] = "open"
  BY DEF SerialInv, Others, Same
<1>3. \A c \in Clients : state'[c] # "open" => \A s \in Slots : table'[c][s] = FreeSlot
  BY DEF SerialInv
<1> QED BY <1>1, <1>2, <1>3, Zenon DEF SerialInv, FreeSlot, NoDesc, Slots

-----------------------------------------------------------------------------
(* LocalInv.                                                               *)

\* A thread whose client's table is not touched.
LEMMA LocalSame ==
    ASSUME NEW u \in Threads, LocalOk(u), Same(u), calls \in Nat, calls' \in Nat, calls <= calls',
           OtherTypes, ThreadTypes,
           pc[u] # "idle" => table'[ClientOf[u]] = table[ClientOf[u]]
    PROVE  LocalOk(u)'
<1>1. ClientOf[u] \in Clients
  BY WinsysAssumption
<1>2. desc[u] # NoDesc => desc[u][2] \in Nat
  BY DescNumber DEF ThreadTypes
<1>3. pc[u] # "idle" =>
         findUserBacking(ClientOf[u], rid[u])' = findUserBacking(ClientOf[u], rid[u])
  BY DEF findUserBacking, Same
<1> QED BY <1>1, <1>2, <1>3 DEF LocalOk, Same, Cell

\* What a step of t does to the tables and the calls of the others.
OthersKept(t) ==
    /\ Others(t)
    /\ \A c \in Clients : c # ClientOf[t] => table'[c] = table[c]
    /\ pc[t] = "idle" => UNCHANGED table
    /\ calls' \in Nat /\ calls <= calls'

LEMMA LocalGoes ==
    ASSUME LocalInv, SerialInv, OtherTypes, ThreadTypes, NEW t \in Threads, OthersKept(t),
           LocalOk(t)'
    PROVE  LocalInv'
<1>1. SUFFICES ASSUME NEW u \in Threads, u # t PROVE LocalOk(u)'
  BY Zenon DEF LocalInv
<1>2. LocalOk(u) /\ Same(u)
  BY <1>1, Zenon DEF LocalInv, OthersKept, Others
<1>3. calls \in Nat
  BY WinsysAssumption DEF OtherTypes
<1>4. pc[u] # "idle" => table'[ClientOf[u]] = table[ClientOf[u]]
  BY <1>1, WinsysAssumption DEF SerialInv, OthersKept
<1> QED BY <1>2, <1>3, <1>4, LocalSame, Zenon DEF OthersKept

-----------------------------------------------------------------------------
(* TableInv and OneBackingPerResource.                                     *)

\* Slots are only cleared.
Fewer == \A c \in Clients, s \in Slots : Cell(c, s)' = Cell(c, s) \/ Cell(c, s)' = FreeSlot
\* Calls give up their descriptor, or keep it for the same resource.
Quieter == \A u \in Threads : desc'[u] = NoDesc \/ (desc'[u] = desc[u] /\ rid'[u] = rid[u])

LEMMA CellTypes ==
    ASSUME OtherTypes, NEW c \in Clients, NEW s \in Slots
    PROVE  Cell(c, s) \in [id : Ids \cup {0}, desc : Descs \cup {NoDesc}]
BY DEF OtherTypes, Cell

LEMMA TableFewer ==
    ASSUME TableInv, OneBackingPerResource, OtherTypes, Fewer, Quieter,
           calls' \in Nat, calls <= calls'
    PROVE  TableInv' /\ OneBackingPerResource'
<1>0. calls \in Nat
  BY WinsysAssumption DEF OtherTypes
<1>1. OneBackingPerResource'
  BY DEF OneBackingPerResource, Fewer, FreeSlot, Cell
<1>2. ASSUME NEW c \in Clients, NEW s \in Slots
      PROVE  /\ Cell(c, s)'.id = 0 <=> Cell(c, s)'.desc = NoDesc
             /\ Cell(c, s)'.desc # NoDesc => Cell(c, s)'.desc[1] = c /\ Cell(c, s)'.desc[2] <= calls'
             /\ \A r \in Slots :
                   Cell(c, s)'.desc # NoDesc /\ Cell(c, s)'.desc = Cell(c, r)'.desc => s = r
             /\ \A t \in Threads : Cell(c, s)'.desc # NoDesc => Cell(c, s)'.desc # desc'[t]
  <2>1. CASE Cell(c, s)' = FreeSlot
    BY <2>1 DEF FreeSlot
  <2>2. CASE Cell(c, s)' = Cell(c, s)
    <3>1. Cell(c, s).desc # NoDesc => Cell(c, s).desc[2] \in Nat
      BY CellTypes, DescNumber
    <3>2. \A r \in Slots : Cell(c, r)' = Cell(c, r) \/ Cell(c, r)'.desc = NoDesc
      BY DEF Fewer, FreeSlot
    <3> QED BY <1>0, <2>2, <3>1, <3>2 DEF TableInv, Quieter
  <2> QED BY <1>2, <2>1, <2>2, Zenon DEF Fewer
<1>3. \A t, u \in Threads : desc'[t] # NoDesc /\ desc'[t] = desc'[u] => t = u
  BY DEF TableInv, Quieter
<1> QED BY <1>1, <1>2, <1>3 DEF TableInv, Cell

\* A descriptor that no slot and no call has had so far.
LEMMA TableNewCall ==
    ASSUME TableInv, LocalInv, OtherTypes, ThreadTypes, NEW t \in Threads, Others(t),
           UNCHANGED table, calls' = calls + 1, desc'[t] = <<ClientOf[t], calls + 1>>
    PROVE  TableInv'
<1>0. calls \in Nat
  BY WinsysAssumption DEF OtherTypes
<1>1. \A c \in Clients, s \in Slots : Cell(c, s)' = Cell(c, s)
  BY DEF Cell
<1>2. desc'[t][2] = calls + 1
  OBVIOUS
<1>3. \A u \in Threads : u # t => desc'[u] = desc[u] /\ desc[u] # desc'[t]
  <2> TAKE u \in Threads
  <2>1. desc[u] # NoDesc => desc[u][2] <= calls /\ desc[u][2] \in Nat
    BY DescNumber DEF ThreadTypes, LocalInv, LocalOk
  <2>2. desc'[t] # NoDesc
    BY DEF NoDesc
  <2>3. ASSUME desc[u] = desc'[t] PROVE FALSE
    <3>1. desc[u] # NoDesc
      BY ONLY <2>2, <2>3, Zenon
    <3>2. desc[u][2] = calls + 1
      BY ONLY <1>2, <2>3, Zenon
    <3> QED BY ONLY <1>0, <2>1, <3>1, <3>2, SMT
  <2>4. u # t => desc'[u] = desc[u]
    BY Zenon DEF Others, Same
  <2> QED BY ONLY <2>3, <2>4, Zenon
<1>4. \A c \in Clients, s \in Slots :
         Cell(c, s).desc # NoDesc => Cell(c, s).desc[2] <= calls /\ Cell(c, s).desc[2] \in Nat
  BY CellTypes, DescNumber DEF TableInv
<1>5. ASSUME NEW c \in Clients, NEW s \in Slots
      PROVE  /\ Cell(c, s)'.id = 0 <=> Cell(c, s)'.desc = NoDesc
             /\ Cell(c, s)'.desc # NoDesc => Cell(c, s)'.desc[1] = c /\ Cell(c, s)'.desc[2] <= calls'
             /\ \A r \in Slots :
                   Cell(c, s)'.desc # NoDesc /\ Cell(c, s)'.desc = Cell(c, r)'.desc => s = r
             /\ \A u \in Threads : Cell(c, s)'.desc # NoDesc => Cell(c, s)'.desc # desc'[u]
  BY <1>0, <1>1, <1>2, <1>3, <1>4 DEF TableInv
<1>6. \A u, v \in Threads : desc'[u] # NoDesc /\ desc'[u] = desc'[v] => u = v
  BY <1>3 DEF TableInv
<1> QED BY <1>5, <1>6 DEF TableInv, Cell

-----------------------------------------------------------------------------
(* WiredInv.                                                               *)

LEMMA WiredStays ==
    ASSUME WiredInv, UNCHANGED <<wired, twice, table>>,
           \A u \in Threads : /\ desc'[u] = desc[u]
                              /\ pc'[u] = "clear" <=> pc[u] = "clear"
                              /\ pc[u] = "clear" => slot'[u] = slot[u]
    PROVE  WiredInv'
<1>1. \A c \in Clients, s \in Slots : Dropping(c, s)' <=> Dropping(c, s)
  BY DEF Dropping
<1>2. \A d \in Descs : HeldBy(d)' <=> HeldBy(d)
  BY <1>1 DEF HeldBy, Cell
<1> QED BY <1>2 DEF WiredInv

-----------------------------------------------------------------------------
(* ChanInv.                                                                *)

LEMMA ChanStays ==
    ASSUME ChanInv, UNCHANGED <<channel, suspect>>,
           \A u \in Threads : /\ pc'[u] = "wait" <=> pc[u] = "wait"
                              /\ pc[u] = "wait" => Same(u)
    PROVE  ChanInv'
<1>1. UNCHANGED <<cmd, backlog, pushing, moved, answer, waiting, suspect>>
  BY DEF channel
<1>2. (Unanswered <=> Unanswered') /\ (Replied <=> Replied')
  BY <1>1, Zenon DEF Unanswered, Replied
<1> QED BY <1>1, <1>2 DEF ChanInv, Same

-----------------------------------------------------------------------------
(* NamesInv.                                                               *)

LEMMA NamesFewer ==
    ASSUME NEW i, NEW d \in Descs, Names(i, d), Fewer, Quieter,
           calls \in Nat, calls' \in Nat, calls <= calls'
    PROVE  Names(i, d)'
<1>1. d # NoDesc /\ d[2] \in Nat
  BY NoDescApart, DescNumber
<1>2. \A c \in Clients, s \in Slots : Cell(c, s)'.desc = d => Cell(c, s)'.id = i
  BY <1>1 DEF Names, Fewer, FreeSlot
<1>3. \A t \in Threads : desc'[t] = d => rid'[t] = i
  BY <1>1 DEF Names, Quieter
<1>4. d[2] <= calls'
  BY <1>1 DEF Names
<1> QED BY <1>2, <1>3, <1>4, Zenon DEF Names, Cell

\* The descriptors the device and the buffer have.
LEMMA DeviceDescs ==
    ASSUME OtherTypes, ChanInv
    PROVE  /\ \A i \in Ids : backing[i] # NoDesc => backing[i] \in Descs
           /\ cmd # NoCommand /\ cmd.desc # NoDesc => cmd.desc \in Descs
           /\ cmd # NoCommand => cmd.id \in Ids /\ cmd.type \in Ops
           /\ calls \in Nat
BY WinsysAssumption DEF OtherTypes, ChanInv, WinsysCommand

LEMMA NamesStays ==
    ASSUME NamesInv, OtherTypes, ChanInv, Fewer, Quieter, UNCHANGED <<backing, host, cmd>>,
           calls' \in Nat, calls <= calls',
           \A u \in Threads : pc'[u] = "send" /\ op'[u] = "attach" =>
              pc[u] = "send" /\ op[u] = "attach" /\ desc'[u] = desc[u]
    PROVE  NamesInv'
<1>1. \A i \in Ids : backing'[i] # NoDesc => i \in host' /\ Names(i, backing[i])'
  <2> TAKE i \in Ids
  <2>1. HAVE backing'[i] # NoDesc
  <2>2. i \in host' /\ Names(i, backing[i]) /\ backing[i] \in Descs /\ backing'[i] = backing[i]
    BY <2>1, DeviceDescs DEF NamesInv
  <2>3. PICK d \in Descs : d = backing[i]
    BY <2>2
  <2>4. Names(i, d)'
    BY <2>2, <2>3, NamesFewer, DeviceDescs
  <2> QED BY <2>2, <2>3, <2>4, Zenon DEF Names
<1>2. cmd' # NoCommand /\ cmd'.desc # NoDesc => Names(cmd.id, cmd.desc)'
  <2>1. HAVE cmd' # NoCommand /\ cmd'.desc # NoDesc
  <2>2. Names(cmd.id, cmd.desc) /\ cmd.desc \in Descs /\ cmd.id \in Ids
    BY <2>1, DeviceDescs DEF NamesInv
  <2>3. PICK d \in Descs, i \in Ids : d = cmd.desc /\ i = cmd.id
    BY <2>2
  <2>4. Names(i, d)'
    BY <2>2, <2>3, NamesFewer, DeviceDescs
  <2> QED BY <2>3, <2>4, Zenon DEF Names
<1>3. \A t \in Threads : pc'[t] = "send" /\ op'[t] = "attach" =>
         /\ \A i \in Ids : backing'[i] # desc'[t]
         /\ cmd' # NoCommand => cmd'.desc # desc'[t]
  BY DEF NamesInv
<1> QED BY <1>1, <1>2, <1>3, Zenon DEF NamesInv, NoDesc, Ids

-----------------------------------------------------------------------------
(* DoneInv.                                                                *)

LEMMA DoneSame ==
    ASSUME NEW u \in Threads, DoneOk(u), Same(u), suspect \subseteq suspect',
           UNCHANGED <<backing, backlog, answer>>,
           pc[u] # "idle" => table'[ClientOf[u]] = table[ClientOf[u]]
    PROVE  DoneOk(u)'
<1>1. pc[u] # "idle" =>
         findUserBacking(ClientOf[u], rid[u])' = findUserBacking(ClientOf[u], rid[u])
  BY DEF findUserBacking, Same
<1>2. pc[u] # "idle" => \A s \in Slots : Cell(ClientOf[u], s)' = Cell(ClientOf[u], s)
  BY DEF Cell
<1>3. (NotGiven <=> NotGiven') /\ (Detaching(u) <=> Detaching(u)')
  BY DEF NotGiven, Detaching, Same
<1>4. findUserBacking(ClientOf[u], rid[u]) \subseteq Slots
  BY DEF findUserBacking
<1> QED BY <1>1, <1>2, <1>3, <1>4 DEF DoneOk, Same

LEMMA DoneGoes ==
    ASSUME DoneInv, SerialInv, NEW t \in Threads, OthersKept(t), suspect \subseteq suspect',
           UNCHANGED <<backing, backlog, answer>>, DoneOk(t)'
    PROVE  DoneInv'
<1>1. SUFFICES ASSUME NEW u \in Threads, u # t PROVE DoneOk(u)'
  BY Zenon DEF DoneInv
<1>2. DoneOk(u) /\ Same(u)
  BY <1>1, Zenon DEF DoneInv, OthersKept, Others
<1>3. pc[u] # "idle" => table'[ClientOf[u]] = table[ClientOf[u]]
  BY <1>1, WinsysAssumption DEF SerialInv, OthersKept
<1> QED BY <1>2, <1>3, DoneSame, Zenon

\* A call that is at the beginning, or that neither attaches nor detaches.
LEMMA DoneEarly ==
    ASSUME NEW t \in Threads,
           pc[t] \in {"idle", "bump", "send", "add", "store"} \/ op[t] \in {"create", "unref"}
    PROVE  DoneOk(t)
BY DEF DoneOk, Detaching, Removing

-----------------------------------------------------------------------------
(* DanglingExplained.                                                      *)

\* The pages that are unwired are no such resource's, or it is exposed.
LEMMA DanglingDrop ==
    ASSUME DanglingExplained, UNCHANGED <<host, backing>>, OtherTypes,
           suspect \subseteq suspect', exposed \subseteq exposed',
           NEW D, wired \ D \subseteq wired',
           \A i \in host \ suspect' : backing[i] # NoDesc /\ backing[i] \in D => i \in exposed'
    PROVE  DanglingExplained'
BY DEF DanglingExplained

LEMMA DanglingStays ==
    ASSUME DanglingExplained, UNCHANGED <<host, backing>>, suspect \subseteq suspect',
           exposed \subseteq exposed', wired \subseteq wired'
    PROVE  DanglingExplained'
BY DEF DanglingExplained

-----------------------------------------------------------------------------
(* The actions that stay within one thread's locals.                       *)

LEMMA InvTypes == Inv => ChannelTypeOK /\ ThreadTypes /\ OtherTypes
BY TypeParts, Zenon DEF Inv

LEMMA FewerStays ==
    ASSUME UNCHANGED table
    PROVE  Fewer
BY DEF Fewer, Cell

LEMMA ChannelStays ==
    ASSUME ChannelTypeOK, UNCHANGED channel
    PROVE  ChannelTypeOK'
BY DEF ChannelTypeOK, channel

\* A thread moves between positions without a command, a slot or a page.
LEMMA QuietMove ==
    ASSUME Inv, NEW t \in Threads, Others(t),
           UNCHANGED <<channel, table, wired, twice, state, host, backing, suspect, exposed>>,
           ThreadTypes', nextId' \in 1 .. MaxIds + 1, calls' \in 0 .. MaxCalls, calls <= calls',
           desc'[t] = desc[t], desc[t] = NoDesc \/ rid'[t] = rid[t],
           pc[t] \notin {"wait", "clear"}, pc'[t] \notin {"wait", "clear"},
           ~(pc'[t] = "send" /\ op'[t] = "attach"),
           SerialInv', LocalOk(t)', DoneOk(t)'
    PROVE  Inv'
<1>0. /\ OtherTypes /\ ThreadTypes /\ ChannelTypeOK /\ SerialInv /\ LocalInv /\ TableInv
      /\ OneBackingPerResource /\ WiredInv /\ ChanInv /\ NamesInv /\ DoneInv /\ DanglingExplained
  BY InvTypes, Zenon DEF Inv
<1>a. /\ Fewer /\ calls \in Nat /\ calls' \in Nat
  BY <1>0, FewerStays, WinsysAssumption DEF OtherTypes
<1>b. Quieter
  BY DEF Quieter, Others, Same
<1>c. OthersKept(t)
  BY <1>a DEF OthersKept
<1>1. TypeOK'
  <2>1. OtherTypes'
    BY <1>0 DEF OtherTypes
  <2>2. ChannelTypeOK'
    BY <1>0, ChannelStays
  <2> QED BY <2>1, <2>2, TypeParts, Zenon DEF TypeOK, OtherTypes, ThreadTypes, Places, Removing
<1>2. LocalInv'
  BY <1>0, <1>c, LocalGoes
<1>3. TableInv' /\ OneBackingPerResource'
  BY <1>0, <1>a, <1>b, TableFewer
<1>4. WiredInv'
  BY <1>0, WiredStays DEF Others, Same
<1>5. ChanInv'
  BY <1>0, ChanStays DEF Others, Same
<1>6. NamesInv'
  <2>1. \A u \in Threads : pc'[u] = "send" /\ op'[u] = "attach" =>
           pc[u] = "send" /\ op[u] = "attach" /\ desc'[u] = desc[u]
    BY DEF Others, Same
  <2> QED BY <1>0, <1>a, <1>b, <2>1, NamesStays DEF channel
<1>7. DoneInv'
  BY <1>0, <1>c, DoneGoes DEF channel
<1>8. DanglingExplained'
  BY <1>0, DanglingStays
<1> QED BY <1>1, <1>2, <1>3, <1>4, <1>5, <1>6, <1>7, <1>8, Zenon DEF Inv

\* The tuples of UNCHANGED, taken apart.
LEMMA Unchanged ==
    /\ UNCHANGED tables <=> UNCHANGED <<table, wired, twice>>
    /\ UNCHANGED device <=> UNCHANGED <<host, backing>>
    /\ UNCHANGED ghost <=> UNCHANGED <<suspect, exposed>>
    /\ UNCHANGED locals <=> UNCHANGED <<op, rid, desc, slot>>
BY DEF tables, device, ghost, locals

\* A call that is not an attach begins.
LEMMA BeginKeeps ==
    ASSUME Inv, Serial, NEW t \in Threads, NEW o \in {"create", "detach", "unref"},
           NEW i \in Ids, NEW p \in {"bump", "send", "remove"}, Enter(t, o, i, p),
           p = "bump" => o = "create", p = "remove" => o = "unref",
           UNCHANGED <<channel, tables, nextId, state, desc, slot, device, ghost>>
    PROVE  Inv'
<1>0. OtherTypes /\ ThreadTypes /\ SerialInv /\ LocalOk(t)
  BY InvTypes, Zenon DEF Inv, LocalInv
<1>1. ThreadTypes' /\ Began(t, o, i, p, desc[t])
  <2>1. p \in Places /\ o \in Ops /\ desc[t] \in Descs \cup {NoDesc}
        /\ desc' = [desc EXCEPT ![t] = desc[t]]
    BY <1>0 DEF Places, Removing, Ops, ThreadTypes
  <2> QED BY <1>0, <2>1, EnterStep, Zenon
<1>2. /\ pc[t] = "idle" /\ state[ClientOf[t]] = "open" /\ calls' = calls + 1 /\ calls < MaxCalls
      /\ ~InCall(ClientOf[t]) /\ Others(t)
      /\ pc'[t] = p /\ op'[t] = o /\ rid'[t] = i /\ desc'[t] = desc[t]
  BY <1>1, Zenon DEF Began, Becomes
<1>3. UNCHANGED <<channel, table, wired, twice, state, nextId, host, backing, suspect, exposed>>
  BY Unchanged
<1>4. calls' \in 0 .. MaxCalls /\ calls <= calls' /\ nextId' \in 1 .. MaxIds + 1
  BY <1>0, <1>2, <1>3, WinsysAssumption DEF OtherTypes
<1>5. desc[t] = NoDesc
  BY <1>0, <1>2, Zenon DEF LocalOk
<1>6. SerialInv'
  BY <1>0, <1>2, <1>3, SerialBegins
<1>7. LocalOk(t)'
  BY <1>2, <1>5 DEF LocalOk, Removing
<1>8. DoneOk(t)'
  BY <1>2 DEF DoneOk, Detaching, Removing
<1> QED BY <1>1, <1>2, <1>3, <1>4, <1>5, <1>6, <1>7, <1>8, QuietMove

LEMMA CreateKeeps ==
    ASSUME Inv, Serial, NEW t \in Threads, createResource3DEx(t)
    PROVE  Inv'
BY BeginKeeps DEF createResource3DEx

LEMMA DetachKeeps ==
    ASSUME Inv, Serial, NEW t \in Threads, NEW i \in Ids, detachBackingUser(t, i)
    PROVE  Inv'
BY BeginKeeps DEF detachBackingUser

LEMMA UnrefKeeps ==
    ASSUME Inv, Serial, NEW t \in Threads, NEW i \in Ids, resourceUnref(t, i)
    PROVE  Inv'
<1>1. PICK p \in {"send", "remove"} :
         p = IF findUserBacking(ClientOf[t], i) # {} THEN "remove" ELSE "send"
  OBVIOUS
<1>2. Enter(t, "unref", i, p)
  BY <1>1, Zenon DEF resourceUnref
<1> QED BY <1>1, <1>2, BeginKeeps DEF resourceUnref

-----------------------------------------------------------------------------
(* The scans of the table.                                                 *)

\* A scan that finds a slot finds the first one.
LEMMA FirstIn ==
    ASSUME NEW T \in SUBSET Slots, T # {}
    PROVE  First(T) \in T
<1> DEFINE R == {p \in Nat \X Nat : p[1] < p[2]}
<1>1. IsWellFoundedOn(R, Nat)
  BY NatLessThanWellFounded, Zenon DEF OpToRel
<1>2. T \subseteq Nat
  BY WinsysAssumption DEF Slots
<1>3. \E x \in T : \A y \in T : ~(<<y, x>> \in R)
  <2> HIDE DEF R
  <2> QED BY <1>1, <1>2, WFMin, Zenon
<1>4. \E x \in T : \A y \in T : x <= y
  <2>1. \A x, y \in Nat : y < x => <<y, x>> \in R
    OBVIOUS
  <2> HIDE DEF R
  <2>2. \A x, y \in Nat : x <= y \/ y < x
    OBVIOUS
  <2> QED BY <1>2, <1>3, <2>1, <2>2, Zenon
<1> QED BY <1>4 DEF First

LEMMA BumpKeeps ==
    ASSUME Inv, NEW t \in Threads, Bump(t)
    PROVE  Inv'
<1>0. OtherTypes /\ ThreadTypes /\ SerialInv /\ LocalOk(t)
  BY InvTypes, Zenon DEF Inv, LocalInv
<1>1. pc[t] = "bump" /\ nextId' = rid[t] + 1 /\ Go(t, "send") /\ op[t] = "create" /\ rid[t] \in Ids
  BY <1>0 DEF Bump, LocalOk
<1>2. ThreadTypes' /\ Went(t, "send")
  <2>1. "send" \in Places
    BY DEF Places
  <2> QED BY <1>0, <1>1, <2>1, GoStep, Zenon
<1>3. /\ Others(t) /\ pc'[t] = "send" /\ op'[t] = "create" /\ rid'[t] = rid[t] /\ desc'[t] = desc[t]
  BY <1>1, <1>2, Zenon DEF Went, Becomes
<1>4. UNCHANGED <<channel, table, wired, twice, state, calls, host, backing, suspect, exposed>>
  BY Unchanged DEF Bump
<1>5. nextId' \in 1 .. MaxIds + 1 /\ calls' \in 0 .. MaxCalls /\ calls <= calls'
  BY <1>0, <1>1, <1>4, WinsysAssumption DEF OtherTypes, Ids
<1>6. SerialInv'
  BY <1>0, <1>1, <1>3, <1>4, SerialGoes
<1>7. LocalOk(t)'
  BY <1>0, <1>1, <1>3 DEF LocalOk, Removing
<1>8. DoneOk(t)'
  BY <1>3 DEF DoneOk
<1> QED BY <1>1, <1>2, <1>3, <1>4, <1>5, <1>6, <1>7, <1>8, QuietMove

\* What a thread is left with where removeUserBacking ends.
LEMMA AfterRemoveStep ==
    ASSUME ThreadTypes, NEW t \in Threads, op[t] \in {"detach", "unref"}, LocalOk(t),
           AfterRemove(t)
    PROVE  /\ ThreadTypes' /\ Others(t) /\ desc[t] = NoDesc /\ desc'[t] = NoDesc
           /\ (op[t] = "unref" /\ Went(t, "send")) \/ (op[t] = "detach" /\ Left(t))
<1>1. desc[t] = NoDesc
  BY DEF LocalOk
<1>2. CASE op[t] = "unref"
  <2>1. Go(t, "send") /\ "send" \in Places
    BY <1>2 DEF AfterRemove, Places
  <2>2. ThreadTypes' /\ Went(t, "send")
    BY <2>1, GoStep, Zenon
  <2> QED BY <1>1, <1>2, <2>2 DEF Went, Becomes
<1>3. CASE op[t] = "detach"
  <2>1. Return(t)
    BY <1>3 DEF AfterRemove
  <2>2. ThreadTypes' /\ Left(t)
    BY <2>1, ReturnStep, Zenon
  <2> QED BY <1>1, <1>3, <2>2 DEF Left, Becomes
<1> QED BY <1>2, <1>3

LEMMA RemoveFindKeeps ==
    ASSUME Inv, NEW t \in Threads, RemoveFind(t)
    PROVE  Inv'
<1>0. OtherTypes /\ ThreadTypes /\ SerialInv /\ LocalOk(t) /\ DoneOk(t)
  BY InvTypes, Zenon DEF Inv, LocalInv, DoneInv
<1>1. /\ pc[t] = "remove" /\ op[t] \in {"detach", "unref"} /\ rid[t] \in Ids /\ desc[t] = NoDesc
      /\ UNCHANGED <<channel, tables, nextId, state, calls, device, ghost>>
  BY <1>0 DEF RemoveFind, LocalOk, Removing
<1>2. UNCHANGED <<channel, table, wired, twice, nextId, state, calls, host, backing, suspect, exposed>>
  BY <1>1, Unchanged
<1>3. nextId' \in 1 .. MaxIds + 1 /\ calls' \in 0 .. MaxCalls /\ calls <= calls'
  BY <1>0, <1>2, WinsysAssumption DEF OtherTypes
<1>4. CASE findUserBacking(ClientOf[t], rid[t]) = {}
  <2>1. AfterRemove(t)
    BY <1>4, Zenon DEF RemoveFind
  <2>2. /\ ThreadTypes' /\ Others(t) /\ desc'[t] = NoDesc
        /\ (op[t] = "unref" /\ Went(t, "send")) \/ (op[t] = "detach" /\ Left(t))
    BY <1>0, <1>1, <2>1, AfterRemoveStep, Zenon
  <2>3. /\ pc'[t] \notin {"wait", "clear"} /\ ~(pc'[t] = "send" /\ op'[t] = "attach")
        /\ LocalOk(t)' /\ DoneOk(t)'
    BY <1>0, <1>1, <2>2 DEF Went, Left, Becomes, LocalOk, DoneOk, Removing
  <2>4. SerialInv'
    BY <1>0, <1>1, <1>2, <2>2, SerialGoes
  <2> QED BY <1>1, <1>2, <1>3, <2>2, <2>3, <2>4, QuietMove
<1>5. CASE findUserBacking(ClientOf[t], rid[t]) # {}
  <2>1. PICK s \in findUserBacking(ClientOf[t], rid[t]) :
           /\ slot' = [slot EXCEPT ![t] = s] /\ pc' = [pc EXCEPT ![t] = "drop"]
           /\ UNCHANGED <<op, rid, desc>>
    <3>1. findUserBacking(ClientOf[t], rid[t]) \in SUBSET Slots
      BY DEF findUserBacking
    <3> QED BY <1>5, <3>1, FirstIn, Zenon DEF RemoveFind
  <2>2. s \in Slots /\ Cell(ClientOf[t], s).id = rid[t] /\ "drop" \in Places
    BY DEF findUserBacking, Cell, Places, Removing
  <2>3. ThreadTypes' /\ Found(t, "drop", s)
    BY <1>0, <2>1, <2>2, FoundStep, Zenon
  <2>4. /\ Others(t) /\ pc'[t] = "drop" /\ op'[t] = op[t] /\ rid'[t] = rid[t]
        /\ desc'[t] = desc[t] /\ slot'[t] = s
    BY <2>3, Zenon DEF Found, Becomes
  <2>5. LocalOk(t)'
    BY <1>1, <1>2, <2>2, <2>4 DEF LocalOk, Removing, Cell
  <2>6. DoneOk(t)'
    BY <1>0, <1>1, <1>2, <2>4 DEF DoneOk, Detaching, Removing, findUserBacking, Cell
  <2>7. SerialInv'
    BY <1>0, <1>1, <1>2, <2>4, SerialGoes
  <2> QED BY <1>1, <1>2, <1>3, <2>3, <2>4, <2>5, <2>6, <2>7, QuietMove
<1> QED BY <1>4, <1>5

-----------------------------------------------------------------------------
(* attachBackingUser.                                                      *)

\* No descriptor of an earlier call is that of a new one.
LEMMA NamesNewCall ==
    ASSUME NEW i, NEW x \in Descs, Names(i, x), calls \in Nat, NEW t \in Threads, Others(t),
           UNCHANGED table, calls' = calls + 1, desc'[t] = <<ClientOf[t], calls + 1>>
    PROVE  Names(i, x)' /\ x # <<ClientOf[t], calls + 1>>
<1>1. x[2] \in Nat /\ x[2] <= calls
  BY DescNumber DEF Names
<1>2. ASSUME x = <<ClientOf[t], calls + 1>> PROVE FALSE
  <2>1. x[2] = calls + 1
    BY <1>2
  <2> QED BY ONLY <1>1, <2>1, calls \in Nat, SMT
<1>3. \A c \in Clients, s \in Slots : table'[c][s].desc = x => table'[c][s].id = i
  BY DEF Names, Cell
<1>4. \A u \in Threads : desc'[u] = x => rid'[u] = i
  BY <1>2 DEF Names, Others, Same
<1>5. x[2] <= calls'
  BY <1>1
<1> QED BY <1>2, <1>3, <1>4, <1>5, Zenon DEF Names, Cell

LEMMA AttachKeeps ==
    ASSUME Inv, Serial, NEW t \in Threads, NEW i \in Ids, attachBackingUser(t, i)
    PROVE  Inv'
<1> DEFINE d == <<ClientOf[t], calls + 1>>
<1>0. /\ OtherTypes /\ ThreadTypes /\ ChannelTypeOK /\ SerialInv /\ LocalInv /\ TableInv
      /\ OneBackingPerResource /\ WiredInv /\ ChanInv /\ NamesInv /\ DoneInv /\ DanglingExplained
  BY InvTypes, Zenon DEF Inv
<1>1. /\ findUserBacking(ClientOf[t], i) = {} /\ Enter(t, "attach", i, "send")
      /\ desc' = [desc EXCEPT ![t] = d] /\ wired' = wired \cup {d}
      /\ UNCHANGED <<channel, table, twice, nextId, state, slot, host, backing, suspect, exposed>>
  BY Unchanged, Zenon DEF attachBackingUser
<1>2. calls < MaxCalls /\ ClientOf[t] \in Clients /\ calls \in 0 .. MaxCalls /\ calls \in Nat
  BY <1>0, <1>1, WinsysAssumption DEF Enter, OtherTypes
<1>3. d \in Descs
  BY <1>2, NewDesc
<1>4. ThreadTypes' /\ Began(t, "attach", i, "send", d)
  <2>1. "send" \in Places /\ "attach" \in Ops
    BY DEF Places, Ops
  <2> HIDE DEF d
  <2> QED BY <1>0, <1>1, <1>3, <2>1, EnterStep, Zenon
<1>5. /\ pc[t] = "idle" /\ state[ClientOf[t]] = "open" /\ calls' = calls + 1
      /\ ~InCall(ClientOf[t]) /\ Others(t)
      /\ pc'[t] = "send" /\ op'[t] = "attach" /\ rid'[t] = i /\ desc'[t] = d
  BY <1>4, Zenon DEF Began, Becomes
<1>6. desc[t] = NoDesc
  BY <1>0, <1>5, Zenon DEF LocalInv, LocalOk
<1>7. OthersKept(t) /\ calls' \in 0 .. MaxCalls
  BY <1>1, <1>2, <1>5, WinsysAssumption DEF OthersKept
<1>8. TypeOK'
  <2>1. OtherTypes'
    <3> HIDE DEF d
    <3> QED BY <1>0, <1>1, <1>3, <1>7 DEF OtherTypes
  <2>2. ChannelTypeOK'
    BY <1>0, <1>1, ChannelStays
  <2> QED BY <1>4, <2>1, <2>2, TypeParts, Zenon DEF TypeOK, OtherTypes, ThreadTypes, Places, Removing
<1>9. SerialInv'
  BY <1>0, <1>1, <1>5, SerialBegins
<1>10. LocalInv'
  <2>1. d # NoDesc /\ d[1] = ClientOf[t] /\ d[2] <= calls'
    BY <1>2, <1>3, <1>5, NoDescApart
  <2>2. findUserBacking(ClientOf[t], i)' = {}
    BY <1>1 DEF findUserBacking
  <2>3. LocalOk(t)'
    <3> HIDE DEF d
    <3> QED BY <1>5, <2>1, <2>2 DEF LocalOk, Removing, findUserBacking
  <2> QED BY <1>0, <1>7, <2>3, LocalGoes
<1>11. TableInv' /\ OneBackingPerResource'
  <2>1. TableInv'
    BY <1>0, <1>1, <1>5, TableNewCall
  <2>2. OneBackingPerResource'
    BY <1>0, <1>1 DEF OneBackingPerResource
  <2> QED BY <2>1, <2>2
<1>12. WiredInv'
  <2> HIDE DEF d
  <2>1. \A c \in Clients, s \in Slots : Dropping(c, s)' <=> Dropping(c, s)
    BY <1>5 DEF Dropping, Others, Same
  <2>2. \A x \in Descs : x # NoDesc
    BY NoDescApart
  <2>3. \A x \in Descs : HeldBy(x)' <=> HeldBy(x) \/ x = d
    BY <1>1, <1>5, <1>6, <2>1, <2>2 DEF HeldBy, Cell, Others, Same
  <2> QED BY <1>0, <1>1, <2>3 DEF WiredInv
<1>13. ChanInv'
  BY <1>0, <1>1, <1>5, ChanStays DEF Others, Same
<1>14. NamesInv'
  <2>0. UNCHANGED cmd
    BY <1>1 DEF channel
  <2>1. ASSUME NEW j \in Ids, backing[j] # NoDesc
        PROVE  j \in host /\ Names(j, backing[j])' /\ backing[j] # d
    <3>1. j \in host /\ Names(j, backing[j]) /\ backing[j] \in Descs
      BY <1>0, <2>1, DeviceDescs DEF NamesInv
    <3>2. PICK x \in Descs : x = backing[j]
      BY <3>1
    <3>3. Names(j, x)' /\ x # d
      BY <1>1, <1>2, <1>5, <3>1, <3>2, NamesNewCall
    <3> QED BY <1>1, <3>1, <3>2, <3>3, Zenon DEF Names
  <2>2. ASSUME cmd # NoCommand, cmd.desc # NoDesc
        PROVE  Names(cmd.id, cmd.desc)' /\ cmd.desc # d
    <3>1. Names(cmd.id, cmd.desc) /\ cmd.desc \in Descs /\ cmd.id \in Ids
      BY <1>0, <2>2, DeviceDescs DEF NamesInv
    <3>2. PICK x \in Descs, j \in Ids : x = cmd.desc /\ j = cmd.id
      BY <3>1
    <3>3. Names(j, x)' /\ x # d
      BY <1>1, <1>2, <1>5, <3>1, <3>2, NamesNewCall
    <3> QED BY <2>0, <3>1, <3>2, <3>3, Zenon DEF Names
  <2>3. d # NoDesc
    BY <1>3, NoDescApart
  <2>4. ASSUME NEW u \in Threads, pc'[u] = "send", op'[u] = "attach"
        PROVE  /\ \A j \in Ids : backing'[j] # desc'[u]
               /\ cmd' # NoCommand => cmd'.desc # desc'[u]
    <3> HIDE DEF d
    <3>1. CASE u = t
      BY <1>1, <1>5, <2>0, <2>1, <2>2, <2>3, <3>1
    <3>2. CASE u # t
      BY <1>0, <1>1, <1>5, <2>0, <2>4, <3>2 DEF NamesInv, Others, Same
    <3> QED BY <3>1, <3>2
  <2> QED BY <1>1, <2>0, <2>1, <2>2, <2>4, Zenon DEF NamesInv, NoDesc
<1>15. DoneInv'
  <2>1. DoneOk(t)'
    BY <1>5 DEF DoneOk, Detaching, Removing
  <2> QED BY <1>0, <1>1, <1>7, <2>1, DoneGoes DEF channel
<1>16. DanglingExplained'
  BY <1>0, <1>1, DanglingStays
<1> QED BY ONLY <1>8, <1>9, <1>10, <1>11, <1>12, <1>13, <1>14, <1>15, <1>16, Zenon DEF Inv

-----------------------------------------------------------------------------
(* Calls that return, addUserBacking and removeUserBacking.                *)

\* A call that holds no slot returns, and its own pages are unwired.
LEMMA LeaveTables ==
    ASSUME Inv, NEW t \in Threads, pc[t] \notin {"idle", "clear"}, ThreadTypes', Left(t),
           UNCHANGED <<table, twice, state, calls>>, wired' = wired \ {desc[t]}
    PROVE  SerialInv' /\ LocalInv' /\ TableInv' /\ OneBackingPerResource' /\ WiredInv'
<1>0. /\ OtherTypes /\ ThreadTypes /\ SerialInv /\ LocalInv /\ TableInv
      /\ OneBackingPerResource /\ WiredInv
  BY InvTypes, Zenon DEF Inv
<1>1. Others(t) /\ pc'[t] = "idle" /\ op'[t] = "create" /\ desc'[t] = NoDesc
  BY Zenon DEF Left, Becomes
<1>2. calls \in Nat /\ Fewer /\ Quieter /\ OthersKept(t)
  <2>1. calls \in Nat
    BY <1>0, WinsysAssumption DEF OtherTypes
  <2>2. Quieter
    BY <1>1 DEF Quieter, Others, Same
  <2> QED BY <1>1, <2>1, <2>2, FewerStays DEF OthersKept
<1>3. SerialInv'
  BY <1>0, <1>1, SerialGoes
<1>4. LocalInv'
  <2>1. LocalOk(t)'
    BY <1>1 DEF LocalOk, Removing
  <2> QED BY <1>0, <1>2, <2>1, LocalGoes
<1>5. TableInv' /\ OneBackingPerResource'
  BY <1>0, <1>2, TableFewer
<1>6. WiredInv'
  <2>1. \A c \in Clients, s \in Slots : Dropping(c, s)' <=> Dropping(c, s)
    BY <1>1 DEF Dropping, Others, Same
  <2>2. \A x \in Descs : x # NoDesc
    BY NoDescApart
  <2>3. \A c \in Clients, s \in Slots : Cell(c, s)' = Cell(c, s)
    BY DEF Cell
  <2>4. \A x \in Descs : HeldBy(x)' <=> HeldBy(x) /\ x # desc[t]
    <3>1. \A c \in Clients, s \in Slots : \A x \in Descs : Cell(c, s).desc = x => x # desc[t]
      BY <1>0, <2>2 DEF TableInv
    <3>2. \A u \in Threads : \A x \in Descs :
             desc'[u] = x <=> u # t /\ desc[u] = x /\ x # desc[t]
      BY <1>0, <1>1, <2>2 DEF TableInv, Others, Same
    <3> QED BY <2>1, <2>3, <3>1, <3>2 DEF HeldBy
  <2> QED BY <1>0, <2>4 DEF WiredInv
<1> QED BY <1>3, <1>4, <1>5, <1>6

\* Whose pages a call's own are.
LEMMA OwnPages ==
    ASSUME NamesInv, NEW t \in Threads, NEW i \in Ids, backing[i] # NoDesc, backing[i] = desc[t]
    PROVE  i = rid[t]
BY DEF NamesInv, Names

LEMMA AddScanKeeps ==
    ASSUME Inv, NEW t \in Threads, AddScan(t)
    PROVE  Inv'
<1>0. /\ OtherTypes /\ ThreadTypes /\ ChannelTypeOK /\ SerialInv /\ LocalInv /\ LocalOk(t)
      /\ WiredInv /\ ChanInv /\ NamesInv /\ DoneInv /\ DanglingExplained
  BY InvTypes, Zenon DEF Inv, LocalInv
<1>1. /\ pc[t] = "add" /\ op[t] = "attach" /\ rid[t] \in Ids
      /\ UNCHANGED <<channel, table, twice, nextId, state, calls, host, backing, suspect>>
  BY <1>0, Unchanged DEF AddScan, LocalOk
<1>2. calls \in Nat /\ nextId \in 1 .. MaxIds + 1 /\ calls \in 0 .. MaxCalls
  BY <1>0, WinsysAssumption DEF OtherTypes
<1>3. CASE findUserBacking(ClientOf[t], rid[t]) = {} /\ FreeSlots(ClientOf[t]) # {}
  <2>1. PICK s \in FreeSlots(ClientOf[t]) :
           /\ slot' = [slot EXCEPT ![t] = s] /\ pc' = [pc EXCEPT ![t] = "store"]
           /\ UNCHANGED <<op, rid, desc>> /\ UNCHANGED <<wired, exposed>>
    <3>1. FreeSlots(ClientOf[t]) \in SUBSET Slots
      BY DEF FreeSlots, findUserBacking
    <3> QED BY <1>3, <3>1, FirstIn, Zenon DEF AddScan
  <2>2. s \in Slots /\ Cell(ClientOf[t], s).id = 0 /\ "store" \in Places
    BY DEF FreeSlots, findUserBacking, Cell, Places
  <2>3. ThreadTypes' /\ Found(t, "store", s)
    BY <1>0, <2>1, <2>2, FoundStep, Zenon
  <2>4. /\ Others(t) /\ pc'[t] = "store" /\ op'[t] = op[t] /\ rid'[t] = rid[t]
        /\ desc'[t] = desc[t] /\ slot'[t] = s
    BY <2>3, Zenon DEF Found, Becomes
  <2>5. LocalOk(t)'
    BY <1>0, <1>1, <1>3, <2>2, <2>4 DEF LocalOk, Removing, Cell, findUserBacking
  <2>6. DoneOk(t)'
    BY <2>4 DEF DoneOk, Detaching, Removing
  <2>7. SerialInv'
    BY <1>0, <1>1, <2>4, SerialGoes
  <2> QED BY <1>1, <1>2, <2>1, <2>3, <2>4, <2>5, <2>6, <2>7, QuietMove
<1>4. CASE ~(findUserBacking(ClientOf[t], rid[t]) = {} /\ FreeSlots(ClientOf[t]) # {})
  <2>1. Return(t) /\ wired' = wired \ {desc[t]} /\ exposed' = exposed \cup {rid[t]}
    BY <1>4, Zenon DEF AddScan, DropOwn
  <2>2. ThreadTypes' /\ Left(t)
    BY <1>0, <2>1, ReturnStep, Zenon
  <2>3. Others(t) /\ pc'[t] = "idle" /\ op'[t] = "create" /\ desc'[t] = NoDesc
    BY <2>2, Zenon DEF Left, Becomes
  <2>4. SerialInv' /\ LocalInv' /\ TableInv' /\ OneBackingPerResource' /\ WiredInv'
    BY <1>1, <2>1, <2>2, LeaveTables
  <2>5. TypeOK'
    <3>1. OtherTypes'
      BY <1>0, <1>1, <2>1 DEF OtherTypes
    <3>2. ChannelTypeOK'
      BY <1>0, <1>1, ChannelStays
    <3> QED BY <2>2, <3>1, <3>2, TypeParts, Zenon
             DEF TypeOK, OtherTypes, ThreadTypes, Places, Removing
  <2>6. ChanInv'
    BY <1>0, <1>1, <2>3, ChanStays DEF Others, Same
  <2>7. NamesInv'
    <3>1. Fewer /\ Quieter
      BY <1>1, <2>3, FewerStays DEF Quieter, Others, Same
    <3>2. \A u \in Threads : pc'[u] = "send" /\ op'[u] = "attach" =>
             pc[u] = "send" /\ op[u] = "attach" /\ desc'[u] = desc[u]
      BY <2>3 DEF Others, Same
    <3> QED BY <1>0, <1>1, <1>2, <3>1, <3>2, NamesStays DEF channel
  <2>8. DoneInv'
    <3>1. OthersKept(t)
      BY <1>1, <1>2, <2>3 DEF OthersKept
    <3>2. DoneOk(t)'
      BY <2>3 DEF DoneOk
    <3> QED BY <1>0, <1>1, <3>1, <3>2, DoneGoes DEF channel
  <2>9. DanglingExplained'
    <3>1. host \subseteq Ids
      BY <1>0 DEF OtherTypes
    <3>2. \A i \in host \ suspect' : backing[i] # NoDesc /\ backing[i] \in {desc[t]} => i \in exposed'
      BY <1>0, <2>1, <3>1, OwnPages
    <3> QED BY <1>0, <1>1, <2>1, <3>2, DanglingDrop
  <2> QED BY ONLY <2>4, <2>5, <2>6, <2>7, <2>8, <2>9, Zenon DEF Inv
<1> QED BY <1>3, <1>4

LEMMA AddStoreKeeps ==
    ASSUME Inv, NEW t \in Threads, AddStore(t)
    PROVE  Inv'
<1>0. /\ OtherTypes /\ ThreadTypes /\ ChannelTypeOK /\ SerialInv /\ LocalInv /\ LocalOk(t)
      /\ TableInv /\ OneBackingPerResource /\ WiredInv /\ ChanInv /\ NamesInv /\ DoneInv
      /\ DanglingExplained
  BY InvTypes, Zenon DEF Inv, LocalInv
<1>a. /\ pc[t] = "store" /\ Return(t)
      /\ table' = [table EXCEPT ![ClientOf[t]][slot[t]] = [id |-> rid[t], desc |-> desc[t]]]
      /\ UNCHANGED <<channel, wired, twice, nextId, state, calls, host, backing, suspect, exposed>>
  BY Unchanged, Zenon DEF AddStore
<1>b. /\ op[t] = "attach" /\ rid[t] \in Ids /\ slot[t] \in Slots /\ desc[t] \in Descs
  BY <1>0, <1>a DEF LocalOk, ThreadTypes
<1>c. PICK c \in Clients, s \in Slots, d \in Descs, e \in [id : Ids, desc : Descs] :
         c = ClientOf[t] /\ s = slot[t] /\ d = desc[t] /\ e = [id |-> rid[t], desc |-> desc[t]]
  BY <1>b, WinsysAssumption
<1>1. /\ pc[t] = "store" /\ table' = [table EXCEPT ![c][s] = e] /\ Return(t)
      /\ UNCHANGED <<channel, wired, twice, nextId, state, calls, host, backing, suspect, exposed>>
  BY ONLY <1>a, <1>c, Zenon
<1>2. /\ op[t] = "attach" /\ rid[t] \in Ids
      /\ findUserBacking(c, rid[t]) = {} /\ Cell(c, s).id = 0 /\ Cell(c, s).desc = NoDesc
      /\ d[1] = c /\ d[2] <= calls
  BY <1>0, <1>b, <1>c, <1>1, NoDescApart DEF LocalOk, TableInv
<1>3. ThreadTypes' /\ Left(t)
  BY <1>0, <1>1, ReturnStep, Zenon
<1>4. Others(t) /\ pc'[t] = "idle" /\ op'[t] = "create" /\ desc'[t] = NoDesc
  BY <1>3, Zenon DEF Left, Becomes
<1>5. /\ Cell(c, s)' = e
      /\ \A b \in Clients, r \in Slots : b # c \/ r # s => Cell(b, r)' = Cell(b, r)
      /\ \A b \in Clients : b # c => table'[b] = table[b]
  BY <1>0, <1>1, <1>2 DEF OtherTypes, Cell
<1>6. calls \in Nat /\ OthersKept(t)
  <2>1. calls \in Nat
    BY <1>0, WinsysAssumption DEF OtherTypes
  <2> QED BY <1>1, <1>c, <1>4, <1>5, <2>1 DEF OthersKept
<1>7. d # NoDesc /\ e.id = rid[t] /\ e.desc = d /\ rid[t] # 0
  BY <1>2, <1>c, NoDescApart DEF Ids
<1>8. TypeOK'
  <2>1. OtherTypes'
    BY <1>0, <1>1, <1>2 DEF OtherTypes
  <2>2. ChannelTypeOK'
    BY <1>0, <1>1, ChannelStays
  <2> QED BY <1>3, <2>1, <2>2, TypeParts, Zenon
           DEF TypeOK, OtherTypes, ThreadTypes, Places, Removing
<1>9. SerialInv'
  BY <1>0, <1>1, <1>c, <1>4, <1>5, SerialGoes
<1>10. LocalInv'
  <2>1. LocalOk(t)'
    BY <1>4 DEF LocalOk, Removing
  <2> QED BY <1>0, <1>6, <2>1, LocalGoes
<1>11. TableInv'
  <2>1. \A u \in Threads : u # t => desc'[u] = desc[u] /\ desc[u] # d
    BY <1>0, <1>c, <1>4, <1>7 DEF TableInv, Others, Same
  <2>2. \A b \in Clients, r \in Slots : Cell(b, r).desc # d
    BY <1>0, <1>c, <1>7 DEF TableInv
  <2>3. ASSUME NEW b \in Clients, NEW r \in Slots
        PROVE  /\ Cell(b, r)'.id = 0 <=> Cell(b, r)'.desc = NoDesc
               /\ Cell(b, r)'.desc # NoDesc => Cell(b, r)'.desc[1] = b /\ Cell(b, r)'.desc[2] <= calls'
               /\ \A q \in Slots :
                     Cell(b, r)'.desc # NoDesc /\ Cell(b, r)'.desc = Cell(b, q)'.desc => r = q
               /\ \A u \in Threads : Cell(b, r)'.desc # NoDesc => Cell(b, r)'.desc # desc'[u]
    <3>1. CASE b = c /\ r = s
      BY <1>1, <1>2, <1>4, <1>5, <1>7, <2>1, <2>2, <3>1
    <3>2. CASE b # c \/ r # s
      BY <1>0, <1>1, <1>2, <1>4, <1>5, <1>7, <2>1, <2>2, <3>2 DEF TableInv
    <3> QED BY <3>1, <3>2
  <2>4. \A u, v \in Threads : desc'[u] # NoDesc /\ desc'[u] = desc'[v] => u = v
    BY <1>0, <1>4, <2>1 DEF TableInv
  <2> QED BY <2>3, <2>4 DEF TableInv, Cell
<1>12. OneBackingPerResource'
  <2>1. \A r \in Slots : Cell(c, r).id # rid[t]
    BY <1>2 DEF findUserBacking, Cell
  <2>2. ASSUME NEW b \in Clients, NEW q \in Slots, NEW r \in Slots,
               Cell(b, q)'.id = Cell(b, r)'.id, Cell(b, q)'.id # 0
        PROVE  q = r
    BY <1>0, <1>2, <1>5, <1>7, <2>1, <2>2 DEF OneBackingPerResource, Cell
  <2> QED BY <2>2 DEF OneBackingPerResource, Cell
<1>13. WiredInv'
  <2>1. \A b \in Clients, r \in Slots : Dropping(b, r)' <=> Dropping(b, r)
    BY <1>1, <1>4 DEF Dropping, Others, Same
  <2>2. ~Dropping(c, s)
    BY <1>0, <1>1, <1>c DEF Dropping, SerialInv
  <2>3. \A x \in Descs : x # NoDesc
    BY NoDescApart
  <2>4. ASSUME NEW x \in Descs PROVE HeldBy(x)' <=> HeldBy(x)
    <3>1. ASSUME NEW b \in Clients, NEW r \in Slots, Cell(b, r)'.desc = x, ~Dropping(b, r)'
          PROVE  HeldBy(x)
      <4>1. CASE b = c /\ r = s
        BY <1>c, <1>5, <1>7, <3>1, <4>1 DEF HeldBy
      <4>2. CASE b # c \/ r # s
        BY <1>5, <2>1, <3>1, <4>2 DEF HeldBy
      <4> QED BY <4>1, <4>2
    <3>2. ASSUME NEW b \in Clients, NEW r \in Slots, Cell(b, r).desc = x, ~Dropping(b, r)
          PROVE  HeldBy(x)'
      <4>1. b # c \/ r # s
        BY <1>2, <2>3, <3>2
      <4>2. Cell(b, r)'.desc = x /\ ~Dropping(b, r)'
        BY <1>5, <2>1, <3>2, <4>1
      <4> QED BY <4>2 DEF HeldBy
    <3>3. ASSUME NEW u \in Threads, desc'[u] = x PROVE HeldBy(x)
      BY <1>4, <2>3, <3>3 DEF HeldBy, Others, Same
    <3>4. ASSUME NEW u \in Threads, desc[u] = x PROVE HeldBy(x)'
      <4>1. CASE u = t
        <5>1. Cell(c, s)'.desc = x /\ ~Dropping(c, s)'
          BY <1>2, <1>c, <1>5, <1>7, <2>1, <2>2, <3>4, <4>1
        <5> QED BY <1>2, <5>1 DEF HeldBy
      <4>2. CASE u # t
        BY <1>4, <3>4, <4>2 DEF HeldBy, Others, Same
      <4> QED BY <4>1, <4>2
    <3>5. HeldBy(x)' => HeldBy(x)
      BY <3>1, <3>3, Zenon DEF HeldBy
    <3>6. HeldBy(x) => HeldBy(x)'
      BY <3>2, <3>4, Zenon DEF HeldBy
    <3> QED BY <3>5, <3>6
  <2> QED BY <1>0, <1>1, <2>4 DEF WiredInv
<1>14. ChanInv'
  BY <1>0, <1>1, <1>4, ChanStays DEF Others, Same
<1>15. NamesInv'
  <2>0. UNCHANGED <<cmd, backing, host>>
    BY <1>1 DEF channel
  <2>1. ASSUME NEW i, NEW x \in Descs, Names(i, x) PROVE Names(i, x)'
    <3>1. \A b \in Clients, r \in Slots : Cell(b, r)'.desc = x => Cell(b, r)'.id = i
      BY <1>c, <1>5, <1>7, <2>1 DEF Names
    <3>2. \A u \in Threads : desc'[u] = x => rid'[u] = i
      BY <1>4, <2>1, NoDescApart DEF Names, Others, Same
    <3> QED BY <1>1, <2>1, <3>1, <3>2, Zenon DEF Names, Cell
  <2>2. ASSUME NEW i \in Ids, backing[i] # NoDesc PROVE i \in host /\ Names(i, backing[i])'
    <3>1. i \in host /\ Names(i, backing[i]) /\ backing[i] \in Descs
      BY <1>0, <2>2, DeviceDescs DEF NamesInv
    <3>2. PICK x \in Descs : x = backing[i]
      BY <3>1
    <3>3. Names(i, x)'
      BY <2>1, <3>1, <3>2
    <3> QED BY <2>0, <3>1, <3>2, <3>3, Zenon DEF Names
  <2>3. ASSUME cmd # NoCommand, cmd.desc # NoDesc PROVE Names(cmd.id, cmd.desc)'
    <3>1. Names(cmd.id, cmd.desc) /\ cmd.desc \in Descs /\ cmd.id \in Ids
      BY <1>0, <2>3, DeviceDescs DEF NamesInv
    <3>2. PICK x \in Descs, i \in Ids : x = cmd.desc /\ i = cmd.id
      BY <3>1
    <3>3. Names(i, x)'
      BY <2>1, <3>1, <3>2
    <3> QED BY <2>0, <3>2, <3>3, Zenon DEF Names
  <2>4. ASSUME NEW u \in Threads, pc'[u] = "send", op'[u] = "attach"
        PROVE  /\ \A i \in Ids : backing'[i] # desc'[u]
               /\ cmd' # NoCommand => cmd'.desc # desc'[u]
    BY <1>0, <1>4, <2>0, <2>4 DEF NamesInv, Others, Same
  <2> QED BY <2>0, <2>2, <2>3, <2>4, Zenon DEF NamesInv, NoDesc
<1>16. DoneInv'
  <2>1. DoneOk(t)'
    BY <1>4 DEF DoneOk
  <2> QED BY <1>0, <1>1, <1>6, <2>1, DoneGoes DEF channel
<1>17. DanglingExplained'
  BY <1>0, <1>1, DanglingStays
<1> QED BY ONLY <1>8, <1>9, <1>10, <1>11, <1>12, <1>13, <1>14, <1>15, <1>16, <1>17, Zenon DEF Inv

\* The slot removeUserBacking works on, and its descriptor.
LEMMA RemovedSlot ==
    ASSUME Inv, NEW t \in Threads, pc[t] \in {"drop", "clear"}
    PROVE  \E c \in Clients, s \in Slots, d \in Descs :
              /\ c = ClientOf[t] /\ s = slot[t] /\ d = Cell(c, s).desc
              /\ Cell(c, s).id = rid[t] /\ rid[t] \in Ids /\ op[t] \in {"detach", "unref"}
              /\ desc[t] = NoDesc
              /\ \A u \in Threads : u # t => pc[u] = "idle" \/ ClientOf[u] # c
<1>0. /\ OtherTypes /\ SerialInv /\ LocalOk(t) /\ TableInv
  BY InvTypes, Zenon DEF Inv, LocalInv
<1>1. PICK c \in Clients, s \in Slots : c = ClientOf[t] /\ s = slot[t]
  BY <1>0, WinsysAssumption DEF LocalOk
<1>2. Cell(c, s).id = rid[t] /\ rid[t] \in Ids /\ op[t] \in {"detach", "unref"} /\ desc[t] = NoDesc
  BY <1>0, <1>1 DEF LocalOk, Removing
<1>3. Cell(c, s).desc \in Descs
  <2>1. rid[t] # 0
    BY <1>2 DEF Ids
  <2> QED BY <1>0, <1>2, <2>1, CellTypes DEF TableInv
<1>4. \A u \in Threads : u # t => pc[u] = "idle" \/ ClientOf[u] # c
  BY <1>0, <1>1 DEF SerialInv
<1> QED BY <1>1, <1>2, <1>3, <1>4

LEMMA RemoveDropKeeps ==
    ASSUME Inv, NEW t \in Threads, RemoveDrop(t)
    PROVE  Inv'
<1>0. /\ OtherTypes /\ ThreadTypes /\ ChannelTypeOK /\ SerialInv /\ LocalInv /\ LocalOk(t)
      /\ TableInv /\ OneBackingPerResource /\ WiredInv /\ ChanInv /\ NamesInv
      /\ DoneInv /\ DoneOk(t) /\ DanglingExplained
  BY InvTypes, Zenon DEF Inv, LocalInv, DoneInv
<1>1. /\ pc[t] = "drop" /\ Release({table[ClientOf[t]][slot[t]].desc}) /\ Go(t, "clear")
      /\ exposed' = IF op[t] = "unref" THEN exposed \cup {rid[t]} ELSE exposed
      /\ UNCHANGED <<channel, table, nextId, state, calls, host, backing, suspect>>
  BY Unchanged, Zenon DEF RemoveDrop
<1>2. PICK c \in Clients, s \in Slots, d \in Descs :
         /\ c = ClientOf[t] /\ s = slot[t] /\ d = Cell(c, s).desc
         /\ Cell(c, s).id = rid[t] /\ rid[t] \in Ids /\ op[t] \in {"detach", "unref"}
         /\ desc[t] = NoDesc
         /\ \A u \in Threads : u # t => pc[u] = "idle" \/ ClientOf[u] # c
  BY <1>1, RemovedSlot
<1>3. ThreadTypes' /\ Went(t, "clear")
  <2>1. "clear" \in Places
    BY DEF Places, Removing
  <2> QED BY <1>0, <1>1, <2>1, GoStep, Zenon
<1>4. /\ Others(t) /\ pc'[t] = "clear" /\ op'[t] = op[t] /\ rid'[t] = rid[t]
      /\ desc'[t] = desc[t] /\ slot'[t] = s
  BY <1>2, <1>3, Zenon DEF Went, Becomes
<1>5. /\ calls \in Nat /\ OthersKept(t) /\ Fewer /\ Quieter
  <2>1. calls \in Nat
    BY <1>0, WinsysAssumption DEF OtherTypes
  <2>2. Quieter
    BY <1>4 DEF Quieter, Others, Same
  <2> QED BY <1>1, <1>4, <2>1, <2>2, FewerStays DEF OthersKept
<1>6. ~Dropping(c, s) /\ d \in wired
  <2>1. ~Dropping(c, s)
    BY <1>1, <1>2 DEF Dropping
  <2>2. HeldBy(d)
    BY <1>2, <2>1 DEF HeldBy
  <2> QED BY <1>0, <2>1, <2>2 DEF WiredInv
<1>7. wired' = wired \ {d} /\ twice' = twice
  BY <1>1, <1>2, <1>6 DEF Release, Cell
<1>8. TypeOK'
  <2>1. OtherTypes'
    BY <1>0, <1>1, <1>2, <1>7 DEF OtherTypes
  <2>2. ChannelTypeOK'
    BY <1>0, <1>1, ChannelStays
  <2> QED BY <1>3, <2>1, <2>2, TypeParts, Zenon
           DEF TypeOK, OtherTypes, ThreadTypes, Places, Removing
<1>9. SerialInv'
  BY <1>0, <1>1, <1>4, SerialGoes
<1>10. LocalInv'
  <2>1. LocalOk(t)'
    BY <1>1, <1>2, <1>4 DEF LocalOk, Removing, Cell
  <2> QED BY <1>0, <1>5, <2>1, LocalGoes
<1>11. TableInv' /\ OneBackingPerResource'
  BY <1>0, <1>1, <1>5, TableFewer
<1>12. WiredInv'
  <2>1. \A b \in Clients, r \in Slots :
           Dropping(b, r)' <=> Dropping(b, r) \/ (b = c /\ r = s)
    BY <1>1, <1>2, <1>4 DEF Dropping, Others, Same
  <2>2. \A b \in Clients, r \in Slots : Cell(b, r)' = Cell(b, r)
    BY <1>1 DEF Cell
  <2>3. \A u \in Threads : desc'[u] = desc[u]
    BY <1>4 DEF Others, Same
  <2>4. \A b \in Clients, r \in Slots : Cell(b, r).desc = d => b = c /\ r = s
    BY <1>0, <1>2, NoDescApart DEF TableInv
  <2>5. \A u \in Threads : desc[u] # d
    BY <1>0, <1>2, NoDescApart DEF TableInv
  <2>6. \A x \in Descs : HeldBy(x)' <=> HeldBy(x) /\ x # d
    BY <1>2, <2>1, <2>2, <2>3, <2>4, <2>5 DEF HeldBy
  <2> QED BY <1>0, <1>7, <2>6 DEF WiredInv
<1>13. ChanInv'
  BY <1>0, <1>1, <1>4, ChanStays DEF Others, Same
<1>14. NamesInv'
  <2>1. \A u \in Threads : pc'[u] = "send" /\ op'[u] = "attach" =>
           pc[u] = "send" /\ op[u] = "attach" /\ desc'[u] = desc[u]
    BY <1>4 DEF Others, Same
  <2> QED BY <1>0, <1>1, <1>5, <2>1, NamesStays DEF channel
<1>15. DoneInv'
  <2>1. DoneOk(t)'
    BY <1>0, <1>1, <1>4 DEF DoneOk, Detaching, Removing, findUserBacking, Cell
  <2> QED BY <1>0, <1>1, <1>5, <2>1, DoneGoes DEF channel
<1>16. DanglingExplained'
  <2>1. ASSUME NEW i \in host \ suspect', backing[i] # NoDesc, backing[i] \in {d}
        PROVE  i \in exposed'
    <3>1. i = rid[t] /\ i \in Ids
      BY <1>0, <1>2, <2>1 DEF NamesInv, Names, OtherTypes
    <3>2. s \in findUserBacking(c, rid[t])
      BY <1>2 DEF findUserBacking, Cell
    <3>3. op[t] # "detach"
      BY <1>0, <1>1, <1>2, <2>1, <3>1, <3>2 DEF DoneOk, Detaching, Removing
    <3> QED BY <1>1, <1>2, <3>1, <3>3
  <2>2. exposed \subseteq exposed'
    BY <1>1
  <2> QED BY <1>0, <1>1, <1>7, <2>1, <2>2, DanglingDrop
<1> QED BY ONLY <1>8, <1>9, <1>10, <1>11, <1>12, <1>13, <1>14, <1>15, <1>16, Zenon DEF Inv

LEMMA RemoveClearKeeps ==
    ASSUME Inv, NEW t \in Threads, RemoveClear(t)
    PROVE  Inv'
<1>0. /\ OtherTypes /\ ThreadTypes /\ ChannelTypeOK /\ SerialInv /\ LocalInv /\ LocalOk(t)
      /\ TableInv /\ OneBackingPerResource /\ WiredInv /\ ChanInv /\ NamesInv
      /\ DoneInv /\ DanglingExplained
  BY InvTypes, Zenon DEF Inv, LocalInv, DoneInv
<1>1. /\ pc[t] = "clear" /\ table' = [table EXCEPT ![ClientOf[t]][slot[t]] = FreeSlot]
      /\ AfterRemove(t)
      /\ UNCHANGED <<channel, wired, twice, nextId, state, calls, host, backing, suspect, exposed>>
  BY Unchanged, Zenon DEF RemoveClear
<1>2. PICK c \in Clients, s \in Slots, d \in Descs :
         /\ c = ClientOf[t] /\ s = slot[t] /\ d = Cell(c, s).desc
         /\ Cell(c, s).id = rid[t] /\ rid[t] \in Ids /\ op[t] \in {"detach", "unref"}
         /\ desc[t] = NoDesc
         /\ \A u \in Threads : u # t => pc[u] = "idle" \/ ClientOf[u] # c
  BY <1>1, RemovedSlot
<1>3. /\ ThreadTypes' /\ Others(t) /\ desc'[t] = NoDesc
      /\ (op[t] = "unref" /\ Went(t, "send")) \/ (op[t] = "detach" /\ Left(t))
  BY <1>0, <1>1, <1>2, AfterRemoveStep, Zenon
<1>4. /\ pc'[t] \in {"send", "idle"} /\ op'[t] # "attach" /\ op'[t] # "detach"
      /\ pc'[t] = "send" => rid'[t] = rid[t]
  BY <1>3 DEF Went, Left, Becomes
<1>5. /\ Cell(c, s)' = FreeSlot
      /\ \A b \in Clients, r \in Slots : b # c \/ r # s => Cell(b, r)' = Cell(b, r)
      /\ \A b \in Clients : b # c => table'[b] = table[b]
  <2>1. table' = [table EXCEPT ![c][s] = FreeSlot]
    BY ONLY <1>1, <1>2, Zenon
  <2> QED BY <1>0, <2>1 DEF OtherTypes, Cell
<1>6. /\ calls \in Nat /\ OthersKept(t) /\ Fewer /\ Quieter
  <2>1. calls \in Nat
    BY <1>0, WinsysAssumption DEF OtherTypes
  <2>2. Quieter
    BY <1>3 DEF Quieter, Others, Same
  <2>3. Fewer
    BY <1>5 DEF Fewer
  <2> QED BY <1>1, <1>2, <1>3, <1>5, <2>1, <2>2, <2>3 DEF OthersKept
<1>7. TypeOK'
  <2>1. FreeSlot \in [id : Ids \cup {0}, desc : Descs \cup {NoDesc}]
    BY DEF FreeSlot
  <2>2. OtherTypes'
    BY <1>0, <1>1, <2>1 DEF OtherTypes
  <2>3. ChannelTypeOK'
    BY <1>0, <1>1, ChannelStays
  <2> QED BY <1>3, <2>2, <2>3, TypeParts, Zenon
           DEF TypeOK, OtherTypes, ThreadTypes, Places, Removing
<1>8. SerialInv'
  BY <1>0, <1>1, <1>2, <1>3, <1>5, SerialGoes
<1>9. LocalInv'
  <2>1. LocalOk(t)'
    BY <1>2, <1>3, <1>4 DEF LocalOk, Removing
  <2> QED BY <1>0, <1>6, <2>1, LocalGoes
<1>10. TableInv' /\ OneBackingPerResource'
  BY <1>0, <1>1, <1>6, TableFewer
<1>11. WiredInv'
  <2>1. \A b \in Clients, r \in Slots :
           b # c \/ r # s => (Dropping(b, r)' <=> Dropping(b, r))
    BY <1>1, <1>2, <1>3, <1>4 DEF Dropping, Others, Same
  <2>2. Dropping(c, s)
    BY <1>1, <1>2 DEF Dropping
  <2>3. \A u \in Threads : desc'[u] = desc[u]
    BY <1>2, <1>3 DEF Others, Same
  <2>4. \A x \in Descs : Cell(c, s)'.desc # x
    BY <1>5, NoDescApart DEF FreeSlot
  <2>5. \A x \in Descs : HeldBy(x)' <=> HeldBy(x)
    BY <1>5, <2>1, <2>2, <2>3, <2>4 DEF HeldBy
  <2> QED BY <1>0, <1>1, <2>5 DEF WiredInv
<1>12. ChanInv'
  BY <1>0, <1>1, <1>3, <1>4, ChanStays DEF Others, Same
<1>13. NamesInv'
  <2>1. \A u \in Threads : pc'[u] = "send" /\ op'[u] = "attach" =>
           pc[u] = "send" /\ op[u] = "attach" /\ desc'[u] = desc[u]
    BY <1>3, <1>4 DEF Others, Same
  <2> QED BY <1>0, <1>1, <1>6, <2>1, NamesStays DEF channel
<1>14. DoneInv'
  <2>1. DoneOk(t)'
    BY <1>4 DEF DoneOk
  <2> QED BY <1>0, <1>1, <1>6, <2>1, DoneGoes DEF channel
<1>15. DanglingExplained'
  BY <1>0, <1>1, DanglingStays
<1> QED BY ONLY <1>7, <1>8, <1>9, <1>10, <1>11, <1>12, <1>13, <1>14, <1>15, Zenon DEF Inv

-----------------------------------------------------------------------------
(* Commands.                                                               *)

\* What sendDisplayCommand leaves in the buffer.
LEMMA SendCommandKeeps ==
    ASSUME Inv, NEW t \in Threads, SendCommand(t)
    PROVE  Inv'
<1>0. /\ OtherTypes /\ ThreadTypes /\ ChannelTypeOK /\ SerialInv /\ LocalInv /\ LocalOk(t)
      /\ TableInv /\ OneBackingPerResource /\ WiredInv /\ ChanInv /\ NamesInv
      /\ DoneInv /\ DanglingExplained
  BY InvTypes, Zenon DEF Inv, LocalInv
<1>1. /\ pc[t] = "send" /\ Send([type |-> op[t], id |-> rid[t], desc |-> desc[t]]) /\ Go(t, "wait")
      /\ suspect' = IF Quiet THEN suspect ELSE suspect \cup {rid[t]}
      /\ UNCHANGED <<table, wired, twice, nextId, state, calls, host, backing, exposed>>
  BY Unchanged, Zenon DEF SendCommand
<1>2. /\ ~waiting /\ backlog < MaxBacklog /\ backlog' = backlog + 1 /\ waiting' = TRUE
      /\ cmd' = [type |-> op[t], id |-> rid[t], desc |-> desc[t]]
      /\ UNCHANGED <<moved, pushing, answer>>
  BY <1>1, Zenon DEF Send
<1>3. ThreadTypes' /\ Went(t, "wait")
  <2>1. "wait" \in Places
    BY DEF Places
  <2> QED BY <1>0, <1>1, <2>1, GoStep, Zenon
<1>4. /\ Others(t) /\ pc'[t] = "wait" /\ op'[t] = op[t] /\ rid'[t] = rid[t]
      /\ desc'[t] = desc[t] /\ slot'[t] = slot[t]
  BY <1>3, Zenon DEF Went, Becomes
<1>5. /\ calls \in Nat /\ OthersKept(t) /\ Fewer /\ Quieter
  <2>1. calls \in Nat
    BY <1>0, WinsysAssumption DEF OtherTypes
  <2>2. Quieter
    BY <1>4 DEF Quieter, Others, Same
  <2> QED BY <1>1, <1>4, <2>1, <2>2, FewerStays DEF OthersKept
<1>6. rid[t] \in Ids /\ op[t] \in Ops /\ desc[t] \in Descs \cup {NoDesc}
  BY <1>0, <1>1 DEF LocalOk, ThreadTypes
<1>7. /\ cmd' \in WinsysCommand /\ cmd' # NoCommand /\ backlog' \in 0 .. MaxBacklog /\ backlog' > 0
      /\ cmd'.desc = desc[t] /\ cmd'.id = rid[t]
  <2>1. cmd' \in WinsysCommand /\ cmd'.desc = desc[t] /\ cmd'.id = rid[t]
    BY <1>2, <1>6 DEF WinsysCommand
  <2>2. cmd' # NoCommand
    BY <2>1, ChannelAssumption, WinsysCommandAssumption
  <2>3. backlog' \in 0 .. MaxBacklog /\ backlog' > 0
    BY <1>0, <1>2, ChannelAssumption DEF ChannelTypeOK
  <2> QED BY <2>1, <2>2, <2>3
<1>8. suspect \subseteq suspect' /\ suspect' \subseteq Ids
      /\ (rid[t] \notin suspect' => Quiet)
  BY <1>0, <1>1, <1>6 DEF OtherTypes
<1>9. TypeOK'
  <2>1. OtherTypes'
    BY <1>0, <1>1, <1>8 DEF OtherTypes
  <2>2. ChannelTypeOK'
    BY <1>0, <1>2, <1>7, WinsysCommandAssumption DEF ChannelTypeOK
  <2> QED BY <1>3, <2>1, <2>2, TypeParts, Zenon
           DEF TypeOK, OtherTypes, ThreadTypes, Places, Removing
<1>10. SerialInv'
  BY <1>0, <1>1, <1>4, SerialGoes
<1>11. LocalInv'
  <2>1. LocalOk(t)'
    BY <1>0, <1>1, <1>4 DEF LocalOk, Removing, Cell, findUserBacking
  <2> QED BY <1>0, <1>5, <2>1, LocalGoes
<1>12. TableInv' /\ OneBackingPerResource'
  BY <1>0, <1>1, <1>5, TableFewer
<1>13. WiredInv'
  BY <1>0, <1>1, <1>4, WiredStays DEF Others, Same
<1>14. ChanInv'
  <2>1. \A u \in Threads : pc'[u] = "wait" => u = t
    BY <1>0, <1>2, <1>4 DEF ChanInv, Others, Same
  <2>2. rid'[t] \notin suspect' => Unanswered'
    BY <1>0, <1>2, <1>4, <1>8 DEF Unanswered, Quiet, ChannelTypeOK
  <2>3. cmd' = [type |-> op'[t], id |-> rid'[t], desc |-> desc'[t]]
    BY ONLY <1>2, <1>4, Zenon
  <2> QED BY <1>2, <1>4, <1>7, <2>1, <2>2, <2>3 DEF ChanInv
<1>15. NamesInv'
  <2>1. \A i \in Ids : backing'[i] # NoDesc => i \in host' /\ Names(i, backing[i])'
    <3> TAKE i \in Ids
    <3>1. HAVE backing'[i] # NoDesc
    <3>2. i \in host /\ Names(i, backing[i]) /\ backing[i] \in Descs
      BY <1>0, <1>1, <3>1, DeviceDescs DEF NamesInv
    <3>3. PICK x \in Descs : x = backing[i]
      BY <3>2
    <3>4. Names(i, x)'
      BY <1>1, <1>5, <3>2, <3>3, NamesFewer
    <3> QED BY <1>1, <3>2, <3>3, <3>4, Zenon DEF Names
  <2>2. ASSUME desc[t] # NoDesc PROVE Names(rid[t], desc[t])'
    <3>1. PICK x \in Descs, i \in Ids : x = desc[t] /\ i = rid[t]
      BY <1>6, <2>2
    <3>2. \A c \in Clients, s \in Slots : Cell(c, s).desc # x
      BY <1>0, <2>2, <3>1 DEF TableInv
    <3>3. \A u \in Threads : desc[u] = x => u = t
      BY <1>0, <2>2, <3>1 DEF TableInv
    <3>4. x[2] <= calls
      BY <1>0, <2>2, <3>1 DEF LocalOk
    <3>5. Names(i, x)
      BY <3>1, <3>2, <3>3, <3>4 DEF Names
    <3>6. Names(i, x)'
      BY <1>1, <1>5, <3>5, NamesFewer
    <3> QED BY <1>4, <3>1, <3>6, Zenon DEF Names
  <2>3. ASSUME NEW u \in Threads, pc'[u] = "send", op'[u] = "attach"
        PROVE  /\ \A i \in Ids : backing'[i] # desc'[u]
               /\ cmd' # NoCommand => cmd'.desc # desc'[u]
    <3>1. u # t /\ pc[u] = "send" /\ op[u] = "attach" /\ desc'[u] = desc[u]
      BY <1>4, <2>3 DEF Others, Same
    <3>2. desc[u] # NoDesc
      BY <1>0, <3>1 DEF LocalInv, LocalOk
    <3>3. desc[t] # desc[u]
      BY <1>0, <3>1, <3>2 DEF TableInv
    <3> QED BY <1>0, <1>1, <1>7, <3>1, <3>3 DEF NamesInv
  <2>4. cmd'.desc # NoDesc => Names(cmd.id, cmd.desc)'
    BY <1>4, <1>7, <2>2, Zenon DEF Names
  <2> QED BY <2>1, <2>3, <2>4, Zenon DEF NamesInv, NoDesc, Ids
<1>16. DoneInv'
  <2>1. DoneOk(t)'
    <3>1. ASSUME op[t] = "attach" PROVE backing[rid[t]] # desc[t]
      BY <1>0, <1>1, <1>6, <3>1 DEF NamesInv
    <3> QED BY <1>1, <1>4, <1>7, <3>1 DEF DoneOk, Detaching, Removing
  <2>2. ASSUME NEW u \in Threads, u # t PROVE DoneOk(u)'
    <3>1. DoneOk(u) /\ Same(u) /\ pc[u] # "wait"
      BY <1>0, <1>2, <1>4, <2>2 DEF DoneInv, ChanInv, Others
    <3>2. findUserBacking(ClientOf[u], rid[u])' = findUserBacking(ClientOf[u], rid[u])
      BY <1>1, <3>1 DEF findUserBacking, Same
    <3>3. \A s \in Slots : Cell(ClientOf[u], s)' = Cell(ClientOf[u], s)
      BY <1>1 DEF Cell
    <3>4. findUserBacking(ClientOf[u], rid[u]) \subseteq Slots
      BY DEF findUserBacking
    <3> QED BY <1>1, <1>8, <3>1, <3>2, <3>3, <3>4 DEF DoneOk, Detaching, Removing, Same
  <2> QED BY <2>1, <2>2, Zenon DEF DoneInv
<1>17. DanglingExplained'
  BY <1>0, <1>1, <1>8, DanglingStays
<1> QED BY ONLY <1>9, <1>10, <1>11, <1>12, <1>13, <1>14, <1>15, <1>16, <1>17, Zenon DEF Inv

\* submitCommand returned: what its caller may rely on.
LEMMA ReturnedStep ==
    ASSUME Inv, NEW t \in Threads, NEW ok \in BOOLEAN, Returned(t, ok)
    PROVE  /\ pc[t] = "wait" /\ ~waiting' /\ ChannelTypeOK'
           /\ UNCHANGED <<cmd, backlog, answer>>
           /\ UNCHANGED <<table, twice, nextId, state, calls, host, backing, exposed>>
           /\ suspect \subseteq suspect' /\ suspect' \subseteq Ids
           /\ rid[t] \notin suspect' => backlog = 0 /\ ok = (answer # "err")
           /\ cmd.id = rid[t]
           /\ backlog > 0 => cmd # NoCommand /\ cmd.id \in suspect'
           /\ \A u \in Threads : u # t => pc[u] # "wait"
<1>0. OtherTypes /\ ChannelTypeOK /\ ChanInv /\ LocalOk(t)
  BY InvTypes, Zenon DEF Inv, LocalInv
<1>1. /\ pc[t] = "wait"
      /\ UNCHANGED <<table, twice, nextId, state, calls, host, backing, exposed>>
  BY Unchanged, Zenon DEF Returned
<1>2. /\ cmd = [type |-> op[t], id |-> rid[t], desc |-> desc[t]] /\ rid[t] \in Ids
      /\ rid[t] \notin suspect => Unanswered \/ Replied
      /\ \A u \in Threads : u # t => pc[u] # "wait"
  BY <1>0, <1>1 DEF ChanInv, LocalOk
<1>3. cmd.id = rid[t]
  BY <1>2
<1>4. CASE Answered /\ ok = (answer # "err") /\ UNCHANGED suspect
  <2>1. moved /\ ~waiting' /\ moved' = FALSE /\ waiting' = FALSE
        /\ UNCHANGED <<cmd, backlog, pushing, answer>>
    BY <1>4 DEF Answered
  <2>2. ChannelTypeOK'
    BY <1>0, <2>1 DEF ChannelTypeOK
  <2>3. rid[t] \notin suspect' => backlog = 0
    BY <1>2, <1>4, <2>1 DEF Unanswered, Replied
  <2>4. backlog > 0 => cmd # NoCommand /\ cmd.id \in suspect'
    BY <1>0, <1>3, <1>4, <2>3 DEF ChanInv
  <2> QED BY <1>0, <1>1, <1>2, <1>3, <1>4, <2>1, <2>2, <2>3, <2>4 DEF OtherTypes
<1>5. CASE TimedOut /\ ~ok /\ suspect' = suspect \cup {rid[t]}
  <2>1. waiting' = FALSE /\ UNCHANGED <<cmd, backlog, pushing, moved, answer>>
    BY <1>5 DEF TimedOut
  <2>2. ChannelTypeOK'
    BY <1>0, <2>1 DEF ChannelTypeOK
  <2>3. backlog > 0 => cmd # NoCommand
    BY <1>0 DEF ChanInv
  <2> QED BY <1>0, <1>1, <1>2, <1>3, <1>5, <2>1, <2>2, <2>3 DEF OtherTypes
<1> QED BY <1>4, <1>5 DEF Returned

\* The parts of the invariant a return leaves alone whatever it does next.
LEMMA ReturnedKeeps ==
    ASSUME Inv, NEW t \in Threads, NEW ok \in BOOLEAN, Returned(t, ok), Others(t),
           desc'[t] = NoDesc \/ (desc'[t] = desc[t] /\ rid'[t] = rid[t]),
           pc'[t] \notin {"wait", "send"}, DoneOk(t)'
    PROVE  ChanInv' /\ NamesInv' /\ DoneInv' /\ OthersKept(t)
<1>0. OtherTypes /\ ChanInv /\ NamesInv /\ DoneInv /\ SerialInv
  BY InvTypes, Zenon DEF Inv
<1>1. /\ pc[t] = "wait" /\ ~waiting' /\ UNCHANGED <<cmd, backlog, answer>>
      /\ UNCHANGED <<table, twice, nextId, state, calls, host, backing, exposed>>
      /\ suspect \subseteq suspect'
      /\ backlog > 0 => cmd # NoCommand /\ cmd.id \in suspect'
      /\ \A u \in Threads : u # t => pc[u] # "wait"
  BY ReturnedStep, Zenon
<1>2. ChanInv'
  <2>1. \A u \in Threads : pc'[u] # "wait"
    BY <1>1 DEF Others, Same
  <2>2. cmd' # NoCommand => cmd' \in WinsysCommand
    BY <1>0, <1>1 DEF ChanInv
  <2> QED BY <1>1, <2>1, <2>2 DEF ChanInv
<1>3. calls \in Nat /\ Fewer /\ Quieter /\ OthersKept(t)
  <2>1. calls \in Nat
    BY <1>0, WinsysAssumption DEF OtherTypes
  <2>2. Quieter
    BY DEF Quieter, Others, Same
  <2> QED BY <1>1, <2>1, <2>2, FewerStays DEF OthersKept
<1>4. NamesInv'
  <2>1. \A u \in Threads : pc'[u] = "send" /\ op'[u] = "attach" =>
           pc[u] = "send" /\ op[u] = "attach" /\ desc'[u] = desc[u]
    BY DEF Others, Same
  <2> QED BY <1>0, <1>1, <1>3, <2>1, NamesStays
<1>5. DoneInv'
  BY <1>0, <1>1, <1>3, DoneGoes
<1> QED BY <1>2, <1>3, <1>4, <1>5

LEMMA FinishKeeps ==
    ASSUME Inv, NEW t \in Threads, Finish(t)
    PROVE  Inv'
<1>0. /\ OtherTypes /\ ThreadTypes /\ LocalInv /\ LocalOk(t) /\ DoneOk(t) /\ NamesInv
      /\ DanglingExplained
  BY InvTypes, Zenon DEF Inv, LocalInv, DoneInv
<1>1. PICK ok \in BOOLEAN :
         /\ Returned(t, ok) /\ wired' = wired \ {desc[t]} /\ Return(t)
         /\ op[t] = "attach" => ok = FALSE
  <2>1. Return(t)
    BY Zenon DEF Finish
  <2>2. CASE op[t] = "attach" /\ Returned(t, FALSE) /\ DropOwn(t)
    BY <2>1, <2>2 DEF DropOwn
  <2>3. ASSUME op[t] \in {"create", "unref"}, NEW ok \in BOOLEAN, Returned(t, ok), UNCHANGED wired
        PROVE  wired' = wired \ {desc[t]} /\ op[t] # "attach"
    <3>1. desc[t] = NoDesc
      BY <1>0, <2>3 DEF LocalOk
    <3> QED BY <1>0, <2>3, <3>1, NoDescApart DEF OtherTypes
  <2> QED BY <2>1, <2>2, <2>3 DEF Finish
<1>2. /\ pc[t] = "wait" /\ ChannelTypeOK' /\ UNCHANGED <<backlog, answer>>
      /\ UNCHANGED <<table, twice, nextId, state, calls, host, backing, exposed>>
      /\ suspect \subseteq suspect' /\ suspect' \subseteq Ids
      /\ rid[t] \notin suspect' => backlog = 0 /\ ok = (answer # "err")
  BY <1>1, ReturnedStep, Zenon
<1>3. ThreadTypes' /\ Left(t)
  BY <1>0, <1>1, ReturnStep, Zenon
<1>4. Others(t) /\ pc'[t] = "idle" /\ op'[t] = "create" /\ desc'[t] = NoDesc
  BY <1>3, Zenon DEF Left, Becomes
<1>5. DoneOk(t)'
  BY <1>4 DEF DoneOk
<1>6. ChanInv' /\ NamesInv' /\ DoneInv'
  BY <1>1, <1>4, <1>5, ReturnedKeeps
<1>7. SerialInv' /\ LocalInv' /\ TableInv' /\ OneBackingPerResource' /\ WiredInv'
  BY <1>1, <1>2, <1>3, LeaveTables
<1>8. TypeOK'
  <2>1. OtherTypes'
    BY <1>0, <1>1, <1>2 DEF OtherTypes
  <2> QED BY <1>2, <1>3, <2>1, TypeParts, Zenon
           DEF TypeOK, OtherTypes, ThreadTypes, Places, Removing
<1>9. DanglingExplained'
  <2>1. ASSUME NEW i \in host \ suspect', backing[i] # NoDesc, backing[i] \in {desc[t]}
        PROVE  i \in exposed'
    <3>1. i \in Ids /\ desc[t] # NoDesc
      BY <1>0, <2>1 DEF OtherTypes
    <3>2. i = rid[t]
      BY <1>0, <2>1, <3>1, OwnPages
    <3>3. op[t] = "attach" /\ pc[t] # "idle" /\ rid[t] \notin suspect /\ NotGiven
      BY <1>0, <1>1, <1>2, <2>1, <3>1, <3>2 DEF LocalOk, NotGiven
    <3> QED BY <1>0, <1>2, <2>1, <3>2, <3>3 DEF DoneOk
  <2> QED BY <1>0, <1>1, <1>2, <2>1, DanglingDrop
<1> QED BY ONLY <1>6, <1>7, <1>8, <1>9, Zenon DEF Inv

\* A call goes on after its answer.
LEMMA GoesOnKeeps ==
    ASSUME Inv, NEW t \in Threads, NEW ok \in BOOLEAN, Returned(t, ok), UNCHANGED wired,
           NEW p \in {"remove", "add"}, Go(t, p), op[t] = IF p = "add" THEN "attach" ELSE "detach"
    PROVE  Inv'
<1>0. /\ OtherTypes /\ ThreadTypes /\ SerialInv /\ LocalInv /\ LocalOk(t) /\ DoneOk(t)
      /\ TableInv /\ OneBackingPerResource /\ WiredInv /\ DanglingExplained
  BY InvTypes, Zenon DEF Inv, LocalInv, DoneInv
<1>1. /\ pc[t] = "wait" /\ ChannelTypeOK' /\ UNCHANGED <<backlog, answer>>
      /\ UNCHANGED <<table, twice, nextId, state, calls, host, backing, exposed>>
      /\ suspect \subseteq suspect' /\ suspect' \subseteq Ids
      /\ rid[t] \notin suspect' => backlog = 0 /\ ok = (answer # "err")
  BY ReturnedStep, Zenon
<1>2. ThreadTypes' /\ Went(t, p)
  <2>1. p \in Places
    BY DEF Places, Removing
  <2> QED BY <1>0, <2>1, GoStep, Zenon
<1>3. /\ Others(t) /\ pc'[t] = p /\ op'[t] = op[t] /\ rid'[t] = rid[t]
      /\ desc'[t] = desc[t] /\ slot'[t] = slot[t]
  BY <1>2, Zenon DEF Went, Becomes
<1>4. DoneOk(t)'
  <2>1. CASE p = "add"
    BY <1>3, <2>1 DEF DoneOk, Detaching, Removing
  <2>2. CASE p = "remove"
    BY <1>0, <1>1, <1>3, <2>2 DEF DoneOk, Detaching, Removing, findUserBacking, Cell
  <2> QED BY <2>1, <2>2
<1>5. ChanInv' /\ NamesInv' /\ DoneInv' /\ OthersKept(t)
  BY <1>3, <1>4, ReturnedKeeps
<1>6. SerialInv'
  BY <1>0, <1>1, <1>3, SerialGoes
<1>7. LocalInv'
  <2>1. LocalOk(t)'
    BY <1>0, <1>1, <1>3 DEF LocalOk, Removing, findUserBacking
  <2> QED BY <1>0, <1>5, <2>1, LocalGoes
<1>8. TableInv' /\ OneBackingPerResource'
  <2>1. Quieter /\ Fewer /\ calls' \in Nat /\ calls <= calls'
    BY <1>1, <1>3, <1>5, FewerStays DEF Quieter, Others, Same, OthersKept
  <2> QED BY <1>0, <2>1, TableFewer
<1>9. WiredInv'
  BY <1>0, <1>1, <1>3, WiredStays DEF Others, Same
<1>10. TypeOK'
  <2>1. OtherTypes'
    BY <1>0, <1>1 DEF OtherTypes
  <2> QED BY <1>1, <1>2, <2>1, TypeParts, Zenon
           DEF TypeOK, OtherTypes, ThreadTypes, Places, Removing
<1>11. DanglingExplained'
  BY <1>0, <1>1, DanglingStays
<1> QED BY ONLY <1>5, <1>6, <1>7, <1>8, <1>9, <1>10, <1>11, Zenon DEF Inv

LEMMA DetachedKeeps ==
    ASSUME Inv, NEW t \in Threads, Detached(t)
    PROVE  Inv'
<1>1. PICK ok \in BOOLEAN : Returned(t, ok)
  BY DEF Detached
<1>2. op[t] = "detach" /\ Go(t, "remove") /\ UNCHANGED wired
  BY DEF Detached
<1> QED BY <1>1, <1>2, GoesOnKeeps

LEMMA AttachedKeeps ==
    ASSUME Inv, NEW t \in Threads, Attached(t)
    PROVE  Inv'
BY GoesOnKeeps DEF Attached

-----------------------------------------------------------------------------
(* The device.                                                             *)

\* What does not concern the device stays as it is.
LEMMA ThreadsAndTables ==
    ASSUME Inv, UNCHANGED <<tables, nextId, state, pc, locals, calls, ghost>>
    PROVE  /\ ThreadTypes' /\ SerialInv' /\ LocalInv' /\ TableInv' /\ OneBackingPerResource'
           /\ WiredInv'
           /\ UNCHANGED <<table, wired, twice, nextId, state, calls, suspect, exposed>>
           /\ \A u \in Threads : Same(u)
<1>0. /\ OtherTypes /\ ThreadTypes /\ SerialInv /\ LocalInv /\ TableInv
      /\ OneBackingPerResource /\ WiredInv
  BY InvTypes, Zenon DEF Inv
<1>1. UNCHANGED <<table, wired, twice, nextId, state, calls, suspect, exposed>>
  BY Unchanged
<1>2. ThreadTypes' /\ \A u \in Threads : Same(u)
  BY <1>0, ThreadsStay
<1>3. calls \in Nat /\ Fewer /\ Quieter
  BY <1>0, <1>1, <1>2, FewerStays, WinsysAssumption DEF OtherTypes, Quieter, Same
<1>4. SerialInv'
  BY <1>0, <1>1 DEF SerialInv
<1>5. LocalInv'
  <2>1. ASSUME NEW u \in Threads PROVE LocalOk(u)'
    <3>1. LocalOk(u) /\ Same(u) /\ calls <= calls' /\ calls' \in Nat
          /\ table'[ClientOf[u]] = table[ClientOf[u]]
      BY <1>0, <1>1, <1>2, <1>3 DEF LocalInv
    <3> QED BY <1>0, <1>3, <3>1, LocalSame, Zenon
  <2> QED BY <2>1, Zenon DEF LocalInv
<1>6. TableInv' /\ OneBackingPerResource'
  BY <1>0, <1>1, <1>3, TableFewer
<1>7. WiredInv'
  BY <1>0, <1>1, <1>2, WiredStays DEF Same
<1> QED BY <1>1, <1>2, <1>4, <1>5, <1>6, <1>7

LEMMA DevPushKeeps ==
    ASSUME Inv, DevPush
    PROVE  Inv'
<1>0. /\ OtherTypes /\ ChannelTypeOK /\ ChanInv /\ NamesInv /\ DoneInv /\ DanglingExplained
  BY InvTypes, Zenon DEF Inv
<1>1. /\ ThreadTypes' /\ SerialInv' /\ LocalInv' /\ TableInv' /\ OneBackingPerResource'
      /\ WiredInv'
      /\ UNCHANGED <<table, wired, twice, nextId, state, calls, suspect, exposed>>
      /\ \A u \in Threads : Same(u)
  BY ThreadsAndTables DEF DevPush
<1>2. UNCHANGED <<host, backing>>
  BY Unchanged DEF DevPush
<1>3. /\ pushing = TRUE /\ pushing' = FALSE /\ moved' \in BOOLEAN
      /\ waiting => moved' = TRUE
      /\ UNCHANGED <<cmd, backlog, answer, waiting>>
  BY <1>0 DEF DevPush, Push, ChannelTypeOK
<1>4. TypeOK'
  <2>1. OtherTypes'
    BY <1>0, <1>1, <1>2 DEF OtherTypes
  <2>2. ChannelTypeOK'
    BY <1>0, <1>3 DEF ChannelTypeOK
  <2> QED BY <1>1, <2>1, <2>2, TypeParts, Zenon
           DEF TypeOK, OtherTypes, ThreadTypes, Places, Removing
<1>5. ChanInv'
  <2>1. ASSUME waiting, Unanswered \/ Replied PROVE Replied'
    BY <1>0, <1>3, <2>1 DEF Unanswered, Replied, ChannelTypeOK
  <2> QED BY <1>0, <1>1, <1>3, <2>1 DEF ChanInv, Same
<1>6. NamesInv'
  <2>1. calls \in Nat /\ Fewer /\ Quieter
    BY <1>0, <1>1, FewerStays, WinsysAssumption DEF OtherTypes, Quieter, Same
  <2>2. \A u \in Threads : pc'[u] = "send" /\ op'[u] = "attach" =>
           pc[u] = "send" /\ op[u] = "attach" /\ desc'[u] = desc[u]
    BY <1>1 DEF Same
  <2> QED BY <1>0, <1>1, <1>2, <1>3, <2>1, <2>2, NamesStays
<1>7. DoneInv'
  <2>1. ASSUME NEW u \in Threads PROVE DoneOk(u)'
    BY <1>0, <1>1, <1>2, <1>3, DoneSame DEF DoneInv
  <2> QED BY <2>1, Zenon DEF DoneInv
<1>8. DanglingExplained'
  BY <1>0, <1>1, <1>2, DanglingStays
<1> QED BY ONLY <1>1, <1>4, <1>5, <1>6, <1>7, <1>8, Zenon DEF Inv

\* A command for a resource above suspicion is the waiting call's.
LEMMA PendingCommand ==
    ASSUME Inv, backlog > 0, cmd.id \notin suspect
    PROVE  \E w \in Threads :
              /\ pc[w] = "wait" /\ cmd.type = op[w] /\ cmd.id = rid[w] /\ cmd.desc = desc[w]
<1>0. ChanInv
  BY Zenon DEF Inv
<1>1. PICK w \in Threads : pc[w] = "wait"
  BY <1>0 DEF ChanInv
<1>2. cmd = [type |-> op[w], id |-> rid[w], desc |-> desc[w]]
  BY <1>0, <1>1 DEF ChanInv
<1> QED BY <1>1, <1>2

\* What the device does with the command it finds.
Executed(i, d, ty) ==
    /\ host' = IF ty = "unref" THEN host \ {i} ELSE host \cup {i}
    /\ backing' = [backing EXCEPT ![i] = d]
    /\ answer' = "nodata"
Refused(i, ty) ==
    /\ UNCHANGED <<host, backing>>
    /\ ty = "detach" => i \notin host

LEMMA DevExecuteStep ==
    ASSUME Inv, DevExecute
    PROVE  \E i \in Ids, d \in Descs \cup {NoDesc}, ty \in Ops :
              /\ i = cmd.id /\ ty = cmd.type
              /\ ty # "attach" => d = NoDesc
              /\ ty = "attach" => d = cmd.desc
              /\ Executed(i, d, ty) \/ Refused(i, ty)
              /\ cmd # NoCommand /\ backlog > 0 /\ backlog \in Nat /\ ~pushing
              /\ backlog' = backlog - 1 /\ pushing' = TRUE /\ answer' \in Answers
              /\ UNCHANGED <<cmd, moved, waiting>>
<1>0. ChanInv /\ OtherTypes /\ ChannelTypeOK
  BY InvTypes, Zenon DEF Inv
<1>1. cmd # NoCommand /\ backlog > 0 /\ cmd \in WinsysCommand /\ backlog \in Nat
  BY <1>0, ChannelAssumption DEF ChanInv, DevExecute, ChannelTypeOK
<1>2. PICK i \in Ids, ty \in Ops, d \in Descs \cup {NoDesc} :
         i = cmd.id /\ ty = cmd.type /\ d = IF cmd.type = "attach" THEN cmd.desc ELSE NoDesc
  BY <1>1 DEF WinsysCommand
<1>3. ASSUME NEW a \in Answers, Execute(a)
      PROVE  /\ ~pushing /\ backlog' = backlog - 1 /\ pushing' = TRUE /\ answer' = a
             /\ UNCHANGED <<cmd, moved, waiting>>
  BY <1>3, Zenon DEF Execute
<1>4. "nodata" \in Answers /\ "err" \in Answers
  BY DEF Answers
<1>5. \/ /\ Execute("nodata")
         /\ host' = IF ty = "unref" THEN host \ {i} ELSE host \cup {i}
         /\ backing' = [backing EXCEPT ![i] = d]
      \/ /\ ty = "detach" => i \notin host
         /\ Execute("nodata") \/ Execute("err")
         /\ UNCHANGED device
  BY <1>2 DEF DevExecute
<1>6. CASE /\ Execute("nodata")
           /\ host' = IF ty = "unref" THEN host \ {i} ELSE host \cup {i}
           /\ backing' = [backing EXCEPT ![i] = d]
  BY <1>1, <1>2, <1>3, <1>4, <1>6 DEF Executed
<1>7. CASE /\ ty = "detach" => i \notin host
           /\ Execute("nodata") \/ Execute("err")
           /\ UNCHANGED device
  BY <1>1, <1>2, <1>3, <1>4, <1>7, Unchanged DEF Refused
<1> QED BY <1>5, <1>6, <1>7

LEMMA DevExecuteKeeps ==
    ASSUME Inv, DevExecute
    PROVE  Inv'
<1>0. /\ OtherTypes /\ ThreadTypes /\ ChannelTypeOK /\ LocalInv /\ TableInv /\ WiredInv
      /\ ChanInv /\ NamesInv /\ DoneInv /\ DanglingExplained
  BY InvTypes, Zenon DEF Inv
<1>1. /\ ThreadTypes' /\ SerialInv' /\ LocalInv' /\ TableInv' /\ OneBackingPerResource'
      /\ WiredInv'
      /\ UNCHANGED <<table, wired, twice, nextId, state, calls, suspect, exposed>>
      /\ \A u \in Threads : Same(u)
  BY ThreadsAndTables DEF DevExecute
<1>2. PICK i \in Ids, d \in Descs \cup {NoDesc}, ty \in Ops :
         /\ i = cmd.id /\ ty = cmd.type
         /\ ty # "attach" => d = NoDesc
         /\ ty = "attach" => d = cmd.desc
         /\ Executed(i, d, ty) \/ Refused(i, ty)
         /\ cmd # NoCommand /\ backlog > 0 /\ backlog \in Nat /\ ~pushing
         /\ backlog' = backlog - 1 /\ pushing' = TRUE /\ answer' \in Answers
         /\ UNCHANGED <<cmd, moved, waiting>>
  BY DevExecuteStep
<1>3. /\ \A j \in Ids : j # i => backing'[j] = backing[j] /\ (j \in host' <=> j \in host)
      /\ Executed(i, d, ty) => backing'[i] = d /\ (d # NoDesc => i \in host')
      /\ host' \subseteq Ids /\ backing' \in [Ids -> Descs \cup {NoDesc}]
  BY <1>0, <1>2 DEF Executed, Refused, OtherTypes
<1>4. calls \in Nat /\ Fewer /\ Quieter /\ calls' \in Nat /\ calls <= calls'
  BY <1>0, <1>1, FewerStays, WinsysAssumption DEF OtherTypes, Quieter, Same
<1>5. i \notin suspect =>
         \E w \in Threads : pc[w] = "wait" /\ ty = op[w] /\ i = rid[w] /\ cmd.desc = desc[w]
  BY <1>2, PendingCommand
<1>6. TypeOK'
  <2>1. OtherTypes'
    BY <1>0, <1>1, <1>3 DEF OtherTypes
  <2>2. ChannelTypeOK'
    <3>1. backlog' \in 0 .. MaxBacklog
      BY <1>0, <1>2, ChannelAssumption DEF ChannelTypeOK
    <3>2. /\ cmd' \in Command \cup {NoCommand} /\ answer' \in Answers
          /\ moved' \in BOOLEAN /\ waiting' \in BOOLEAN /\ pushing' \in BOOLEAN
      BY <1>0, <1>2, Zenon DEF ChannelTypeOK
    <3> QED BY ONLY <3>1, <3>2, Zenon DEF ChannelTypeOK, Answers
  <2> QED BY <1>1, <2>1, <2>2, TypeParts, Zenon
           DEF TypeOK, OtherTypes, ThreadTypes, Places, Removing
\* A waiting call above suspicion has one command with the device.
<1>7. ASSUME NEW u \in Threads, pc[u] = "wait"
      PROVE  /\ ty = op[u] /\ i = rid[u] /\ cmd.desc = desc[u]
             /\ rid[u] \notin suspect => backlog = 1 /\ Replied'
  <2>1. /\ cmd = [type |-> op[u], id |-> rid[u], desc |-> desc[u]]
        /\ rid[u] \notin suspect => Unanswered \/ Replied
    BY <1>0, <1>7 DEF ChanInv
  <2>2. Unanswered \/ Replied => backlog = 1 /\ Replied'
    <3>1. HAVE Unanswered \/ Replied
    <3>2. backlog = 1 /\ ~moved
      BY <1>2, <3>1 DEF Unanswered, Replied
    <3>3. backlog' = 0 /\ pushing' = TRUE /\ moved' = moved
      BY <1>2, <3>2
    <3> QED BY <3>2, <3>3 DEF Replied
  <2> QED BY <1>2, <2>1, <2>2
<1>8. ChanInv'
  <2>1. \A u \in Threads : pc'[u] = pc[u] /\ op'[u] = op[u] /\ rid'[u] = rid[u] /\ desc'[u] = desc[u]
    BY <1>1, Zenon DEF Same
  <2>2. waiting' <=> \E u \in Threads : pc'[u] = "wait"
    BY <1>0, <1>2, <2>1 DEF ChanInv
  <2>3. \A u, v \in Threads : pc'[u] = "wait" /\ pc'[v] = "wait" => u = v
    BY <1>0, <2>1 DEF ChanInv
  <2>4. ASSUME NEW u \in Threads, pc'[u] = "wait"
        PROVE  /\ cmd' = [type |-> op'[u], id |-> rid'[u], desc |-> desc'[u]]
               /\ rid'[u] \notin suspect' => Unanswered' \/ Replied'
    <3>1. pc[u] = "wait"
      BY <2>1, <2>4
    <3>2. cmd = [type |-> op[u], id |-> rid[u], desc |-> desc[u]]
      BY <1>0, <3>1 DEF ChanInv
    <3>3. rid[u] \notin suspect => Replied'
      BY <1>7, <3>1
    <3>4. cmd' = cmd /\ suspect' = suspect
      BY <1>1, <1>2
    <3> QED BY ONLY <2>1, <3>2, <3>3, <3>4, Zenon
  <2>5. backlog' > 0 => cmd' # NoCommand /\ (waiting' \/ cmd'.id \in suspect')
    BY <1>0, <1>1, <1>2 DEF ChanInv
  <2>6. cmd' # NoCommand => cmd' \in WinsysCommand
    BY <1>0, <1>2 DEF ChanInv
  <2> QED BY ONLY <2>2, <2>3, <2>4, <2>5, <2>6, Zenon
          DEF ChanInv, WinsysCommand, Ops, Ids, Descs, NoDesc
<1>9. NamesInv'
  <2>0. ASSUME NEW j, NEW x \in Descs, Names(j, x) PROVE Names(j, x)'
    BY <1>4, <2>0, NamesFewer
  <2>1. cmd # NoCommand /\ cmd.desc # NoDesc => Names(cmd.id, cmd.desc)'
    <3>1. HAVE cmd # NoCommand /\ cmd.desc # NoDesc
    <3>2. PICK x \in Descs : x = cmd.desc
      BY <1>0, <3>1, DeviceDescs
    <3>3. Names(i, x)
      BY <1>0, <1>2, <3>1, <3>2 DEF NamesInv
    <3>4. Names(i, x)'
      BY <2>0, <3>3
    <3> QED BY <1>2, <3>2, <3>4, Zenon DEF Names
  <2>2. ASSUME NEW j \in Ids, backing'[j] # NoDesc
        PROVE  j \in host' /\ Names(j, backing[j])'
    <3>1. CASE backing'[j] = backing[j] /\ (j \in host' <=> j \in host)
      <4>1. j \in host /\ Names(j, backing[j])
        BY <1>0, <2>2, <3>1 DEF NamesInv
      <4>2. PICK x \in Descs : x = backing[j]
        BY <1>0, <2>2, <3>1, DeviceDescs
      <4>3. Names(j, x)'
        BY <2>0, <4>1, <4>2
      <4> QED BY <3>1, <4>1, <4>2, <4>3, Zenon DEF Names
    <3>2. CASE j = i /\ Executed(i, d, ty)
      <4>1. d # NoDesc /\ ty = "attach" /\ d = cmd.desc /\ backing'[j] = d /\ j \in host'
        BY <1>2, <1>3, <2>2, <3>2
      <4>2. Names(i, d)'
        BY <1>2, <2>1, <4>1, Zenon DEF Names
      <4> QED BY <3>2, <4>1, <4>2, Zenon DEF Names
    <3> QED BY <1>2, <1>3, <3>1, <3>2 DEF Refused
  <2>3. ASSUME NEW u \in Threads, pc'[u] = "send", op'[u] = "attach"
        PROVE  /\ \A j \in Ids : backing'[j] # desc'[u]
               /\ cmd' # NoCommand => cmd'.desc # desc'[u]
    <3>1. /\ desc'[u] = desc[u] /\ cmd.desc # desc[u] /\ desc[u] # NoDesc
          /\ \A j \in Ids : backing[j] # desc[u]
      BY <1>0, <1>1, <1>2, <2>3 DEF NamesInv, LocalInv, LocalOk, Same
    <3>2. \A j \in Ids : backing'[j] # desc[u]
      BY <1>2, <1>3, <3>1 DEF Refused
    <3> QED BY <1>2, <3>1, <3>2
  <2> QED BY <1>2, <2>1, <2>2, <2>3, Zenon DEF NamesInv, Names, NoDesc, Ids
<1>10. DoneInv'
  <2>1. SUFFICES ASSUME NEW u \in Threads PROVE DoneOk(u)'
    BY Zenon DEF DoneInv
  <2>2. Same(u) /\ DoneOk(u) /\ LocalOk(u)
    BY <1>0, <1>1 DEF DoneInv, LocalInv
  <2>3. SUFFICES ASSUME pc[u] # "idle", rid[u] \notin suspect
                 PROVE  /\ pc[u] = "wait" /\ op[u] = "attach" /\ NotGiven' =>
                              backing'[rid[u]] # desc[u]
                        /\ op[u] = "detach" /\ (Detaching(u)') =>
                              \A s \in findUserBacking(ClientOf[u], rid[u]) :
                                  backing'[rid[u]] # Cell(ClientOf[u], s).desc
    <3>1. findUserBacking(ClientOf[u], rid[u])' = findUserBacking(ClientOf[u], rid[u])
      BY <1>1, <2>2 DEF findUserBacking, Same
    <3>2. \A s : Cell(ClientOf[u], s)' = Cell(ClientOf[u], s)
      BY <1>1 DEF Cell
    <3> QED BY <1>1, <2>2, <3>1, <3>2 DEF DoneOk, Same
  <2>4. rid[u] \in Ids
    BY <2>2, <2>3 DEF LocalOk
  <2>5. ASSUME pc[u] = "wait", op[u] = "attach", NotGiven' PROVE backing'[rid[u]] # desc[u]
    <3>1. backlog' = 0
      BY <1>2, <1>7, <2>3, <2>5
    <3>2. answer' = "err"
      BY <1>2, <2>5, <3>1 DEF NotGiven
    <3>3. Refused(i, ty)
      BY <1>2, <3>2 DEF Executed
    <3>4. NotGiven
      BY <1>2 DEF NotGiven
    <3> QED BY <2>2, <2>3, <2>5, <3>3, <3>4 DEF DoneOk, Refused
  <2>6. ASSUME op[u] = "detach", Detaching(u)',
               NEW s \in findUserBacking(ClientOf[u], rid[u])
        PROVE  backing'[rid[u]] # Cell(ClientOf[u], s).desc
    <3>1. s \in Slots /\ ClientOf[u] \in Clients /\ Cell(ClientOf[u], s).id = rid[u]
      BY WinsysAssumption DEF findUserBacking, Cell
    <3>2. Cell(ClientOf[u], s).desc # NoDesc
      BY <1>0, <2>4, <3>1 DEF TableInv, Ids
    <3>3. CASE pc[u] = "wait"
      <4>1. ty = "detach" /\ i = rid[u]
        BY <1>7, <2>6, <3>3
      <4>2. CASE Executed(i, d, ty)
        BY <1>2, <1>3, <3>2, <4>1, <4>2
      <4>3. CASE Refused(i, ty)
        BY <1>0, <2>4, <3>2, <4>1, <4>3 DEF Refused, NamesInv
      <4> QED BY <1>2, <4>2, <4>3
    <3>4. CASE pc[u] \in Removing
      <4>1. backing[rid[u]] # Cell(ClientOf[u], s).desc
        BY <2>2, <2>3, <2>6, <3>4 DEF DoneOk, Detaching
      <4>2. CASE rid[u] # i \/ Refused(i, ty)
        BY <1>3, <2>4, <4>1, <4>2 DEF Refused
      <4>3. CASE rid[u] = i /\ Executed(i, d, ty)
        <5>1. CASE ty = "attach"
          <6>1. PICK w \in Threads : cmd.desc = desc[w]
            BY <1>5, <2>3, <4>3
          <6>2. Cell(ClientOf[u], s).desc # desc[w]
            BY <1>0, <3>1, <3>2 DEF TableInv
          <6> QED BY <1>2, <1>3, <4>3, <5>1, <6>1, <6>2
        <5>2. CASE ty # "attach"
          BY <1>2, <1>3, <3>2, <4>3, <5>2
        <5> QED BY <5>1, <5>2
      <4> QED BY <1>2, <4>2, <4>3
    <3> QED BY <2>2, <2>6, <3>3, <3>4 DEF Detaching, Same
  <2> QED BY <2>5, <2>6, Zenon
<1>11. DanglingExplained'
  <2>1. SUFFICES ASSUME NEW j \in host' \ suspect', backing'[j] # NoDesc, backing'[j] \notin wired'
                 PROVE  j \in exposed'
    BY Zenon DEF DanglingExplained
  <2>2. j \in Ids /\ j \notin suspect
    BY <1>1, <1>3, <2>1
  <2>3. CASE j # i \/ Refused(i, ty)
    BY <1>0, <1>1, <1>3, <2>1, <2>2, <2>3 DEF DanglingExplained, Refused
  <2>4. CASE j = i /\ Executed(i, d, ty)
    <3>1. d # NoDesc /\ d \in Descs /\ d = cmd.desc /\ d \notin wired
      BY <1>1, <1>2, <1>3, <2>1, <2>4
    <3>2. PICK w \in Threads : cmd.desc = desc[w]
      BY <1>5, <2>2, <2>4
    <3>3. d \in wired
      BY <1>0, <3>1, <3>2 DEF WiredInv, HeldBy
    <3> QED BY <3>1, <3>3
  <2> QED BY <1>2, <2>3, <2>4
<1> QED BY ONLY <1>1, <1>6, <1>8, <1>9, <1>10, <1>11, Zenon DEF Inv

-----------------------------------------------------------------------------
(* A connection ends.                                                      *)

LEMMA CloseKeeps ==
    ASSUME Inv, NEW c \in Clients, ~InCall(c), NEW x \in {"closed", "freed"},
           state' = [state EXCEPT ![c] = x], removeAllUserBackings(c),
           UNCHANGED <<channel, nextId, pc, locals, calls, device, suspect>>
    PROVE  Inv'
<1> DEFINE D == {table[c][s].desc : s \in Slots}
<1>0. /\ OtherTypes /\ ThreadTypes /\ ChannelTypeOK /\ SerialInv /\ LocalInv /\ TableInv
      /\ OneBackingPerResource /\ WiredInv /\ ChanInv /\ NamesInv /\ DoneInv /\ DanglingExplained
  BY InvTypes, Zenon DEF Inv
<1>1. /\ wired' = wired \ D /\ twice' = twice \cup ((D \ wired) \ {NoDesc})
      /\ table' = [table EXCEPT ![c] = [s \in Slots |-> FreeSlot]]
      /\ exposed' = exposed \cup ({table[c][s].id : s \in Slots} \ {0})
  BY DEF removeAllUserBackings, Release
<1>2. UNCHANGED <<channel, nextId, calls, host, backing, suspect>>
  BY Unchanged
<1>3. ThreadTypes' /\ \A u \in Threads : Same(u)
  BY <1>0, ThreadsStay
<1>4. \A u \in Threads : pc[u] # "idle" => ClientOf[u] # c
  BY DEF InCall
<1>5. /\ \A b \in Clients : b # c => table'[b] = table[b]
      /\ \A s \in Slots : Cell(c, s)' = FreeSlot
      /\ \A b \in Clients, s \in Slots : b # c => Cell(b, s)' = Cell(b, s)
  BY <1>0, <1>1 DEF OtherTypes, Cell
<1>6. calls \in Nat /\ Fewer /\ Quieter
  <2>1. Fewer
    BY <1>5 DEF Fewer
  <2> QED BY <1>0, <1>3, <2>1, WinsysAssumption DEF OtherTypes, Quieter, Same
<1>7. twice' = {}
  <2>1. ASSUME NEW s \in Slots, table[c][s].desc # NoDesc PROVE table[c][s].desc \in wired
    <3>1. Cell(c, s).desc \in Descs
      BY <1>0, <2>1, CellTypes DEF Cell
    <3>2. ~Dropping(c, s)
      BY <1>4 DEF Dropping
    <3>3. HeldBy(Cell(c, s).desc)
      BY <3>2 DEF HeldBy
    <3> QED BY <1>0, <3>1, <3>3 DEF WiredInv, Cell
  <2> QED BY <1>0, <1>1, <2>1 DEF WiredInv
<1>8. TypeOK'
  <2>1. FreeSlot \in [id : Ids \cup {0}, desc : Descs \cup {NoDesc}]
    BY DEF FreeSlot
  <2>2. {table[c][s].id : s \in Slots} \ {0} \subseteq Ids
    BY <1>0 DEF OtherTypes
  <2>3. OtherTypes'
    BY <1>0, <1>1, <1>2, <1>7, <2>1, <2>2 DEF OtherTypes
  <2>4. ChannelTypeOK'
    BY <1>0, <1>2, ChannelStays
  <2> QED BY <1>3, <2>3, <2>4, TypeParts, Zenon
           DEF TypeOK, OtherTypes, ThreadTypes, Places, Removing
<1>9. SerialInv'
  <2>1. \A u, v \in Threads :
           pc'[u] # "idle" /\ pc'[v] # "idle" /\ ClientOf[u] = ClientOf[v] => u = v
    BY <1>0, <1>3 DEF SerialInv, Same
  <2>2. \A u \in Threads : pc'[u] # "idle" => state'[ClientOf[u]] = "open"
    BY <1>0, <1>3, <1>4, WinsysAssumption DEF SerialInv, OtherTypes, Same
  <2>3. \A b \in Clients : state'[b] # "open" => \A s \in Slots : table'[b][s] = FreeSlot
    BY <1>0, <1>5 DEF SerialInv, OtherTypes, Cell
  <2> QED BY <2>1, <2>2, <2>3, Zenon DEF SerialInv, FreeSlot, NoDesc, Slots
<1>10. ASSUME NEW u \in Threads, pc[u] # "idle"
       PROVE  table'[ClientOf[u]] = table[ClientOf[u]]
  BY <1>4, <1>5, <1>10, WinsysAssumption
<1>11. LocalInv'
  <2>1. ASSUME NEW u \in Threads PROVE LocalOk(u)'
    <3>1. LocalOk(u) /\ Same(u) /\ calls <= calls' /\ calls' \in Nat
      BY <1>0, <1>2, <1>3, <1>6 DEF LocalInv
    <3> QED BY <1>0, <1>6, <1>10, <3>1, LocalSame, Zenon
  <2> QED BY <2>1, Zenon DEF LocalInv
<1>12. TableInv' /\ OneBackingPerResource'
  <2>1. calls' \in Nat /\ calls <= calls'
    BY <1>2, <1>6
  <2> QED BY <1>0, <1>6, <2>1, TableFewer
<1>13. WiredInv'
  <2>1. \A b \in Clients, s \in Slots : Dropping(b, s)' <=> Dropping(b, s)
    BY <1>3 DEF Dropping, Same
  <2>2. \A y \in Descs : y # NoDesc
    BY NoDescApart
  <2>3. \A y \in Descs : y \in D <=> \E s \in Slots : Cell(c, s).desc = y
    BY DEF Cell
  <2>4. \A b \in Clients, s \in Slots : Cell(b, s).desc \in D /\ Cell(b, s).desc # NoDesc => b = c
    BY <1>0 DEF TableInv, Cell
  <2>5. \A u \in Threads : desc'[u] = desc[u] /\ (desc[u] # NoDesc => desc[u] \notin D)
    BY <1>0, <1>3 DEF TableInv, Cell, Same
  <2>6. ASSUME NEW y \in Descs PROVE HeldBy(y)' <=> HeldBy(y) /\ y \notin D
    <3> HIDE DEF D
    <3>1. ASSUME NEW b \in Clients, NEW s \in Slots, ~Dropping(b, s)', Cell(b, s)'.desc = y
          PROVE  HeldBy(y) /\ y \notin D
      <4>1. b # c
        BY <1>5, <2>2, <3>1 DEF FreeSlot
      <4>2. Cell(b, s).desc = y /\ ~Dropping(b, s)
        BY <1>5, <2>1, <3>1, <4>1
      <4>3. y \notin D
        BY <2>2, <2>4, <4>1, <4>2
      <4> QED BY <4>2, <4>3 DEF HeldBy
    <3>2. ASSUME NEW b \in Clients, NEW s \in Slots, ~Dropping(b, s), Cell(b, s).desc = y, y \notin D
          PROVE  HeldBy(y)'
      <4>1. b # c
        BY <2>3, <3>2
      <4>2. Cell(b, s)'.desc = y /\ ~Dropping(b, s)'
        BY <1>5, <2>1, <3>2, <4>1
      <4> QED BY <4>2 DEF HeldBy
    <3>3. ASSUME NEW u \in Threads, desc'[u] = y PROVE HeldBy(y) /\ y \notin D
      BY <2>2, <2>5, <3>3 DEF HeldBy
    <3>4. ASSUME NEW u \in Threads, desc[u] = y PROVE HeldBy(y)'
      BY <2>5, <3>4 DEF HeldBy
    <3>5. HeldBy(y)' => HeldBy(y) /\ y \notin D
      BY <3>1, <3>3, Zenon DEF HeldBy
    <3>6. HeldBy(y) /\ y \notin D => HeldBy(y)'
      BY <3>2, <3>4, Zenon DEF HeldBy
    <3> QED BY <3>5, <3>6
  <2> HIDE DEF D
  <2> QED BY <1>0, <1>1, <1>7, <2>6 DEF WiredInv
<1>14. ChanInv'
  BY <1>0, <1>2, <1>3, ChanStays DEF Same
<1>15. NamesInv'
  <2>1. \A u \in Threads : pc'[u] = "send" /\ op'[u] = "attach" =>
           pc[u] = "send" /\ op[u] = "attach" /\ desc'[u] = desc[u]
    BY <1>3 DEF Same
  <2>2. UNCHANGED <<backing, host, cmd>> /\ calls' \in Nat /\ calls <= calls'
    BY <1>2, <1>6 DEF channel
  <2> QED BY <1>0, <1>6, <2>1, <2>2, NamesStays
<1>16. DoneInv'
  <2>1. UNCHANGED <<backing, backlog, answer>> /\ suspect \subseteq suspect'
    BY <1>2 DEF channel
  <2>2. ASSUME NEW u \in Threads PROVE DoneOk(u)'
    BY <1>0, <1>3, <1>10, <2>1, DoneSame DEF DoneInv
  <2> QED BY <2>2, Zenon DEF DoneInv
<1>17. DanglingExplained'
  <2>1. ASSUME NEW i \in host \ suspect', backing[i] # NoDesc, backing[i] \in D
        PROVE  i \in exposed'
    <3>1. i \in Ids
      BY <1>0, <2>1 DEF OtherTypes
    <3>2. PICK s \in Slots : table[c][s].desc = backing[i]
      BY <2>1
    <3>3. table[c][s].id = i
      BY <1>0, <2>1, <3>1, <3>2 DEF NamesInv, Names, Cell
    <3>4. i # 0
      BY <3>1 DEF Ids
    <3> QED BY <1>1, <3>3, <3>4
  <2>2. exposed \subseteq exposed'
    BY <1>1
  <2> HIDE DEF D
  <2> QED BY <1>0, <1>1, <1>2, <2>1, <2>2, DanglingDrop
<1> QED BY ONLY <1>8, <1>9, <1>11, <1>12, <1>13, <1>14, <1>15, <1>16, <1>17, Zenon DEF Inv

-----------------------------------------------------------------------------
(* The invariant.                                                          *)

\* A step that changes nothing.
LEMMA StutterKeeps ==
    ASSUME Inv, UNCHANGED vars
    PROVE  Inv'
<1>0. /\ OtherTypes /\ ThreadTypes /\ ChannelTypeOK /\ ChanInv /\ NamesInv /\ DoneInv
      /\ DanglingExplained
  BY InvTypes, Zenon DEF Inv
<1>1. UNCHANGED <<channel, tables, nextId, state, pc, locals, calls, device, ghost>>
  BY DEF vars
<1>2. /\ ThreadTypes' /\ SerialInv' /\ LocalInv' /\ TableInv' /\ OneBackingPerResource'
      /\ WiredInv'
      /\ UNCHANGED <<table, wired, twice, nextId, state, calls, suspect, exposed>>
      /\ \A u \in Threads : Same(u)
  BY <1>1, ThreadsAndTables
<1>3. UNCHANGED <<host, backing>>
  BY <1>1, Unchanged
<1>4. TypeOK'
  <2>1. OtherTypes'
    BY <1>0, <1>2, <1>3 DEF OtherTypes
  <2>2. ChannelTypeOK'
    BY <1>0, <1>1, ChannelStays
  <2> QED BY <1>2, <2>1, <2>2, TypeParts, Zenon
           DEF TypeOK, OtherTypes, ThreadTypes, Places, Removing
<1>5. ChanInv'
  BY <1>0, <1>1, <1>2, ChanStays DEF Same
<1>6. NamesInv'
  <2>1. \A u \in Threads : pc'[u] = "send" /\ op'[u] = "attach" =>
           pc[u] = "send" /\ op[u] = "attach" /\ desc'[u] = desc[u]
    BY <1>2 DEF Same
  <2>2. UNCHANGED <<backing, host, cmd>> /\ calls' \in Nat /\ calls <= calls'
    BY <1>0, <1>1, <1>2, <1>3, WinsysAssumption DEF channel, OtherTypes
  <2>3. Fewer /\ Quieter
    BY <1>2, FewerStays DEF Quieter, Same
  <2> QED BY <1>0, <2>1, <2>2, <2>3, NamesStays
<1>7. DoneInv'
  <2>1. UNCHANGED <<backing, backlog, answer>> /\ suspect \subseteq suspect' /\ UNCHANGED table
    BY <1>1, <1>2, <1>3 DEF channel
  <2>2. ASSUME NEW u \in Threads PROVE DoneOk(u)'
    BY <1>0, <1>2, <2>1, DoneSame DEF DoneInv
  <2> QED BY <2>2, Zenon DEF DoneInv
<1>8. DanglingExplained'
  BY <1>0, <1>2, <1>3, DanglingStays
<1> QED BY ONLY <1>2, <1>4, <1>5, <1>6, <1>7, <1>8, Zenon DEF Inv

LEMMA InitInv == Init => Inv
<1> SUFFICES ASSUME Init PROVE Inv
  OBVIOUS
<1>1. /\ cmd = NoCommand /\ backlog = 0 /\ waiting = FALSE
      /\ \A c \in Clients : state[c] = "open"
      /\ \A c \in Clients, s \in Slots : table[c][s] = FreeSlot
      /\ \A t \in Threads : /\ pc[t] = "idle" /\ op[t] = "create" /\ rid[t] = 0
                            /\ desc[t] = NoDesc /\ slot[t] = 0
      /\ \A i \in Ids : backing[i] = NoDesc
      /\ wired = {} /\ twice = {} /\ host = {}
  BY DEF Init, ChannelInit
<1>2. FreeSlot \in [id : Ids \cup {0}, desc : Descs \cup {NoDesc}]
  BY DEF FreeSlot
<1>3. TypeOK
  <2>1. ChannelTypeOK
    <3>1. backlog \in 0 .. MaxBacklog
      BY <1>1, ChannelAssumption
    <3> QED BY <1>1, <3>1, Zenon DEF Init, ChannelInit, ChannelTypeOK, Answers
  <2>2. ThreadTypes
    BY DEF Init, ThreadTypes, Places, Ops
  <2>3. OtherTypes
    BY <1>2, WinsysAssumption DEF Init, OtherTypes
  <2> QED BY <2>1, <2>2, <2>3, TypeParts
<1>4. SerialInv
  BY <1>1 DEF SerialInv
<1>5. LocalInv
  BY <1>1 DEF LocalInv, LocalOk, Removing
<1>6. TableInv /\ OneBackingPerResource
  BY <1>1 DEF TableInv, OneBackingPerResource, FreeSlot, Cell
<1>7. WiredInv
  BY <1>1, NoDescApart DEF WiredInv, HeldBy, FreeSlot, Cell
<1>8. ChanInv
  BY <1>1 DEF ChanInv
<1>9. NamesInv
  BY <1>1 DEF NamesInv
<1>10. DoneInv /\ DanglingExplained
  BY <1>1 DEF DoneInv, DoneOk, DanglingExplained
<1> QED BY ONLY <1>3, <1>4, <1>5, <1>6, <1>7, <1>8, <1>9, <1>10, Zenon DEF Inv

\* The actions of Next, one by one.
LEMMA NextKeeps ==
    ASSUME Inv, Serial, [Next]_vars
    PROVE  Inv'
<1>1. ASSUME NEW t \in Threads, Call(t) PROVE Inv'
  <2>1. CASE createResource3DEx(t)
    BY <2>1, CreateKeeps
  <2>2. ASSUME NEW i \in Ids, attachBackingUser(t, i) PROVE Inv'
    BY <2>2, AttachKeeps
  <2>3. ASSUME NEW i \in Ids, detachBackingUser(t, i) PROVE Inv'
    BY <2>3, DetachKeeps
  <2>4. ASSUME NEW i \in Ids, resourceUnref(t, i) PROVE Inv'
    BY <2>4, UnrefKeeps
  <2> QED BY <1>1, <2>1, <2>2, <2>3, <2>4, Zenon DEF Call
<1>2. ASSUME NEW t \in Threads, Step(t) PROVE Inv'
  BY <1>2, BumpKeeps, SendCommandKeeps, FinishKeeps, DetachedKeeps, AttachedKeeps, AddScanKeeps,
     AddStoreKeeps, RemoveFindKeeps, RemoveDropKeeps, RemoveClearKeeps, Zenon DEF Step
<1>3. ASSUME NEW c \in Clients, clientClose(c) PROVE Inv'
  BY <1>3, CloseKeeps DEF clientClose
<1>4. ASSUME NEW c \in Clients, free(c) PROVE Inv'
  BY <1>4, CloseKeeps DEF free
<1>5. CASE DevExecute \/ DevPush
  BY <1>5, DevExecuteKeeps, DevPushKeeps
<1>6. CASE UNCHANGED vars
  BY <1>6, StutterKeeps
<1> QED BY <1>1, <1>2, <1>3, <1>4, <1>5, <1>6, Zenon DEF Next, Finished

LEMMA SpecInv ==
    ASSUME Serial
    PROVE  Spec => []Inv
<1>1. Inv /\ [Next]_vars => Inv'
  BY NextKeeps
<1> QED BY InitInv, <1>1, PTL DEF Spec

-----------------------------------------------------------------------------
(* The theorems.                                                           *)

\* While each client makes one call at a time, the tables are well typed, a
\* client has one backing per resource, and a descriptor is wired exactly as
\* long as a slot or a running call holds it: attachBackingUser,
\* detachBackingUser, resourceUnref and removeAllUserBackings, with every
\* timeout, a full table and a connection closed at any time.
THEOREM BackingsTheorem ==
    ASSUME Serial
    PROVE  Spec => []BackingsAccounted
<1>1. Inv => BackingsAccounted
  BY WiredMeans, Zenon DEF Inv, BackingsAccounted
<1> QED BY <1>1, SpecInv, PTL

\* For a resource above suspicion, the device keeps pages that are not wired
\* only where addUserBacking met a full table, resourceUnref released a
\* backing that was still attached, or the connection was closed.
THEOREM DanglingTheorem ==
    ASSUME Serial
    PROVE  Spec => []DanglingExplained
<1>1. Inv => DanglingExplained
  BY Zenon DEF Inv
<1> QED BY <1>1, SpecInv, PTL

\* What the comment on removeAllUserBackings says of a client that dies with
\* resources attached holds while its calls do not overlap its closing: once
\* it is freed, none of its pages is wired.
THEOREM FreedTheorem ==
    ASSUME Serial
    PROVE  Spec => []NoWiredAfterFree
<1>1. ASSUME Inv PROVE NoWiredAfterFree
  <2>0. /\ OtherTypes /\ ThreadTypes /\ SerialInv /\ LocalInv /\ TableInv /\ WiredInv
    BY <1>1, InvTypes, Zenon DEF Inv
  <2>1. SUFFICES ASSUME NEW c \in Clients, state[c] = "freed", NEW d \in wired, d[1] = c
                 PROVE  FALSE
    BY DEF NoWiredAfterFree
  <2>2. d \in Descs /\ HeldBy(d) /\ d # NoDesc
    BY <2>0, NoDescApart DEF WiredInv, OtherTypes
  <2>3. ASSUME NEW b \in Clients, NEW s \in Slots, Cell(b, s).desc = d PROVE FALSE
    <3>1. b = c
      BY <2>0, <2>1, <2>2, <2>3 DEF TableInv
    <3> QED BY <2>0, <2>1, <2>2, <2>3, <3>1 DEF SerialInv, FreeSlot, Cell
  <2>4. ASSUME NEW t \in Threads, desc[t] = d PROVE FALSE
    BY <2>0, <2>1, <2>2, <2>4, WinsysAssumption DEF LocalInv, LocalOk, SerialInv
  <2> QED BY <2>2, <2>3, <2>4, Zenon DEF HeldBy
<1> QED BY <1>1, SpecInv, PTL
=============================================================================
