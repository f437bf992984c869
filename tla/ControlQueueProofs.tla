------------------------- MODULE ControlQueueProofs -------------------------
(***************************************************************************)
(* Proofs about the control queue for any queue size, any index width, any *)
(* number of callers and any backlog the indices can tell apart: its       *)
(* safety properties, and that it implements the command channel.          *)
(***************************************************************************)
EXTENDS ControlQueueRefinement, TLAPS

\* A step of the specification is one of these actions.
LEMMA NextCases ==
    ASSUME Next
    PROVE  \/ \E t \in Threads :
                \/ Enter(t) \/ Lock(t) \/ Drain(t) \/ Pop(t) \/ Copy(t)
                \/ CopyFails(t) \/ Fill(t) \/ Publish(t) \/ Notify(t)
                \/ NotifyMissing(t) \/ PollSees(t) \/ TimesOut(t) \/ Complete(t)
           \/ DevTake \/ DevExecute \/ DevPush
           \/ UNCHANGED vars
BY DEF Next, Submitter, Device, Finished

\* Ring indices and slots stay in range.
LEMMA IndexTypes ==
    /\ 0 \in Descs /\ 0 \in Idx
    /\ \A i \in Idx : Inc(i) \in Idx
    /\ \A i \in Idx : Slot(i) \in Descs
BY VringAssumption DEF Descs, Idx, Inc, Slot

\* What the free-list operators do to the list the set-up built.
LEMMA FreeListFacts ==
    /\ FreshFreeList \in FreeLists
    /\ Size < 2 => /\ FreshFreeList.next[0] = EndOfList
                   /\ PushFree(PopFree(FreshFreeList), 0) = FreshFreeList
    /\ Size >= 2 => /\ FreshFreeList.next[0] = 1
                    /\ PopFree(PopFree(FreshFreeList)) = HeldFreeList
                    /\ ReturnChain(HeldFreeList, 0, 1) = FreshFreeList
<1>1. FreshFreeList \in FreeLists
  BY VringAssumption DEF FreshFreeList, FreeLists, Descs, EndOfList
<1> DEFINE F == FreshFreeList.next
<1>2. /\ F \in [Descs -> Descs \cup {EndOfList}]
      /\ FreshFreeList = [head |-> 0, next |-> F]
      /\ 0 \in Descs
      /\ Size < 2 => F[0] = EndOfList
      /\ Size >= 2 => 1 \in Descs /\ F[0] = 1
  BY VringAssumption DEF FreshFreeList, Descs, EndOfList
<1> HIDE DEF F
<1>3. ASSUME Size < 2
      PROVE  PushFree(PopFree(FreshFreeList), 0) = FreshFreeList
  <2>1. [F EXCEPT ![0] = F[0]] = F
    BY <1>2
  <2>2. PushFree(PopFree(FreshFreeList), 0) = [head |-> 0, next |-> [F EXCEPT ![0] = F[0]]]
    BY <1>2 DEF PushFree, PopFree
  <2> QED BY <1>2, <2>1, <2>2
<1>4. ASSUME Size >= 2
      PROVE  PopFree(PopFree(FreshFreeList)) = HeldFreeList
  BY <1>2, <1>4 DEF PopFree, HeldFreeList
<1>5. ASSUME Size >= 2
      PROVE  ReturnChain(HeldFreeList, 0, 1) = FreshFreeList
  <2>1. HeldFreeList = [head |-> F[1], next |-> F]
    BY <1>2 DEF HeldFreeList
  <2>2. PushFree(HeldFreeList, 1) = [head |-> 1, next |-> [F EXCEPT ![1] = F[1]]]
    BY <2>1 DEF PushFree
  <2>3. [F EXCEPT ![1] = F[1]] = F
    BY <1>2
  <2>4. PushFree(PushFree(HeldFreeList, 1), 0) = [head |-> 0, next |-> [F EXCEPT ![0] = 1]]
    BY <2>2, <2>3 DEF PushFree
  <2>5. [F EXCEPT ![0] = 1] = F
    BY <1>2, <1>5
  <2> QED BY <1>2, <2>4, <2>5 DEF ReturnChain
<1>6. (Size < 2 => FreshFreeList.next[0] = EndOfList)
      /\ (Size >= 2 => FreshFreeList.next[0] = 1)
  BY <1>2 DEF F
<1> QED BY <1>1, <1>3, <1>4, <1>5, <1>6

-----------------------------------------------------------------------------
\* The initial state is well typed.
LEMMA InitTypeOK == Init => TypeOK
<1> SUFFICES ASSUME Init PROVE TypeOK
  OBVIOUS
<1>1. free \in FreeLists
  BY FreeListFacts DEF Init
<1> QED
  BY <1>1, IndexTypes, ControlQueueAssumption
  DEF Init, TypeOK, ZeroDesc, NoChain, Static, Submissions, Locked, Codes

\* Giving a chain back keeps the free list well typed.
LEMMA FreeTypes ==
    ASSUME NEW fl \in FreeLists,
           NEW c \in Descs, NEW r \in Descs
    PROVE  /\ PushFree(fl, c) \in FreeLists
           /\ PopFree(fl) \in FreeLists \/ fl.head = EndOfList
           /\ ReturnChain(fl, c, r) \in FreeLists
<1>1. \A d \in Descs, g \in FreeLists : PushFree(g, d) \in FreeLists
  BY DEF PushFree, FreeLists
<1>2. PopFree(fl) \in FreeLists \/ fl.head = EndOfList
  BY DEF PopFree, FreeLists
<1> QED BY <1>1, <1>2 DEF ReturnChain

\* Every action keeps the variables in their types.
LEMMA NextTypeOK == TypeOK /\ [Next]_vars => TypeOK'
<1> SUFFICES ASSUME TypeOK, [Next]_vars PROVE TypeOK'
  OBVIOUS
<1> USE IndexTypes, ControlQueueAssumption
<1>0. CASE UNCHANGED vars
  BY <1>0 DEF TypeOK, vars, driver, device, locals, ghosts
<1>1. ASSUME NEW t \in Threads, Enter(t) PROVE TypeOK'
  BY <1>1, ControlQueueAssumption
  DEF TypeOK, Enter, driver, device, ghosts, Submissions, Locked, Codes
<1>2. ASSUME NEW t \in Threads, Lock(t) PROVE TypeOK'
  BY <1>2 DEF TypeOK, Lock, device, ghosts, Locked
<1>3. ASSUME NEW t \in Threads, Drain(t) PROVE TypeOK'
  BY <1>3 DEF TypeOK, Drain, device, Locked
<1>4. ASSUME NEW t \in Threads, Pop(t) PROVE TypeOK'
  <2> DEFINE c == free.head
             r == free.next[c]
  <2>1. CASE c # EndOfList /\ r # EndOfList
    <3>1. c \in Descs /\ r \in Descs
      BY <2>1 DEF TypeOK, FreeLists
    <3>2. PopFree(PopFree(free)) \in FreeLists
      BY <2>1, <3>1 DEF TypeOK, FreeLists, PopFree
    <3> QED BY <1>4, <2>1, <3>1, <3>2 DEF TypeOK, Pop, device, ghosts, Locked
  <2>2. CASE ~(c # EndOfList /\ r # EndOfList)
    <3>1. free' \in FreeLists
      BY <1>4, <2>2, FreeTypes DEF TypeOK, Pop, FreeLists, PopFree, PushFree
    <3>2. Return(t, "NoResources")
      BY <1>4, <2>2 DEF Pop
    <3>3. UNCHANGED <<lastUsed, availIdx, availRing, desc, cmdBuf, temp, device,
                      notifyMapped, seq, ghosts>>
      BY <1>4 DEF Pop
    <3> QED BY <3>1, <3>2, <3>3 DEF TypeOK, Return, device, ghosts, Locked, Codes
  <2> QED BY <2>1, <2>2
<1>5. ASSUME NEW t \in Threads, Copy(t) PROVE TypeOK'
  BY <1>5 DEF TypeOK, Copy, device, ghosts, Locked
<1>6. ASSUME NEW t \in Threads, CopyFails(t) PROVE TypeOK'
  <2>1. free' \in FreeLists
    BY <1>6, FreeTypes DEF TypeOK, CopyFails
  <2> QED BY <1>6, <2>1 DEF TypeOK, CopyFails, Return, device, ghosts, Locked, Codes
<1>7. ASSUME NEW t \in Threads, Fill(t) PROVE TypeOK'
  BY <1>7 DEF TypeOK, Fill, device, ghosts, Locked, ZeroDesc
<1>8. ASSUME NEW t \in Threads, Publish(t) PROVE TypeOK'
  BY <1>8 DEF TypeOK, Publish, device, ghosts, Locked
<1>9. ASSUME NEW t \in Threads, Notify(t) PROVE TypeOK'
  BY <1>9 DEF TypeOK, Notify, driver, device, ghosts, Locked
<1>10. ASSUME NEW t \in Threads, NotifyMissing(t) PROVE TypeOK'
  <2>1. free' \in FreeLists
    BY <1>10, FreeTypes DEF TypeOK, NotifyMissing
  <2> QED BY <1>10, <2>1 DEF TypeOK, NotifyMissing, Return, device, Locked, Codes
<1>11. ASSUME NEW t \in Threads, PollSees(t) PROVE TypeOK'
  BY <1>11 DEF TypeOK, PollSees, driver, device, ghosts, Locked
<1>12. ASSUME NEW t \in Threads, TimesOut(t) PROVE TypeOK'
  <2>1. free' \in FreeLists
    BY <1>12, FreeTypes DEF TypeOK, TimesOut
  <2> QED BY <1>12, <2>1 DEF TypeOK, TimesOut, Return, device, Locked, Codes
<1>13. ASSUME NEW t \in Threads, Complete(t) PROVE TypeOK'
  <2>1. free' \in FreeLists
    BY <1>13, FreeTypes DEF TypeOK, Complete
  <2> QED BY <1>13, <2>1 DEF TypeOK, Complete, Return, Classify, device, Locked, Codes
<1>14. CASE DevTake
  BY <1>14 DEF TypeOK, DevTake, driver, locals, ghosts
<1>15. CASE DevExecute
  BY <1>15 DEF TypeOK, DevExecute, BytesAt, driver, locals, ghosts, Static, Garbage
<1>16. CASE DevPush
  BY <1>16 DEF TypeOK, DevPush, driver, locals, ghosts, NoChain
<1> QED
  BY <1>0, <1>1, <1>2, <1>3, <1>4, <1>5, <1>6, <1>7, <1>8, <1>9, <1>10, <1>11,
     <1>12, <1>13, <1>14, <1>15, <1>16, NextCases

\* The variables of submitCommand and of the device keep their types.
THEOREM TypeCorrect == Spec => []TypeOK
BY InitTypeOK, NextTypeOK, PTL DEF Spec

-----------------------------------------------------------------------------
\* Each action moves pc and the lock together.
LEMMA NextLockInv == TypeOK /\ LockInv /\ [Next]_vars => LockInv'
<1> SUFFICES ASSUME TypeOK, LockInv, [Next]_vars PROVE LockInv'
  OBVIOUS
<1> USE ControlQueueAssumption DEF Locked
<1>0. CASE UNCHANGED vars
  BY <1>0 DEF LockInv, vars, driver, locals
<1>1. ASSUME NEW t \in Threads, Enter(t) PROVE LockInv'
  BY <1>1 DEF LockInv, TypeOK, Enter, driver
<1>2. ASSUME NEW t \in Threads, Lock(t) PROVE LockInv'
  BY <1>2 DEF LockInv, TypeOK, Lock
<1>3. ASSUME NEW t \in Threads, Drain(t) PROVE LockInv'
  BY <1>3 DEF LockInv, TypeOK, Drain
<1>4. ASSUME NEW t \in Threads, Pop(t) PROVE LockInv'
  <2>1. \/ pc' = [pc EXCEPT ![t] = "copy"] /\ UNCHANGED lock
        \/ Return(t, "NoResources")
    BY <1>4 DEF Pop
  <2> QED BY <1>4, <2>1 DEF LockInv, TypeOK, Pop, Return
<1>5. ASSUME NEW t \in Threads, Copy(t) PROVE LockInv'
  BY <1>5 DEF LockInv, TypeOK, Copy
<1>6. ASSUME NEW t \in Threads, CopyFails(t) PROVE LockInv'
  BY <1>6 DEF LockInv, TypeOK, CopyFails, Return
<1>7. ASSUME NEW t \in Threads, Fill(t) PROVE LockInv'
  BY <1>7 DEF LockInv, TypeOK, Fill
<1>8. ASSUME NEW t \in Threads, Publish(t) PROVE LockInv'
  BY <1>8 DEF LockInv, TypeOK, Publish
<1>9. ASSUME NEW t \in Threads, Notify(t) PROVE LockInv'
  BY <1>9 DEF LockInv, TypeOK, Notify, driver
<1>10. ASSUME NEW t \in Threads, NotifyMissing(t) PROVE LockInv'
  BY <1>10 DEF LockInv, TypeOK, NotifyMissing, Return
<1>11. ASSUME NEW t \in Threads, PollSees(t) PROVE LockInv'
  BY <1>11 DEF LockInv, TypeOK, PollSees, driver
<1>12. ASSUME NEW t \in Threads, TimesOut(t) PROVE LockInv'
  BY <1>12 DEF LockInv, TypeOK, TimesOut, Return
<1>13. ASSUME NEW t \in Threads, Complete(t) PROVE LockInv'
  BY <1>13 DEF LockInv, TypeOK, Complete, Return
<1>14. CASE DevTake \/ DevExecute \/ DevPush
  BY <1>14 DEF LockInv, DevTake, DevExecute, DevPush, driver, locals
<1> QED
  BY <1>0, <1>1, <1>2, <1>3, <1>4, <1>5, <1>6, <1>7, <1>8, <1>9, <1>10, <1>11,
     <1>12, <1>13, <1>14, NextCases

\* Every exit path restores the free list, so 0 and 1 are the descriptors of
\* every call.
LEMMA NextDescInv == TypeOK /\ LockInv /\ DescInv /\ [Next]_vars => DescInv'
<1> SUFFICES ASSUME TypeOK, LockInv, DescInv, [Next]_vars PROVE DescInv'
  OBVIOUS
<1> USE DEF Locked, Holding
\* Two threads are never in the critical section together.
<1>a. ASSUME NEW t \in Threads, NEW u \in Threads, pc[t] \in Locked, pc[u] \in Locked
      PROVE  t = u
  BY <1>a DEF LockInv
<1>b. ASSUME NEW t \in Threads, pc[t] \in Holding
      PROVE  /\ ReturnChain(free, cmdDesc[t], respDesc[t]) = FreshFreeList
             /\ Size >= 2
  BY <1>b, FreeListFacts DEF DescInv
\* A call that gives its chain back leaves the list the set-up built.
<1>c. ASSUME NEW t \in Threads, pc[t] \in Holding, NEW code \in Codes \ {"NoResources"},
             Return(t, code), free' = ReturnChain(free, cmdDesc[t], respDesc[t]),
             UNCHANGED <<availRing, usedRing, devChain>>
      PROVE  DescInv'
  <2>1. free' = FreshFreeList
    BY <1>b, <1>c
  <2>2. \A u \in Threads : pc'[u] \notin Holding
    BY <1>a, <1>c DEF Return, TypeOK
  <2>3. NeverExhausted'
    BY <1>c DEF NeverExhausted, DescInv, Return, TypeOK
  <2> QED BY <1>c, <2>1, <2>2, <2>3 DEF DescInv
\* A step inside the critical section that leaves the list alone.
<1>d. ASSUME NEW t \in Threads, pc[t] \in Holding,
             UNCHANGED <<free, cmdDesc, respDesc, ret>>,
             NEW q \in Holding, pc' = [pc EXCEPT ![t] = q]
      PROVE  /\ (\A u \in Threads : pc'[u] \notin Holding) => free' = FreshFreeList
             /\ \A u \in Threads : pc'[u] \in Holding =>
                   /\ Size >= 2
                   /\ free' = HeldFreeList
                   /\ cmdDesc'[u] = 0 /\ respDesc'[u] = 1
             /\ NeverExhausted'
  BY <1>a, <1>d DEF DescInv, TypeOK, NeverExhausted
<1>0. CASE UNCHANGED vars
  BY <1>0 DEF DescInv, NeverExhausted, vars, driver, device, locals
<1>1. ASSUME NEW t \in Threads, Enter(t) PROVE DescInv'
  BY <1>1 DEF DescInv, NeverExhausted, TypeOK, Enter, driver, device
<1>2. ASSUME NEW t \in Threads, Lock(t) PROVE DescInv'
  BY <1>2 DEF DescInv, NeverExhausted, TypeOK, Lock, device
<1>3. ASSUME NEW t \in Threads, Drain(t) PROVE DescInv'
  BY <1>3 DEF DescInv, NeverExhausted, TypeOK, Drain, device
<1>4. ASSUME NEW t \in Threads, Pop(t) PROVE DescInv'
  <2>1. \A u \in Threads : pc[u] \notin Holding
    BY <1>a, <1>4 DEF Pop
  <2>2. free = FreshFreeList /\ free.head = 0
    BY <2>1 DEF DescInv, FreshFreeList
  <2>3. UNCHANGED <<availRing, usedRing, devChain>>
    BY <1>4 DEF Pop, device
  <2>4. CASE Size >= 2
    <3>1. free.next[0] = 1 /\ 0 # EndOfList /\ 1 # EndOfList
      BY <2>2, <2>4, FreeListFacts DEF EndOfList
    <3>2. /\ free' = HeldFreeList
          /\ cmdDesc' = [cmdDesc EXCEPT ![t] = 0]
          /\ respDesc' = [respDesc EXCEPT ![t] = 1]
          /\ pc' = [pc EXCEPT ![t] = "copy"]
          /\ UNCHANGED ret
      BY <1>4, <2>2, <2>4, <3>1, FreeListFacts DEF Pop
    <3> QED BY <2>1, <2>3, <2>4, <3>2 DEF DescInv, NeverExhausted, TypeOK
  <2>5. CASE ~(Size >= 2)
    <3>1. free.next[0] = EndOfList /\ 0 # EndOfList
      BY <2>2, <2>5, FreeListFacts, VringAssumption DEF EndOfList
    <3>2. free' = FreshFreeList /\ Return(t, "NoResources")
      BY <1>4, <2>2, <2>5, <3>1, FreeListFacts, VringAssumption DEF Pop
    <3> QED BY <2>1, <2>3, <2>5, <3>2 DEF DescInv, NeverExhausted, Return, TypeOK
  <2> QED BY <2>4, <2>5
<1>5. ASSUME NEW t \in Threads, Copy(t) PROVE DescInv'
  BY <1>5, <1>d DEF DescInv, Copy, device
<1>6. ASSUME NEW t \in Threads, CopyFails(t) PROVE DescInv'
  BY <1>6, <1>c DEF CopyFails, device, Codes
<1>7. ASSUME NEW t \in Threads, Fill(t) PROVE DescInv'
  BY <1>7, <1>d DEF DescInv, Fill, device
<1>8. ASSUME NEW t \in Threads, Publish(t) PROVE DescInv'
  <2>1. cmdDesc[t] = 0
    BY <1>8 DEF Publish, DescInv
  <2>2. \A s \in Descs : availRing'[s] = 0 /\ usedRing'[s] = 0
    BY <1>8, <2>1 DEF Publish, DescInv, TypeOK, device
  <2>3. UNCHANGED <<free, cmdDesc, respDesc, ret, devChain>> /\ pc' = [pc EXCEPT ![t] = "notify"]
    BY <1>8 DEF Publish, device
  <2> QED BY <1>8, <1>d, <2>2, <2>3 DEF DescInv, Publish
<1>9. ASSUME NEW t \in Threads, Notify(t) PROVE DescInv'
  BY <1>9, <1>d DEF DescInv, Notify, driver, device
<1>10. ASSUME NEW t \in Threads, NotifyMissing(t) PROVE DescInv'
  BY <1>10, <1>c DEF NotifyMissing, device, Codes
<1>11. ASSUME NEW t \in Threads, PollSees(t) PROVE DescInv'
  BY <1>11, <1>d DEF DescInv, PollSees, driver, device
<1>12. ASSUME NEW t \in Threads, TimesOut(t) PROVE DescInv'
  BY <1>12, <1>c DEF TimesOut, device, Codes
<1>13. ASSUME NEW t \in Threads, Complete(t) PROVE DescInv'
  BY <1>13, <1>c DEF Complete, Classify, device, Codes
<1>14. CASE DevTake
  <2>1. availRing[Slot(devIdx)] = 0
    BY IndexTypes DEF DescInv, TypeOK
  <2> QED BY <1>14, <2>1 DEF DescInv, NeverExhausted, DevTake, driver, locals
<1>15. CASE DevExecute
  BY <1>15 DEF DescInv, NeverExhausted, DevExecute, driver, locals
<1>16. CASE DevPush
  <2>1. devChain # NoChain
    BY <1>16 DEF DevPush, NoChain
  <2>2. \A s \in Descs : usedRing'[s] = 0
    BY <1>16, <2>1, IndexTypes DEF DescInv, DevPush, TypeOK
  <2> QED BY <1>16, <2>2 DEF DescInv, NeverExhausted, DevPush, driver, locals
<1> QED
  BY <1>0, <1>1, <1>2, <1>3, <1>4, <1>5, <1>6, <1>7, <1>8, <1>9, <1>10, <1>11,
     <1>12, <1>13, <1>14, <1>15, <1>16, NextCases

\* Lock and descriptors hold along every behaviour.
LEMMA DescAlways == Spec => [](TypeOK /\ LockInv /\ DescInv)
<1>1. Init => LockInv
  BY ControlQueueAssumption DEF Init, LockInv, Locked
<1>2. Init => DescInv
  BY DEF Init, DescInv, Holding, NeverExhausted
<1> QED BY <1>1, <1>2, InitTypeOK, NextTypeOK, NextLockInv, NextDescInv, PTL DEF Spec

\* Between calls the free list of submitCommand is complete and in order.
THEOREM FreeListTheorem == Spec => []FreeListIntact
<1>1. TypeOK /\ LockInv /\ DescInv => FreeListIntact
  BY ControlQueueAssumption DEF LockInv, DescInv, FreeListIntact, Locked, Holding
<1> QED BY <1>1, DescAlways, PTL

\* The used_elem->id check of submitCommand never sees a mismatch.
THEOREM IdCheckTheorem == Spec => []IdCheckBlind
<1>1. TypeOK /\ LockInv /\ DescInv => IdCheckBlind
  BY IndexTypes DEF TypeOK, DescInv, IdCheckBlind, Holding
<1> QED BY <1>1, DescAlways, PTL

\* With two descriptors or more, submitCommand never runs out of them.
THEOREM NeverExhaustedTheorem == Spec => []NeverExhausted
<1>1. DescInv => NeverExhausted
  BY DEF DescInv
<1> QED BY <1>1, DescAlways, PTL

-----------------------------------------------------------------------------
\* Cyclic distances between ring indices.
LEMMA DistFacts ==
    /\ \A a, b \in Idx : Dist(a, b) \in Idx /\ (Dist(a, b) = 0 <=> a = b)
    /\ \A a, b \in Idx : Dist(a, b) < IdxMod - 1 => Dist(Inc(a), b) = Dist(a, b) + 1
    /\ \A a, b \in Idx : Dist(a, b) > 0 => Dist(a, Inc(b)) = Dist(a, b) - 1
    /\ \A a, b \in Idx : Dist(a, b) = 1 <=> a = Inc(b) /\ a # b
BY VringAssumption DEF Dist, Inc, Idx

\* The cyclic order used <= device <= avail is kept.
LEMMA NextIndexInv == TypeOK /\ LockInv /\ IndexInv /\ [Next]_vars => IndexInv'
<1> SUFFICES ASSUME TypeOK, LockInv, IndexInv, [Next]_vars PROVE IndexInv'
  OBVIOUS
<1> USE DEF Locked, Unpublished
<1>a. ASSUME NEW t \in Threads, NEW u \in Threads, pc[t] \in Locked, pc[u] \in Locked
      PROVE  t = u
  BY <1>a DEF LockInv
\* A step that leaves the indices alone and starts no call.
<1>b. ASSUME UNCHANGED <<devIdx, usedIdx, availIdx, devChain>>,
             \A u \in Threads : pc'[u] \in Unpublished \cup {"drain"} =>
                                  pc[u] \in Unpublished \cup {"drain"}
      PROVE  IndexInv'
  BY <1>b DEF IndexInv, Outstanding
<1>0. CASE UNCHANGED vars
  BY <1>0, <1>b DEF vars, driver, device, locals
<1>1. ASSUME NEW t \in Threads, Enter(t) PROVE IndexInv'
  BY <1>1, <1>b DEF TypeOK, Enter, device, driver
<1>2. ASSUME NEW t \in Threads, Lock(t) PROVE IndexInv'
  BY <1>2 DEF IndexInv, Outstanding, TypeOK, Lock, device
<1>3. ASSUME NEW t \in Threads, Drain(t) PROVE IndexInv'
  BY <1>3, <1>b DEF TypeOK, Drain, device
<1>4. ASSUME NEW t \in Threads, Pop(t) PROVE IndexInv'
  <2>1. \/ pc' = [pc EXCEPT ![t] = "copy"]
        \/ pc' = [pc EXCEPT ![t] = "idle"]
    BY <1>4 DEF Pop, Return
  <2> QED BY <1>4, <1>b, <2>1 DEF TypeOK, Pop, device
<1>5. ASSUME NEW t \in Threads, Copy(t) PROVE IndexInv'
  BY <1>5, <1>b DEF TypeOK, Copy, device
<1>6. ASSUME NEW t \in Threads, CopyFails(t) PROVE IndexInv'
  BY <1>6, <1>b DEF TypeOK, CopyFails, device, Return
<1>7. ASSUME NEW t \in Threads, Fill(t) PROVE IndexInv'
  BY <1>7, <1>b DEF TypeOK, Fill, device
<1>8. ASSUME NEW t \in Threads, Publish(t) PROVE IndexInv'
  <2>1. Outstanding < MaxOutstanding
    BY <1>8 DEF Publish, IndexInv
  <2>2. Dist(Inc(availIdx), usedIdx) = Dist(availIdx, usedIdx) + 1
    BY <2>1, DistFacts, ControlQueueAssumption, VringAssumption DEF TypeOK, Outstanding, Idx
  <2>3. \A u \in Threads : pc'[u] \notin Unpublished \cup {"drain"}
    BY <1>8, <1>a DEF Publish, TypeOK
  <2>4. UNCHANGED <<devIdx, usedIdx, devChain>> /\ availIdx' = Inc(availIdx)
    BY <1>8 DEF Publish, device
  <2>5. Dist(devIdx, usedIdx) \in Int /\ Dist(availIdx, usedIdx) \in Int
    BY DistFacts, VringAssumption DEF TypeOK, Idx
  <2> QED BY <2>1, <2>2, <2>3, <2>4, <2>5, ControlQueueAssumption DEF IndexInv, Outstanding
<1>9. ASSUME NEW t \in Threads, Notify(t) PROVE IndexInv'
  BY <1>9, <1>b DEF TypeOK, Notify, device, driver
<1>10. ASSUME NEW t \in Threads, NotifyMissing(t) PROVE IndexInv'
  BY <1>10, <1>b DEF TypeOK, NotifyMissing, device, Return
<1>11. ASSUME NEW t \in Threads, PollSees(t) PROVE IndexInv'
  BY <1>11, <1>b DEF TypeOK, PollSees, device, driver
<1>12. ASSUME NEW t \in Threads, TimesOut(t) PROVE IndexInv'
  BY <1>12, <1>b DEF TypeOK, TimesOut, device, Return
<1>13. ASSUME NEW t \in Threads, Complete(t) PROVE IndexInv'
  BY <1>13, <1>b DEF TypeOK, Complete, device, Return
<1>14. CASE DevTake
  <2>1. devIdx = usedIdx /\ devIdx # availIdx
    BY <1>14, DistFacts DEF DevTake, IndexInv, TypeOK
  <2>2. Dist(Inc(devIdx), usedIdx) = 1 /\ Outstanding >= 1
    <3>1. devIdx # Inc(devIdx)
      BY <2>1, VringAssumption DEF Inc, TypeOK, Idx
    <3>2. Outstanding \in Idx /\ Outstanding # 0
      BY <2>1, DistFacts DEF TypeOK, Outstanding
    <3> QED BY <2>1, <3>1, <3>2, DistFacts, IndexTypes, VringAssumption DEF TypeOK, Idx
  <2>3. devChain' # NoChain
    <3>1. availRing[Slot(devIdx)] # EndOfList
      BY IndexTypes DEF TypeOK, Descs, EndOfList
    <3> QED BY <1>14, <3>1 DEF DevTake, NoChain
  <2> QED BY <1>14, <2>2, <2>3 DEF IndexInv, Outstanding, DevTake, driver, locals
<1>15. CASE DevExecute
  <2>1. devChain' # NoChain /\ devChain # NoChain
    BY <1>15 DEF DevExecute, NoChain
  <2>2. UNCHANGED <<devIdx, usedIdx, availIdx, pc>>
    BY <1>15 DEF DevExecute, driver, locals
  <2> QED BY <2>1, <2>2 DEF IndexInv, Outstanding
<1>16. CASE DevPush
  <2>1. devChain # NoChain /\ devChain' = NoChain
    BY <1>16 DEF DevPush, NoChain
  <2>2. Dist(devIdx, usedIdx) = 1 /\ Outstanding >= 1 /\ Outstanding \in Idx
    BY <2>1, DistFacts DEF IndexInv, TypeOK, Outstanding
  <2>3. Dist(devIdx, Inc(usedIdx)) = 0
    BY <2>2, DistFacts DEF TypeOK
  <2>4. Dist(availIdx, Inc(usedIdx)) = Outstanding - 1
    BY <2>2, DistFacts, VringAssumption DEF TypeOK, Outstanding, Idx
  <2>5. usedIdx' = Inc(usedIdx) /\ UNCHANGED <<devIdx, availIdx, pc>>
    BY <1>16 DEF DevPush, driver, locals
  <2> QED BY <2>1, <2>2, <2>3, <2>4, <2>5, ControlQueueAssumption, VringAssumption DEF IndexInv, Outstanding, Idx
<1> QED
  BY <1>0, <1>1, <1>2, <1>3, <1>4, <1>5, <1>6, <1>7, <1>8, <1>9, <1>10, <1>11,
     <1>12, <1>13, <1>14, <1>15, <1>16, NextCases


\* A call that drained an empty backlog stays alone with the device.
LEMMA NextQuietInv ==
    TypeOK /\ LockInv /\ DescInv /\ IndexInv /\ QuietInv /\ [Next]_vars => QuietInv'
<1> SUFFICES ASSUME TypeOK, LockInv, DescInv, IndexInv, QuietInv, [Next]_vars, quiet'
             PROVE  \A t \in Threads : AloneWithDevice(t)'
  BY DEF QuietInv
<1> USE DEF Locked, Unpublished, Published
<1>a. ASSUME NEW t \in Threads, NEW u \in Threads, pc[t] \in Locked, pc[u] \in Locked
      PROVE  t = u
  BY <1>a DEF LockInv
\* Nothing is claimed of a thread outside the critical section.
<1>b. ASSUME NEW u \in Threads, pc'[u] \notin Locked PROVE AloneWithDevice(u)'
  BY <1>b DEF AloneWithDevice
<1>c. ASSUME NEW t \in Threads, pc[t] \in Locked, NEW q, pc' = [pc EXCEPT ![t] = q],
             q \notin Locked \/ AloneWithDevice(t)'
      PROVE  \A u \in Threads : AloneWithDevice(u)'
  <2> SUFFICES ASSUME NEW u \in Threads PROVE AloneWithDevice(u)'
    OBVIOUS
  <2>1. CASE u = t
    BY <1>b, <1>c, <2>1 DEF TypeOK
  <2>2. CASE u # t
    BY <1>a, <1>b, <1>c, <2>2 DEF TypeOK
  <2> QED BY <2>1, <2>2
\* An empty backlog leaves the device nothing.
<1>d. ASSUME usedIdx = availIdx
      PROVE  devChain = NoChain /\ ~devChain.done /\ devIdx = availIdx
  <2>1. Outstanding = 0
    BY <1>d, DistFacts DEF TypeOK, Outstanding
  <2>2. Dist(devIdx, usedIdx) = 0
    BY <2>1, DistFacts DEF IndexInv, TypeOK, Idx
  <2> QED BY <1>d, <2>2, DistFacts DEF IndexInv, TypeOK, NoChain
<1>0. CASE UNCHANGED vars
  BY <1>0 DEF QuietInv, AloneWithDevice, InBuffer, AddrOf, vars, driver, device, locals, ghosts
<1>1. ASSUME NEW t \in Threads, Enter(t) PROVE \A u \in Threads : AloneWithDevice(u)'
  BY <1>1 DEF QuietInv, AloneWithDevice, InBuffer, AddrOf, TypeOK, Enter, driver, device, ghosts
<1>2. ASSUME NEW t \in Threads, Lock(t) PROVE \A u \in Threads : AloneWithDevice(u)'
  BY <1>2 DEF QuietInv, AloneWithDevice, InBuffer, AddrOf, TypeOK, Lock, device, ghosts
<1>3. ASSUME NEW t \in Threads, Drain(t) PROVE \A u \in Threads : AloneWithDevice(u)'
  <2>1. usedIdx = availIdx
    BY <1>3, DistFacts DEF Drain, TypeOK, Outstanding
  <2>2. AloneWithDevice(t)'
    BY <1>3, <2>1 DEF Drain, AloneWithDevice, TypeOK, device
  <2> QED BY <1>3, <1>c, <2>2 DEF Drain
<1>4. ASSUME NEW t \in Threads, Pop(t) PROVE \A u \in Threads : AloneWithDevice(u)'
  <2>1. CASE pc' = [pc EXCEPT ![t] = "copy"]
    <3>1. AloneWithDevice(t)'
      BY <1>4, <2>1 DEF Pop, QuietInv, AloneWithDevice, TypeOK, device, ghosts
    <3> QED BY <1>4, <1>c, <2>1, <3>1 DEF Pop
  <2>2. CASE Return(t, "NoResources")
    BY <1>4, <1>c, <2>2 DEF Pop, Return
  <2> QED BY <1>4, <2>1, <2>2 DEF Pop
<1>5. ASSUME NEW t \in Threads, Copy(t) PROVE \A u \in Threads : AloneWithDevice(u)'
  <2>1. AloneWithDevice(t)'
    BY <1>5 DEF Copy, QuietInv, AloneWithDevice, InBuffer, TypeOK, device, ghosts
  <2> QED BY <1>5, <1>c, <2>1 DEF Copy
<1>6. ASSUME NEW t \in Threads, CopyFails(t) PROVE \A u \in Threads : AloneWithDevice(u)'
  BY <1>6, <1>c DEF CopyFails, Return
<1>7. ASSUME NEW t \in Threads, Fill(t) PROVE \A u \in Threads : AloneWithDevice(u)'
  <2>1. cmdDesc[t] = 0 /\ respDesc[t] = 1
    BY <1>7 DEF Fill, DescInv, Holding
  <2>2. desc'[0].addr = AddrOf(t)
    BY <1>7, <2>1, IndexTypes DEF Fill, AddrOf, TypeOK, Static
  <2>3. AloneWithDevice(t)'
    BY <1>7, <2>2 DEF Fill, QuietInv, AloneWithDevice, InBuffer, AddrOf, TypeOK, device, ghosts
  <2> QED BY <1>7, <1>c, <2>3 DEF Fill
<1>8. ASSUME NEW t \in Threads, Publish(t) PROVE \A u \in Threads : AloneWithDevice(u)'
  <2>1. quiet /\ usedIdx = availIdx /\ lastUsed = availIdx
    BY <1>8 DEF Publish, ghosts, QuietInv, AloneWithDevice
  <2>2. IdxMod >= 2
    BY <1>8, DistFacts, ControlQueueAssumption, VringAssumption
    DEF Publish, IndexInv, TypeOK, Outstanding, Idx
  <2>3. Inc(availIdx) # availIdx
    BY <2>2, VringAssumption DEF Inc, TypeOK, Idx
  <2>4. AloneWithDevice(t)'
    BY <1>8, <1>d, <2>1, <2>3
    DEF Publish, QuietInv, AloneWithDevice, InBuffer, AddrOf, TypeOK, device, ghosts
  <2> QED BY <1>8, <1>c, <2>4 DEF Publish
<1>9. ASSUME NEW t \in Threads, Notify(t) PROVE \A u \in Threads : AloneWithDevice(u)'
  <2>1. AloneWithDevice(t)'
    BY <1>9 DEF Notify, QuietInv, AloneWithDevice, InBuffer, AddrOf, TypeOK, driver, device, ghosts
  <2> QED BY <1>9, <1>c, <2>1 DEF Notify
<1>10. ASSUME NEW t \in Threads, NotifyMissing(t) PROVE \A u \in Threads : AloneWithDevice(u)'
  BY <1>10, <1>c DEF NotifyMissing, Return
<1>11. ASSUME NEW t \in Threads, PollSees(t) PROVE \A u \in Threads : AloneWithDevice(u)'
  <2>1. AloneWithDevice(t)'
    BY <1>11 DEF PollSees, QuietInv, AloneWithDevice, InBuffer, AddrOf, TypeOK, driver, device, ghosts
  <2> QED BY <1>11, <1>c, <2>1 DEF PollSees
<1>12. ASSUME NEW t \in Threads, TimesOut(t) PROVE \A u \in Threads : AloneWithDevice(u)'
  BY <1>12, <1>c DEF TimesOut, Return
<1>13. ASSUME NEW t \in Threads, Complete(t) PROVE \A u \in Threads : AloneWithDevice(u)'
  BY <1>13, <1>c DEF Complete, Return
<1>14. CASE DevTake
  <2> SUFFICES ASSUME NEW u \in Threads PROVE AloneWithDevice(u)'
    OBVIOUS
  <2>1. AloneWithDevice(u) /\ usedIdx # availIdx
    BY <1>14, <1>d DEF DevTake, QuietInv, ghosts
  <2>2. devChain'.addr = desc[0].addr /\ devChain'.done = FALSE
    BY <1>14, IndexTypes DEF DevTake, DescInv, TypeOK
  <2> QED BY <1>14, <2>1, <2>2 DEF DevTake, AloneWithDevice, InBuffer, AddrOf, driver, locals
<1>15. CASE DevExecute
  <2> SUFFICES ASSUME NEW u \in Threads PROVE AloneWithDevice(u)'
    OBVIOUS
  <2>1. AloneWithDevice(u) /\ usedIdx # availIdx /\ devChain # NoChain
    BY <1>15, <1>d DEF DevExecute, QuietInv, ghosts
  <2>2. ASSUME pc[u] \in Published PROVE BytesAt(devChain.addr) = id[u]
    BY <2>1, <2>2 DEF AloneWithDevice, AddrOf, InBuffer, BytesAt, TypeOK, Static
  <2>3. respBuf'.of = BytesAt(devChain.addr) /\ devChain'.addr = devChain.addr
    BY <1>15 DEF DevExecute
  <2> QED BY <1>15, <2>1, <2>2, <2>3
          DEF DevExecute, AloneWithDevice, InBuffer, AddrOf, driver, locals
<1>16. CASE DevPush
  <2> SUFFICES ASSUME NEW u \in Threads PROVE AloneWithDevice(u)'
    OBVIOUS
  <2>1. AloneWithDevice(u) /\ usedIdx # availIdx /\ devChain.done /\ devChain' = NoChain
    BY <1>16, <1>d DEF DevPush, QuietInv, ghosts
  <2>2. ~NoChain.done
    BY DEF NoChain
  <2> QED BY <1>16, <2>1, <2>2
          DEF DevPush, AloneWithDevice, InBuffer, AddrOf, driver, locals
<1> QED
  BY <1>0, <1>1, <1>2, <1>3, <1>4, <1>5, <1>6, <1>7, <1>8, <1>9, <1>10, <1>11,
     <1>12, <1>13, <1>14, <1>15, <1>16, NextCases

\* A call that found the device idle gets its own response.
THEOREM OwnResponseTheorem == Spec => []OwnResponseWhenQuiet
<1>1. Init => IndexInv /\ QuietInv
  BY DistFacts, IndexTypes, ControlQueueAssumption
  DEF Init, IndexInv, QuietInv, Outstanding, Unpublished
<1>2. QuietInv => OwnResponseWhenQuiet
  BY DEF QuietInv, AloneWithDevice, OwnResponseWhenQuiet, Published
<1> QED
  BY <1>1, <1>2, DescAlways, NextIndexInv, NextQuietInv, PTL DEF Spec

-----------------------------------------------------------------------------
\* Numbers are given out once and travel through their own call only.
LEMMA NextNumberInv ==
    TypeOK /\ LockInv /\ DescInv /\ NumberInv /\ [Next]_vars => NumberInv'
<1> SUFFICES ASSUME TypeOK, LockInv, DescInv, NumberInv, [Next]_vars PROVE NumberInv'
  OBVIOUS
<1> USE ControlQueueAssumption DEF Locked
<1>a. ASSUME NEW t \in Threads, NEW u \in Threads, pc[t] \in Locked, pc[u] \in Locked
      PROVE  t = u
  BY <1>a DEF LockInv
<1>0. CASE UNCHANGED vars
  BY <1>0 DEF NumberInv, InBuffer, AddrOf, vars, driver, device, locals, ghosts
<1>1. ASSUME NEW t \in Threads, Enter(t) PROVE NumberInv'
  BY <1>1, <1>a DEF NumberInv, InBuffer, AddrOf, TypeOK, Submissions, Enter, device, driver, ghosts
<1>2. ASSUME NEW t \in Threads, Lock(t) PROVE NumberInv'
  BY <1>2, <1>a DEF NumberInv, InBuffer, AddrOf, TypeOK, Submissions, Lock, device, ghosts
<1>3. ASSUME NEW t \in Threads, Drain(t) PROVE NumberInv'
  BY <1>3, <1>a DEF NumberInv, InBuffer, AddrOf, TypeOK, Submissions, Drain, device
<1>4. ASSUME NEW t \in Threads, Pop(t) PROVE NumberInv'
  <2>1. \/ pc' = [pc EXCEPT ![t] = "copy"] /\ UNCHANGED id /\ UNCHANGED big
        \/ Return(t, "NoResources")
    BY <1>4 DEF Pop
  <2>2. UNCHANGED <<desc, cmdBuf, temp, ran, seq, clean>> /\ pc[t] = "pop"
    BY <1>4 DEF Pop, device, ghosts
  <2>3. CASE pc' = [pc EXCEPT ![t] = "copy"] /\ UNCHANGED id /\ UNCHANGED big
    BY <2>2, <2>3 DEF NumberInv, InBuffer, AddrOf, TypeOK
  <2>4. CASE Return(t, "NoResources")
    <3>1. /\ pc'[t] = "idle"
          /\ \A u \in Threads : u # t => pc'[u] = pc[u] /\ id'[u] = id[u] /\ big'[u] = big[u]
      BY <2>4 DEF Return, TypeOK
    <3> QED BY <2>2, <3>1 DEF NumberInv, InBuffer, AddrOf, TypeOK
  <2> QED BY <2>1, <2>3, <2>4
<1>5. ASSUME NEW t \in Threads, Copy(t) PROVE NumberInv'
  <2>1. /\ pc[t] = "copy" /\ pc' = [pc EXCEPT ![t] = "fill"]
        /\ UNCHANGED <<desc, id, big, ran, seq, clean>>
    BY <1>5 DEF Copy, device, ghosts
  <2>2. id[t] \in 1 .. seq
    BY <2>1 DEF NumberInv
  <2>3. \A u \in Threads : u # t /\ pc[u] # "idle" => id[u] # id[t] /\ pc[u] \notin Locked
    BY <1>a, <2>1 DEF NumberInv
  <2>4. \A u \in Threads : u # t => pc'[u] = pc[u]
    BY <2>1 DEF TypeOK
  <2>5. pc'[t] = "fill" /\ InBuffer(t)'
    BY <1>5, <2>1 DEF Copy, InBuffer, TypeOK
  <2>6. cmdBuf' \in {cmdBuf, id[t]} /\ temp' \subseteq temp \cup {id[t]}
    BY <1>5 DEF Copy
  <2>7. cmdBuf' <= seq /\ \A n \in temp' \cup ran : n <= seq
    BY <2>2, <2>6 DEF NumberInv, TypeOK, Submissions
  <2>8. \A u \in Threads : pc'[u] \in {"lock", "drain", "pop", "copy"} =>
          id[u] \notin temp' \cup ran /\ cmdBuf' # id[u]
    BY <2>3, <2>4, <2>5, <2>6 DEF NumberInv
  <2>9. \A u \in Threads : pc'[u] # "idle" => pc[u] # "idle"
    BY <2>1, <2>4
  <2>10. \A u \in Threads : pc'[u] \in {"fill", "publish"} => u = t
    BY <2>3, <2>4
  <2>11. \A u \in Threads : pc'[u] # "publish"
    BY <2>5, <2>10
  <2>12. /\ clean' \subseteq 1 .. seq'
         /\ \A u \in Threads : pc'[u] # "idle" => id'[u] \in 1 .. seq' /\ id'[u] \notin clean'
         /\ \A u, w \in Threads : pc'[u] # "idle" /\ pc'[w] # "idle" /\ id'[u] = id'[w] => u = w
    BY <2>1, <2>9 DEF NumberInv
  <2> QED BY <2>1, <2>5, <2>7, <2>8, <2>10, <2>11, <2>12 DEF NumberInv
<1>6. ASSUME NEW t \in Threads, CopyFails(t) PROVE NumberInv'
  BY <1>6, <1>a DEF NumberInv, InBuffer, AddrOf, TypeOK, Submissions, CopyFails, device, Return, ghosts
<1>7. ASSUME NEW t \in Threads, Fill(t) PROVE NumberInv'
  <2>1. cmdDesc[t] = 0 /\ respDesc[t] = 1
    BY <1>7 DEF Fill, DescInv, Holding
  <2>2. desc'[0].addr = AddrOf(t)
    BY <1>7, <2>1, IndexTypes DEF Fill, AddrOf, TypeOK, Static
  <2> QED BY <1>7, <1>a, <2>2 DEF NumberInv, InBuffer, AddrOf, TypeOK, Submissions, Fill, device, ghosts
<1>8. ASSUME NEW t \in Threads, Publish(t) PROVE NumberInv'
  BY <1>8, <1>a DEF NumberInv, InBuffer, AddrOf, TypeOK, Submissions, Publish, device, ghosts
<1>9. ASSUME NEW t \in Threads, Notify(t) PROVE NumberInv'
  BY <1>9, <1>a DEF NumberInv, InBuffer, AddrOf, TypeOK, Submissions, Notify, device, driver, ghosts
<1>10. ASSUME NEW t \in Threads, NotifyMissing(t) PROVE NumberInv'
  BY <1>10, <1>a DEF NumberInv, InBuffer, AddrOf, TypeOK, Submissions, NotifyMissing, device, Return
<1>11. ASSUME NEW t \in Threads, PollSees(t) PROVE NumberInv'
  BY <1>11, <1>a DEF NumberInv, InBuffer, AddrOf, TypeOK, Submissions, PollSees, device, driver, ghosts
<1>12. ASSUME NEW t \in Threads, TimesOut(t) PROVE NumberInv'
  BY <1>12, <1>a DEF NumberInv, InBuffer, AddrOf, TypeOK, Submissions, TimesOut, device, Return
<1>13. ASSUME NEW t \in Threads, Complete(t) PROVE NumberInv'
  <2>1. /\ pc[t] = "read" /\ pc' = [pc EXCEPT ![t] = "idle"]
        /\ temp' \subseteq temp /\ clean' \subseteq clean \cup {id[t]}
        /\ UNCHANGED <<desc, cmdBuf, ran, seq>>
    BY <1>13 DEF Complete, Return, device
  <2>2. \A u \in Threads : u # t => pc'[u] = pc[u] /\ id'[u] = id[u] /\ big'[u] = big[u]
    BY <1>13 DEF Complete, Return, TypeOK
  <2>3. \A u \in Threads : u # t => pc[u] \notin Locked
    BY <1>a, <2>1
  <2>4. pc'[t] = "idle" /\ id[t] \in 1 .. seq
    BY <2>1 DEF NumberInv, TypeOK
  <2>5. \A u \in Threads : u # t /\ pc[u] # "idle" => id[u] # id[t]
    BY <2>1 DEF NumberInv
  <2>6. /\ clean' \subseteq 1 .. seq'
        /\ \A u \in Threads : pc'[u] # "idle" => id'[u] \in 1 .. seq' /\ id'[u] \notin clean'
        /\ \A u, w \in Threads : pc'[u] # "idle" /\ pc'[w] # "idle" /\ id'[u] = id'[w] => u = w
    BY <2>1, <2>2, <2>4, <2>5 DEF NumberInv
  <2>7. \A u \in Threads : pc'[u] \in {"lock", "drain", "pop", "copy"} =>
          id'[u] \notin temp' \cup ran' /\ cmdBuf' # id'[u]
    BY <2>1, <2>2, <2>4 DEF NumberInv
  <2>8. \A u \in Threads : pc'[u] \notin {"fill", "publish"}
    BY <2>2, <2>3, <2>4
  <2>9. cmdBuf' <= seq' /\ \A n \in temp' \cup ran' : n <= seq'
    BY <2>1 DEF NumberInv
  <2> QED BY <2>6, <2>7, <2>8, <2>9 DEF NumberInv
<1>14. CASE DevTake
  BY <1>14 DEF NumberInv, InBuffer, AddrOf, DevTake, driver, locals, ghosts
<1>15. CASE DevExecute
  <2>1. BytesAt(devChain.addr) \in {cmdBuf, Garbage} \cup temp
    BY DEF BytesAt
  <2>2. \A n \in {cmdBuf, Garbage} \cup temp : n <= seq
    BY DEF NumberInv, TypeOK, Garbage, Submissions
  <2>3. \A t \in Threads : pc[t] # "idle" => id[t] # Garbage
    BY DEF TypeOK, Garbage, Submissions
  <2>4. ran' = ran \cup {BytesAt(devChain.addr)}
    BY <1>15 DEF DevExecute
  <2>5. UNCHANGED <<pc, id, big, desc, cmdBuf, temp, seq, clean>>
    BY <1>15 DEF DevExecute, driver, locals, ghosts
  <2> HIDE DEF Locked
  <2> QED BY <2>1, <2>2, <2>3, <2>4, <2>5 DEF NumberInv, InBuffer, AddrOf
<1>16. CASE DevPush
  BY <1>16 DEF NumberInv, InBuffer, AddrOf, DevPush, driver, locals, ghosts
<1> QED
  BY <1>0, <1>1, <1>2, <1>3, <1>4, <1>5, <1>6, <1>7, <1>8, <1>9, <1>10, <1>11,
     <1>12, <1>13, <1>14, <1>15, <1>16, NextCases

\* The part of OnceInv about the device's work, and the part about a call.
NothingCleanPending ==
    /\ devIdx # availIdx => BytesAt(desc[0].addr) \notin clean
    /\ devChain # NoChain /\ ~devChain.done => BytesAt(devChain.addr) \notin clean
ExecutedWhenAnswered(t) ==
    /\ pc[t] \in {"fill", "publish"} => id[t] \notin ran
    /\ pc[t] \in Published =>
          /\ id[t] \notin reran
          /\ id[t] \in ran <=> (devChain.done \/ usedIdx = availIdx)

\* No completed quiet command is executed again, and none is answered
\* before it was executed.
LEMMA NextOnceInv ==
    TypeOK /\ LockInv /\ DescInv /\ IndexInv /\ QuietInv /\ NumberInv /\ OnceInv
      /\ [Next]_vars => OnceInv'
<1> SUFFICES ASSUME TypeOK, LockInv, DescInv, IndexInv, QuietInv, NumberInv, OnceInv,
                    [Next]_vars
             PROVE  OnceInv'
  OBVIOUS
<1> USE DEF Locked, Published
<1>a. ASSUME NEW t \in Threads, NEW u \in Threads, pc[t] \in Locked, pc[u] \in Locked
      PROVE  t = u
  BY <1>a DEF LockInv
<1>b. /\ clean \subseteq ran \ reran /\ reran \subseteq ran /\ NothingCleanPending
      /\ quiet => \A t \in Threads : ExecutedWhenAnswered(t)
  BY DEF OnceInv, QuietExactlyOnce, NothingCleanPending, ExecutedWhenAnswered
<1>c. ASSUME (clean \subseteq ran \ reran /\ reran \subseteq ran)',
             NothingCleanPending',
             quiet' => \A t \in Threads : ExecutedWhenAnswered(t)'
      PROVE  OnceInv'
  BY <1>c DEF OnceInv, QuietExactlyOnce, NothingCleanPending, ExecutedWhenAnswered
<1>d. ASSUME usedIdx = availIdx
      PROVE  devChain = NoChain /\ ~devChain.done /\ devIdx = availIdx
  <2>1. Outstanding = 0
    BY <1>d, DistFacts DEF TypeOK, Outstanding
  <2>2. Dist(devIdx, usedIdx) = 0
    BY <2>1, DistFacts DEF IndexInv, TypeOK, Idx
  <2> QED BY <1>d, <2>2, DistFacts DEF IndexInv, TypeOK, NoChain
<1>e. Garbage \notin clean
  BY DEF NumberInv, Garbage
\* A step of t in the critical section says nothing of the other threads.
<1>f. ASSUME NEW t \in Threads, pc[t] \in Locked, NEW q, pc' = [pc EXCEPT ![t] = q],
             q \notin {"fill", "publish"} \cup Published \/ (quiet' => ExecutedWhenAnswered(t)')
      PROVE  quiet' => \A u \in Threads : ExecutedWhenAnswered(u)'
  <2> SUFFICES ASSUME NEW u \in Threads, quiet' PROVE ExecutedWhenAnswered(u)'
    OBVIOUS
  <2>1. CASE u = t
    BY <1>f, <2>1 DEF TypeOK, ExecutedWhenAnswered
  <2>2. CASE u # t
    BY <1>a, <1>f, <2>2 DEF TypeOK, ExecutedWhenAnswered
  <2> QED BY <2>1, <2>2
\* Steps that leave buffers, rings and executions alone.
<1>g. ASSUME UNCHANGED <<desc, cmdBuf, temp, availIdx, device, clean>>
      PROVE  /\ (clean \subseteq ran \ reran /\ reran \subseteq ran)'
             /\ NothingCleanPending'
  BY <1>b, <1>g DEF NothingCleanPending, BytesAt, device
\* Steps that put into a buffer the bytes of a call not completed yet, or
\* take a buffer away.
<1>h. ASSUME NEW t \in Threads, pc[t] # "idle",
             \A a : BytesAt(a)' \in {BytesAt(a), id[t], Garbage},
             UNCHANGED <<desc, availIdx, device, clean>>
      PROVE  /\ (clean \subseteq ran \ reran /\ reran \subseteq ran)'
             /\ NothingCleanPending'
  <2>1. id[t] \notin clean
    BY <1>h DEF NumberInv
  <2>2. UNCHANGED <<desc, availIdx, usedIdx, devIdx, devChain, ran, reran, clean>>
    BY <1>h DEF device
  <2>3. \A a : BytesAt(a) \notin clean => BytesAt(a)' \notin clean'
    BY <1>e, <1>h, <2>1
  <2>4. devIdx' # availIdx' => BytesAt(desc[0].addr)' \notin clean'
    BY <1>b, <2>2, <2>3 DEF NothingCleanPending
  <2>5. devChain' # NoChain /\ ~devChain'.done => BytesAt(devChain.addr)' \notin clean'
    BY <1>b, <2>2, <2>3 DEF NothingCleanPending
  <2> QED BY <1>b, <2>2, <2>4, <2>5 DEF NothingCleanPending
<1>0. CASE UNCHANGED vars
  BY <1>0, <1>b, <1>c, <1>g DEF ExecutedWhenAnswered, vars, driver, device, locals, ghosts
<1>1. ASSUME NEW t \in Threads, Enter(t) PROVE OnceInv'
  BY <1>1, <1>b, <1>c, <1>g DEF ExecutedWhenAnswered, Enter, TypeOK, driver, device, ghosts
<1>2. ASSUME NEW t \in Threads, Lock(t) PROVE OnceInv'
  BY <1>2, <1>b, <1>c, <1>g DEF ExecutedWhenAnswered, Lock, TypeOK, device, ghosts
<1>3. ASSUME NEW t \in Threads, Drain(t) PROVE OnceInv'
  BY <1>3, <1>c, <1>f, <1>g DEF Drain
<1>4. ASSUME NEW t \in Threads, Pop(t) PROVE OnceInv'
  <2>1. pc' = [pc EXCEPT ![t] = "copy"] \/ pc' = [pc EXCEPT ![t] = "idle"]
    BY <1>4 DEF Pop, Return
  <2> QED BY <1>4, <1>c, <1>f, <1>g, <2>1 DEF Pop, ghosts
<1>5. ASSUME NEW t \in Threads, Copy(t) PROVE OnceInv'
  <2>1. \A a : BytesAt(a)' \in {BytesAt(a), id[t], Garbage}
    BY <1>5 DEF Copy, BytesAt
  <2>2. ExecutedWhenAnswered(t)'
    BY <1>5 DEF Copy, NumberInv, ExecutedWhenAnswered, TypeOK, device
  <2> QED BY <1>5, <1>c, <1>f, <1>h, <2>1, <2>2 DEF Copy, ghosts
<1>6. ASSUME NEW t \in Threads, CopyFails(t) PROVE OnceInv'
  <2>1. \A a : BytesAt(a)' \in {BytesAt(a), id[t], Garbage}
    BY <1>6 DEF CopyFails, BytesAt
  <2> QED BY <1>6, <1>c, <1>f, <1>h, <2>1 DEF CopyFails, Return, ghosts
<1>7. ASSUME NEW t \in Threads, Fill(t) PROVE OnceInv'
  <2>1. cmdDesc[t] = 0 /\ respDesc[t] = 1
    BY <1>7 DEF Fill, DescInv, Holding
  <2>2. desc'[0].addr = AddrOf(t)
    BY <1>7, <2>1, IndexTypes DEF Fill, AddrOf, TypeOK, Static
  <2>3. InBuffer(t) /\ id[t] # 0 /\ id[t] \notin clean
    BY <1>7 DEF Fill, NumberInv, TypeOK
  <2>4. BytesAt(desc'[0].addr) = id[t]
    BY <2>2, <2>3 DEF BytesAt, AddrOf, InBuffer, Static
  <2>5. UNCHANGED <<cmdBuf, temp, availIdx, devIdx, devChain, ran, reran, clean>>
    BY <1>7 DEF Fill, device, ghosts
  <2>6. NothingCleanPending'
    BY <1>b, <2>3, <2>4, <2>5 DEF NothingCleanPending, BytesAt
  <2>7. quiet' => ExecutedWhenAnswered(t)'
    BY <1>7, <1>b DEF Fill, ExecutedWhenAnswered, TypeOK, device, ghosts
  <2> QED BY <1>7, <1>b, <1>c, <1>f, <2>5, <2>6, <2>7 DEF Fill
<1>8. ASSUME NEW t \in Threads, Publish(t) PROVE OnceInv'
  <2>1. BytesAt(desc[0].addr) = id[t] /\ id[t] \notin clean
    BY <1>8 DEF Publish, NumberInv, BytesAt, AddrOf, InBuffer, Static, TypeOK
  <2>2. UNCHANGED <<desc, cmdBuf, temp, usedIdx, devIdx, devChain, ran, reran, clean, quiet, id>>
    BY <1>8 DEF Publish, device, ghosts
  <2>3. NothingCleanPending'
    BY <1>b, <2>1, <2>2 DEF NothingCleanPending, BytesAt
  <2>4. IdxMod >= 2
    BY <1>8, DistFacts, ControlQueueAssumption, VringAssumption
    DEF Publish, IndexInv, TypeOK, Outstanding, Idx, Unpublished
  <2>5. availIdx' # availIdx
    BY <1>8, <2>4, VringAssumption DEF Publish, Inc, TypeOK, Idx
  <2>6. quiet => usedIdx = availIdx
    BY <1>8 DEF Publish, QuietInv, AloneWithDevice, Unpublished
  <2>7. quiet' => ExecutedWhenAnswered(t)'
    BY <1>8, <1>b, <1>d, <2>2, <2>5, <2>6 DEF Publish, ExecutedWhenAnswered, TypeOK
  <2> QED BY <1>8, <1>b, <1>c, <1>f, <2>2, <2>3, <2>7 DEF Publish
<1>9. ASSUME NEW t \in Threads, Notify(t) PROVE OnceInv'
  <2>1. quiet' => ExecutedWhenAnswered(t)'
    BY <1>9, <1>b DEF Notify, ExecutedWhenAnswered, TypeOK, driver, device, ghosts
  <2> QED BY <1>9, <1>c, <1>f, <1>g, <2>1 DEF Notify, driver, ghosts
<1>10. ASSUME NEW t \in Threads, NotifyMissing(t) PROVE OnceInv'
  BY <1>10, <1>c, <1>f, <1>g DEF NotifyMissing, Return
<1>11. ASSUME NEW t \in Threads, PollSees(t) PROVE OnceInv'
  <2>1. quiet' => ExecutedWhenAnswered(t)'
    BY <1>11, <1>b DEF PollSees, ExecutedWhenAnswered, TypeOK, driver, device, ghosts
  <2> QED BY <1>11, <1>c, <1>f, <1>g, <2>1 DEF PollSees, driver, ghosts
<1>12. ASSUME NEW t \in Threads, TimesOut(t) PROVE OnceInv'
  BY <1>12, <1>c, <1>f, <1>g DEF TimesOut, Return
<1>13. ASSUME NEW t \in Threads, Complete(t) PROVE OnceInv'
  <2>1. CASE ~quiet
    <3>1. \A a : BytesAt(a)' \in {BytesAt(a), id[t], Garbage}
      BY <1>13 DEF Complete, BytesAt
    <3>2. clean' = clean /\ pc' = [pc EXCEPT ![t] = "idle"]
      BY <1>13, <2>1 DEF Complete, Return
    <3> QED BY <1>13, <1>c, <1>f, <1>h, <3>1, <3>2 DEF Complete
  <2>2. CASE quiet
    <3>1. usedIdx = availIdx
      BY <1>13, <2>2 DEF Complete, QuietInv, AloneWithDevice
    <3>2. id[t] \in ran \ reran
      BY <1>13, <1>b, <2>2, <3>1 DEF Complete, ExecutedWhenAnswered
    <3>3. /\ clean' = clean \cup {id[t]} /\ pc' = [pc EXCEPT ![t] = "idle"]
          /\ UNCHANGED <<availIdx, devIdx, devChain, ran, reran>>
      BY <1>13, <2>2 DEF Complete, Return, device
    <3>4. NothingCleanPending'
      BY <1>d, <3>1, <3>3 DEF NothingCleanPending
    <3> QED BY <1>13, <1>b, <1>c, <1>f, <3>2, <3>3, <3>4 DEF Complete
  <2> QED BY <2>1, <2>2
<1>14. CASE DevTake
  <2>1. devChain'.addr = desc[0].addr /\ devChain'.done = FALSE /\ devIdx # availIdx
    BY <1>14, IndexTypes DEF DevTake, DescInv, TypeOK
  <2>2. ~devChain.done
    BY <1>14 DEF DevTake, NoChain
  <2>3. UNCHANGED <<desc, cmdBuf, temp, availIdx, usedIdx, ran, reran, clean, quiet, pc, id>>
    BY <1>14 DEF DevTake, driver, locals, ghosts
  <2>4. NothingCleanPending'
    BY <1>b, <2>1, <2>3 DEF NothingCleanPending, BytesAt
  <2> QED BY <1>b, <1>c, <2>1, <2>2, <2>3, <2>4 DEF ExecutedWhenAnswered
<1>15. CASE DevExecute
  <2> DEFINE n == BytesAt(devChain.addr)
  <2>1. /\ devChain # NoChain /\ ~devChain.done /\ devChain'.done
        /\ ran' = ran \cup {n}
        /\ reran' = IF n \in ran THEN reran \cup {n} ELSE reran
        /\ UNCHANGED <<desc, cmdBuf, temp, availIdx, usedIdx, devIdx, clean, quiet, pc, id>>
    BY <1>15 DEF DevExecute, driver, locals, ghosts
  <2>2. n \notin clean /\ usedIdx # availIdx
    BY <1>b, <1>d, <2>1 DEF NothingCleanPending
  <2>3. ASSUME quiet, NEW t \in Threads PROVE ExecutedWhenAnswered(t)'
    <3>1. AloneWithDevice(t) /\ ExecutedWhenAnswered(t)
      BY <1>b, <2>3 DEF QuietInv
    <3>2. pc[t] \notin {"fill", "publish"}
      BY <2>2, <3>1 DEF AloneWithDevice, Unpublished
    <3>3. ASSUME pc[t] \in Published PROVE n = id[t]
      BY <2>1, <3>1, <3>3 DEF AloneWithDevice, AddrOf, InBuffer, BytesAt, TypeOK, Static
    <3> HIDE DEF n
    <3> QED BY <2>1, <2>2, <3>1, <3>2, <3>3 DEF ExecutedWhenAnswered
  <2>4. NothingCleanPending'
    BY <1>b, <2>1 DEF NothingCleanPending, BytesAt
  <2> HIDE DEF n
  <2> QED BY <1>b, <1>c, <2>1, <2>2, <2>3, <2>4
<1>16. CASE DevPush
  <2>1. /\ devChain.done /\ devChain' = NoChain /\ usedIdx' = Inc(usedIdx)
        /\ UNCHANGED <<desc, cmdBuf, temp, availIdx, devIdx, ran, reran, clean, quiet, pc, id>>
    BY <1>16 DEF DevPush, driver, locals, ghosts
  <2>2. usedIdx # availIdx /\ ~NoChain.done
    BY <1>d, <2>1 DEF NoChain
  <2>3. NothingCleanPending'
    BY <1>b, <2>1 DEF NothingCleanPending, BytesAt
  <2>4. ASSUME quiet, NEW t \in Threads PROVE ExecutedWhenAnswered(t)'
    BY <1>b, <2>1, <2>2, <2>4 DEF QuietInv, AloneWithDevice, ExecutedWhenAnswered
  <2> QED BY <1>b, <1>c, <2>1, <2>3, <2>4
<1> QED
  BY <1>0, <1>1, <1>2, <1>3, <1>4, <1>5, <1>6, <1>7, <1>8, <1>9, <1>10, <1>11,
     <1>12, <1>13, <1>14, <1>15, <1>16, NextCases

\* A command submitted to an idle device and answered was executed exactly
\* once, whatever timed out before or after it.
THEOREM ExactlyOnceTheorem == Spec => []QuietExactlyOnce
<1>1. Init => IndexInv /\ QuietInv /\ NumberInv /\ OnceInv
  BY DistFacts, IndexTypes, ControlQueueAssumption
  DEF Init, IndexInv, QuietInv, Outstanding, Unpublished, NumberInv, OnceInv, QuietExactlyOnce
<1>2. OnceInv => QuietExactlyOnce
  BY DEF OnceInv
<1> QED
  BY <1>1, <1>2, DescAlways, NextIndexInv, NextQuietInv, NextNumberInv, NextOnceInv, PTL
  DEF Spec
-----------------------------------------------------------------------------
\* While no call has been abandoned every call finds the device idle, and the
\* device nothing but the command of the call inside.
FreedInv ==
    abandoned = {} =>
        /\ Garbage \notin ran
        /\ (\A t \in Threads : pc[t] \notin Published) => usedIdx = availIdx
        /\ \A t \in Threads : pc[t] \in Holding \cup {"pop"} => quiet

\* Until a call is abandoned no temporary buffer is released under the device.
LEMMA NextFreedInv ==
    TypeOK /\ LockInv /\ DescInv /\ IndexInv /\ QuietInv /\ FreedInv /\ [Next]_vars => FreedInv'
<1> SUFFICES ASSUME TypeOK, LockInv, DescInv, IndexInv, QuietInv, FreedInv, [Next]_vars,
                    abandoned' = {}
             PROVE  FreedInv'
  BY DEF FreedInv
<1> USE DEF Locked, Published, Holding
<1>a. ASSUME NEW t \in Threads, NEW u \in Threads, pc[t] \in Locked, pc[u] \in Locked
      PROVE  t = u
  BY <1>a DEF LockInv
\* A step of the caller inside that leaves the device and quiet alone.
<1>b. ASSUME NEW t \in Threads, NEW q, pc' = [pc EXCEPT ![t] = q],
             UNCHANGED <<ran, usedIdx, availIdx, quiet, abandoned>>,
             q \in Published => pc[t] \in Published,
             pc[t] \in Published => q \in Published \/ usedIdx = availIdx,
             q \in Holding \cup {"pop"} => pc[t] \in Holding \cup {"pop"}
      PROVE  FreedInv'
  <2>1. \A u \in Threads : u # t => pc'[u] = pc[u]
    BY <1>b DEF TypeOK
  <2>2. pc'[t] = q
    BY <1>b DEF TypeOK
  <2>3. (\A u \in Threads : pc'[u] \notin Published) => usedIdx = availIdx
    BY <1>b, <2>1, <2>2 DEF FreedInv
  <2> QED BY <1>b, <2>1, <2>2, <2>3 DEF FreedInv
<1>0. CASE UNCHANGED vars
  BY <1>0 DEF FreedInv, vars, driver, device, locals, ghosts
<1>1. ASSUME NEW t \in Threads, Enter(t) PROVE FreedInv'
  BY <1>1, <1>b DEF Enter, driver, device, ghosts
<1>2. ASSUME NEW t \in Threads, Lock(t) PROVE FreedInv'
  BY <1>2, <1>b DEF Lock, device, ghosts
<1>3. ASSUME NEW t \in Threads, Drain(t) PROVE FreedInv'
  <2>1. \A u \in Threads : pc[u] \notin Published
    BY <1>3, <1>a DEF Drain
  <2>2. abandoned = {} /\ UNCHANGED <<usedIdx, availIdx, ran>>
    BY <1>3 DEF Drain, device
  <2>3. usedIdx = availIdx
    BY <2>1, <2>2 DEF FreedInv
  <2>4. quiet'
    BY <1>3, <2>3, DistFacts DEF Drain, Outstanding, TypeOK
  <2> QED BY <2>2, <2>3, <2>4 DEF FreedInv
<1>4. ASSUME NEW t \in Threads, Pop(t) PROVE FreedInv'
  <2>1. pc' = [pc EXCEPT ![t] = "copy"] \/ pc' = [pc EXCEPT ![t] = "idle"]
    BY <1>4 DEF Pop, Return
  <2> QED BY <1>4, <1>b, <2>1 DEF Pop, device, ghosts
<1>5. ASSUME NEW t \in Threads, Copy(t) \/ Fill(t) PROVE FreedInv'
  BY <1>5, <1>b DEF Copy, Fill, device, ghosts
<1>6. ASSUME NEW t \in Threads, CopyFails(t) PROVE FreedInv'
  BY <1>6, <1>b DEF CopyFails, Return, device, ghosts
<1>7. ASSUME NEW t \in Threads, Publish(t) PROVE FreedInv'
  BY <1>7, <1>a DEF FreedInv, Publish, TypeOK, device, ghosts
<1>8. ASSUME NEW t \in Threads, Notify(t) \/ PollSees(t) PROVE FreedInv'
  BY <1>8, <1>b DEF Notify, PollSees, driver, device, ghosts
<1>9. ASSUME NEW t \in Threads, NotifyMissing(t) \/ TimesOut(t) PROVE FreedInv'
  BY <1>9 DEF NotifyMissing, TimesOut
<1>10. ASSUME NEW t \in Threads, Complete(t) PROVE FreedInv'
  <2>1. abandoned = {} /\ pc[t] = "read"
    BY <1>10 DEF Complete
  <2>2. quiet
    BY <2>1 DEF FreedInv
  <2>3. usedIdx = availIdx
    BY <2>1, <2>2 DEF QuietInv, AloneWithDevice
  <2> QED BY <1>10, <1>b, <2>3 DEF Complete, Return, device
<1>11. CASE DevTake
  BY <1>11 DEF FreedInv, DevTake, driver, locals, ghosts
<1>12. CASE DevExecute
  <2>1. abandoned = {} /\ devChain # NoChain
    BY <1>12 DEF DevExecute, ghosts
  <2>2. usedIdx # availIdx
    <3>1. Dist(devIdx, usedIdx) = 1 /\ Dist(devIdx, usedIdx) <= Outstanding
      BY <2>1 DEF IndexInv
    <3> QED BY <3>1, DistFacts DEF Outstanding, TypeOK
  <2>3. PICK t \in Threads : pc[t] \in Published
    BY <2>1, <2>2 DEF FreedInv
  <2>4. AloneWithDevice(t)
    BY <2>1, <2>3 DEF FreedInv, QuietInv
  <2>5. BytesAt(devChain.addr) = id[t] /\ id[t] # Garbage
    BY <2>1, <2>3, <2>4
    DEF AloneWithDevice, AddrOf, InBuffer, BytesAt, TypeOK, Static, Garbage, Submissions
  <2>6. ran' = ran \cup {id[t]} /\ UNCHANGED <<pc, usedIdx, availIdx, quiet>>
    BY <1>12, <2>5 DEF DevExecute, driver, locals, ghosts
  <2> QED BY <2>1, <2>5, <2>6 DEF FreedInv
<1>13. CASE DevPush
  <2>1. abandoned = {} /\ devChain # NoChain
    BY <1>13 DEF DevPush, ghosts, NoChain
  <2>2. usedIdx # availIdx
    <3>1. Dist(devIdx, usedIdx) = 1 /\ Dist(devIdx, usedIdx) <= Outstanding
      BY <2>1 DEF IndexInv
    <3> QED BY <3>1, DistFacts DEF Outstanding, TypeOK
  <2>3. \E t \in Threads : pc[t] \in Published
    BY <2>1, <2>2 DEF FreedInv
  <2> QED BY <1>13, <2>1, <2>3 DEF FreedInv, DevPush, driver, locals, ghosts
<1> QED
  BY <1>0, <1>1, <1>2, <1>3, <1>4, <1>5, <1>6, <1>7, <1>8, <1>9, <1>10, <1>11,
     <1>12, <1>13, NextCases

\* A released temp_cmd_buf is read only after some call was abandoned.
THEOREM FreedReadTheorem == Spec => []FreedReadNeedsAbandoned
<1>1. Init => IndexInv /\ QuietInv /\ FreedInv
  BY DistFacts, IndexTypes, ControlQueueAssumption
  DEF Init, IndexInv, QuietInv, Outstanding, Unpublished, FreedInv, Holding
<1>2. FreedInv => FreedReadNeedsAbandoned
  BY DEF FreedInv, FreedReadNeedsAbandoned
<1> QED
  BY <1>1, <1>2, DescAlways, NextIndexInv, NextQuietInv, NextFreedInv, PTL DEF Spec
-----------------------------------------------------------------------------
(* The refinement, for commands that fit m_cmd_buf.                        *)

SmallCommands == TRUE \notin Sizes

\* No call has a buffer of its own; the device never moves without a doorbell.
SmallInv ==
    /\ \A t \in Threads : ~big[t]
    /\ ~notifyMapped => usedIdx = 0 /\ devIdx = 0 /\ lastUsed = 0 /\ devChain = NoChain

\* What completed since the drain and what is outstanding fit the index space
\* together, so a moved index never looks unmoved.
WindowInv ==
    /\ \A t \in Threads : pc[t] \in Drained =>
          Dist(usedIdx, lastUsed) + Outstanding <= MaxOutstanding
    /\ \A t \in Threads : pc[t] \in Unpublished =>
          Dist(usedIdx, lastUsed) + Outstanding < MaxOutstanding
    /\ \A t \in Threads : pc[t] = "read" => usedIdx # lastUsed

\* Only small commands are sent, and without a doorbell nothing moves.
LEMMA NextSmallInv ==
    SmallCommands /\ TypeOK /\ WindowInv /\ SmallInv /\ [Next]_vars => SmallInv'
<1> SUFFICES ASSUME SmallCommands, TypeOK, WindowInv, SmallInv, [Next]_vars PROVE SmallInv'
  OBVIOUS
<1>0. CASE UNCHANGED vars
  BY <1>0 DEF SmallInv, vars, driver, device, locals
<1>1. ASSUME NEW t \in Threads, Enter(t) PROVE SmallInv'
  <2>1. big' = [big EXCEPT ![t] = FALSE]
    BY <1>1, ControlQueueAssumption DEF Enter, SmallCommands
  <2> QED BY <1>1, <2>1 DEF SmallInv, TypeOK, Enter, driver, device
<1>2. ASSUME NEW t \in Threads,
             Lock(t) \/ Copy(t) \/ Fill(t) \/ Publish(t) \/ Notify(t) \/ PollSees(t)
      PROVE  SmallInv'
  BY <1>2 DEF SmallInv, Lock, Copy, Fill, Publish, Notify, PollSees, driver, device
<1>3. ASSUME NEW t \in Threads, Drain(t) PROVE SmallInv'
  BY <1>3 DEF SmallInv, Drain, device
<1>4. ASSUME NEW t \in Threads, Pop(t) PROVE SmallInv'
  <2>1. big' = big \/ big' = [big EXCEPT ![t] = FALSE]
    BY <1>4 DEF Pop, Return
  <2> QED BY <1>4, <2>1 DEF SmallInv, Pop, device, TypeOK
<1>5. ASSUME NEW t \in Threads, CopyFails(t) \/ NotifyMissing(t) \/ TimesOut(t) PROVE SmallInv'
  BY <1>5 DEF SmallInv, CopyFails, NotifyMissing, TimesOut, Return, device, TypeOK
<1>6. ASSUME NEW t \in Threads, Complete(t) PROVE SmallInv'
  BY <1>6 DEF SmallInv, WindowInv, Complete, Return, device, TypeOK
<1>7. CASE DevTake
  BY <1>7 DEF SmallInv, DevTake, driver, locals
<1>8. CASE DevExecute
  BY <1>8 DEF SmallInv, DevExecute, driver, locals
<1>9. CASE DevPush
  BY <1>9 DEF SmallInv, DevPush, driver, locals, NoChain
<1> QED
  BY <1>0, <1>1, <1>2, <1>3, <1>4, <1>5, <1>6, <1>7, <1>8, <1>9, NextCases
\* The window between the drain and the last chain is kept.
LEMMA NextWindowInv ==
    TypeOK /\ LockInv /\ IndexInv /\ WindowInv /\ [Next]_vars => WindowInv'
<1> SUFFICES ASSUME TypeOK, LockInv, IndexInv, WindowInv, [Next]_vars PROVE WindowInv'
  OBVIOUS
<1> USE DEF Locked, Unpublished, Drained, Sent
<1>a. ASSUME NEW t \in Threads, NEW u \in Threads, pc[t] \in Locked, pc[u] \in Locked
      PROVE  t = u
  BY <1>a DEF LockInv
\* A step that leaves the indices alone and takes no call into the window.
<1>b. ASSUME UNCHANGED <<usedIdx, lastUsed, availIdx>>,
             \A u \in Threads : /\ pc'[u] \in Drained => pc[u] \in Drained
                                /\ pc'[u] \in Unpublished => pc[u] \in Unpublished
                                /\ pc'[u] = "read" => pc[u] = "read" \/ usedIdx # lastUsed
      PROVE  WindowInv'
  BY <1>b DEF WindowInv, Outstanding
\* A call that returns leaves nobody inside.
<1>c. ASSUME NEW t \in Threads, pc[t] \in Locked, NEW code, Return(t, code) PROVE WindowInv'
  BY <1>a, <1>c DEF WindowInv, Return, TypeOK
<1>0. CASE UNCHANGED vars
  BY <1>0, <1>b DEF vars, driver, device, locals
<1>1. ASSUME NEW t \in Threads, Enter(t) PROVE WindowInv'
  BY <1>1, <1>b DEF TypeOK, Enter, driver, device
<1>2. ASSUME NEW t \in Threads, Lock(t) PROVE WindowInv'
  BY <1>2, <1>b DEF TypeOK, Lock, device
<1>3. ASSUME NEW t \in Threads, Drain(t) PROVE WindowInv'
  <2>1. lastUsed' = usedIdx /\ UNCHANGED <<usedIdx, availIdx>> /\ pc' = [pc EXCEPT ![t] = "pop"]
    BY <1>3 DEF Drain, device
  <2>2. \A u \in Threads : u # t => pc'[u] \notin Drained
    BY <1>3, <1>a, <2>1 DEF Drain, TypeOK
  <2>3. Dist(usedIdx', lastUsed') = 0 /\ Outstanding' = Outstanding /\ Outstanding < MaxOutstanding
    BY <1>3, <2>1, DistFacts DEF Drain, IndexInv, Outstanding, TypeOK
  <2>4. Outstanding \in Int
    BY DistFacts, VringAssumption DEF Outstanding, TypeOK, Idx
  <2> QED BY <2>1, <2>2, <2>3, <2>4, ControlQueueAssumption DEF WindowInv, TypeOK
<1>4. ASSUME NEW t \in Threads, Pop(t) PROVE WindowInv'
  <2>1. CASE Return(t, "NoResources")
    BY <1>4, <1>c, <2>1 DEF Pop
  <2>2. CASE pc' = [pc EXCEPT ![t] = "copy"]
    BY <1>4, <1>b, <2>2 DEF Pop, device, TypeOK
  <2> QED BY <1>4, <2>1, <2>2 DEF Pop
<1>5. ASSUME NEW t \in Threads, Copy(t) \/ Fill(t) PROVE WindowInv'
  BY <1>5, <1>b DEF TypeOK, Copy, Fill, device
<1>6. ASSUME NEW t \in Threads,
             CopyFails(t) \/ NotifyMissing(t) \/ TimesOut(t) \/ Complete(t)
      PROVE  WindowInv'
  BY <1>6, <1>c DEF CopyFails, NotifyMissing, TimesOut, Complete
<1>7. ASSUME NEW t \in Threads, Publish(t) PROVE WindowInv'
  <2>1. /\ availIdx' = Inc(availIdx) /\ UNCHANGED <<usedIdx, lastUsed>>
        /\ pc[t] = "publish" /\ pc' = [pc EXCEPT ![t] = "notify"]
    BY <1>7 DEF Publish, device
  <2>2. Dist(usedIdx, lastUsed) + Outstanding < MaxOutstanding
    BY <2>1 DEF WindowInv
  <2>3. Dist(usedIdx, lastUsed) \in Nat /\ Outstanding \in Nat
    <3>1. Dist(usedIdx, lastUsed) \in Idx /\ Outstanding \in Idx
      BY DistFacts DEF Outstanding, TypeOK
    <3> QED BY <3>1, VringAssumption DEF Idx
  <2>4. Outstanding' = Outstanding + 1
    <3>1. Outstanding < IdxMod - 1
      BY <2>2, <2>3, ControlQueueAssumption, VringAssumption
    <3> QED BY <2>1, <3>1, DistFacts DEF Outstanding, TypeOK
  <2>5. \A u \in Threads : pc'[u] \notin Unpublished /\ pc'[u] # "read"
    BY <1>a, <2>1 DEF TypeOK
  <2> QED BY <2>1, <2>2, <2>3, <2>4, <2>5, ControlQueueAssumption DEF WindowInv
<1>8. ASSUME NEW t \in Threads, Notify(t) \/ PollSees(t) PROVE WindowInv'
  BY <1>8, <1>b DEF TypeOK, Notify, PollSees, driver, device
<1>9. CASE DevTake \/ DevExecute
  BY <1>9, <1>b DEF DevTake, DevExecute, driver, locals
<1>10. CASE DevPush
  <2>1. usedIdx' = Inc(usedIdx) /\ UNCHANGED <<lastUsed, availIdx, pc>>
    BY <1>10 DEF DevPush, driver, locals
  <2>2. Outstanding >= 1
    <3>1. devChain # NoChain
      BY <1>10 DEF DevPush, NoChain
    <3> QED BY <3>1 DEF IndexInv
  <2>3. Dist(usedIdx, lastUsed) \in Nat /\ Outstanding \in Nat
    <3>1. Dist(usedIdx, lastUsed) \in Idx /\ Outstanding \in Idx
      BY DistFacts DEF Outstanding, TypeOK
    <3> QED BY <3>1, VringAssumption DEF Idx
  <2>4. Outstanding' = Outstanding - 1
    <3>1. Outstanding > 0
      BY <2>2, <2>3
    <3> QED BY <2>1, <3>1, DistFacts DEF Outstanding, TypeOK
  <2>5. ASSUME NEW t \in Threads, pc[t] \in Drained
        PROVE  Dist(usedIdx', lastUsed') = Dist(usedIdx, lastUsed) + 1
    <3>1. Dist(usedIdx, lastUsed) < IdxMod - 1
      BY <2>2, <2>3, <2>5, ControlQueueAssumption, VringAssumption DEF WindowInv
    <3> QED BY <2>1, <3>1, DistFacts DEF TypeOK
  <2>6. ASSUME NEW t \in Threads, pc[t] = "read" PROVE usedIdx' # lastUsed'
    <3>1. Dist(usedIdx', lastUsed') = Dist(usedIdx, lastUsed) + 1
      BY <2>5, <2>6
    <3> QED BY <2>1, <2>3, <3>1, DistFacts, IndexTypes DEF TypeOK
  <2> QED BY <2>1, <2>3, <2>4, <2>5, <2>6, ControlQueueAssumption DEF WindowInv
<1> QED
  BY <1>0, <1>1, <1>2, <1>3, <1>4, <1>5, <1>6, <1>7, <1>8, <1>9, <1>10, NextCases
\* The channel's variables as the mapping gives them.
Moved == AnyAt(Drained) /\ usedIdx # lastUsed
Answer == IF respBuf.type = "ok" THEN "nodata" ELSE "err"
Waiting == AnyAt(Sent)

\* Published chains, the chain in the device's hands, and the call that has
\* copied its command: the three terms of the backlog.
LEMMA PendingFacts ==
    ASSUME TypeOK, IndexInv
    PROVE  /\ Dist(availIdx, devIdx) \in Nat
           /\ Dist(availIdx, devIdx) + Dist(devIdx, usedIdx) = Outstanding
           /\ Outstanding \in Nat /\ Dist(devIdx, usedIdx) \in Nat
<1> USE VringAssumption
<1>1. /\ Dist(availIdx, devIdx) \in Idx /\ Dist(devIdx, usedIdx) \in Idx
      /\ Outstanding \in Idx /\ Dist(devIdx, usedIdx) <= Outstanding
  BY DistFacts DEF TypeOK, Outstanding, IndexInv
<1>2. availIdx \in Idx /\ devIdx \in Idx /\ usedIdx \in Idx
  BY DEF TypeOK
<1>3. Dist(availIdx, devIdx) + Dist(devIdx, usedIdx) = Outstanding
  BY <1>1, <1>2 DEF Dist, Outstanding, Idx
<1> QED BY <1>1, <1>3 DEF Idx

\* What can be said of all callers can be said of the one inside.
LEMMA InsideOnly ==
    ASSUME TypeOK, LockInv, NEW t \in Threads, pc[t] \in Locked,
           NEW W \in SUBSET Locked
    PROVE  /\ AnyAt(W) <=> pc[t] \in W
           /\ \A q : pc' = [pc EXCEPT ![t] = q] => (AnyAt(W)' <=> q \in W)
BY DEF AnyAt, LockInv, TypeOK

\* A step that changes none of these is a stuttering step of the channel.
LEMMA ChannelStutters ==
    ASSUME UNCHANGED <<cmdBuf, Pending, devChain.done, Moved, Answer, Waiting>>
    PROVE  UNCHANGED Channel!channel
BY DEF Channel!channel, Moved, Answer, Waiting

\* Every step of submitCommand and of the device is a step of the channel or
\* changes nothing its callers can see.
LEMMA NextImplements ==
    TypeOK /\ LockInv /\ DescInv /\ IndexInv /\ SmallInv /\ WindowInv /\ [Next]_vars
      => [Channel!ChannelNext]_(Channel!channel)
<1> SUFFICES ASSUME TypeOK, LockInv, DescInv, IndexInv, SmallInv, WindowInv, [Next]_vars
             PROVE  [Channel!ChannelNext]_(Channel!channel)
  OBVIOUS
<1>w. /\ {"fill", "publish"} \in SUBSET Locked
      /\ Drained \in SUBSET Locked /\ Sent \in SUBSET Locked
  BY DEF Drained, Sent, Locked
\* The step of a caller inside from one point to the next, both sides of the
\* mapping's tests alike.
<1>a. ASSUME NEW t \in Threads, pc[t] \in Locked, NEW q, pc' = [pc EXCEPT ![t] = q],
             q \in Drained <=> pc[t] \in Drained, q \in Sent <=> pc[t] \in Sent,
             q \in {"fill", "publish"} <=> pc[t] \in {"fill", "publish"},
             UNCHANGED <<cmdBuf, devChain, respBuf, availIdx, usedIdx, devIdx, lastUsed>>
      PROVE  [Channel!ChannelNext]_(Channel!channel)
  <2>1. /\ AnyAt(Drained)' <=> AnyAt(Drained)
        /\ AnyAt(Sent)' <=> AnyAt(Sent)
        /\ AnyAt({"fill", "publish"})' <=> AnyAt({"fill", "publish"})
    BY <1>a, <1>w, InsideOnly
  <2>2. UNCHANGED <<cmdBuf, Pending, devChain.done, Moved, Answer, Waiting>>
    BY <1>a, <2>1 DEF Pending, Moved, Answer, Waiting, AnyAt
  <2> QED BY <2>2, ChannelStutters
<1>0. CASE UNCHANGED vars
  <2>1. UNCHANGED <<cmdBuf, Pending, devChain.done, Moved, Answer, Waiting>>
    BY <1>0 DEF vars, driver, device, locals, Pending, Moved, Answer, Waiting, AnyAt
  <2> QED BY <2>1, ChannelStutters
<1>1. ASSUME NEW t \in Threads, Enter(t) \/ Lock(t) PROVE [Channel!ChannelNext]_(Channel!channel)
  <2>1. /\ \A u \in Threads : pc'[u] # pc[u] => {pc[u], pc'[u]} \subseteq {"idle", "lock", "drain"}
        /\ UNCHANGED <<cmdBuf, device, availIdx, lastUsed>>
    BY <1>1 DEF Enter, Lock, driver, device, TypeOK
  <2>2. /\ AnyAt(Drained)' <=> AnyAt(Drained)
        /\ AnyAt(Sent)' <=> AnyAt(Sent)
        /\ AnyAt({"fill", "publish"})' <=> AnyAt({"fill", "publish"})
    BY <2>1 DEF AnyAt, Drained, Sent
  <2>3. UNCHANGED <<cmdBuf, Pending, devChain.done, Moved, Answer, Waiting>>
    BY <2>1, <2>2 DEF device, Pending, Moved, Answer, Waiting, AnyAt
  <2> QED BY <2>3, ChannelStutters
<1>3. ASSUME NEW t \in Threads, Drain(t) PROVE [Channel!ChannelNext]_(Channel!channel)
  <2>1. pc[t] \in Locked /\ pc[t] = "drain" /\ pc' = [pc EXCEPT ![t] = "pop"]
    BY <1>3 DEF Drain, Locked
  <2>2. /\ ~AnyAt(Drained) /\ ~AnyAt(Sent) /\ ~AnyAt(Sent)'
        /\ ~AnyAt({"fill", "publish"}) /\ ~AnyAt({"fill", "publish"})'
    BY <1>w, <2>1, InsideOnly DEF Drained, Sent
  <2>3. /\ UNCHANGED <<cmdBuf, devChain, respBuf, availIdx, usedIdx, devIdx>>
        /\ lastUsed' = usedIdx'
    BY <1>3 DEF Drain, device
  <2>4. UNCHANGED <<cmdBuf, Pending, devChain.done, Moved, Answer, Waiting>>
    BY <2>2, <2>3 DEF Pending, Moved, Answer, Waiting, AnyAt
  <2> QED BY <2>4, ChannelStutters
\* A call that has not sent returns: the channel's Abort.
<1>b. ASSUME NEW t \in Threads, pc[t] \in {"pop", "copy"}, pc' = [pc EXCEPT ![t] = "idle"],
             cmdBuf' \in {cmdBuf, id[t]},
             UNCHANGED <<devChain, respBuf, availIdx, usedIdx, devIdx, lastUsed>>
      PROVE  Channel!ChannelNext
  <2>1. pc[t] \in Locked
    BY <1>b DEF Locked
  <2>2. /\ ~AnyAt(Sent) /\ ~AnyAt(Sent)' /\ ~AnyAt(Drained)'
        /\ ~AnyAt({"fill", "publish"}) /\ ~AnyAt({"fill", "publish"})'
    BY <1>b, <1>w, <2>1, InsideOnly DEF Drained, Sent
  <2>3. id[t] \in Submissions
    BY <1>b DEF TypeOK
  <2>4. Pending' = Pending /\ Answer' = Answer /\ ~Waiting /\ ~Waiting' /\ ~Moved'
    BY <1>b, <2>2 DEF Pending, Moved, Answer, Waiting
  <2>5. Channel!Abort(id[t])
    BY <1>b, <2>4 DEF Channel!Abort, Moved, Answer, Waiting, AnyAt
  <2> QED BY <2>3, <2>5 DEF Channel!ChannelNext
<1>4. ASSUME NEW t \in Threads, Pop(t) PROVE [Channel!ChannelNext]_(Channel!channel)
  <2>1. pc[t] = "pop" /\ pc[t] \in Locked
    BY <1>4 DEF Pop, Locked
  <2>2. UNCHANGED <<cmdBuf, devChain, respBuf, availIdx, usedIdx, devIdx, lastUsed>>
    BY <1>4 DEF Pop, device
  <2>3. pc' = [pc EXCEPT ![t] = "copy"] \/ pc' = [pc EXCEPT ![t] = "idle"]
    BY <1>4 DEF Pop, Return
  <2>4. CASE pc' = [pc EXCEPT ![t] = "copy"]
    BY <1>a, <2>1, <2>2, <2>4 DEF Drained, Sent
  <2>5. CASE pc' = [pc EXCEPT ![t] = "idle"]
    BY <1>b, <2>1, <2>2, <2>5
  <2> QED BY <2>3, <2>4, <2>5
<1>5. ASSUME NEW t \in Threads, Copy(t) PROVE [Channel!ChannelNext]_(Channel!channel)
  <2>1. /\ pc[t] = "copy" /\ pc[t] \in Locked /\ pc' = [pc EXCEPT ![t] = "fill"]
        /\ cmdBuf' = id[t]
        /\ UNCHANGED <<devChain, respBuf, availIdx, usedIdx, devIdx, lastUsed>>
    BY <1>5 DEF Copy, Locked, device, SmallInv
  <2>2. /\ AnyAt(Drained) /\ AnyAt(Drained)' /\ ~AnyAt(Sent) /\ AnyAt(Sent)'
        /\ ~AnyAt({"fill", "publish"}) /\ AnyAt({"fill", "publish"})'
    BY <1>w, <2>1, InsideOnly DEF Drained, Sent
  <2>3. id[t] \in Submissions
    BY <2>1 DEF TypeOK
  <2>4. Pending < MaxOutstanding /\ Pending' = Pending + 1
    <3>1. Outstanding < MaxOutstanding
      BY <2>1 DEF IndexInv, Unpublished
    <3>2. Pending = Dist(availIdx, devIdx) + (IF devChain # NoChain /\ ~devChain.done THEN 1 ELSE 0)
      BY <2>2, PendingFacts DEF Pending
    <3>3. Pending' = Dist(availIdx, devIdx) + (IF devChain # NoChain /\ ~devChain.done THEN 1 ELSE 0) + 1
      BY <2>1, <2>2, PendingFacts DEF Pending
    <3> QED BY <3>1, <3>2, <3>3, PendingFacts, ControlQueueAssumption DEF IndexInv
  <2>5. Moved' = Moved /\ Answer' = Answer /\ ~Waiting /\ Waiting' = TRUE
    BY <2>1, <2>2 DEF Moved, Answer, Waiting
  <2>6. Channel!Send(id[t])
    BY <2>1, <2>4, <2>5 DEF Channel!Send, Moved, Answer, Waiting
  <2> QED BY <2>3, <2>6 DEF Channel!ChannelNext
<1>6. ASSUME NEW t \in Threads, CopyFails(t) PROVE [Channel!ChannelNext]_(Channel!channel)
  <2>1. /\ pc[t] = "copy" /\ pc' = [pc EXCEPT ![t] = "idle"] /\ cmdBuf' \in {cmdBuf, id[t]}
        /\ UNCHANGED <<devChain, respBuf, availIdx, usedIdx, devIdx, lastUsed>>
    BY <1>6 DEF CopyFails, Return, device
  <2> QED BY <1>b, <2>1
<1>7. ASSUME NEW t \in Threads, Fill(t) \/ Notify(t) \/ PollSees(t)
      PROVE  [Channel!ChannelNext]_(Channel!channel)
  <2>1. /\ pc[t] \in Locked
        /\ UNCHANGED <<cmdBuf, devChain, respBuf, availIdx, usedIdx, devIdx, lastUsed>>
    BY <1>7 DEF Fill, Notify, PollSees, Locked, driver, device
  <2>2. \/ pc[t] = "fill" /\ pc' = [pc EXCEPT ![t] = "publish"]
        \/ pc[t] = "notify" /\ pc' = [pc EXCEPT ![t] = "poll"]
        \/ pc[t] = "poll" /\ pc' = [pc EXCEPT ![t] = "read"]
    BY <1>7 DEF Fill, Notify, PollSees
  <2> QED BY <1>a, <2>1, <2>2 DEF Drained, Sent
<1>8. ASSUME NEW t \in Threads, Publish(t) PROVE [Channel!ChannelNext]_(Channel!channel)
  <2>1. /\ pc[t] = "publish" /\ pc[t] \in Locked /\ pc' = [pc EXCEPT ![t] = "notify"]
        /\ availIdx' = Inc(availIdx)
        /\ UNCHANGED <<cmdBuf, devChain, respBuf, usedIdx, devIdx, lastUsed>>
    BY <1>8 DEF Publish, Locked, device
  <2>2. /\ AnyAt(Drained) /\ AnyAt(Drained)' /\ AnyAt(Sent) /\ AnyAt(Sent)'
        /\ AnyAt({"fill", "publish"}) /\ ~AnyAt({"fill", "publish"})'
    <3>1. /\ "publish" \in Drained /\ "notify" \in Drained /\ "publish" \in Sent /\ "notify" \in Sent
          /\ "publish" \in {"fill", "publish"} /\ "notify" \notin {"fill", "publish"}
      BY DEF Drained, Sent
    <3> QED BY <1>w, <2>1, <3>1, InsideOnly
  <2>3. Dist(availIdx', devIdx') = Dist(availIdx, devIdx) + 1
    <3>1. Outstanding < MaxOutstanding
      BY <2>1 DEF IndexInv, Unpublished
    <3>2. Dist(availIdx, devIdx) < IdxMod - 1
      BY <3>1, PendingFacts, ControlQueueAssumption, VringAssumption
    <3> QED BY <2>1, <3>2, DistFacts DEF TypeOK
  <2>4. Pending' = Pending
    BY <2>1, <2>2, <2>3, PendingFacts DEF Pending
  <2>5. UNCHANGED <<cmdBuf, Pending, devChain.done, Moved, Answer, Waiting>>
    BY <2>1, <2>2, <2>4 DEF Moved, Answer, Waiting
  <2> QED BY <2>5, ChannelStutters
\* A call that has sent returns; its chain stays where it is.
<1>c. ASSUME NEW t \in Threads, pc[t] \in Sent \ {"fill", "publish"},
             pc' = [pc EXCEPT ![t] = "idle"],
             UNCHANGED <<cmdBuf, devChain, respBuf, availIdx, usedIdx, devIdx>>
      PROVE  /\ Pending' = Pending /\ Answer' = Answer /\ Waiting /\ ~Waiting'
             /\ Moved <=> usedIdx # lastUsed
             /\ ~Moved'
  <2>1. pc[t] \in Locked /\ pc[t] \in Drained
    BY <1>c DEF Locked, Drained, Sent
  <2>2. /\ AnyAt(Drained) /\ ~AnyAt(Drained)' /\ AnyAt(Sent) /\ ~AnyAt(Sent)'
        /\ ~AnyAt({"fill", "publish"}) /\ ~AnyAt({"fill", "publish"})'
    <3>1. "idle" \notin Drained /\ "idle" \notin Sent /\ "idle" \notin {"fill", "publish"}
      BY DEF Drained, Sent
    <3> QED BY <1>c, <1>w, <2>1, <3>1, InsideOnly
  <2> QED BY <1>c, <2>2 DEF Pending, Moved, Answer, Waiting
<1>9. ASSUME NEW t \in Threads, NotifyMissing(t) \/ TimesOut(t)
      PROVE  [Channel!ChannelNext]_(Channel!channel)
  <2>1. /\ pc[t] \in Sent \ {"fill", "publish"} /\ pc' = [pc EXCEPT ![t] = "idle"]
        /\ UNCHANGED <<cmdBuf, devChain, respBuf, availIdx, usedIdx, devIdx, lastUsed>>
    BY <1>9 DEF NotifyMissing, TimesOut, Return, device, Sent
  <2>2. usedIdx = lastUsed
    BY <1>9 DEF NotifyMissing, TimesOut, SmallInv
  <2>3. Channel!TimedOut
    BY <1>c, <2>1, <2>2 DEF Channel!TimedOut, Moved, Answer, Waiting, AnyAt
  <2> QED BY <2>3 DEF Channel!ChannelNext
<1>10. ASSUME NEW t \in Threads, Complete(t) PROVE [Channel!ChannelNext]_(Channel!channel)
  <2>1. /\ pc[t] = "read" /\ pc' = [pc EXCEPT ![t] = "idle"]
        /\ UNCHANGED <<cmdBuf, devChain, respBuf, availIdx, usedIdx, devIdx>>
    BY <1>10 DEF Complete, Return, device
  <2>2. usedIdx # lastUsed /\ pc[t] \in Sent \ {"fill", "publish"}
    BY <2>1 DEF WindowInv, Sent
  <2>3. Channel!Answered
    BY <1>c, <2>1, <2>2 DEF Channel!Answered, Moved, Answer, Waiting, AnyAt
  <2> QED BY <2>3 DEF Channel!ChannelNext
<1>11. CASE DevTake
  <2>1. /\ devChain = NoChain /\ devIdx # availIdx /\ devIdx' = Inc(devIdx)
        /\ devChain' # NoChain /\ devChain'.done = FALSE
        /\ UNCHANGED <<pc, cmdBuf, respBuf, availIdx, usedIdx, lastUsed>>
    <3>1. availRing[Slot(devIdx)] # EndOfList
      BY IndexTypes DEF TypeOK, Descs, EndOfList
    <3> QED BY <1>11, <3>1 DEF DevTake, driver, locals, NoChain
  <2>2. Dist(availIdx', devIdx') = Dist(availIdx, devIdx) - 1
    <3>1. Dist(availIdx, devIdx) > 0
      <4>1. Dist(availIdx, devIdx) # 0
        BY <2>1, DistFacts DEF TypeOK
      <4> QED BY <4>1, PendingFacts
    <3> QED BY <2>1, <3>1, DistFacts DEF TypeOK
  <2>3. Pending' = Pending
    BY <2>1, <2>2, PendingFacts DEF Pending, AnyAt
  <2>4. UNCHANGED <<cmdBuf, Pending, devChain.done, Moved, Answer, Waiting>>
    BY <2>1, <2>3 DEF Moved, Answer, Waiting, AnyAt, NoChain
  <2> QED BY <2>4, ChannelStutters
<1>12. CASE DevExecute
  <2>1. /\ devChain # NoChain /\ ~devChain.done /\ devChain' # NoChain /\ devChain'.done = TRUE
        /\ UNCHANGED <<pc, cmdBuf, availIdx, usedIdx, devIdx, lastUsed>>
    BY <1>12 DEF DevExecute, driver, locals, NoChain
  <2>2. devChain.done = FALSE
    BY <2>1 DEF TypeOK, NoChain
  <2>3. Pending > 0 /\ Pending' = Pending - 1
    BY <2>1, PendingFacts DEF Pending, AnyAt
  <2>4. Moved' = Moved /\ Waiting' = Waiting
    BY <2>1 DEF Moved, Waiting, AnyAt
  <2>5. Answer' \in Channel!Answers
    BY DEF Answer, Channel!Answers
  <2>6. Channel!Execute(Answer')
    BY <2>1, <2>2, <2>3, <2>4 DEF Channel!Execute, Moved, Answer, Waiting
  <2> QED BY <2>5, <2>6 DEF Channel!ChannelNext
<1>13. CASE DevPush
  <2>1. /\ devChain.done /\ devChain # NoChain /\ devChain' = NoChain
        /\ usedIdx' = Inc(usedIdx)
        /\ UNCHANGED <<pc, cmdBuf, respBuf, availIdx, devIdx, lastUsed>>
    BY <1>13 DEF DevPush, driver, locals, NoChain
  <2>2. Pending' = Pending /\ Answer' = Answer /\ Waiting' = Waiting /\ devChain'.done = FALSE
    BY <2>1 DEF Pending, Answer, Waiting, AnyAt, NoChain
  <2>3. AnyAt(Drained) => Moved' = TRUE
    <3> SUFFICES ASSUME NEW t \in Threads, pc[t] \in Drained PROVE usedIdx' # lastUsed
      BY <2>1 DEF Moved, AnyAt
    <3>1. Outstanding >= 1
      BY <2>1 DEF IndexInv
    <3>2. Dist(usedIdx, lastUsed) \in Nat
      BY DistFacts, VringAssumption DEF TypeOK, Idx
    <3>3. Dist(usedIdx, lastUsed) < IdxMod - 1
      BY <3>1, <3>2, PendingFacts, ControlQueueAssumption, VringAssumption DEF WindowInv
    <3>4. Dist(usedIdx', lastUsed) = Dist(usedIdx, lastUsed) + 1
      BY <2>1, <3>3, DistFacts DEF TypeOK
    <3>5. usedIdx' \in Idx /\ lastUsed \in Idx
      BY <2>1, IndexTypes DEF TypeOK
    <3> QED BY <3>2, <3>4, <3>5, DistFacts
  <2>4. ~AnyAt(Drained) => ~Waiting /\ Moved' = Moved
    BY <2>1 DEF Moved, Waiting, AnyAt, Drained
  <2>5. Channel!Push
    BY <2>1, <2>2, <2>3, <2>4 DEF Channel!Push, Moved, Answer, Waiting
  <2> QED BY <2>5 DEF Channel!ChannelNext
<1> QED
  BY <1>0, <1>1, <1>3, <1>4, <1>5, <1>6, <1>7, <1>8, <1>9, <1>10, <1>11, <1>12, <1>13,
     NextCases

\* For commands that fit m_cmd_buf submitCommand implements the channel that
\* the resource pool, the user client and the framebuffer are modelled on.
THEOREM ImplementsTheorem == ASSUME SmallCommands PROVE Spec => ImplementsChannel
<1>1. Init => Channel!ChannelInit
  <2> SUFFICES ASSUME Init PROVE Channel!ChannelInit
    OBVIOUS
  <2>1. ~AnyAt({"fill", "publish"}) /\ ~AnyAt(Drained) /\ ~AnyAt(Sent)
    BY DEF Init, AnyAt, Drained, Sent
  <2>2. Dist(availIdx, devIdx) = 0 /\ Pending = 0
    BY <2>1 DEF Init, Dist, Pending, NoChain
  <2> QED BY <2>1, <2>2 DEF Init, Channel!ChannelInit, NoChain
<1>2. Init => IndexInv /\ SmallInv /\ WindowInv
  BY DistFacts, IndexTypes, ControlQueueAssumption
  DEF Init, IndexInv, SmallInv, WindowInv, Outstanding, Unpublished, Drained, Sent
<1>3. SmallCommands
  OBVIOUS
<1> QED
  BY <1>1, <1>2, <1>3, DescAlways, NextIndexInv, NextSmallInv, NextWindowInv, NextImplements, PTL
  DEF Spec, ImplementsChannel, Channel!ChannelSpec
=============================================================================
