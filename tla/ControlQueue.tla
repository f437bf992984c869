---------------------------- MODULE ControlQueue ----------------------------
(***************************************************************************)
(* VMVirtIOGPU::submitCommand over the control queue: any number of kernel *)
(* threads submit, the device works through the avail ring at its own      *)
(* pace, and a submitter that has polled for 150 ms gives up.              *)
(*                                                                         *)
(* The data of a command is abstracted to the number of the submission it  *)
(* was written by, so a response can be compared with the call that        *)
(* receives it.  m_cmd_buf and m_resp_buf are ONE buffer each, shared by   *)
(* every call; a command larger than m_cmd_buf gets a buffer of its own.   *)
(***************************************************************************)
EXTENDS Vring, FiniteSets

CONSTANTS
    Threads,        \* callers of submitCommand
    NoThread,       \* m_vq_lock has no owner
    Sizes,          \* which commands callers make: larger than m_cmd_buf or not
    MaxSubmits,     \* bound: number of submissions of a behaviour
    MaxOutstanding  \* bound: published commands the device has not completed

\* The bound on the backlog keeps the index comparison of the poll loop
\* unambiguous: 2^16 commands timing out in a row (2.7 hours of a dead
\* device) would alias it.
ASSUME ControlQueueAssumption == /\ NoThread \notin Threads
                                 /\ Sizes \subseteq BOOLEAN
                                 /\ MaxSubmits \in Nat
                                 /\ MaxOutstanding \in Nat
                                 /\ MaxOutstanding < IdxMod

VARIABLES
    lock,       \* m_vq_lock
    free,       \* m_vq_free_head, m_vq_free_next
    lastUsed,   \* m_vq_last_used
    availIdx,   \* m_vq_avail_idx, and avail->idx which follows it
    availRing,  \* avail->ring
    usedIdx,    \* used->idx, written by the device
    usedRing,   \* used->ring[].id, written by the device
    desc,       \* the descriptor table: [addr, next] of each descriptor
    cmdBuf,     \* the submission whose bytes m_cmd_buf holds
    respBuf,    \* m_resp_buf: [of, type]
    temp,       \* submissions whose temp_cmd_buf is allocated
    notifyMapped, \* m_notify_base or m_notify_map was set up
    devIdx,     \* the device's own position in the avail ring
    devChain,   \* the chain the device has taken off the ring
    pc,         \* where each thread is in submitCommand
    id,         \* the submission a thread is making
    big,        \* cmd_size > m_cmd_buf's capacity
    cmdDesc, respDesc,  \* the locals of those names
    ret,        \* what the thread's last call returned
    seq,        \* submissions so far (m_submit_count)
    ran, reran, \* submissions the device executed, and more than once
    quiet,      \* the backlog was empty when the lock's owner drained
    clean,      \* submissions completed by a call that started quiet
    abandoned   \* submissions given up on after they were published

driver == <<lock, free, lastUsed, availIdx, availRing, desc, cmdBuf, temp>>
device == <<usedIdx, usedRing, respBuf, devIdx, devChain, ran, reran>>
locals == <<pc, id, big, cmdDesc, respDesc, ret>>
ghosts == <<quiet, clean, abandoned>>
vars == <<driver, device, locals, notifyMapped, seq, ghosts>>

-----------------------------------------------------------------------------
\* A buffer is the shared m_cmd_buf or the temporary one of a submission.
Static == 0
\* What the device finds in a temporary buffer that has been released.
Garbage == -1

Submissions == 1 .. MaxSubmits
NoChain == [head |-> EndOfList, addr |-> Static, done |-> FALSE]
ZeroDesc == [addr |-> Static, next |-> 0]
Locked == {"drain", "pop", "copy", "fill", "publish", "notify", "poll", "read"}
Published == {"notify", "poll", "read"}

Codes == {"none", "Success", "Error", "Timeout", "NoResources", "NoMemory", "NotReady"}

\* After setupControlVirtQueue has succeeded.  The notify region may have
\* been missing: readNotifyConfig failing is not fatal there.
Init ==
    /\ lock = NoThread
    /\ free = FreshFreeList
    /\ lastUsed = 0 /\ availIdx = 0 /\ usedIdx = 0 /\ devIdx = 0
    /\ availRing = [s \in Descs |-> 0] /\ usedRing = [s \in Descs |-> 0]
    /\ desc = [d \in Descs |-> ZeroDesc]
    /\ cmdBuf = 0
    /\ respBuf = [of |-> 0, type |-> "zero"]
    /\ temp = {}
    /\ notifyMapped \in BOOLEAN
    /\ devChain = NoChain
    /\ pc = [t \in Threads |-> "idle"]
    /\ id = [t \in Threads |-> 0]
    /\ big = [t \in Threads |-> FALSE]
    /\ cmdDesc = [t \in Threads |-> 0] /\ respDesc = [t \in Threads |-> 0]
    /\ ret = [t \in Threads |-> "none"]
    /\ seq = 0
    /\ ran = {} /\ reran = {}
    /\ quiet = FALSE /\ clean = {} /\ abandoned = {}

\* Published commands the device has not put on the used ring yet.
Outstanding == Dist(availIdx, usedIdx)

-----------------------------------------------------------------------------
(* The caller.  Each action is the code between two points at which the    *)
(* device, or the owner of the lock, can be seen to have moved.            *)

\* Parameter and initialisation checks passed; the call is counted.
Enter(t) ==
    /\ pc[t] = "idle"
    /\ seq < MaxSubmits
    /\ seq' = seq + 1
    /\ id' = [id EXCEPT ![t] = seq + 1]
    /\ \E b \in Sizes : big' = [big EXCEPT ![t] = b]
    /\ pc' = [pc EXCEPT ![t] = "lock"]
    /\ ret' = [ret EXCEPT ![t] = "none"]
    /\ UNCHANGED <<driver, device, cmdDesc, respDesc, notifyMapped, ghosts>>

\* IOLockLock(m_vq_lock)
Lock(t) ==
    /\ pc[t] = "lock"
    /\ lock = NoThread
    /\ Outstanding < MaxOutstanding
    /\ lock' = t
    /\ pc' = [pc EXCEPT ![t] = "drain"]
    /\ UNCHANGED <<free, lastUsed, availIdx, availRing, desc, cmdBuf, temp,
                   device, id, big, cmdDesc, respDesc, ret, notifyMapped, seq, ghosts>>

\* Mutant: the code before the drain was added.
DrainNothing(t) ==
    /\ pc[t] = "drain"
    /\ quiet' = (Outstanding = 0)
    /\ pc' = [pc EXCEPT ![t] = "pop"]
    /\ UNCHANGED <<driver, device, id, big, cmdDesc, respDesc, ret,
                   notifyMapped, seq, clean, abandoned>>

\* m_vq_last_used = m_vq_used->idx: whatever has completed is skipped.
Drain(t) ==
    /\ pc[t] = "drain"
    /\ lastUsed' = usedIdx
    /\ quiet' = (Outstanding = 0)
    /\ pc' = [pc EXCEPT ![t] = "pop"]
    /\ UNCHANGED <<lock, free, availIdx, availRing, desc, cmdBuf, temp,
                   device, id, big, cmdDesc, respDesc, ret, notifyMapped, seq,
                   clean, abandoned>>

\* Return of a call that still holds the lock; its locals are gone.
Return(t, code) ==
    /\ lock' = NoThread
    /\ pc' = [pc EXCEPT ![t] = "idle"]
    /\ ret' = [ret EXCEPT ![t] = code]
    /\ id' = [id EXCEPT ![t] = 0]
    /\ big' = [big EXCEPT ![t] = FALSE]
    /\ cmdDesc' = [cmdDesc EXCEPT ![t] = 0]
    /\ respDesc' = [respDesc EXCEPT ![t] = 0]

\* Two descriptors off the free list, or none: a single one is put back.
Pop(t) ==
    /\ pc[t] = "pop"
    /\ LET c == free.head
           r == free.next[c]
       IN IF c # EndOfList /\ r # EndOfList
          THEN /\ free' = PopFree(PopFree(free))
               /\ cmdDesc' = [cmdDesc EXCEPT ![t] = c]
               /\ respDesc' = [respDesc EXCEPT ![t] = r]
               /\ pc' = [pc EXCEPT ![t] = "copy"]
               /\ UNCHANGED <<lock, ret, id, big>>
          ELSE /\ free' = IF c = EndOfList THEN free
                          ELSE PushFree(PopFree(free), c)
               /\ Return(t, "NoResources")
    /\ UNCHANGED <<lastUsed, availIdx, availRing, desc, cmdBuf, temp, device,
                   notifyMapped, seq, ghosts>>

\* The command's bytes go to m_cmd_buf, or to a buffer of the call's own.
Copy(t) ==
    /\ pc[t] = "copy"
    /\ IF big[t] THEN temp' = temp \cup {id[t]} /\ UNCHANGED cmdBuf
                 ELSE cmdBuf' = id[t] /\ UNCHANGED temp
    /\ pc' = [pc EXCEPT ![t] = "fill"]
    /\ UNCHANGED <<lock, free, lastUsed, availIdx, availRing, desc, device,
                   id, big, cmdDesc, respDesc, ret, notifyMapped, seq, ghosts>>

\* temp_cmd_buf could not be allocated, or a physical address is missing:
\* when it is the response buffer's, temp_cmd_buf is not released.
CopyFails(t) ==
    /\ pc[t] = "copy"
    /\ cmdBuf' = IF big[t] THEN cmdBuf ELSE id[t]
    /\ temp' \in {temp, IF big[t] THEN temp \cup {id[t]} ELSE temp}
    /\ free' = ReturnChain(free, cmdDesc[t], respDesc[t])
    /\ Return(t, "NoMemory")
    /\ UNCHANGED <<lastUsed, availIdx, availRing, desc, device, notifyMapped, seq, ghosts>>

\* The command descriptor, chained to the response descriptor.
Fill(t) ==
    /\ pc[t] = "fill"
    /\ desc' = [desc EXCEPT
                  ![cmdDesc[t]] = [addr |-> IF big[t] THEN id[t] ELSE Static,
                                   next |-> respDesc[t]],
                  ![respDesc[t]] = ZeroDesc]
    /\ pc' = [pc EXCEPT ![t] = "publish"]
    /\ UNCHANGED <<lock, free, lastUsed, availIdx, availRing, cmdBuf, temp,
                   device, id, big, cmdDesc, respDesc, ret, notifyMapped, seq, ghosts>>

\* avail->ring[avail_idx % size] = cmd_desc; avail->idx = ++m_vq_avail_idx
Publish(t) ==
    /\ pc[t] = "publish"
    /\ availRing' = [availRing EXCEPT ![Slot(availIdx)] = cmdDesc[t]]
    /\ availIdx' = Inc(availIdx)
    /\ pc' = [pc EXCEPT ![t] = "notify"]
    /\ UNCHANGED <<lock, free, lastUsed, desc, cmdBuf, temp, device, id, big,
                   cmdDesc, respDesc, ret, notifyMapped, seq, ghosts>>

\* The doorbell, when there is one to ring.
Notify(t) ==
    /\ pc[t] = "notify"
    /\ notifyMapped
    /\ pc' = [pc EXCEPT ![t] = "poll"]
    /\ UNCHANGED <<driver, device, id, big, cmdDesc, respDesc, ret,
                   notifyMapped, seq, ghosts>>

\* No notify mapping: the chain is taken back although it is on the ring.
NotifyMissing(t) ==
    /\ pc[t] = "notify"
    /\ ~notifyMapped
    /\ free' = ReturnChain(free, cmdDesc[t], respDesc[t])
    /\ abandoned' = abandoned \cup {id[t]}
    /\ Return(t, "NotReady")
    /\ UNCHANGED <<lastUsed, availIdx, availRing, desc, cmdBuf, temp, device, notifyMapped, seq, quiet, clean>>

\* Mutant: the loop leaves without looking at used->idx.
PollSeesAnything(t) ==
    /\ pc[t] = "poll"
    /\ pc' = [pc EXCEPT ![t] = "read"]
    /\ UNCHANGED <<driver, device, id, big, cmdDesc, respDesc, ret,
                   notifyMapped, seq, ghosts>>

\* The poll loop leaves because used->idx moved.
PollSees(t) ==
    /\ pc[t] = "poll"
    /\ usedIdx # lastUsed
    /\ pc' = [pc EXCEPT ![t] = "read"]
    /\ UNCHANGED <<driver, device, id, big, cmdDesc, respDesc, ret,
                   notifyMapped, seq, ghosts>>

\* Mutant: only the command descriptor is given back.
TimesOutLeaksResp(t) ==
    /\ pc[t] = "poll"
    /\ usedIdx = lastUsed
    /\ free' = PushFree(free, cmdDesc[t])
    /\ abandoned' = abandoned \cup {id[t]}
    /\ Return(t, "Timeout")
    /\ UNCHANGED <<lastUsed, availIdx, availRing, desc, cmdBuf, temp, device, notifyMapped, seq, quiet, clean>>

\* Mutant: the loop has no bound.
NeverTimesOut(t) == FALSE /\ pc[t] = "poll" /\ UNCHANGED vars

\* The poll loop ran out.  The descriptors go back to the free list; the
\* device still has the chain, and temp_cmd_buf is not released.
TimesOut(t) ==
    /\ pc[t] = "poll"
    /\ usedIdx = lastUsed
    /\ free' = ReturnChain(free, cmdDesc[t], respDesc[t])
    /\ abandoned' = abandoned \cup {id[t]}
    /\ Return(t, "Timeout")
    /\ UNCHANGED <<lastUsed, availIdx, availRing, desc, cmdBuf, temp, device, notifyMapped, seq, quiet, clean>>

\* 0x1100..0x11ff is success; errors, and anything else, are not.  A call without
\* a response buffer would always succeed; every caller passes one.
Classify(resp) == IF resp.type = "ok" THEN "Success" ELSE "Error"

\* Consume one used entry and take the response.  A used_elem->id that
\* differs from cmd_desc is logged and changes nothing.
Complete(t) ==
    /\ pc[t] = "read"
    /\ lastUsed' = Inc(lastUsed)
    /\ free' = ReturnChain(free, cmdDesc[t], respDesc[t])
    /\ temp' = IF big[t] THEN temp \ {id[t]} ELSE temp
    /\ clean' = IF quiet THEN clean \cup {id[t]} ELSE clean
    /\ Return(t, Classify(respBuf))
    /\ UNCHANGED <<availIdx, availRing, desc, cmdBuf, device, notifyMapped, seq, quiet, abandoned>>

-----------------------------------------------------------------------------
(* The device (external): it takes chains in ring order, one at a time,    *)
(* reads the command from the buffer the descriptor names at that moment,  *)
(* writes the response and then the used entry.  It moves only once it has *)
(* been notified.                                                          *)

DevTake ==
    /\ notifyMapped
    /\ devChain = NoChain
    /\ devIdx # availIdx
    /\ LET h == availRing[Slot(devIdx)]
       IN devChain' = [head |-> h, addr |-> desc[h].addr, done |-> FALSE]
    /\ devIdx' = Inc(devIdx)
    /\ UNCHANGED <<driver, locals, usedIdx, usedRing, respBuf, ran, reran,
                   notifyMapped, seq, ghosts>>

\* The submission whose bytes a buffer holds.
BytesAt(addr) == IF addr = Static THEN cmdBuf
                 ELSE IF addr \in temp THEN addr ELSE Garbage

DevExecute ==
    /\ devChain # NoChain
    /\ ~devChain.done
    /\ LET n == BytesAt(devChain.addr)
       IN /\ \E ty \in {"ok", "err"} : respBuf' = [of |-> n, type |-> ty]
          /\ ran' = ran \cup {n}
          /\ reran' = IF n \in ran THEN reran \cup {n} ELSE reran
    /\ devChain' = [head |-> devChain.head, addr |-> devChain.addr, done |-> TRUE]
    /\ UNCHANGED <<driver, locals, usedIdx, usedRing, devIdx, notifyMapped,
                   seq, ghosts>>

DevPush ==
    /\ devChain.done
    /\ usedRing' = [usedRing EXCEPT ![Slot(usedIdx)] = devChain.head]
    /\ usedIdx' = Inc(usedIdx)
    /\ devChain' = NoChain
    /\ UNCHANGED <<driver, locals, respBuf, devIdx, ran, reran, notifyMapped,
                   seq, ghosts>>

Submitter(t) == \/ Enter(t) \/ Lock(t) \/ Drain(t) \/ Pop(t) \/ Copy(t)
                \/ CopyFails(t) \/ Fill(t) \/ Publish(t) \/ Notify(t)
                \/ NotifyMissing(t) \/ PollSees(t) \/ TimesOut(t) \/ Complete(t)

Device == DevTake \/ DevExecute \/ DevPush

\* Every submission has been made and has returned.
Finished == /\ seq = MaxSubmits \/ Outstanding >= MaxOutstanding
            /\ \A t \in Threads : pc[t] \in {"idle", "lock"}
            /\ lock = NoThread
            /\ UNCHANGED vars

Next == (\E t \in Threads : Submitter(t)) \/ Device \/ Finished

Spec == Init /\ [][Next]_vars

\* The owner of the lock keeps running: nothing in the critical section
\* waits for anything but the bounded poll loop.
Fairness == \A t \in Threads :
                WF_vars(/\ pc[t] \in Locked
                        /\ Submitter(t))
FairSpec == Spec /\ Fairness

-----------------------------------------------------------------------------
\* The types of the variables.
TypeOK ==
    /\ lock \in Threads \cup {NoThread}
    /\ free \in FreeLists
    /\ lastUsed \in Idx /\ availIdx \in Idx /\ usedIdx \in Idx /\ devIdx \in Idx
    /\ availRing \in [Descs -> Descs] /\ usedRing \in [Descs -> Descs]
    /\ desc \in [Descs -> [addr : Submissions \cup {Static}, next : Descs]]
    /\ cmdBuf \in Submissions \cup {0}
    /\ respBuf \in [of : Submissions \cup {0, Garbage}, type : {"zero", "ok", "err"}]
    /\ temp \in SUBSET Submissions
    /\ notifyMapped \in BOOLEAN
    /\ devChain \in {NoChain} \cup
                     [head : Descs, addr : Submissions \cup {Static}, done : BOOLEAN]
    /\ pc \in [Threads -> Locked \cup {"idle", "lock"}]
    /\ id \in [Threads -> Submissions \cup {0}]
    /\ \A t \in Threads : pc[t] # "idle" => id[t] # 0
    /\ big \in [Threads -> BOOLEAN]
    /\ cmdDesc \in [Threads -> Descs] /\ respDesc \in [Threads -> Descs]
    /\ ret \in [Threads -> Codes]
    /\ seq \in Submissions \cup {0}
    /\ ran \in SUBSET (Submissions \cup {0, Garbage})
    /\ reran \in SUBSET (Submissions \cup {0, Garbage})
    /\ quiet \in BOOLEAN
    /\ clean \in SUBSET Submissions /\ abandoned \in SUBSET Submissions

\* No exit path of submitCommand loses, duplicates or reorders a descriptor:
\* between calls the free list is the one the set-up built.
FreeListIntact == lock = NoThread => free = FreshFreeList

\* No call ever fails for lack of descriptors once the queue has two: calls
\* are serialised by the lock and each gives both back, timed out or not.
NeverExhausted ==
    Size >= 2 => \A t \in Threads : ret[t] # "NoResources"

\* The check `used_elem->id != cmd_desc' can never fire, whatever timed out
\* before: the descriptors of an abandoned chain are the next call's, so the
\* id of a late completion is the id of the current one.
IdCheckBlind ==
    \A t \in Threads : pc[t] = "read" => usedRing[Slot(lastUsed)] = cmdDesc[t]

\* What the drain does guarantee: a call that found no backlog receives the
\* response to its own command, even after earlier calls timed out.
OwnResponseWhenQuiet ==
    \A t \in Threads : pc[t] = "read" /\ quiet => respBuf.of = id[t]

\* The device has executed the command of such a call, and executes it no
\* second time, although every call shares m_cmd_buf and the descriptors.
QuietExactlyOnce == clean \subseteq ran \ reran

\* The device reads a released temp_cmd_buf only after some call was
\* abandoned: a completion that is not this call's releases it too early.
FreedReadNeedsAbandoned == Garbage \in ran => abandoned # {}

\* Whoever holds m_vq_lock lets go of it: the poll loop is bounded, so a
\* dead device delays the other callers and does not block them.
LockReleased == \A t \in Threads : (lock = t) ~> (lock # t)

-----------------------------------------------------------------------------
(* The inductive invariant behind the safety properties, in parts.         *)

Holding == {"copy", "fill", "publish", "notify", "poll", "read"}
Unpublished == {"pop", "copy", "fill", "publish"}

\* The free list while a call holds descriptors 0 and 1.
HeldFreeList == [head |-> FreshFreeList.next[1], next |-> FreshFreeList.next]

\* The owner of m_vq_lock is the thread in the critical section.
LockInv == \A t \in Threads : pc[t] \in Locked <=> lock = t

\* The last-in-first-out free list hands every call the same two
\* descriptors, so 0 is the only head that ever reaches a ring.
DescInv ==
    /\ (\A t \in Threads : pc[t] \notin Holding) => free = FreshFreeList
    /\ \A t \in Threads : pc[t] \in Holding =>
          /\ Size >= 2
          /\ free = HeldFreeList
          /\ cmdDesc[t] = 0 /\ respDesc[t] = 1
    /\ \A s \in Descs : availRing[s] = 0 /\ usedRing[s] = 0
    /\ devChain # NoChain => devChain.head = 0
    /\ NeverExhausted

\* used <= device <= avail, in the cyclic order of the indices.
IndexInv ==
    /\ Dist(devIdx, usedIdx) = IF devChain = NoChain THEN 0 ELSE 1
    /\ Dist(devIdx, usedIdx) <= Outstanding
    /\ Outstanding <= MaxOutstanding
    /\ \A t \in Threads :
          pc[t] \in Unpublished \cup {"drain"} => Outstanding < MaxOutstanding

\* The buffer a call puts its command in, and that the command is there.
AddrOf(t) == IF big[t] THEN id[t] ELSE Static
InBuffer(t) == IF big[t] THEN id[t] \in temp ELSE cmdBuf = id[t]

\* A call that started quiet has the device to itself.
AloneWithDevice(t) ==
    /\ pc[t] \in Unpublished => lastUsed = availIdx /\ usedIdx = availIdx
    /\ pc[t] \in {"fill", "publish"} \cup Published => InBuffer(t)
    /\ pc[t] \in {"publish"} \cup Published => desc[0].addr = AddrOf(t)
    /\ pc[t] \in Published =>
          /\ availIdx = Inc(lastUsed)
          /\ usedIdx \in {lastUsed, availIdx}
          /\ devChain # NoChain => devChain.addr = AddrOf(t)
          /\ devChain.done \/ usedIdx = availIdx => respBuf.of = id[t]
    /\ pc[t] = "read" => usedIdx = availIdx
QuietInv == quiet => \A t \in Threads : AloneWithDevice(t)

\* Submissions are numbered once, and a number reaches a buffer, and so
\* the device, only through its own call.
NumberInv ==
    /\ clean \subseteq 1 .. seq
    /\ \A t \in Threads : pc[t] # "idle" => id[t] \in 1 .. seq /\ id[t] \notin clean
    /\ \A t, u \in Threads : pc[t] # "idle" /\ pc[u] # "idle" /\ id[t] = id[u] => t = u
    /\ cmdBuf <= seq /\ \A n \in temp \cup ran : n <= seq
    /\ \A t \in Threads : pc[t] \in {"lock", "drain", "pop", "copy"} =>
          id[t] \notin temp \cup ran /\ cmdBuf # id[t]
    /\ \A t \in Threads : pc[t] \in {"fill", "publish"} => InBuffer(t)
    /\ \A t \in Threads : pc[t] = "publish" => desc[0].addr = AddrOf(t)

\* What the device may still execute is no completed quiet command, and a
\* quiet command has been executed exactly when its response was written.
OnceInv ==
    /\ QuietExactlyOnce
    /\ reran \subseteq ran
    /\ devIdx # availIdx => BytesAt(desc[0].addr) \notin clean
    /\ devChain # NoChain /\ ~devChain.done => BytesAt(devChain.addr) \notin clean
    /\ \A t \in Threads : quiet =>
          /\ pc[t] \in {"fill", "publish"} => id[t] \notin ran
          /\ pc[t] \in Published =>
                /\ id[t] \notin reran
                /\ id[t] \in ran <=> (devChain.done \/ usedIdx = availIdx)
=============================================================================
