---------------------------- MODULE CursorQueue ----------------------------
(***************************************************************************)
(* VMVirtIOGPU::submitCursorCommand, the way UPDATE_CURSOR and MOVE_CURSOR *)
(* reach queue 1.  It has a vring, a lock and buffers of its own and       *)
(* follows submitCommand with three differences the properties are about:  *)
(* used entries left by a call that timed out are not drained, a missing   *)
(* doorbell only makes the call time out, and no response is classified    *)
(* (the device pushes cursor chains with length 0 and writes none).        *)
(***************************************************************************)
EXTENDS Vring, FiniteSets

CONSTANTS
    Callers,        \* callers of updateCursor and moveCursor
    NoCaller,       \* m_cursor_vq_lock has no owner
    MaxCommands     \* bound: cursor commands of a behaviour

ASSUME CursorQueueAssumption == /\ NoCaller \notin Callers
                                /\ MaxCommands \in Nat

VARIABLES
    lock,       \* m_cursor_vq_lock
    free,       \* m_cursor_vq_free_head, m_cursor_vq_free_next
    lastUsed,   \* m_cursor_vq_last_used
    availIdx,   \* m_cursor_vq_avail_idx and avail->idx
    usedIdx,    \* used->idx, written by the device
    cmdBuf,     \* the command m_cursor_cmd_buf holds
    kicked,     \* m_notify_base or m_notify_map exists: the doorbell works
    devIdx,     \* the device's position in the avail ring
    pc,         \* where each thread is
    id,         \* the command a thread is submitting
    cmdDesc, respDesc,
    ret,        \* result of each command: "none" until it returned
    seq,        \* commands so far
    fetched        \* commands whose bytes the device has read

cursorVars == <<lock, free, lastUsed, availIdx, usedIdx, cmdBuf, kicked, devIdx, pc,
          id, cmdDesc, respDesc, ret, seq, fetched>>

Commands == 1 .. MaxCommands
Results == {"none", "Success", "Timeout", "NoResources"}

\* After setupCursorQueue, whose ring is zeroed and whose free list is fresh.
CursorInit ==
    /\ lock = NoCaller
    /\ free = FreshFreeList
    /\ lastUsed = 0 /\ availIdx = 0 /\ usedIdx = 0 /\ devIdx = 0
    /\ cmdBuf = 0
    /\ kicked \in BOOLEAN
    /\ pc = [t \in Callers |-> "idle"]
    /\ id = [t \in Callers |-> 0]
    /\ cmdDesc = [t \in Callers |-> 0] /\ respDesc = [t \in Callers |-> 0]
    /\ ret = [n \in Commands |-> "none"]
    /\ seq = 0
    /\ fetched = {}

\* updateCursor or moveCursor builds a command and takes the lock.
Enter(t) ==
    /\ pc[t] = "idle"
    /\ lock = NoCaller
    /\ seq < MaxCommands
    /\ lock' = t
    /\ seq' = seq + 1
    /\ id' = [id EXCEPT ![t] = seq + 1]
    /\ pc' = [pc EXCEPT ![t] = "pop"]
    /\ UNCHANGED <<free, lastUsed, availIdx, usedIdx, cmdBuf, kicked, devIdx,
                   cmdDesc, respDesc, ret, fetched>>

\* Unlock and return.
Return(t, code) ==
    /\ lock' = NoCaller
    /\ pc' = [pc EXCEPT ![t] = "idle"]
    /\ ret' = [ret EXCEPT ![id[t]] = code]

\* Two descriptors, the copy into m_cursor_cmd_buf and the descriptor writes;
\* with fewer than two the list is put back as it was.
Prepare(t) ==
    /\ pc[t] = "pop"
    /\ LET c == free.head
           r == free.next[c]
       IN IF c # EndOfList /\ r # EndOfList
          THEN /\ cmdDesc' = [cmdDesc EXCEPT ![t] = c]
               /\ respDesc' = [respDesc EXCEPT ![t] = r]
               /\ free' = PopFree(PopFree(free))
               /\ cmdBuf' = id[t]
               /\ pc' = [pc EXCEPT ![t] = "publish"]
               /\ UNCHANGED <<lock, ret>>
          ELSE /\ free' = IF c = EndOfList THEN free ELSE PushFree(PopFree(free), c)
               /\ Return(t, "NoResources")
               /\ UNCHANGED <<cmdDesc, respDesc, cmdBuf>>
    /\ UNCHANGED <<lastUsed, availIdx, usedIdx, kicked, devIdx, id, seq, fetched>>

\* Mutant: the index is wider than the ring's 16 bits.
PublishWide(t) ==
    /\ pc[t] = "publish"
    /\ availIdx' = availIdx + 1
    /\ pc' = [pc EXCEPT ![t] = "poll"]
    /\ UNCHANGED <<lock, free, lastUsed, usedIdx, cmdBuf, kicked, devIdx, id,
                   cmdDesc, respDesc, ret, seq, fetched>>

\* avail->idx advances and the doorbell is rung if there is one.
Publish(t) ==
    /\ pc[t] = "publish"
    /\ availIdx' = Inc(availIdx)
    /\ pc' = [pc EXCEPT ![t] = "poll"]
    /\ UNCHANGED <<lock, free, lastUsed, usedIdx, cmdBuf, kicked, devIdx, id,
                   cmdDesc, respDesc, ret, seq, fetched>>

\* Mutant: last_used is moved on every exit, as a resynchronisation would.
TimesOutAdvances(t) ==
    /\ pc[t] = "poll"
    /\ usedIdx = lastUsed
    /\ lastUsed' = Inc(lastUsed)
    /\ free' = ReturnChain(free, cmdDesc[t], respDesc[t])
    /\ Return(t, "Timeout")
    /\ UNCHANGED <<availIdx, usedIdx, cmdBuf, kicked, devIdx, id, cmdDesc,
                   respDesc, seq, fetched>>

\* Mutant: the wait has no deadline.
NeverTimesOut(t) == FALSE /\ pc[t] = "poll" /\ UNCHANGED cursorVars

\* Mutant: the response descriptor is lost.
TimesOutLeaks(t) ==
    /\ pc[t] = "poll"
    /\ usedIdx = lastUsed
    /\ free' = PushFree(free, cmdDesc[t])
    /\ Return(t, "Timeout")
    /\ UNCHANGED <<lastUsed, availIdx, usedIdx, cmdBuf, kicked, devIdx, id,
                   cmdDesc, respDesc, seq, fetched>>

\* The deadline passed with used->idx still at last_used.
TimesOut(t) ==
    /\ pc[t] = "poll"
    /\ usedIdx = lastUsed
    /\ free' = ReturnChain(free, cmdDesc[t], respDesc[t])
    /\ Return(t, "Timeout")
    /\ UNCHANGED <<lastUsed, availIdx, usedIdx, cmdBuf, kicked, devIdx, id,
                   cmdDesc, respDesc, seq, fetched>>

\* Mutant: success does not wait for the used ring.
CompleteEarly(t) ==
    /\ pc[t] = "poll"
    /\ lastUsed' = Inc(lastUsed)
    /\ free' = ReturnChain(free, cmdDesc[t], respDesc[t])
    /\ Return(t, "Success")
    /\ UNCHANGED <<availIdx, usedIdx, cmdBuf, kicked, devIdx, id, cmdDesc,
                   respDesc, seq, fetched>>

\* used->idx differs from last_used: one entry is consumed, whoever's it is.
Complete(t) ==
    /\ pc[t] = "poll"
    /\ usedIdx # lastUsed
    /\ lastUsed' = Inc(lastUsed)
    /\ free' = ReturnChain(free, cmdDesc[t], respDesc[t])
    /\ Return(t, "Success")
    /\ UNCHANGED <<availIdx, usedIdx, cmdBuf, kicked, devIdx, id, cmdDesc,
                   respDesc, seq, fetched>>

\* The device (external) reads the buffer of the next chain, then pushes it.
CursorRead ==
    /\ kicked
    /\ devIdx = usedIdx /\ devIdx # availIdx
    /\ fetched' = fetched \cup {cmdBuf}
    /\ devIdx' = Inc(devIdx)
    /\ UNCHANGED <<lock, free, lastUsed, availIdx, usedIdx, cmdBuf, kicked, pc,
                   id, cmdDesc, respDesc, ret, seq>>

CursorPush ==
    /\ devIdx # usedIdx
    /\ usedIdx' = Inc(usedIdx)
    /\ UNCHANGED <<lock, free, lastUsed, availIdx, cmdBuf, kicked, devIdx, pc,
                   id, cmdDesc, respDesc, ret, seq, fetched>>

\* Every command of the behaviour has been submitted and has returned.
CursorFinished == seq = MaxCommands /\ lock = NoCaller /\ UNCHANGED cursorVars

Submitter(t) == \/ Enter(t) \/ Prepare(t) \/ Publish(t) \/ TimesOut(t) \/ Complete(t)
CursorNext == (\E t \in Callers : Submitter(t)) \/ CursorRead \/ CursorPush \/ CursorFinished

\* A caller between lock and unlock keeps running; the device need not.
CursorFairness == \A t \in Callers : WF_cursorVars(pc[t] # "idle" /\ Submitter(t))
CursorSpec == CursorInit /\ [][CursorNext]_cursorVars /\ CursorFairness

-----------------------------------------------------------------------------
\* The types of the variables.
CursorTypeOK ==
    /\ lock \in Callers \cup {NoCaller}
    /\ free \in FreeLists
    /\ {lastUsed, availIdx, usedIdx, devIdx} \subseteq Idx
    /\ cmdBuf \in Commands \cup {0}
    /\ kicked \in BOOLEAN
    /\ pc \in [Callers -> {"idle", "pop", "publish", "poll"}]
    /\ id \in [Callers -> Commands \cup {0}]
    /\ cmdDesc \in [Callers -> Descs] /\ respDesc \in [Callers -> Descs]
    /\ ret \in [Commands -> Results]
    /\ seq \in Commands \cup {0}
    /\ fetched \subseteq Commands

CursorTimedOut == {n \in Commands : ret[n] = "Timeout"}
InPoll == {t \in Callers : pc[t] = "poll"}

\* last_used never catches up: every call that timed out leaves the queue one
\* entry behind for good, and nothing else moves it (submitCommand drains);
\* only the width of the index ever hides the lag.
BehindByTimeouts ==
    Dist(availIdx, lastUsed) = (Cardinality(CursorTimedOut) + Cardinality(InPoll)) % IdxMod

\* An update that never reached the device and was not reported as failed
\* has a timed-out call before it: updates are lost in silence only then.
LostOnlyAfterTimeout ==
    \A n \in Commands :
        ret[n] = "Success" /\ n \notin fetched => \E k \in CursorTimedOut : k < n

\* Both descriptors come back on every path, as they do in submitCommand.
CursorFreeListIntact == lock = NoCaller => free = FreshFreeList

\* The busy-wait ends at its deadline: nobody keeps m_cursor_vq_lock.
CursorLockReleased == \A t \in Callers : (lock = t) ~> (lock # t)
\* Taken together: however many calls timed out, the queue's variables are well
\* typed, the descriptors are all free between calls, and the used index lags by
\* exactly the timeouts.
CursorRingKept == CursorTypeOK /\ CursorFreeListIntact /\ BehindByTimeouts

=============================================================================
