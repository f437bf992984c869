------------------------ MODULE ControlQueueRefinement ------------------------
(***************************************************************************)
(* submitCommand over the vring implements CommandChannel, the interface   *)
(* the resource pool, the user client and the framebuffer are modelled on. *)
(* The mapping: a call sends when it copies its command into m_cmd_buf; a  *)
(* chain counts as pending from that moment, and as executed when the      *)
(* device has written the response.                                        *)
(***************************************************************************)
EXTENDS ControlQueue

\* The call has copied its command and has not returned.
Sent == {"fill", "publish", "notify", "poll", "read"}
\* The call has drained.
Drained == {"pop", "copy"} \cup Sent

AnyAt(where) == \E t \in Threads : pc[t] \in where

Pending == Dist(availIdx, devIdx)
             + (IF devChain # NoChain /\ ~devChain.done THEN 1 ELSE 0)
             + (IF AnyAt({"fill", "publish"}) THEN 1 ELSE 0)

Channel == INSTANCE CommandChannel
    WITH Command    <- Submissions,
         NoCommand  <- 0,
         MaxBacklog <- MaxOutstanding,
         cmd        <- cmdBuf,
         backlog    <- Pending,
         pushing    <- devChain.done,
         moved      <- AnyAt(Drained) /\ usedIdx # lastUsed,
         answer     <- IF respBuf.type = "ok" THEN "nodata" ELSE "err",
         waiting    <- AnyAt(Sent)

\* For commands that fit m_cmd_buf, every behaviour of submitCommand, the
\* timeouts and the late completions included, is one of the channel: the
\* device only ever finds the command copied last, executes at most once for
\* each published chain, and a call that starts to wait has skipped every
\* completion up to its drain and none after it.
ImplementsChannel == Channel!ChannelSpec
=============================================================================
