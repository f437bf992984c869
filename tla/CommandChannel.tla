--------------------------- MODULE CommandChannel ---------------------------
(***************************************************************************)
(* submitCommand as its callers meet it.  ControlQueue shows why it looks  *)
(* like this: every call is handed the same two descriptors and the same   *)
(* command and response buffers, so all the device can find in any chain   *)
(* still on the ring is the command written last, and a call returns with  *)
(* whatever response is in the buffer when the used index has moved.  The  *)
(* drain and the copy are two steps of the call, and a completion between  *)
(* them is one the drain has missed.  Commands fit m_cmd_buf; m_vq_lock    *)
(* admits one waiting call at a time.  ControlQueueRefinement shows that   *)
(* ControlQueue implements this specification.                             *)
(***************************************************************************)
EXTENDS Naturals

CONSTANTS
    Command,        \* the commands callers send
    NoCommand,
    MaxBacklog      \* bound: published chains the device has not executed

ASSUME ChannelAssumption == NoCommand \notin Command /\ MaxBacklog \in Nat \ {0}

VARIABLES
    cmd,        \* what m_cmd_buf holds
    backlog,    \* chains on the avail ring, not executed
    pushing,    \* a chain is executed and not on the used ring yet
    moved,      \* used->idx has moved since the drain of the call
    answer,     \* the response type in m_resp_buf
    waiting     \* a call is in its poll loop and owns m_vq_lock

channel == <<cmd, backlog, pushing, moved, answer, waiting>>

\* OK_NODATA, another OK response, an error response.
Answers == {"nodata", "data", "err"}

ChannelInit ==
    /\ cmd = NoCommand
    /\ backlog = 0
    /\ pushing = FALSE
    /\ moved = FALSE
    /\ answer = "err"
    /\ waiting = FALSE

\* No earlier call has left anything behind.
Quiet == backlog = 0 /\ ~pushing /\ ~moved

\* Copy, publish, notify.  What completed since the drain stays moved.
Send(c) ==
    /\ ~waiting
    /\ backlog < MaxBacklog
    /\ cmd' = c
    /\ backlog' = backlog + 1
    /\ waiting' = TRUE
    /\ UNCHANGED <<moved, pushing, answer>>

\* The call fails before it publishes, with its command copied or not.
Abort(c) ==
    /\ ~waiting
    /\ cmd' \in {cmd, c}
    /\ moved' = FALSE
    /\ UNCHANGED <<backlog, pushing, answer, waiting>>

\* The poll loop left because used->idx moved; the call returns answer.
Answered ==
    /\ waiting
    /\ moved
    /\ waiting' = FALSE
    /\ moved' = FALSE
    /\ UNCHANGED <<cmd, backlog, pushing, answer>>

\* The poll loop ran out; the chain stays on the ring.
TimedOut ==
    /\ waiting
    /\ ~moved
    /\ waiting' = FALSE
    /\ UNCHANGED <<cmd, backlog, pushing, moved, answer>>

\* The device executes the command it finds, and answers a.
Execute(a) ==
    /\ backlog > 0
    /\ ~pushing
    /\ backlog' = backlog - 1
    /\ pushing' = TRUE
    /\ answer' = a
    /\ UNCHANGED <<cmd, moved, waiting>>

\* Outside the poll loop a completion comes before the next call's drain,
\* which skips it, or after.
Push ==
    /\ pushing
    /\ pushing' = FALSE
    /\ moved' = TRUE \/ (~waiting /\ moved' = moved)
    /\ UNCHANGED <<cmd, backlog, answer, waiting>>

ChannelNext ==
    \/ \E c \in Command : Send(c) \/ Abort(c)
    \/ Answered \/ TimedOut
    \/ \E a \in Answers : Execute(a)
    \/ Push

ChannelSpec == ChannelInit /\ [][ChannelNext]_channel

ChannelTypeOK ==
    /\ cmd \in Command \cup {NoCommand}
    /\ backlog \in 0 .. MaxBacklog
    /\ pushing \in BOOLEAN
    /\ moved \in BOOLEAN
    /\ answer \in Answers
    /\ waiting \in BOOLEAN
=============================================================================
