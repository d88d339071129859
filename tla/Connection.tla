----------------------------- MODULE Connection -----------------------------
(***************************************************************************)
(* The life of one connection in the vendored websocketpp, as the server   *)
(* uses it: the opening handshake, the loop over the frames of a read, the *)
(* send queue with one transport write at a time, the closing handshake,   *)
(* the handshake timers and termination.  One thread runs the event loop;  *)
(* the asynchronous operations in flight are in `pending', and the loop    *)
(* handles the completed ones in an order it does not promise.  A timer    *)
(* that has expired is in `due' from when the loop collects it until its   *)
(* handler runs: cancelling it in between has no effect.                   *)
(*                                                                         *)
(* The client may send what it likes and may leave; frames are told apart  *)
(* by what the library does with them.                                     *)
(***************************************************************************)
EXTENDS Naturals, Sequences, SequencesExt

CONSTANTS MaxSent,   \* bound of the model: requests and frames the client sends
          MaxInbox   \* bound of the model: of these, how many are unread at once

ASSUME ConnectionAssumption == MaxSent \in Nat /\ MaxInbox \in Nat \ {0}

VARIABLES mState,    \* m_state, "none" before the connection is accepted
          response,  \* the status code of m_response
          pending,   \* operations in flight, and "write" for a posted write_frame
          phase,     \* what the event loop is in: nothing, handle_read_frame, or ended
          buffer,    \* what the last read brought and is not processed yet
          sendQueue, \* m_send_queue
          current,   \* m_current_msgs
          writeFlag, \* m_write_flag
          armed,     \* handshake timers that run
          due,       \* handshake timers whose expiry waits for the loop
          inbox,     \* sent by the client, not read
          sent,      \* how much the client has sent
          peer,      \* whether the client is there
          wire,      \* what the client has been sent
          opens, closes, messages,  \* calls of the server's handlers
          replies    \* replies accepted for sending

clientVars == <<inbox, sent, peer>>
writeVars  == <<sendQueue, current, writeFlag, wire>>
timerVars  == <<armed, due>>
callVars   == <<opens, closes, messages, replies>>
readVars   == <<phase, buffer, response>>
vars == <<mState, pending, clientVars, writeVars, timerVars, callVars, readVars>>

Openings == {"request", "badrequest"}
Frames   == {"data", "ping", "close", "badclose", "garbage"}
Ops      == {"read_handshake", "write_response", "read_frame", "write_frame", "write"}

\* Reply n, a pong, or the close frame: always a terminal one on this server.
Reply(n) == [type |-> "reply", number |-> n]
Pong     == [type |-> "pong", number |-> 0]
Close    == [type |-> "close", number |-> 0]

Init ==
    /\ mState = "none" /\ pending = {}
    /\ phase = "idle" /\ buffer = <<>> /\ response = "none"
    /\ sendQueue = <<>> /\ current = <<>> /\ writeFlag = "free" /\ wire = <<>>
    /\ armed = {} /\ due = {}
    /\ inbox = <<>> /\ sent = 0 /\ peer = "connected"
    /\ opens = 0 /\ closes = 0 /\ messages = 0 /\ replies = 0

-----------------------------------------------------------------------------
(* The client.                                                             *)

ClientSends ==
    /\ mState # "none" /\ peer = "connected"
    /\ sent < MaxSent /\ Len(inbox) < MaxInbox
    /\ \E f \in IF sent = 0 THEN Openings ELSE Frames : inbox' = Append(inbox, f)
    /\ sent' = sent + 1
    /\ UNCHANGED <<mState, pending, peer, writeVars, timerVars, callVars, readVars>>

ClientLeaves ==
    /\ mState # "none" /\ peer = "connected"
    /\ peer' = "gone"
    /\ UNCHANGED <<mState, pending, inbox, sent, writeVars, timerVars, callVars, readVars>>

-----------------------------------------------------------------------------
(* Termination.                                                            *)

\* handle_terminate: the close handler is called, not the fail handler, which the
\* server does not set; not at all by a connection that is closed already.
ClosesAgain            == IF mState # "connecting" THEN closes + 1 ELSE closes
ClosesAfterTermination == IF mState \in {"open", "closing"} THEN closes + 1 ELSE closes

Terminate ==
    /\ mState' = "closed"
    /\ closes' = ClosesAfterTermination
    /\ armed' = {}

\* Cancelling the timers leaves an expiry that waits for the loop.
CancelTimers == armed' = {}

\* The two timers of 5 s; the loop collects an expiry between two callbacks.
Expire(t) ==
    /\ phase = "idle" /\ t \in armed
    /\ armed' = armed \ {t} /\ due' = due \cup {t}
    /\ UNCHANGED <<mState, pending, clientVars, writeVars, callVars, readVars>>

\* handle_open_handshake_timeout, handle_close_handshake_timeout
HandleTimeout(t) ==
    /\ phase = "idle" /\ t \in due
    /\ due' = due \ {t}
    /\ Terminate
    /\ UNCHANGED <<pending, clientVars, writeVars, opens, messages, replies, readVars>>

-----------------------------------------------------------------------------
(* The opening handshake.                                                  *)

HandleAccept ==
    /\ mState = "none" /\ phase = "idle"
    /\ \/ /\ mState' = "connecting"
          /\ pending' = {"read_handshake"}
          /\ armed' = {"open"}
          /\ UNCHANGED closes
       \/ Terminate /\ UNCHANGED pending
    /\ UNCHANGED <<due, clientVars, writeVars, opens, messages, replies, readVars>>

\* What a read finds: any part of what has arrived, from its beginning.
Reads(op, n) ==
    /\ phase = "idle" /\ op \in pending
    /\ n \in 1..Len(inbox)
    /\ inbox' = SubSeq(inbox, n + 1, Len(inbox))
    /\ UNCHANGED <<sent, peer>>

\* A read or a write fails when the client has left or the socket is shut down.
Fails(op) ==
    /\ phase = "idle" /\ op \in pending
    /\ peer = "gone" \/ mState = "closed"
    /\ UNCHANGED clientVars

\* handle_read_handshake: what follows the request is kept for later.
HandleReadHandshake ==
    /\ \E n \in 1..MaxInbox :
          /\ Reads("read_handshake", n)
          /\ IF mState = "closed"
             THEN pending' = pending \ {"read_handshake"} /\ UNCHANGED <<buffer, response>>
             ELSE /\ pending' = (pending \ {"read_handshake"}) \cup {"write_response"}
                  /\ response' = IF Head(inbox) = "request" THEN "101" ELSE "400"
                  /\ buffer' = SubSeq(inbox, 2, n)
    /\ UNCHANGED <<mState, phase, writeVars, timerVars, callVars>>

\* The errors of the two handshake operations and of a read of frames.
HandleFailure ==
    /\ \E op \in {"read_handshake", "write_response", "read_frame"} :
          Fails(op) /\ pending' = pending \ {op}
    /\ Terminate
    /\ UNCHANGED <<due, writeVars, opens, messages, replies, readVars>>

\* handle_read_frame returns to the loop after read_frame has asked for more.
GoOn(rest, ops) ==
    /\ buffer' = rest
    /\ phase'   = IF rest = <<>> THEN "idle" ELSE "frames"
    /\ pending' = IF rest = <<>> THEN ops \cup {"read_frame"} ELSE ops

\* handle_write_http_response: OnConnectionOpen, then the frames that came with
\* the request.  A connection the timer has closed meanwhile stays closed.
OpensAnyway      == TRUE
OpensAConnection == mState = "connecting"

HandleWriteResponse ==
    /\ phase = "idle" /\ "write_response" \in pending
    /\ \/ /\ OpensAConnection /\ response = "101"
          /\ mState' = "open" /\ opens' = opens + 1
          /\ CancelTimers
          /\ GoOn(buffer, pending \ {"write_response"})
          /\ UNCHANGED closes
       \/ /\ OpensAConnection /\ response = "400"
          /\ Terminate
          /\ pending' = pending \ {"write_response"}
          /\ UNCHANGED <<opens, phase, buffer>>
       \/ /\ ~OpensAConnection
          /\ pending' = pending \ {"write_response"}
          /\ UNCHANGED <<mState, opens, closes, armed, phase, buffer>>
    /\ UNCHANGED <<response, due, clientVars, writeVars, messages, replies>>

-----------------------------------------------------------------------------
(* Writing: frames are queued, and at most one transport write is out.     *)

\* write_push, and the call of write_frame that is posted if nobody is writing.
PushedInFront(m) == <<m>> \o sendQueue
Pushed(m)        == Append(sendQueue, m)
Posted(ops)      == IF writeFlag = "free" THEN ops \cup {"write"} ELSE ops

\* write_frame takes what is queued, up to the first terminal message.
Batch(q) ==
    IF \E i \in DOMAIN q : q[i] = Close
    THEN LET i == CHOOSE i \in DOMAIN q : q[i] = Close /\ \A j \in 1..(i - 1) : q[j] # Close
         IN SubSeq(q, 1, i)
    ELSE q

WriteFrame ==
    /\ phase = "idle" /\ "write" \in pending
    /\ IF writeFlag = "free" /\ sendQueue # <<>>
       THEN /\ current' = current \o Batch(sendQueue)
            /\ sendQueue' = SubSeq(sendQueue, Len(Batch(sendQueue)) + 1, Len(sendQueue))
            /\ writeFlag' = "held"
            /\ pending' = (pending \ {"write"}) \cup {"write_frame"}
       ELSE pending' = pending \ {"write"} /\ UNCHANGED <<current, sendQueue, writeFlag>>
    /\ UNCHANGED <<mState, wire, clientVars, timerVars, callVars, readVars>>

\* handle_write_frame: a terminal frame ends the connection, and what was queued
\* during the write is written next.
NotPosted(ops)        == ops
PostedAfterWrite(ops) == IF sendQueue # <<>> THEN ops \cup {"write"} ELSE ops

HandleWriteFrame ==
    /\ phase = "idle" /\ "write_frame" \in pending
    /\ wire' = wire \o current
    /\ current' = <<>>
    /\ IF Last(current) = Close
       THEN Terminate /\ pending' = pending \ {"write_frame"} /\ UNCHANGED writeFlag
       ELSE /\ writeFlag' = "free"
            /\ pending' = PostedAfterWrite(pending \ {"write_frame"})
            /\ UNCHANGED <<mState, closes, armed>>
    /\ UNCHANGED <<sendQueue, due, clientVars, opens, messages, replies, readVars>>

HandleWriteFailure ==
    /\ Fails("write_frame")
    /\ current' = <<>>
    /\ pending' = pending \ {"write_frame"}
    /\ Terminate
    /\ UNCHANGED <<sendQueue, writeFlag, wire, due, opens, messages, replies, readVars>>

-----------------------------------------------------------------------------
(* Reading: the frames of a read are processed one after the other.        *)

HandleReadFrame ==
    /\ \E n \in 1..MaxInbox :
          /\ Reads("read_frame", n)
          /\ buffer' = SubSeq(inbox, 1, n)
    /\ pending' = pending \ {"read_frame"}
    /\ phase' = "frames"
    /\ UNCHANGED <<mState, response, writeVars, timerVars, callVars>>

Frame(f) == phase = "frames" /\ Head(buffer) = f
Ignore   == /\ GoOn(Tail(buffer), pending)
            /\ UNCHANGED <<mState, sendQueue, armed, closes, messages, replies>>

\* Queue m and go on with the next frame.
PushAndGoOn(m) == sendQueue' = Pushed(m) /\ GoOn(Tail(buffer), Posted(pending))

\* A message for OnMessageReceived, which may answer by SendMessage: endpoint::send
\* throws unless the connection is open, and prepare_data_frame is content with the
\* reply, which it is not with a text that is not UTF-8. The exception is not the one
\* that Server.cpp:113 names: it ends the event loop, in the middle of the read.
DeliversAlways == TRUE
DeliversData == mState = "open"

DataFrame ==
    /\ Frame("data")
    /\ \/ ~DeliversData /\ Ignore
       \/ /\ DeliversData
          /\ messages' = messages + 1
          /\ \/ GoOn(Tail(buffer), pending) /\ UNCHANGED <<sendQueue, replies>>
             \/ /\ mState = "open"
                /\ replies' = replies + 1
                /\ PushAndGoOn(Reply(replies + 1))
             \/ /\ phase' = "thrown" /\ buffer' = <<>>
                /\ UNCHANGED <<pending, sendQueue, replies>>
          /\ UNCHANGED <<mState, armed, closes>>
    /\ UNCHANGED <<response, current, writeFlag, wire, due, opens, clientVars>>

PingFrame ==
    /\ Frame("ping")
    /\ IF mState = "open"
       THEN PushAndGoOn(Pong) /\ UNCHANGED <<mState, armed, closes, messages, replies>>
       ELSE Ignore
    /\ UNCHANGED <<response, current, writeFlag, wire, due, opens, clientVars>>

\* send_close_frame: the close frame is queued and its timer set.
StaysOpen            == "open"
StateAfterCloseFrame == "closing"
NoCloseTimer == {}
CloseTimer   == {"close"}

StartClosing ==
    /\ mState' = StateAfterCloseFrame
    /\ armed' = CloseTimer
    /\ UNCHANGED <<closes, messages, replies>>

\* process_control_frame: a close frame is answered once, but one whose code makes no
\* sense is answered by another close frame even while the first is on its way.
CloseFrame ==
    /\ \E f \in {"close", "badclose"} :
          /\ Frame(f)
          /\ IF mState = "open" \/ (f = "badclose" /\ mState = "closing")
             THEN StartClosing /\ PushAndGoOn(Close)
             ELSE Ignore
    /\ UNCHANGED <<response, current, writeFlag, wire, due, opens, clientVars>>

\* A protocol error: a close frame if there is still time for one, and no more reads.
DropsAtAnError == FALSE
AnswersAnError == mState = "open"

GarbageFrame ==
    /\ Frame("garbage")
    /\ buffer' = <<>> /\ phase' = "idle"
    /\ IF AnswersAnError
       THEN /\ StartClosing
            /\ sendQueue' = Pushed(Close)
            /\ pending' = Posted(pending)
       ELSE Terminate /\ UNCHANGED <<pending, sendQueue, messages, replies>>
    /\ UNCHANGED <<response, current, writeFlag, wire, due, opens, clientVars>>

-----------------------------------------------------------------------------
Timers == {"open", "close"}

FrameStep  == DataFrame \/ PingFrame \/ CloseFrame \/ GarbageFrame
WriteStep  == WriteFrame \/ HandleWriteFrame \/ HandleWriteFailure
ReadStep   == HandleReadHandshake \/ HandleReadFrame \/ HandleFailure
TimerStep  == \E t \in Timers : Expire(t) \/ HandleTimeout(t)
ClientStep == ClientSends \/ ClientLeaves

Next == \/ HandleAccept \/ HandleWriteResponse
        \/ FrameStep \/ WriteStep \/ ReadStep \/ TimerStep \/ ClientStep

Spec == Init /\ [][Next]_vars

\* What the event loop does of itself.  No transport write need ever succeed: the
\* client may stop reading.  The loop runs what is ready, and time passes.
Fairness ==
    /\ WF_vars(FrameStep) /\ WF_vars(WriteFrame) /\ WF_vars(HandleWriteFailure)
    /\ WF_vars(HandleReadHandshake) /\ WF_vars(HandleReadFrame) /\ WF_vars(HandleFailure)
    /\ \A t \in Timers : WF_vars(Expire(t)) /\ WF_vars(HandleTimeout(t))

FairSpec == Spec /\ Fairness

-----------------------------------------------------------------------------
Messages == {Reply(n) : n \in 1..MaxSent} \cup {Pong, Close}

\* The types, and that there is something to write while a write is out.
TypeOK ==
    /\ mState \in {"none", "connecting", "open", "closing", "closed"}
    /\ response \in {"none", "101", "400"}
    /\ pending \subseteq Ops
    /\ phase \in {"idle", "frames", "thrown"}
    /\ buffer \in Seq(Frames) /\ inbox \in Seq(Openings \cup Frames)
    /\ sendQueue \in Seq(Messages) /\ current \in Seq(Messages) /\ wire \in Seq(Messages)
    /\ writeFlag \in {"free", "held"}
    /\ armed \subseteq Timers /\ due \subseteq Timers
    /\ sent \in 0..MaxSent /\ peer \in {"connected", "gone"}
    /\ opens \in 0..1 /\ closes \in 0..1
    /\ messages \in 0..MaxSent /\ replies \in 0..messages
    /\ phase = "frames" => buffer # <<>>
    /\ "write_frame" \in pending => current # <<>>

Answered(n) == \E i \in DOMAIN wire : wire[i] = Reply(n)

\* The client is sent the first k answers, each once and after the one before it,
\* and nothing follows a close frame, whatever was queued while a write was out
\* (write_frame, handle_write_frame).
WireInOrder ==
    \A i \in DOMAIN wire :
        /\ \A n \in 1..MaxSent : wire[i] = Reply(n) =>
              /\ n = 1 \/ \E j \in 1..(i - 1) : wire[j] = Reply(n - 1)
              /\ \A j \in 1..(i - 1) : wire[j] # Reply(n)
        /\ wire[i] = Close => i = Len(wire)

\* When the client has been sent a close frame it has been sent every answer the
\* server believes it has sent (send returned no error).
CloseLosesNothing == Close \in Range(wire) => \A n \in 1..replies : Answered(n)

\* A connection passes through its states in order: a response whose writing ends
\* after the timer has closed the connection does not open it.
Rank == [none |-> 0, connecting |-> 1, open |-> 2, closing |-> 3, closed |-> 4]
StateAdvances == [][Rank[mState'] >= Rank[mState]]_vars

\* An open connection is dropped without a closing handshake only if the client has
\* gone, or if the opening timer had expired before the opening and its handler
\* was still waiting, too late to be cancelled (connection_impl.hpp:1386).
NoAbruptDrop ==
    [][mState = "open" /\ mState' = "closed" => peer = "gone" \/ "open" \in due]_vars

\* What the server relies on (ConnectionLife).
Life == INSTANCE ConnectionLife
ImplementsLife == Life!Life

\* No connection stays half open: the opening ends, a closing ends in closed, and
\* a client that leaves is noticed, even if nothing written ever gets through;
\* unless an exception ends the event loop first.
ClosesInTheEnd ==
    /\ mState = "connecting" ~> mState # "connecting"
    /\ mState = "closing" ~> (mState = "closed" \/ phase = "thrown")
    /\ peer = "gone" ~> (mState = "closed" \/ phase = "thrown")

\* If transport writes get through, what is queued is written, also when it was
\* queued during a write, or the connection is closed, or the loop has ended.
WritesCatchUp ==
    WF_vars(HandleWriteFrame) /\ WF_vars(HandleWriteResponse)
        => (sendQueue # <<>> ~> (sendQueue = <<>> \/ mState = "closed" \/ phase = "thrown"))
=============================================================================
