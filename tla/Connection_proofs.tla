-------------------------- MODULE Connection_proofs --------------------------
(* One connection of websocketpp, for any number of frames: that the server's  *)
(* handlers are called as it expects, that the state only advances, that only  *)
(* a leaving client or a late timer ends an open connection abruptly, and that *)
(* the replies are on the wire in order and all of them before a close frame.  *)
EXTENDS Connection, FiniteSums, SequenceTheorems

USE ConnectionAssumption

-----------------------------------------------------------------------------
(* What the actions do to the state and to the calls of the handlers.          *)

Uncalled   == UNCHANGED <<opens, closes, messages>>
Still      == mState' = mState /\ Uncalled
Accepted   == mState = "none" /\ mState' = "connecting" /\ Uncalled
Opened     == /\ mState = "connecting" /\ mState' = "open"
              /\ opens' = opens + 1 /\ UNCHANGED <<closes, messages>>
Delivered  == /\ mState = "open" /\ mState' = mState
              /\ messages' = messages + 1 /\ UNCHANGED <<opens, closes>>
Closing    == mState \in {"open", "closing"} /\ mState' = "closing" /\ Uncalled
Terminated == /\ mState' = "closed" /\ closes' = ClosesAfterTermination
              /\ UNCHANGED <<opens, messages>>

LifeStep == Still \/ Accepted \/ Opened \/ Delivered \/ Closing \/ Terminated

LEMMA NextLifeStep ==
    ASSUME [Next]_vars
    PROVE  LifeStep
<1> USE DEF LifeStep, Uncalled, writeVars, readVars, timerVars, callVars, clientVars
<1>1. CASE HandleAccept
  BY <1>1 DEF HandleAccept, Terminate, Accepted, Terminated
<1>2. CASE HandleWriteResponse
  BY <1>2 DEF HandleWriteResponse, OpensAConnection, Terminate, Opened, Still, Terminated
<1>3. CASE DataFrame
  BY <1>3 DEF DataFrame, DeliversData, Ignore, Delivered, Still
<1>4. CASE PingFrame
  BY <1>4 DEF PingFrame, Ignore, Still
<1>5. CASE CloseFrame
  <2>1. PICK f \in {"close", "badclose"} :
            IF mState = "open" \/ (f = "badclose" /\ mState = "closing")
            THEN StartClosing /\ PushAndGoOn(Close)
            ELSE Ignore
    BY <1>5 DEF CloseFrame
  <2>2. UNCHANGED opens
    BY <1>5 DEF CloseFrame
  <2>3. CASE mState = "open" \/ (f = "badclose" /\ mState = "closing")
    BY <2>1, <2>2, <2>3 DEF StartClosing, StateAfterCloseFrame, Closing
  <2>4. CASE ~(mState = "open" \/ (f = "badclose" /\ mState = "closing"))
    BY <2>1, <2>2, <2>4 DEF Ignore, Still
  <2> QED
    BY <2>3, <2>4
<1>6. CASE GarbageFrame
  BY <1>6 DEF GarbageFrame, AnswersAnError, StartClosing, StateAfterCloseFrame,
              Terminate, Closing, Terminated
<1>7. CASE WriteFrame
  BY <1>7 DEF WriteFrame, Still
<1>8. CASE HandleWriteFrame
  BY <1>8 DEF HandleWriteFrame, Terminate, Still, Terminated
<1>9. CASE HandleWriteFailure
  BY <1>9 DEF HandleWriteFailure, Terminate, Terminated
<1>10. CASE HandleReadHandshake
  BY <1>10 DEF HandleReadHandshake, Still
<1>11. CASE HandleReadFrame
  BY <1>11 DEF HandleReadFrame, Still
<1>12. CASE HandleFailure
  BY <1>12 DEF HandleFailure, Terminate, Terminated
<1>13. CASE TimerStep
  BY <1>13 DEF TimerStep, Expire, HandleTimeout, Terminate, Still, Terminated
<1>14. CASE ClientStep
  BY <1>14 DEF ClientStep, ClientSends, ClientLeaves, Still
<1>15. CASE UNCHANGED vars
  BY <1>15 DEF vars, Still
<1> QED
  BY <1>1, <1>2, <1>3, <1>4, <1>5, <1>6, <1>7, <1>8, <1>9, <1>10, <1>11, <1>12,
     <1>13, <1>14, <1>15 DEF Next, FrameStep, WriteStep, ReadStep

\* Which handlers have been called in which state.
LifeInv ==
    /\ mState \in {"none", "connecting", "open", "closing", "closed"}
    /\ opens \in 0..1 /\ closes \in 0..1
    /\ mState \in {"none", "connecting"} => opens = 0
    /\ mState \in {"open", "closing"} => opens = 1
    /\ mState # "closed" => closes = 0

LEMMA LifeInvKept ==
    ASSUME LifeInv, LifeStep
    PROVE  LifeInv'
<1> USE DEF LifeInv, Uncalled
<1>1. CASE Still
  BY <1>1 DEF Still
<1>2. CASE Accepted
  BY <1>2 DEF Accepted
<1>3. CASE Opened
  BY <1>3 DEF Opened
<1>4. CASE Delivered
  BY <1>4 DEF Delivered
<1>5. CASE Closing
  BY <1>5 DEF Closing
<1>6. CASE Terminated
  BY <1>6 DEF Terminated, ClosesAfterTermination
<1> QED
  BY <1>1, <1>2, <1>3, <1>4, <1>5, <1>6 DEF LifeStep

LEMMA LifeInvariant == Spec => []LifeInv
<1>1. Init => LifeInv
  BY DEF Init, LifeInv
<1>2. LifeInv /\ [Next]_vars => LifeInv'
  BY NextLifeStep, LifeInvKept
<1> QED
  BY <1>1, <1>2, PTL DEF Spec

-----------------------------------------------------------------------------
\* The server's handlers are called as it expects: OnConnectionOpen at most once,
\* OnMessageReceived only between it and OnConnectionClose, and that at most once,
\* whichever of the reads, writes and timers in flight ends first.
THEOREM CallsAreInOrder == Spec => ImplementsLife
<1>1. Init => Life!Init
  BY DEF Init, Life!Init
<1>2. LifeInv /\ LifeStep => [Life!Next]_(Life!calls)
  <2> SUFFICES ASSUME LifeInv, LifeStep PROVE [Life!Next]_(Life!calls)
    OBVIOUS
  <2>1. CASE Still \/ Accepted \/ Closing
    BY <2>1 DEF Still, Accepted, Closing, Uncalled, Life!calls
  <2>2. CASE Opened
    BY <2>2 DEF LifeInv, Opened, Life!Next, Life!OnConnectionOpen
  <2>3. CASE Delivered
    BY <2>3 DEF LifeInv, Delivered, Life!Next, Life!OnMessageReceived
  <2>4. CASE Terminated /\ mState \in {"open", "closing"}
    BY <2>4 DEF LifeInv, Terminated, ClosesAfterTermination, Life!Next, Life!OnConnectionClose
  <2>5. CASE Terminated /\ mState \notin {"open", "closing"}
    BY <2>5 DEF Terminated, ClosesAfterTermination, Life!calls
  <2> QED
    BY <2>1, <2>2, <2>3, <2>4, <2>5 DEF LifeStep
<1>3. LifeInv /\ [Next]_vars => [Life!Next]_(Life!calls)
  BY <1>2, NextLifeStep
<1> QED
  BY <1>1, <1>3, LifeInvariant, PTL DEF Spec, ImplementsLife, Life!Life

\* The state only advances: a response that is written after the timer has closed
\* the connection does not open it, nor does a late close frame undo a termination.
THEOREM StateOnlyAdvances == Spec => StateAdvances
<1>1. LifeInv /\ LifeStep => Rank[mState'] >= Rank[mState]
  <2> SUFFICES ASSUME LifeInv, LifeStep PROVE Rank[mState'] >= Rank[mState]
    OBVIOUS
  <2>1. /\ Rank["none"] = 0 /\ Rank["connecting"] = 1 /\ Rank["open"] = 2
        /\ Rank["closing"] = 3 /\ Rank["closed"] = 4
    BY DEF Rank
  <2>2. mState \in {"none", "connecting", "open", "closing", "closed"}
    BY DEF LifeInv
  <2>3. CASE Still \/ Delivered
    BY <2>1, <2>2, <2>3 DEF Still, Delivered
  <2>4. CASE Accepted \/ Opened \/ Closing \/ Terminated
    BY <2>1, <2>2, <2>4 DEF Accepted, Opened, Closing, Terminated
  <2> QED
    BY <2>3, <2>4 DEF LifeStep
<1>2. LifeInv /\ [Next]_vars => [Rank[mState'] >= Rank[mState]]_vars
  BY <1>1, NextLifeStep
<1> QED
  BY <1>2, LifeInvariant, PTL DEF Spec, StateAdvances
-----------------------------------------------------------------------------
(* Sequences: what reading, queueing and batching do to their elements.        *)

\* A batch is a non-empty beginning of the queue.
LEMMA BatchIsAPrefix ==
    ASSUME NEW S, NEW q \in Seq(S), q # <<>>
    PROVE  \E i \in 1..Len(q) : Batch(q) = SubSeq(q, 1, i)
<1> DEFINE Terminal == {i \in DOMAIN q : q[i] = Close}
<1>1. DOMAIN q = 1..Len(q) /\ Len(q) \in 1..Len(q)
  BY EmptySeq, LenProperties
<1>2. CASE Terminal = {}
  <2>1. Batch(q) = q
    BY <1>2 DEF Batch
  <2>2. SubSeq(q, 1, Len(q)) = q
    BY SubSeqFull
  <2>3. Batch(q) = SubSeq(q, 1, Len(q))
    BY <2>1, <2>2
  <2> QED
    BY <1>1, <2>3
<1>3. CASE Terminal # {}
  <2>1. PICK x \in Terminal : \A y \in Terminal : x <= y
    <3>1. Terminal \in SUBSET Nat
      BY <1>1
    <3> QED
      BY <1>3, <3>1, SmallestOf
  <2>2. ASSUME NEW j \in 1..(x - 1) PROVE q[j] # Close
    <3>1. x \in 1..Len(q)
      BY <1>1
    <3>2. j \in DOMAIN q /\ ~(x <= j)
      BY <1>1, <3>1
    <3> QED
      BY <2>1, <3>2
  <2>3. \E i \in DOMAIN q : q[i] = Close /\ \A j \in 1..(i - 1) : q[j] # Close
    BY <2>1, <2>2
  <2> DEFINE c == CHOOSE i \in DOMAIN q : q[i] = Close /\ \A j \in 1..(i - 1) : q[j] # Close
  <2>4. c \in DOMAIN q
    BY <2>3
  <2>5. Batch(q) = SubSeq(q, 1, c)
    BY <2>1 DEF Batch
  <2> QED
    BY <1>1, <2>4, <2>5
<1> QED
  BY <1>2, <1>3

\* Any part of a sequence has its elements, and a length within it.
LEMMA PartOf ==
    ASSUME NEW S, NEW q \in Seq(S), NEW m \in 1..Len(q) + 1, NEW n \in 0..Len(q)
    PROVE  /\ SubSeq(q, m, n) \in Seq(S)
           /\ Len(SubSeq(q, m, n)) = IF m <= n THEN n - m + 1 ELSE 0
           /\ \A i \in 1..Len(SubSeq(q, m, n)) : SubSeq(q, m, n)[i] = q[m + i - 1]
<1>1. Len(q) \in Nat
  BY LenProperties
<1>2. \A i \in m..n : q[i] \in S
  BY <1>1, ElementOfSeq
<1> QED
  BY <1>1, <1>2, SubSeqProperties

LEMMA BatchOf ==
    ASSUME NEW S, NEW q \in Seq(S), q # <<>>
    PROVE  /\ Batch(q) \in Seq(S) /\ Batch(q) # <<>>
           /\ SubSeq(q, Len(Batch(q)) + 1, Len(q)) \in Seq(S)
<1>1. PICK i \in 1..Len(q) : Batch(q) = SubSeq(q, 1, i)
  BY BatchIsAPrefix
<1>2. Len(q) \in Nat /\ 1 \in 1..Len(q) + 1 /\ i \in 0..Len(q) /\ i + 1 \in 1..Len(q) + 1
  BY LenProperties
<1>3. SubSeq(q, 1, i) \in Seq(S) /\ Len(SubSeq(q, 1, i)) = i
  BY <1>2, PartOf
<1>4. SubSeq(q, i + 1, Len(q)) \in Seq(S)
  BY <1>2, PartOf
<1>5. Batch(q) # <<>>
  BY <1>1, <1>3, EmptySeq
<1> QED
  BY <1>1, <1>3, <1>4, <1>5

LEMMA LastOf ==
    ASSUME NEW S, NEW q \in Seq(S), q # <<>>
    PROVE  Last(q) \in S
<1>1. Len(q) \in 1..Len(q)
  BY EmptySeq, LenProperties
<1> QED
  BY <1>1, ElementOfSeq DEF Last

-----------------------------------------------------------------------------
(* Reading.                                                                    *)

\* Whether the request has been read.
Requested == pending \cap {"read_frame", "write_response"} # {} \/ phase = "frames"

\* The types of what is read; a request is read first and alone; and no message is
\* delivered that was not sent.
ReadInv ==
    /\ response \in {"none", "101", "400"}
    /\ pending \subseteq Ops /\ phase \in {"idle", "frames", "thrown"}
    /\ sent \in 0..MaxSent /\ peer \in {"connected", "gone"}
    /\ buffer \in Seq(Frames) /\ inbox \in Seq(Openings \cup Frames)
    /\ phase = "frames" => buffer # <<>>
    /\ \A i \in 2..Len(inbox) : inbox[i] \in Frames
    /\ Requested => sent >= 1 /\ inbox \in Seq(Frames)
    /\ messages \in Nat
    /\ messages + Len(buffer) + Len(inbox) <= sent

\* The actions that have nothing to do with what is read.
NotReading ==
    /\ UNCHANGED <<response, phase, sent, buffer, inbox, messages>>
    /\ peer' \in {peer, "gone"}
    /\ pending' \subseteq pending \cup {"write", "write_frame", "read_handshake"}

LEMMA NotReadingKeeps ==
    ASSUME ReadInv, NotReading
    PROVE  ReadInv'
<1>1. Requested' => Requested
  BY DEF NotReading, Requested
<1>2. pending' \subseteq Ops
  BY DEF ReadInv, NotReading, Ops
<1> QED
  BY <1>1, <1>2 DEF ReadInv, NotReading

\* The actions that are done with a frame and go on with the next one, or throw.
FrameDone ==
    /\ phase = "frames"
    /\ messages' \in {messages, messages + 1}
    /\ \/ \E ops : GoOn(Tail(buffer), ops) /\ ops \subseteq pending \cup {"write"}
       \/ phase' = "thrown" /\ buffer' = <<>> /\ UNCHANGED pending
    /\ UNCHANGED <<response, sent, peer, inbox>>

LEMMA FrameDoneKeeps ==
    ASSUME ReadInv, FrameDone
    PROVE  ReadInv'
<1>1. buffer \in Seq(Frames) /\ buffer # <<>> /\ Requested
  BY DEF ReadInv, FrameDone, Requested
<1>2. Len(buffer) \in Nat \ {0} /\ Len(inbox) \in Nat
  BY <1>1, LenProperties, EmptySeq DEF ReadInv
<1>3. buffer' \in Seq(Frames) /\ Len(buffer') <= Len(buffer) - 1 /\ Len(buffer') \in Nat
  <2>1. CASE buffer' = Tail(buffer)
    <3>1. Tail(buffer) \in Seq(Frames) /\ Len(Tail(buffer)) = Len(buffer) - 1
      BY <1>1, HeadTailProperties
    <3> QED
      BY <1>2, <2>1, <3>1
  <2>2. CASE buffer' = <<>>
    <3>1. buffer' \in Seq(Frames) /\ Len(buffer') = 0
      BY <2>2, EmptySeq
    <3> QED
      BY <1>2, <3>1
  <2> QED
    BY <2>1, <2>2 DEF FrameDone, GoOn
<1>4. phase' \in {"idle", "frames", "thrown"} /\ (phase' = "frames" => buffer' # <<>>)
  BY DEF FrameDone, GoOn
<1>5. pending' \subseteq Ops
  BY DEF FrameDone, GoOn, ReadInv, Ops
<1>6. messages' + Len(buffer') + Len(inbox') <= sent /\ messages' \in Nat
  BY <1>2, <1>3 DEF ReadInv, FrameDone
<1> QED
  BY <1>1, <1>3, <1>4, <1>5, <1>6 DEF ReadInv, FrameDone

\* What a read takes out of the inbox and leaves in it.
LEMMA ReadPart ==
    ASSUME ReadInv, NEW op, NEW n \in 1..MaxInbox, Reads(op, n)
    PROVE  /\ Len(inbox) \in Nat /\ n <= Len(inbox) /\ sent >= 1
           /\ inbox' \in Seq(Frames) /\ Len(inbox') = Len(inbox) - n
           /\ SubSeq(inbox, 2, n) \in Seq(Frames) /\ Len(SubSeq(inbox, 2, n)) = n - 1
           /\ UNCHANGED <<sent, peer>>
<1>1. Len(inbox) \in Nat /\ Len(buffer) \in Nat /\ n \in 1..Len(inbox)
  BY LenProperties DEF Reads, ReadInv
<1>2. inbox' = SubSeq(inbox, n + 1, Len(inbox)) /\ UNCHANGED <<sent, peer>>
  BY DEF Reads
<1>3. \A i \in n + 1..Len(inbox) : inbox[i] \in Frames
  BY <1>1 DEF ReadInv
<1>4. inbox' \in Seq(Frames) /\ Len(inbox') = Len(inbox) - n
  BY <1>1, <1>2, <1>3, SubSeqProperties
<1>5. \A i \in 2..n : inbox[i] \in Frames
  BY <1>1 DEF ReadInv
<1>6. SubSeq(inbox, 2, n) \in Seq(Frames) /\ Len(SubSeq(inbox, 2, n)) = n - 1
  BY <1>1, <1>5, SubSeqProperties
<1>7. sent >= 1
  BY <1>1 DEF ReadInv
<1> QED
  BY <1>1, <1>2, <1>4, <1>6, <1>7

LEMMA ReadHandshakeKeeps ==
    ASSUME ReadInv, HandleReadHandshake
    PROVE  ReadInv'
<1>1. PICK n \in 1..MaxInbox :
          /\ Reads("read_handshake", n)
          /\ IF mState = "closed"
             THEN pending' = pending \ {"read_handshake"} /\ UNCHANGED <<buffer, response>>
             ELSE /\ pending' = (pending \ {"read_handshake"}) \cup {"write_response"}
                  /\ response' = IF Head(inbox) = "request" THEN "101" ELSE "400"
                  /\ buffer' = SubSeq(inbox, 2, n)
  BY DEF HandleReadHandshake
<1>2. UNCHANGED <<phase, messages>> /\ phase = "idle"
  BY <1>1 DEF HandleReadHandshake, callVars, Reads
<1>3. /\ Len(inbox) \in Nat /\ n <= Len(inbox) /\ sent >= 1
      /\ inbox' \in Seq(Frames) /\ Len(inbox') = Len(inbox) - n
      /\ SubSeq(inbox, 2, n) \in Seq(Frames) /\ Len(SubSeq(inbox, 2, n)) = n - 1
      /\ UNCHANGED <<sent, peer>>
  BY <1>1, ReadPart
<1>4. Len(buffer) \in Nat /\ buffer \in Seq(Frames)
  BY LenProperties DEF ReadInv
<1>5. /\ buffer' \in Seq(Frames) /\ Len(buffer') \in Nat
      /\ Len(buffer') + Len(inbox') <= Len(buffer) + Len(inbox)
  <2>1. CASE mState = "closed"
    <3>1. buffer' = buffer
      BY <1>1, <2>1
    <3> QED
      BY <1>3, <1>4, <3>1
  <2>2. CASE mState # "closed"
    <3>1. buffer' = SubSeq(inbox, 2, n)
      BY <1>1, <2>2
    <3>2. buffer' \in Seq(Frames) /\ Len(buffer') = n - 1
      BY <1>3, <3>1
    <3> QED
      BY <1>3, <1>4, <3>2
  <2> QED
    BY <2>1, <2>2
<1>6. messages' + Len(buffer') + Len(inbox') <= sent'
  BY <1>2, <1>3, <1>4, <1>5 DEF ReadInv
<1>7. pending' \subseteq Ops /\ response' \in {"none", "101", "400"}
  BY <1>1 DEF ReadInv, Ops
<1>8. inbox' \in Seq(Openings \cup Frames) /\ \A i \in 2..Len(inbox') : inbox'[i] \in Frames
  BY <1>3, ElementOfSeq, SeqMonotonic
<1> QED
  BY <1>2, <1>3, <1>5, <1>6, <1>7, <1>8 DEF ReadInv

LEMMA ReadFrameKeeps ==
    ASSUME ReadInv, HandleReadFrame
    PROVE  ReadInv'
<1>1. PICK n \in 1..MaxInbox : Reads("read_frame", n) /\ buffer' = SubSeq(inbox, 1, n)
  BY DEF HandleReadFrame
<1>2. /\ pending' = pending \ {"read_frame"} /\ phase' = "frames"
      /\ UNCHANGED <<response, messages>>
  BY DEF HandleReadFrame, callVars
<1>3. inbox \in Seq(Frames)
  BY <1>1 DEF Reads, Requested, ReadInv
<1>4. /\ Len(inbox) \in Nat /\ n <= Len(inbox) /\ sent >= 1
      /\ inbox' \in Seq(Frames) /\ Len(inbox') = Len(inbox) - n
      /\ UNCHANGED <<sent, peer>>
  BY <1>1, ReadPart
<1>5. buffer' \in Seq(Frames) /\ Len(buffer') = n /\ buffer' # <<>>
  <2>1. 1 \in 1..Len(inbox) + 1 /\ n \in 0..Len(inbox) /\ 1 <= n
    BY <1>4
  <2>2. buffer' \in Seq(Frames) /\ Len(buffer') = n
    BY <1>1, <1>3, <2>1, PartOf
  <2> QED
    BY <2>1, <2>2, EmptySeq
<1>6. Len(buffer) \in Nat
  BY LenProperties DEF ReadInv
<1>7. messages' + Len(buffer') + Len(inbox') <= sent'
  BY <1>2, <1>4, <1>5, <1>6 DEF ReadInv
<1>8. inbox' \in Seq(Openings \cup Frames) /\ \A i \in 2..Len(inbox') : inbox'[i] \in Frames
  BY <1>4, ElementOfSeq, SeqMonotonic
<1> QED
  BY <1>2, <1>4, <1>5, <1>7, <1>8 DEF ReadInv

LEMMA ClientSendsKeeps ==
    ASSUME ReadInv, ClientSends
    PROVE  ReadInv'
<1>1. PICK f \in IF sent = 0 THEN Openings ELSE Frames : inbox' = Append(inbox, f)
  BY DEF ClientSends
<1>2. /\ sent < MaxSent /\ sent' = sent + 1
      /\ UNCHANGED <<response, pending, phase, peer, buffer, messages>>
  BY DEF ClientSends, readVars, callVars
<1>3. Len(inbox) \in Nat /\ Len(buffer) \in Nat /\ inbox \in Seq(Openings \cup Frames)
  BY LenProperties DEF ReadInv
<1>4. /\ inbox' \in Seq(Openings \cup Frames) /\ Len(inbox') = Len(inbox) + 1
      /\ \A i \in 1..Len(inbox) : inbox'[i] = inbox[i]
      /\ inbox'[Len(inbox) + 1] = f
  BY <1>1, <1>3, AppendProperties
<1>5. sent = 0 => Len(inbox) = 0
  BY <1>3 DEF ReadInv
<1>6. \A i \in 2..Len(inbox') : inbox'[i] \in Frames
  BY <1>1, <1>3, <1>4, <1>5 DEF ReadInv
<1>7. Requested' => inbox' \in Seq(Frames) /\ sent' >= 1
  <2> SUFFICES ASSUME Requested' PROVE inbox' \in Seq(Frames) /\ sent' >= 1
    OBVIOUS
  <2>1. sent >= 1 /\ inbox \in Seq(Frames)
    BY <1>2 DEF Requested, ReadInv
  <2>2. f \in Frames
    BY <1>1, <2>1
  <2> QED
    BY <1>1, <1>2, <2>1, <2>2, AppendProperties DEF ReadInv
<1>8. messages' + Len(buffer') + Len(inbox') <= sent' /\ sent' \in 0..MaxSent
  BY <1>2, <1>3, <1>4 DEF ReadInv, ConnectionAssumption
<1> QED
  BY <1>2, <1>4, <1>6, <1>7, <1>8 DEF ReadInv

LEMMA WriteResponseKeeps ==
    ASSUME ReadInv, HandleWriteResponse
    PROVE  ReadInv'
<1>1. /\ phase = "idle" /\ "write_response" \in pending
      /\ UNCHANGED <<response, inbox, sent, peer, messages>>
  BY DEF HandleWriteResponse, clientVars
<1>2. Requested /\ pending \subseteq Ops
  BY <1>1 DEF Requested, ReadInv
<1>3. CASE GoOn(buffer, pending \ {"write_response"})
  <2>1. buffer' = buffer /\ phase' \in {"idle", "frames"} /\ (phase' = "frames" => buffer' # <<>>)
    BY <1>3 DEF GoOn
  <2>2. pending' \subseteq Ops
    BY <1>2, <1>3 DEF GoOn, Ops
  <2> QED
    BY <1>1, <1>2, <2>1, <2>2 DEF ReadInv
<1>4. CASE UNCHANGED <<phase, buffer>> /\ pending' = pending \ {"write_response"}
  BY <1>1, <1>2, <1>4 DEF ReadInv
<1> QED
  BY <1>3, <1>4 DEF HandleWriteResponse

LEMMA GarbageKeeps ==
    ASSUME ReadInv, GarbageFrame
    PROVE  ReadInv'
<1>1. /\ phase = "frames" /\ phase' = "idle" /\ buffer' = <<>>
      /\ UNCHANGED <<response, inbox, sent, peer, messages>>
  BY DEF GarbageFrame, Frame, clientVars, StartClosing
<1>2. pending' \subseteq Ops
  BY DEF GarbageFrame, Posted, ReadInv, Ops
<1>3. Requested
  BY <1>1 DEF Requested
<1>4. <<>> \in Seq(Frames) /\ Len(<<>>) = 0 /\ Len(buffer) \in Nat /\ Len(inbox) \in Nat
  BY EmptySeq, LenProperties DEF ReadInv
<1>5. messages' + Len(buffer') + Len(inbox') <= sent'
  BY <1>1, <1>4 DEF ReadInv
<1> QED
  BY <1>1, <1>2, <1>3, <1>4, <1>5 DEF ReadInv

LEMMA FramesAreDone ==
    ASSUME DataFrame \/ PingFrame \/ CloseFrame
    PROVE  FrameDone
<1>1. phase = "frames" /\ UNCHANGED <<response, sent, peer, inbox>>
  BY DEF DataFrame, PingFrame, CloseFrame, Frame, clientVars
<1>2. pending \subseteq pending \cup {"write"} /\ Posted(pending) \subseteq pending \cup {"write"}
  BY DEF Posted
<1>3. CASE DataFrame
  <2>1. messages' \in {messages, messages + 1}
    BY <1>3 DEF DataFrame, DeliversData, Ignore
  <2>2. \/ GoOn(Tail(buffer), pending) \/ GoOn(Tail(buffer), Posted(pending))
        \/ phase' = "thrown" /\ buffer' = <<>> /\ UNCHANGED pending
    BY <1>3 DEF DataFrame, DeliversData, Ignore, PushAndGoOn
  <2> QED
    BY <1>1, <1>2, <2>1, <2>2 DEF FrameDone
<1>4. CASE PingFrame
  <2>1. messages' = messages
    BY <1>4 DEF PingFrame, Ignore
  <2>2. GoOn(Tail(buffer), pending) \/ GoOn(Tail(buffer), Posted(pending))
    BY <1>4 DEF PingFrame, Ignore, PushAndGoOn
  <2> QED
    BY <1>1, <1>2, <2>1, <2>2 DEF FrameDone
<1>5. CASE CloseFrame
  <2>1. messages' = messages
    BY <1>5 DEF CloseFrame, StartClosing, Ignore
  <2>2. GoOn(Tail(buffer), pending) \/ GoOn(Tail(buffer), Posted(pending))
    BY <1>5 DEF CloseFrame, Ignore, PushAndGoOn
  <2> QED
    BY <1>1, <1>2, <2>1, <2>2 DEF FrameDone
<1> QED
  BY <1>3, <1>4, <1>5

LEMMA ReadInvKept ==
    ASSUME ReadInv, [Next]_vars
    PROVE  ReadInv'
<1> USE DEF NotReading, writeVars, readVars, timerVars, callVars, clientVars
<1>1. CASE HandleAccept
  BY <1>1, NotReadingKeeps DEF HandleAccept
<1>2. CASE HandleWriteResponse
  BY <1>2, WriteResponseKeeps
<1>3. CASE DataFrame \/ PingFrame \/ CloseFrame
  BY <1>3, FramesAreDone, FrameDoneKeeps
<1>4. CASE GarbageFrame
  BY <1>4, GarbageKeeps
<1>5. CASE WriteFrame
  BY <1>5, NotReadingKeeps DEF WriteFrame
<1>6. CASE HandleWriteFrame
  BY <1>6, NotReadingKeeps DEF HandleWriteFrame, PostedAfterWrite
<1>7. CASE HandleWriteFailure
  BY <1>7, NotReadingKeeps DEF HandleWriteFailure, Fails
<1>8. CASE HandleReadHandshake
  BY <1>8, ReadHandshakeKeeps
<1>9. CASE HandleReadFrame
  BY <1>9, ReadFrameKeeps
<1>10. CASE HandleFailure
  BY <1>10, NotReadingKeeps DEF HandleFailure, Fails
<1>11. CASE TimerStep
  BY <1>11, NotReadingKeeps DEF TimerStep, Expire, HandleTimeout
<1>12. CASE ClientSends
  BY <1>12, ClientSendsKeeps
<1>13. CASE ClientLeaves
  BY <1>13, NotReadingKeeps DEF ClientLeaves
<1>14. CASE UNCHANGED vars
  BY <1>14, NotReadingKeeps DEF vars
<1> QED
  BY <1>1, <1>2, <1>3, <1>4, <1>5, <1>6, <1>7, <1>8, <1>9, <1>10, <1>11, <1>12,
     <1>13, <1>14 DEF Next, FrameStep, WriteStep, ReadStep, ClientStep

LEMMA ReadInvariant == Spec => []ReadInv
<1>1. Init => ReadInv
  BY EmptySeq DEF Init, ReadInv, Requested, ConnectionAssumption
<1>2. ReadInv /\ [Next]_vars => ReadInv'
  BY ReadInvKept
<1> QED
  BY <1>1, <1>2, PTL DEF Spec

-----------------------------------------------------------------------------
(* Writing.                                                                    *)

Ended   == mState \in {"closing", "closed"}
Answers == Messages \ {Close}

\* The types of what is written; a write that is out has something to write; and
\* until the connection closes there is no close frame and no closing timer.
WriteInv ==
    /\ sendQueue \in Seq(Messages) /\ current \in Seq(Messages) /\ wire \in Seq(Messages)
    /\ writeFlag \in {"free", "held"}
    /\ replies \in 0..messages
    /\ armed \subseteq Timers /\ due \subseteq Timers
    /\ "write_frame" \in pending => current # <<>>
    /\ ~Ended => /\ sendQueue \in Seq(Answers) /\ current \in Seq(Answers)
                 /\ "close" \notin armed \cup due

LEMMA EndIsFinal ==
    ASSUME [Next]_vars, Ended
    PROVE  Ended'
<1>1. LifeStep
  BY NextLifeStep
<1> QED
  BY <1>1 DEF LifeStep, Ended, Uncalled, Still, Accepted, Opened, Delivered, Closing, Terminated

\* What the actions do to the timers: a closing timer comes with the closing.
TimersKept ==
    /\ armed' \subseteq Timers /\ due' \subseteq Timers
    /\ "close" \in armed' \cup due' => "close" \in armed \cup due \/ Ended'

NotWriting ==
    /\ UNCHANGED <<sendQueue, current, wire, writeFlag, replies>>
    /\ "write_frame" \in pending' => "write_frame" \in pending

\* A message is queued.
Queued(m) ==
    /\ m \in Messages /\ (m = Close => Ended')
    /\ sendQueue' = Append(sendQueue, m)
    /\ UNCHANGED <<current, wire, writeFlag>>
    /\ replies' \in 0..messages'
    /\ "write_frame" \in pending' => "write_frame" \in pending

LEMMA NotWritingKeeps ==
    ASSUME ReadInv', WriteInv, Ended => Ended', TimersKept, NotWriting, replies <= messages'
    PROVE  WriteInv'
<1>1. replies' \in 0..messages'
  BY DEF WriteInv, NotWriting, ReadInv
<1> QED
  BY <1>1 DEF WriteInv, NotWriting, TimersKept

LEMMA QueuedKeeps ==
    ASSUME WriteInv, Ended => Ended', TimersKept, NEW m, Queued(m)
    PROVE  WriteInv'
<1>1. sendQueue' \in Seq(Messages)
  BY AppendProperties DEF WriteInv, Queued
<1>2. ~Ended' => sendQueue' \in Seq(Answers) /\ current' \in Seq(Answers)
  BY AppendProperties DEF WriteInv, Queued, Answers
<1>3. ~Ended' => "close" \notin armed' \cup due'
  BY DEF WriteInv, TimersKept
<1> QED
  BY <1>1, <1>2, <1>3 DEF WriteInv, Queued, TimersKept

LEMMA WriteFrameKeeps ==
    ASSUME WriteInv, Ended => Ended', WriteFrame
    PROVE  WriteInv'
<1>1. UNCHANGED <<wire, armed, due, messages, replies>> /\ (Ended' => Ended)
  BY DEF WriteFrame, timerVars, callVars, Ended
<1>2. CASE writeFlag = "free" /\ sendQueue # <<>>
  <2>1. /\ current' = current \o Batch(sendQueue) /\ writeFlag' = "held"
        /\ sendQueue' = SubSeq(sendQueue, Len(Batch(sendQueue)) + 1, Len(sendQueue))
    BY <1>2 DEF WriteFrame
  <2>2. ASSUME NEW S, sendQueue \in Seq(S), current \in Seq(S)
        PROVE  current' \in Seq(S) /\ sendQueue' \in Seq(S) /\ current' # <<>>
    <3>1. /\ Batch(sendQueue) \in Seq(S) /\ Batch(sendQueue) # <<>>
          /\ sendQueue' \in Seq(S)
      BY <1>2, <2>1, <2>2, BatchOf
    <3>2. current' \in Seq(S) /\ current' # <<>>
      BY <2>1, <2>2, <3>1, ConcatProperties, ConcatEqualIffEmpty
    <3> QED
      BY <3>1, <3>2
  <2>3. current' \in Seq(Messages) /\ sendQueue' \in Seq(Messages) /\ current' # <<>>
    BY <2>2 DEF WriteInv
  <2>4. ~Ended' => current' \in Seq(Answers) /\ sendQueue' \in Seq(Answers)
    BY <1>1, <2>2 DEF WriteInv
  <2> QED
    BY <1>1, <2>1, <2>3, <2>4 DEF WriteInv
<1>3. CASE ~(writeFlag = "free" /\ sendQueue # <<>>)
  BY <1>1, <1>3 DEF WriteInv, WriteFrame
<1> QED
  BY <1>2, <1>3

LEMMA HandleWriteKeeps ==
    ASSUME WriteInv, Ended => Ended', HandleWriteFrame \/ HandleWriteFailure
    PROVE  WriteInv'
<1>1. /\ current' = <<>> /\ writeFlag' \in {"free", writeFlag}
      /\ wire' \in {wire, wire \o current}
      /\ armed' \subseteq armed
      /\ UNCHANGED <<sendQueue, due, messages, replies>>
  BY DEF HandleWriteFrame, HandleWriteFailure, Terminate
<1>2. "write_frame" \notin pending'
  BY DEF HandleWriteFrame, HandleWriteFailure, PostedAfterWrite
<1>3. wire' \in Seq(Messages)
  <2>1. wire \in Seq(Messages) /\ current \in Seq(Messages)
    BY DEF WriteInv
  <2>2. wire \o current \in Seq(Messages)
    BY <2>1, ConcatProperties
  <2> QED
    BY <1>1, <2>1, <2>2
<1>4. <<>> \in Seq(Messages) /\ <<>> \in Seq(Answers)
  BY EmptySeq
<1> QED
  BY <1>1, <1>2, <1>3, <1>4 DEF WriteInv

\* A reply has a number there has been a message for.
LEMMA ReplyIsAMessage ==
    ASSUME ReadInv, ReadInv', WriteInv, messages' = messages + 1
    PROVE  /\ Reply(replies + 1) \in Messages /\ Reply(replies + 1) # Close
           /\ replies + 1 \in 0..messages'
<1>1. messages' <= sent' /\ sent' <= MaxSent /\ messages' \in Nat
  <2>1. Len(buffer)' \in Nat /\ Len(inbox)' \in Nat
    BY LenProperties DEF ReadInv
  <2> QED
    BY <2>1 DEF ReadInv, ConnectionAssumption
<1>2. replies + 1 \in 1..MaxSent /\ replies + 1 \in 0..messages'
  BY <1>1 DEF ReadInv, WriteInv, ConnectionAssumption
<1>3. Reply(replies + 1) # Close
  BY DEF Reply, Close
<1> QED
  BY <1>2, <1>3 DEF Messages

LEMMA FramesKeepWriteInv ==
    ASSUME ReadInv, ReadInv', WriteInv, Ended => Ended', FrameStep
    PROVE  WriteInv'
<1> USE DEF Frame
<1>1. \A ops : "write_frame" \in Posted(ops) => "write_frame" \in ops
  BY DEF Posted
<1>2. ASSUME NEW ops, GoOn(Tail(buffer), ops), "write_frame" \in ops => "write_frame" \in pending
      PROVE  "write_frame" \in pending' => "write_frame" \in pending
  BY <1>2 DEF GoOn
<1>3. UNCHANGED <<current, writeFlag, wire, due>>
  BY DEF FrameStep, DataFrame, PingFrame, CloseFrame, GarbageFrame
<1>4. Pong \in Messages /\ Close \in Messages /\ Pong # Close
  BY DEF Messages, Pong, Close
<1>5. due \subseteq Timers /\ armed \subseteq Timers /\ replies <= messages
  BY DEF WriteInv
<1>6. ASSUME Ignore PROVE WriteInv'
  <2>1. NotWriting
    BY <1>1, <1>2, <1>3, <1>6 DEF Ignore, NotWriting
  <2>2. TimersKept /\ replies <= messages'
    BY <1>3, <1>5, <1>6 DEF Ignore, TimersKept
  <2> QED
    BY <2>1, <2>2, NotWritingKeeps
<1>7. CASE DataFrame
  <2>1. CASE ~DeliversData
    BY <1>6, <1>7, <2>1 DEF DataFrame
  <2>2. CASE DeliversData
    <3>1. messages' = messages + 1 /\ UNCHANGED armed
      BY <1>7, <2>2 DEF DataFrame, Ignore
    <3>2. TimersKept /\ replies <= messages'
      BY <1>3, <1>5, <3>1 DEF TimersKept, WriteInv, ReadInv
    <3>3. CASE GoOn(Tail(buffer), pending) /\ UNCHANGED <<sendQueue, replies>>
      <4>1. NotWriting
        BY <1>2, <1>3, <3>3 DEF NotWriting
      <4> QED
        BY <3>2, <4>1, NotWritingKeeps
    <3>4. CASE replies' = replies + 1 /\ PushAndGoOn(Reply(replies + 1))
      <4>1. Queued(Reply(replies + 1))
        BY <1>1, <1>2, <1>3, <3>1, <3>4, ReplyIsAMessage DEF PushAndGoOn, Pushed, Queued
      <4> QED
        BY <3>2, <4>1, QueuedKeeps
    <3>5. CASE UNCHANGED <<pending, sendQueue, replies>>
      <4>1. NotWriting
        BY <1>3, <3>5 DEF NotWriting
      <4> QED
        BY <3>2, <4>1, NotWritingKeeps
    <3> QED
      BY <1>7, <2>2, <3>3, <3>4, <3>5 DEF DataFrame, DeliversData
  <2> QED
    BY <2>1, <2>2
<1>8. CASE PingFrame
  <2>1. CASE mState = "open"
    <3>1. TimersKept
      BY <1>3, <1>5, <1>8, <2>1 DEF PingFrame, TimersKept
    <3>2. PushAndGoOn(Pong) /\ UNCHANGED <<messages, replies>>
      BY <1>8, <2>1 DEF PingFrame
    <3>3. Queued(Pong)
      BY <1>1, <1>2, <1>3, <1>4, <3>2 DEF PushAndGoOn, Pushed, Queued, WriteInv
    <3> QED
      BY <3>1, <3>3, QueuedKeeps
  <2>2. CASE mState # "open"
    BY <1>6, <1>8, <2>2 DEF PingFrame
  <2> QED
    BY <2>1, <2>2
<1>9. ASSUME StartClosing, sendQueue' = Pushed(Close),
             "write_frame" \in pending' => "write_frame" \in pending
      PROVE  WriteInv'
  <2>1. Ended' /\ TimersKept
    BY <1>3, <1>5, <1>9 DEF StartClosing, StateAfterCloseFrame, CloseTimer, Timers, Ended, TimersKept
  <2>2. Queued(Close)
    BY <1>3, <1>4, <1>9, <2>1 DEF StartClosing, Pushed, Queued, WriteInv
  <2> QED
    BY <2>1, <2>2, QueuedKeeps
<1>10. CASE CloseFrame
  <2>1. (StartClosing /\ PushAndGoOn(Close)) \/ Ignore
    BY <1>10 DEF CloseFrame
  <2> QED
    BY <1>1, <1>2, <1>6, <1>9, <2>1 DEF PushAndGoOn
<1>11. CASE GarbageFrame
  <2>1. CASE AnswersAnError
    BY <1>1, <1>9, <1>11, <2>1 DEF GarbageFrame
  <2>2. CASE ~AnswersAnError
    <3>1. UNCHANGED <<pending, sendQueue, messages, replies>> /\ armed' = {}
      BY <1>11, <2>2 DEF GarbageFrame, Terminate
    <3>2. NotWriting /\ TimersKept /\ replies <= messages'
      BY <1>3, <1>5, <3>1 DEF NotWriting, TimersKept
    <3> QED
      BY <3>2, NotWritingKeeps
  <2> QED
    BY <2>1, <2>2
<1> QED
  BY <1>7, <1>8, <1>10, <1>11 DEF FrameStep

LEMMA WriteInvKept ==
    ASSUME ReadInv, ReadInv', WriteInv, [Next]_vars
    PROVE  WriteInv'
<1> USE DEF writeVars, readVars, timerVars, callVars, clientVars
<1>1. Ended => Ended'
  BY EndIsFinal
<1>2. armed \subseteq Timers /\ due \subseteq Timers /\ replies <= messages
  BY DEF WriteInv
<1>3. CASE NotWriting /\ TimersKept /\ messages' = messages
  BY <1>1, <1>2, <1>3, NotWritingKeeps
<1>4. CASE HandleAccept
  <2>1. NotWriting /\ messages' = messages
    BY <1>4 DEF HandleAccept, NotWriting
  <2>2. armed' \in {{}, {"open"}} /\ due' = due
    BY <1>4 DEF HandleAccept, Terminate
  <2> QED
    BY <1>2, <1>3, <2>1, <2>2 DEF TimersKept, Timers
<1>5. CASE HandleWriteResponse
  <2>1. NotWriting /\ messages' = messages
    BY <1>5 DEF HandleWriteResponse, NotWriting, GoOn
  <2>2. armed' \in {{}, armed} /\ due' = due
    BY <1>5 DEF HandleWriteResponse, Terminate, CancelTimers
  <2> QED
    BY <1>2, <1>3, <2>1, <2>2 DEF TimersKept
<1>6. CASE FrameStep
  BY <1>1, <1>6, FramesKeepWriteInv
<1>7. CASE WriteFrame
  BY <1>1, <1>7, WriteFrameKeeps
<1>8. CASE HandleWriteFrame \/ HandleWriteFailure
  BY <1>1, <1>8, HandleWriteKeeps
<1>9. CASE HandleReadHandshake \/ HandleReadFrame
  BY <1>2, <1>3, <1>9 DEF HandleReadHandshake, HandleReadFrame, NotWriting, TimersKept
<1>10. CASE HandleFailure
  BY <1>2, <1>3, <1>10 DEF HandleFailure, Terminate, NotWriting, TimersKept
<1>11. CASE TimerStep
  <2>1. PICK t \in Timers : Expire(t) \/ HandleTimeout(t)
    BY <1>11 DEF TimerStep
  <2>2. NotWriting /\ messages' = messages
    BY <2>1 DEF Expire, HandleTimeout, Terminate, NotWriting
  <2>3. TimersKept
    BY <1>2, <2>1 DEF Expire, HandleTimeout, Terminate, TimersKept
  <2> QED
    BY <1>3, <2>2, <2>3
<1>12. CASE ClientStep
  BY <1>2, <1>3, <1>12 DEF ClientStep, ClientSends, ClientLeaves, NotWriting, TimersKept
<1>13. CASE UNCHANGED vars
  BY <1>2, <1>3, <1>13 DEF vars, NotWriting, TimersKept
<1> QED
  BY <1>4, <1>5, <1>6, <1>7, <1>8, <1>9, <1>10, <1>11, <1>12, <1>13
     DEF Next, WriteStep, ReadStep

LEMMA WriteInvariant == Spec => []WriteInv
<1>1. Init => WriteInv
  BY EmptySeq DEF Init, WriteInv, Ended, Timers
<1>2. ReadInv /\ ReadInv' /\ WriteInv /\ [Next]_vars => WriteInv'
  BY WriteInvKept
<1> QED
  BY <1>1, <1>2, ReadInvariant, PTL DEF Spec

-----------------------------------------------------------------------------
\* The types, with their bounds: no message is delivered that was not sent, and the
\* connection is opened and closed at most once.
THEOREM ConnectionTypeCorrect == Spec => []TypeOK
<1>1. LifeInv /\ ReadInv /\ WriteInv => TypeOK
  <2> SUFFICES ASSUME LifeInv, ReadInv, WriteInv PROVE TypeOK
    OBVIOUS
  <2>1. Len(buffer) \in Nat /\ Len(inbox) \in Nat
    BY LenProperties DEF ReadInv
  <2>2. messages \in 0..MaxSent
    BY <2>1 DEF ReadInv, ConnectionAssumption
  <2> QED
    BY <2>2 DEF LifeInv, ReadInv, WriteInv, TypeOK
<1> QED
  BY <1>1, LifeInvariant, ReadInvariant, WriteInvariant, PTL

\* An open connection is dropped without a closing handshake only if the client has
\* gone, or if the opening timer expired too late to be cancelled: a terminal frame,
\* and the closing timer, are only there once the connection closes (see NoAbruptDrop).
THEOREM NeverDroppedAbruptly == Spec => NoAbruptDrop
<1> DEFINE Reason == peer = "gone" \/ "open" \in due
<1>1. WriteInv /\ [Next]_vars /\ mState = "open" /\ mState' = "closed" => Reason
  <2> SUFFICES ASSUME WriteInv, [Next]_vars, mState = "open", mState' = "closed" PROVE Reason
    OBVIOUS
  <2>1. ~Ended
    BY DEF Ended
  <2>2. CASE HandleAccept \/ HandleWriteResponse
    BY <2>2 DEF HandleAccept, HandleWriteResponse, OpensAConnection
  <2>3. CASE FrameStep
    BY <2>3 DEF FrameStep, DataFrame, DeliversData, PingFrame, CloseFrame, GarbageFrame,
                AnswersAnError, Ignore, StartClosing, StateAfterCloseFrame
  <2>4. CASE WriteFrame
    BY <2>4 DEF WriteFrame
  <2>5. CASE HandleWriteFrame
    <3>1. current \in Seq(Answers) /\ current # <<>>
      BY <2>1, <2>5 DEF HandleWriteFrame, WriteInv
    <3>2. Last(current) # Close
      BY <3>1, LastOf DEF Answers
    <3> QED
      BY <2>5, <3>2 DEF HandleWriteFrame
  <2>6. CASE HandleWriteFailure \/ HandleFailure
    BY <2>6 DEF HandleWriteFailure, HandleFailure, Fails
  <2>7. CASE HandleReadHandshake \/ HandleReadFrame
    BY <2>7 DEF HandleReadHandshake, HandleReadFrame
  <2>8. CASE TimerStep
    <3>1. PICK t \in Timers : Expire(t) \/ HandleTimeout(t)
      BY <2>8 DEF TimerStep
    <3>2. t \in due
      BY <3>1 DEF Expire, HandleTimeout
    <3> QED
      BY <2>1, <3>2 DEF WriteInv, Timers
  <2>9. CASE ClientStep
    BY <2>9 DEF ClientStep, ClientSends, ClientLeaves
  <2>10. CASE UNCHANGED vars
    BY <2>10 DEF vars
  <2> QED
    BY <2>2, <2>3, <2>4, <2>5, <2>6, <2>7, <2>8, <2>9, <2>10 DEF Next, WriteStep, ReadStep
<1>2. WriteInv /\ [Next]_vars
        => [mState = "open" /\ mState' = "closed" => peer = "gone" \/ "open" \in due]_vars
  BY <1>1
<1> QED
  BY <1>2, WriteInvariant, PTL DEF Spec, NoAbruptDrop

-----------------------------------------------------------------------------
(* The order of what is written.                                               *)

Numbers == 1..MaxSent

\* The answers up to r, each once and in order, and after a close frame nothing
\* but close frames.
InOrder(f, r) ==
    /\ \A i, j \in DOMAIN f : \A m, n \in Numbers :
          i < j /\ f[i] = Reply(m) /\ f[j] = Reply(n) => m < n
    /\ \A n \in Numbers : n <= r <=> \E i \in DOMAIN f : f[i] = Reply(n)
    /\ \A i, j \in DOMAIN f : i < j /\ f[i] = Close => f[j] = Close

ClosesLast(f)  == \A i \in DOMAIN f : f[i] = Close => i = Len(f)
NeverCloses(f) == \A i \in DOMAIN f : f[i] # Close

\* WireInOrder and CloseLosesNothing of what is written to the wire.
WrittenInOrder(w) ==
    \A i \in DOMAIN w :
        /\ \A n \in Numbers : w[i] = Reply(n) =>
              /\ n = 1 \/ \E j \in 1..(i - 1) : w[j] = Reply(n - 1)
              /\ \A j \in 1..(i - 1) : w[j] # Reply(n)
        /\ w[i] = Close => i = Len(w)

WrittenInFull(w, r) ==
    (\E i \in DOMAIN w : w[i] = Close) => \A n \in 1..r : \E i \in DOMAIN w : w[i] = Reply(n)

LEMMA MessagesDiffer ==
    /\ \A m, n \in Numbers : Reply(m) = Reply(n) => m = n
    /\ \A n \in Numbers : Reply(n) # Close /\ Reply(n) # Pong
    /\ Pong # Close
  BY DEF Reply, Close, Pong

\* What a beginning of an ordered output looks like.
LEMMA BeginningInOrder ==
    ASSUME NEW f \in Seq(Messages), NEW w \in Seq(Messages), NEW r \in 0..MaxSent,
           InOrder(f, r), Len(w) <= Len(f), \A i \in 1..Len(w) : w[i] = f[i],
           ClosesLast(w)
    PROVE  WrittenInOrder(w) /\ WrittenInFull(w, r)
<1>1. /\ DOMAIN f = 1..Len(f) /\ DOMAIN w = 1..Len(w) /\ DOMAIN w \subseteq DOMAIN f
      /\ Len(f) \in Nat /\ Len(w) \in Nat
  BY LenProperties
<1>2. ASSUME NEW i \in DOMAIN w, NEW n \in Numbers, w[i] = Reply(n)
      PROVE  /\ n = 1 \/ \E j \in 1..(i - 1) : w[j] = Reply(n - 1)
             /\ \A j \in 1..(i - 1) : w[j] # Reply(n)
  <2>1. f[i] = Reply(n) /\ i \in DOMAIN f
    BY <1>1, <1>2
  <2>2. ASSUME n # 1 PROVE \E j \in 1..(i - 1) : w[j] = Reply(n - 1)
    <3>1. n - 1 \in Numbers /\ n <= r
      BY <2>1, <2>2 DEF InOrder, Numbers, ConnectionAssumption
    <3>2. PICK j \in DOMAIN f : f[j] = Reply(n - 1)
      BY <3>1 DEF InOrder, Numbers
    <3>3. ~(i < j)
      <4>1. ~(n < n - 1)
        BY <3>1 DEF Numbers
      <4>2. QED
        BY <2>1, <3>1, <3>2, <4>1 DEF InOrder
    <3>4. i # j
      <4>1. n # n - 1
        BY DEF Numbers
      <4>2. QED
        BY <2>1, <3>1, <3>2, <4>1, MessagesDiffer
    <3>5. j \in 1..(i - 1) /\ w[j] = f[j]
      BY <1>1, <3>2, <3>3, <3>4
    <3> QED
      BY <3>2, <3>5
  <2>3. \A j \in 1..(i - 1) : w[j] # Reply(n)
    <3> SUFFICES ASSUME NEW j \in 1..(i - 1), w[j] = Reply(n) PROVE FALSE
      OBVIOUS
    <3>1. j \in DOMAIN f /\ f[j] = Reply(n) /\ j < i
      BY <1>1
    <3>2. n < n
      BY <2>1, <3>1 DEF InOrder
    <3> QED
      BY <3>2 DEF Numbers
  <2> QED
    BY <2>2, <2>3
<1>3. ASSUME NEW c \in DOMAIN w, w[c] = Close, NEW n \in 1..r
      PROVE  \E i \in DOMAIN w : w[i] = Reply(n)
  <2>1. n \in Numbers /\ n <= r
    BY DEF Numbers, ConnectionAssumption
  <2>2. PICK i \in DOMAIN f : f[i] = Reply(n)
    BY <2>1 DEF InOrder
  <2>3. f[c] = Close /\ c \in DOMAIN f
    BY <1>1, <1>3
  <2>4. ~(c < i) /\ c # i
    BY <2>1, <2>2, <2>3, MessagesDiffer DEF InOrder
  <2>5. i \in DOMAIN w /\ w[i] = f[i]
    BY <1>1, <2>2, <2>4
  <2> QED
    BY <2>2, <2>5
<1> QED
  BY <1>2, <1>3 DEF WrittenInOrder, WrittenInFull, ClosesLast

\* Queueing a message.
LEMMA AppendedInOrder ==
    ASSUME NEW f \in Seq(Messages), NEW r \in 0..MaxSent, InOrder(f, r),
           NEW x \in Messages, NEW s \in 0..MaxSent,
           \/ x = Close /\ s = r
           \/ x = Pong /\ s = r /\ NeverCloses(f)
           \/ x = Reply(r + 1) /\ s = r + 1 /\ NeverCloses(f)
    PROVE  InOrder(Append(f, x), s)
<1> DEFINE g == Append(f, x)
           l == Len(f) + 1
<1>1. /\ Len(f) \in Nat /\ DOMAIN f = 1..Len(f) /\ g \in Seq(Messages) /\ Len(g) = l
      /\ \A i \in 1..Len(f) : g[i] = f[i]
      /\ g[l] = x
  BY AppendProperties, LenProperties
<1>2. DOMAIN g = DOMAIN f \cup {l} /\ l \notin DOMAIN f /\ \A i \in DOMAIN f : i < l
  <2>1. DOMAIN g = 1..l
    BY <1>1, LenProperties
  <2> QED
    BY <1>1, <2>1
<1>3. DOMAIN f \subseteq Nat /\ l \in Nat
  BY <1>1
<1> HIDE DEF g, l
<1>4. s = r + 1 => s \in Numbers
  BY DEF Numbers, ConnectionAssumption
<1>5. ASSUME NEW i \in DOMAIN g, NEW j \in DOMAIN g, NEW m \in Numbers, NEW n \in Numbers,
             i < j, g[i] = Reply(m), g[j] = Reply(n)
      PROVE  m < n
  <2>1. i \in DOMAIN f /\ f[i] = Reply(m)
    BY <1>1, <1>2, <1>3, <1>5
  <2>2. CASE j \in DOMAIN f
    BY <1>1, <1>5, <2>1, <2>2 DEF InOrder
  <2>3. CASE j = l
    <3>1. x = Reply(n)
      BY <1>1, <1>5, <2>3
    <3>2. s = r + 1 /\ n = r + 1
      BY <1>4, <3>1, MessagesDiffer
    <3>3. m <= r
      BY <2>1 DEF InOrder
    <3> QED
      BY <3>2, <3>3 DEF Numbers
  <2> QED
    BY <1>2, <2>2, <2>3
<1>6. ASSUME NEW n \in Numbers
      PROVE  n <= s <=> \E i \in DOMAIN g : g[i] = Reply(n)
  <2>1. (\E i \in DOMAIN g : g[i] = Reply(n)) <=> (\E i \in DOMAIN f : f[i] = Reply(n)) \/ x = Reply(n)
    BY <1>1, <1>2
  <2>2. (\E i \in DOMAIN f : f[i] = Reply(n)) <=> n <= r
    BY DEF InOrder
  <2>3. CASE s = r
    <3>1. x # Reply(n)
      BY <2>3, MessagesDiffer
    <3> QED
      BY <2>1, <2>2, <2>3, <3>1
  <2>4. CASE s # r
    <3>1. s = r + 1 /\ x = Reply(s)
      BY <2>4
    <3>2. x = Reply(n) <=> n = s
      BY <1>4, <3>1, MessagesDiffer
    <3>3. n <= s <=> n <= r \/ n = s
      BY <3>1 DEF Numbers
    <3> QED
      BY <2>1, <2>2, <3>2, <3>3
  <2> QED
    BY <2>3, <2>4
<1>7. ASSUME NEW i \in DOMAIN g, NEW j \in DOMAIN g, i < j, g[i] = Close
      PROVE  g[j] = Close
  <2>1. i \in DOMAIN f /\ f[i] = Close
    BY <1>1, <1>2, <1>3, <1>7
  <2>2. CASE j \in DOMAIN f
    BY <1>1, <1>7, <2>1, <2>2 DEF InOrder
  <2>3. CASE j = l
    BY <1>1, <2>1, <2>3 DEF NeverCloses
  <2> QED
    BY <1>2, <2>2, <2>3
<1> QED
  BY <1>5, <1>6, <1>7 DEF InOrder, g

\* All there is to write, what is written already included.
Output == (wire \o current) \o sendQueue

\* After a terminal frame, or a write that failed, nothing is written any more.
Stopped == writeFlag = "held" /\ "write_frame" \notin pending

\* The inductive invariant behind the order on the wire: until the writing stops the
\* output is in order, of which the wire has a beginning without close frames.
OrderInv ==
    /\ mState \in {"none", "connecting"} => sendQueue = <<>> /\ "write_frame" \notin pending
    /\ "write_frame" \in pending => writeFlag = "held"
    /\ writeFlag = "free" => current = <<>>
    /\ ClosesLast(current)
    /\ Stopped => /\ mState = "closed" /\ current = <<>>
                  /\ WrittenInOrder(wire) /\ WrittenInFull(wire, replies)
    /\ ~Stopped => NeverCloses(wire) /\ InOrder(Output, replies)

LEMMA ClosedIsFinal ==
    ASSUME [Next]_vars, mState = "closed"
    PROVE  mState' = "closed"
<1>1. LifeStep
  BY NextLifeStep
<1> QED
  BY <1>1 DEF LifeStep, Uncalled, Still, Accepted, Opened, Delivered, Closing, Terminated

LEMMA NeverBackToOpening ==
    ASSUME [Next]_vars, mState' \in {"none", "connecting"}
    PROVE  mState \in {"none", "connecting"}
<1>1. LifeStep
  BY NextLifeStep
<1> QED
  BY <1>1 DEF LifeStep, Uncalled, Still, Accepted, Opened, Delivered, Closing, Terminated

LEMMA OutputType ==
    ASSUME WriteInv
    PROVE  /\ wire \o current \in Seq(Messages) /\ Output \in Seq(Messages)
           /\ Len(wire \o current) = Len(wire) + Len(current)
           /\ Len(Output) = Len(wire) + Len(current) + Len(sendQueue)
           /\ Len(wire) \in Nat /\ Len(current) \in Nat /\ Len(sendQueue) \in Nat
<1>1. wire \in Seq(Messages) /\ current \in Seq(Messages) /\ sendQueue \in Seq(Messages)
  BY DEF WriteInv
<1>2. Len(wire) \in Nat /\ Len(current) \in Nat /\ Len(sendQueue) \in Nat
  BY <1>1, LenProperties
<1>3. wire \o current \in Seq(Messages) /\ Len(wire \o current) = Len(wire) + Len(current)
  BY <1>1, ConcatProperties
<1>4. Output \in Seq(Messages) /\ Len(Output) = Len(wire \o current) + Len(sendQueue)
  BY <1>1, <1>3, ConcatProperties DEF Output
<1> QED
  BY <1>2, <1>3, <1>4

\* Nothing is queued or written.
Unwritten ==
    /\ UNCHANGED <<sendQueue, current, wire, writeFlag, replies>>
    /\ "write_frame" \in pending' <=> "write_frame" \in pending

LEMMA UnwrittenKeeps ==
    ASSUME OrderInv, Unwritten, mState = "closed" => mState' = "closed",
           mState' \in {"none", "connecting"} => mState \in {"none", "connecting"}
    PROVE  OrderInv'
<1>1. Stopped' <=> Stopped
  BY DEF Stopped, Unwritten
<1>2. Output' = Output
  BY DEF Output, Unwritten
<1> QED
  BY <1>1, <1>2 DEF OrderInv, Unwritten

\* A message is queued on an open connection, or a close frame on a closing one.
Enqueued(m) ==
    /\ sendQueue' = Append(sendQueue, m)
    /\ UNCHANGED <<current, wire, writeFlag>>
    /\ "write_frame" \in pending' <=> "write_frame" \in pending
    /\ mState' \in {"open", "closing"} /\ mState \in {"open", "closing"}
    /\ \/ m = Close /\ replies' = replies
       \/ m = Pong /\ replies' = replies /\ mState = "open"
       \/ m = Reply(replies + 1) /\ replies' = replies + 1 /\ mState = "open"

LEMMA EnqueuedKeeps ==
    ASSUME WriteInv, OrderInv, NEW m \in Messages, Enqueued(m),
           replies \in 0..MaxSent, replies' \in 0..MaxSent
    PROVE  OrderInv'
<1>1. ~Stopped /\ ~Stopped'
  BY DEF Stopped, OrderInv, Enqueued
<1>2. Output' = Append(Output, m)
  <2>1. /\ sendQueue \in Seq(Messages) /\ wire \o current \in Seq(Messages)
        /\ Output \in Seq(Messages) /\ <<m>> \in Seq(Messages)
    BY OutputType DEF WriteInv
  <2>2. Append(sendQueue, m) = sendQueue \o <<m>>
    BY <2>1, AppendIsConcat
  <2>3. Append(Output, m) = Output \o <<m>>
    BY <2>1, AppendIsConcat
  <2>4. (wire \o current) \o (sendQueue \o <<m>>) = ((wire \o current) \o sendQueue) \o <<m>>
    BY <2>1, ConcatAssociative
  <2> QED
    BY <2>2, <2>3, <2>4 DEF Output, Enqueued
<1>3. mState = "open" => NeverCloses(Output)
  <2> SUFFICES ASSUME mState = "open" PROVE NeverCloses(Output)
    OBVIOUS
  <2>1. current \in Seq(Answers) /\ sendQueue \in Seq(Answers)
    BY DEF WriteInv, Ended
  <2>2. wire \in Seq(Answers)
    <3>1. \A i \in 1..Len(wire) : wire[i] \in Answers
      BY <1>1, LenProperties, ElementOfSeq DEF OrderInv, NeverCloses, WriteInv, Answers
    <3> QED
      BY <3>1, LenProperties DEF WriteInv
  <2>3. Output \in Seq(Answers)
    BY <2>1, <2>2, ConcatProperties DEF Output
  <2> QED
    BY <2>3, ElementOfSeq, LenProperties DEF NeverCloses, Answers
<1>4. InOrder(Output, replies)
  BY <1>1 DEF OrderInv
<1>5. InOrder(Append(Output, m), replies')
  BY <1>3, <1>4, OutputType, AppendedInOrder DEF Enqueued
<1> QED
  BY <1>1, <1>2, <1>5 DEF OrderInv, Enqueued

\* The first close frame of a batch is its last message.
LEMMA BatchClosesLast ==
    ASSUME NEW S, NEW q \in Seq(S), q # <<>>
    PROVE  ClosesLast(Batch(q))
<1>0. DOMAIN q = 1..Len(q) /\ Len(q) \in Nat
  BY LenProperties
<1>1. CASE \A i \in DOMAIN q : q[i] # Close
  BY <1>1 DEF Batch, ClosesLast
<1>2. CASE \E i \in DOMAIN q : q[i] = Close
  <2> DEFINE Terminal == {i \in DOMAIN q : q[i] = Close}
  <2>1. PICK x \in Terminal : \A y \in Terminal : x <= y
    <3>1. Terminal \in SUBSET Nat /\ Terminal # {}
      BY <1>0, <1>2
    <3> QED
      BY <3>1, SmallestOf
  <2>2. \E i \in DOMAIN q : q[i] = Close /\ \A j \in 1..(i - 1) : q[j] # Close
    BY <1>0, <2>1
  <2> DEFINE c == CHOOSE i \in DOMAIN q : q[i] = Close /\ \A j \in 1..(i - 1) : q[j] # Close
  <2>3. c \in 1..Len(q) /\ \A j \in 1..(c - 1) : q[j] # Close
    BY <1>0, <2>2
  <2>4. Batch(q) = SubSeq(q, 1, c)
    BY <1>2 DEF Batch
  <2> HIDE DEF c
  <2>5. Len(SubSeq(q, 1, c)) = c /\ \A i \in 1..c : SubSeq(q, 1, c)[i] = q[i]
    BY <1>0, <2>3, PartOf
  <2>6. DOMAIN SubSeq(q, 1, c) = 1..c
    <3>1. SubSeq(q, 1, c) \in Seq(S)
      BY <1>0, <2>3, PartOf
    <3> QED
      BY <2>5, <3>1, LenProperties
  <2> QED
    BY <1>0, <2>3, <2>4, <2>5, <2>6 DEF ClosesLast
<1> QED
  BY <1>1, <1>2

LEMMA WriteFrameInOrder ==
    ASSUME WriteInv, WriteInv', OrderInv, WriteFrame
    PROVE  OrderInv'
<1>1. UNCHANGED <<wire, mState, replies>>
  BY DEF WriteFrame, callVars
<1>2. CASE writeFlag = "free" /\ sendQueue # <<>>
  <2>1. /\ current = <<>> /\ current' = current \o Batch(sendQueue)
        /\ sendQueue' = SubSeq(sendQueue, Len(Batch(sendQueue)) + 1, Len(sendQueue))
        /\ writeFlag' = "held" /\ "write_frame" \in pending'
    BY <1>2 DEF WriteFrame, OrderInv
  <2>2. sendQueue \in Seq(Messages) /\ wire \in Seq(Messages)
    BY DEF WriteInv
  <2>3. Batch(sendQueue) \in Seq(Messages) /\ sendQueue' \in Seq(Messages)
    BY <1>2, <2>1, <2>2, BatchOf
  <2>4. current' = Batch(sendQueue)
    BY <2>1, <2>3, ConcatEmptySeq
  <2>5. sendQueue = Batch(sendQueue) \o sendQueue'
    <3>1. PICK i \in 1..Len(sendQueue) : Batch(sendQueue) = SubSeq(sendQueue, 1, i)
      BY <1>2, <2>2, BatchIsAPrefix
    <3>2. Len(sendQueue) \in Nat
      BY <2>2, LenProperties
    <3>3. Len(Batch(sendQueue)) = i
      BY <2>2, <3>1, <3>2, PartOf
    <3>4. 1 \in 1..Len(sendQueue) + 1 /\ i \in 1 - 1..Len(sendQueue)
          /\ Len(sendQueue) \in i..Len(sendQueue)
      BY <3>2
    <3>5. SubSeq(sendQueue, 1, i) \o SubSeq(sendQueue, i + 1, Len(sendQueue))
             = SubSeq(sendQueue, 1, Len(sendQueue))
      BY <2>2, <3>4, ConcatAdjacentSubSeq
    <3>6. SubSeq(sendQueue, 1, Len(sendQueue)) = sendQueue
      BY <2>2, SubSeqFull
    <3> QED
      BY <2>1, <3>1, <3>3, <3>5, <3>6
  <2>6. Output' = Output
    <3>1. Output' = (wire \o Batch(sendQueue)) \o sendQueue'
      BY <1>1, <2>4 DEF Output
    <3>2. Output = wire \o (Batch(sendQueue) \o sendQueue')
      BY <2>1, <2>2, <2>5, ConcatEmptySeq DEF Output
    <3> QED
      BY <2>2, <2>3, <3>1, <3>2, ConcatAssociative
  <2>7. ~Stopped /\ ~Stopped'
    BY <1>2, <2>1 DEF Stopped
  <2>8. ClosesLast(current')
    BY <1>2, <2>2, <2>4, BatchClosesLast
  <2>9. mState \notin {"none", "connecting"}
    BY <1>2 DEF OrderInv
  <2> QED
    BY <1>1, <2>1, <2>6, <2>7, <2>8, <2>9 DEF OrderInv
<1>3. CASE ~(writeFlag = "free" /\ sendQueue # <<>>)
  <2>1. Unwritten
    BY <1>1, <1>3 DEF WriteFrame, Unwritten
  <2> QED
    BY <1>1, <2>1, UnwrittenKeeps
<1> QED
  BY <1>2, <1>3

\* What is on the wire, or in the write that is out, is a beginning of the output.
LEMMA WireBeginsOutput ==
    ASSUME WriteInv
    PROVE  /\ Len(wire \o current) <= Len(Output) /\ Len(wire) <= Len(Output)
           /\ \A i \in 1..Len(wire \o current) : (wire \o current)[i] = Output[i]
           /\ \A i \in 1..Len(wire) : wire[i] = Output[i]
<1>1. wire \in Seq(Messages) /\ current \in Seq(Messages) /\ sendQueue \in Seq(Messages)
  BY DEF WriteInv
<1>2. /\ wire \o current \in Seq(Messages)
      /\ Len(wire \o current) = Len(wire) + Len(current)
      /\ Len(Output) = Len(wire) + Len(current) + Len(sendQueue)
      /\ Len(wire) \in Nat /\ Len(current) \in Nat /\ Len(sendQueue) \in Nat
  BY OutputType
<1>3. ASSUME NEW i \in 1..Len(wire \o current) PROVE (wire \o current)[i] = Output[i]
  <2>1. i \in 1..Len(wire \o current) + Len(sendQueue) /\ i <= Len(wire \o current)
    BY <1>2
  <2> QED
    BY <1>1, <1>2, <2>1, ConcatProperties DEF Output
<1>4. ASSUME NEW i \in 1..Len(wire) PROVE wire[i] = Output[i]
  <2>1. i \in 1..Len(wire) + Len(current) /\ i <= Len(wire) /\ i \in 1..Len(wire \o current)
    BY <1>2
  <2>2. (wire \o current)[i] = wire[i]
    BY <1>1, <2>1, ConcatProperties
  <2> QED
    BY <1>3, <2>1, <2>2
<1> QED
  BY <1>2, <1>3, <1>4

\* A write ends: what was out is on the wire.
LEMMA WrittenClosesLast ==
    ASSUME WriteInv, OrderInv, NeverCloses(wire)
    PROVE  /\ ClosesLast(wire \o current)
           /\ current # <<>> /\ Last(current) # Close => NeverCloses(wire \o current)
<1>1. wire \in Seq(Messages) /\ current \in Seq(Messages)
  BY DEF WriteInv
<1>2. /\ Len(wire) \in Nat /\ Len(current) \in Nat
      /\ DOMAIN wire = 1..Len(wire) /\ DOMAIN current = 1..Len(current)
  BY <1>1, LenProperties
<1>3. Len(wire \o current) = Len(wire) + Len(current) /\ wire \o current \in Seq(Messages)
  BY <1>1, ConcatProperties
<1>4. DOMAIN (wire \o current) = 1..Len(wire) + Len(current)
  BY <1>3, LenProperties
<1>5. ASSUME NEW i \in DOMAIN (wire \o current), (wire \o current)[i] = Close
      PROVE  /\ i = Len(wire) + Len(current)
             /\ current # <<>> /\ Last(current) = Close
  <2>1. (wire \o current)[i] = IF i <= Len(wire) THEN wire[i] ELSE current[i - Len(wire)]
    BY <1>1, <1>4, ConcatProperties
  <2>2. ~(i <= Len(wire))
    BY <1>2, <1>4, <1>5, <2>1 DEF NeverCloses
  <2>3. i - Len(wire) \in DOMAIN current /\ current[i - Len(wire)] = Close
    BY <1>2, <1>4, <1>5, <2>1, <2>2
  <2>4. i - Len(wire) = Len(current)
    BY <2>3 DEF OrderInv, ClosesLast
  <2>5. current # <<>>
    BY <1>2, <2>3, EmptySeq
  <2> QED
    BY <1>2, <1>4, <2>3, <2>4, <2>5 DEF Last
<1> QED
  BY <1>3, <1>5 DEF ClosesLast, NeverCloses

LEMMA HandleWriteInOrder ==
    ASSUME WriteInv, OrderInv, replies \in 0..MaxSent,
           HandleWriteFrame \/ HandleWriteFailure
    PROVE  OrderInv'
<1>1. /\ "write_frame" \in pending /\ "write_frame" \notin pending' /\ current' = <<>>
      /\ UNCHANGED <<sendQueue, replies>>
      /\ mState' \in {"closed", mState}
  BY DEF HandleWriteFrame, HandleWriteFailure, Fails, PostedAfterWrite, Terminate
<1>2. /\ ~Stopped /\ writeFlag = "held" /\ NeverCloses(wire) /\ InOrder(Output, replies)
      /\ mState \notin {"none", "connecting"} /\ current # <<>>
      /\ wire \in Seq(Messages) /\ current \in Seq(Messages) /\ sendQueue \in Seq(Messages)
  BY <1>1 DEF Stopped, OrderInv, WriteInv
<1>3. ClosesLast(current')
  <2>1. DOMAIN <<>> = {}
    OBVIOUS
  <2> QED
    BY <1>1, <2>1 DEF ClosesLast
<1>4. ClosesLast(wire)
  BY <1>2 DEF NeverCloses, ClosesLast
<1>5. ClosesLast(wire \o current)
  BY <1>2, WrittenClosesLast
<1>6. /\ WrittenInOrder(wire) /\ WrittenInFull(wire, replies)
      /\ WrittenInOrder(wire \o current) /\ WrittenInFull(wire \o current, replies)
  BY <1>2, <1>4, <1>5, WireBeginsOutput, OutputType, BeginningInOrder
<1>7. CASE HandleWriteFailure
  <2>1. wire' = wire /\ writeFlag' = "held" /\ mState' = "closed"
    BY <1>2, <1>7 DEF HandleWriteFailure, Terminate
  <2>2. Stopped'
    BY <1>1, <2>1 DEF Stopped
  <2> QED
    BY <1>1, <1>3, <1>6, <2>1, <2>2 DEF OrderInv
<1>8. CASE HandleWriteFrame
  <2>1. wire' = wire \o current
    BY <1>8 DEF HandleWriteFrame
  <2>2. CASE Last(current) = Close
    <3>1. writeFlag' = "held" /\ mState' = "closed"
      BY <1>2, <1>8, <2>2 DEF HandleWriteFrame, Terminate
    <3>2. Stopped'
      BY <1>1, <3>1 DEF Stopped
    <3> QED
      BY <1>1, <1>3, <1>6, <2>1, <3>1, <3>2 DEF OrderInv
  <2>3. CASE Last(current) # Close
    <3>1. writeFlag' = "free" /\ mState' = mState
      BY <1>8, <2>3 DEF HandleWriteFrame
    <3>2. ~Stopped'
      BY <3>1 DEF Stopped
    <3>3. NeverCloses(wire')
      BY <1>2, <2>1, <2>3, WrittenClosesLast
    <3>4. Output' = Output
      <4>1. wire' \o <<>> = wire \o current
        BY <1>2, <2>1, ConcatProperties, ConcatEmptySeq
      <4> QED
        BY <1>1, <4>1 DEF Output
    <3> QED
      BY <1>1, <1>2, <1>3, <3>1, <3>2, <3>3, <3>4 DEF OrderInv
  <2> QED
    BY <2>2, <2>3
<1> QED
  BY <1>7, <1>8

LEMMA FramesInOrder ==
    ASSUME WriteInv, WriteInv', OrderInv, FrameStep, [Next]_vars,
           messages \in 0..MaxSent, messages' \in 0..MaxSent
    PROVE  OrderInv'
<1> USE DEF Frame
<1>1. \A ops : "write_frame" \in Posted(ops) <=> "write_frame" \in ops
  BY DEF Posted
<1>2. ASSUME NEW ops, GoOn(Tail(buffer), ops), "write_frame" \in ops <=> "write_frame" \in pending
      PROVE  "write_frame" \in pending' <=> "write_frame" \in pending
  BY <1>2 DEF GoOn
<1>3. UNCHANGED <<current, writeFlag, wire>>
  BY DEF FrameStep, DataFrame, PingFrame, CloseFrame, GarbageFrame
<1>4. Pong \in Messages /\ Close \in Messages
  BY DEF Messages
<1>5. replies \in 0..MaxSent /\ replies' \in 0..MaxSent
  BY DEF WriteInv, ConnectionAssumption
<1>6. mState = "closed" => mState' = "closed"
  BY ClosedIsFinal
<1>7. mState' \in {"none", "connecting"} => mState \in {"none", "connecting"}
  BY NeverBackToOpening
<1>8. ASSUME Ignore PROVE OrderInv'
  <2>1. Unwritten
    BY <1>2, <1>3, <1>8 DEF Ignore, Unwritten
  <2> QED
    BY <1>6, <1>7, <2>1, UnwrittenKeeps
<1>9. CASE DataFrame
  <2>1. CASE ~DeliversData
    BY <1>8, <1>9, <2>1 DEF DataFrame
  <2>2. CASE DeliversData
    <3>1. mState = "open" /\ mState' = mState
      BY <1>9, <2>2 DEF DataFrame, DeliversData, Ignore
    <3>2. CASE GoOn(Tail(buffer), pending) /\ UNCHANGED <<sendQueue, replies>>
      <4>1. Unwritten
        BY <1>2, <1>3, <3>2 DEF Unwritten
      <4> QED
        BY <1>6, <1>7, <4>1, UnwrittenKeeps
    <3>3. CASE replies' = replies + 1 /\ PushAndGoOn(Reply(replies + 1))
      <4>1. Enqueued(Reply(replies + 1))
        BY <1>1, <1>2, <1>3, <3>1, <3>3 DEF PushAndGoOn, Pushed, Enqueued
      <4>2. Reply(replies + 1) \in Messages
        BY <1>5, <3>3 DEF Messages, ConnectionAssumption
      <4> QED
        BY <1>5, <4>1, <4>2, EnqueuedKeeps
    <3>4. CASE UNCHANGED <<pending, sendQueue, replies>>
      <4>1. Unwritten
        BY <1>3, <3>4 DEF Unwritten
      <4> QED
        BY <1>6, <1>7, <4>1, UnwrittenKeeps
    <3> QED
      BY <1>9, <2>2, <3>2, <3>3, <3>4 DEF DataFrame, DeliversData
  <2> QED
    BY <2>1, <2>2
<1>10. CASE PingFrame
  <2>1. CASE mState = "open"
    <3>1. PushAndGoOn(Pong) /\ UNCHANGED <<mState, replies>>
      BY <1>10, <2>1 DEF PingFrame
    <3>2. Enqueued(Pong)
      BY <1>1, <1>2, <1>3, <2>1, <3>1 DEF PushAndGoOn, Pushed, Enqueued
    <3> QED
      BY <1>4, <1>5, <3>2, EnqueuedKeeps
  <2>2. CASE mState # "open"
    BY <1>8, <1>10, <2>2 DEF PingFrame
  <2> QED
    BY <2>1, <2>2
<1>11. ASSUME StartClosing, sendQueue' = Pushed(Close), mState \in {"open", "closing"},
              "write_frame" \in pending' <=> "write_frame" \in pending
       PROVE  OrderInv'
  <2>1. Enqueued(Close)
    BY <1>3, <1>11 DEF StartClosing, StateAfterCloseFrame, Pushed, Enqueued
  <2> QED
    BY <1>4, <1>5, <2>1, EnqueuedKeeps
<1>12. CASE CloseFrame
  <2>1. (StartClosing /\ PushAndGoOn(Close) /\ mState \in {"open", "closing"}) \/ Ignore
    BY <1>12 DEF CloseFrame
  <2> QED
    BY <1>1, <1>2, <1>8, <1>11, <2>1 DEF PushAndGoOn
<1>13. CASE GarbageFrame
  <2>1. CASE AnswersAnError
    BY <1>1, <1>11, <1>13, <2>1 DEF GarbageFrame, AnswersAnError
  <2>2. CASE ~AnswersAnError
    <3>1. Unwritten
      BY <1>3, <1>13, <2>2 DEF GarbageFrame, Terminate, Unwritten
    <3> QED
      BY <1>6, <1>7, <3>1, UnwrittenKeeps
  <2> QED
    BY <2>1, <2>2
<1> QED
  BY <1>9, <1>10, <1>12, <1>13 DEF FrameStep

LEMMA OrderInvKept ==
    ASSUME WriteInv, WriteInv', OrderInv, [Next]_vars,
           messages \in 0..MaxSent, messages' \in 0..MaxSent
    PROVE  OrderInv'
<1> USE DEF writeVars, readVars, timerVars, callVars, clientVars
<1>1. mState = "closed" => mState' = "closed"
  BY ClosedIsFinal
<1>2. mState' \in {"none", "connecting"} => mState \in {"none", "connecting"}
  BY NeverBackToOpening
<1>3. replies \in 0..MaxSent
  BY DEF WriteInv, ConnectionAssumption
<1>4. CASE Unwritten
  BY <1>1, <1>2, <1>4, UnwrittenKeeps
<1>5. CASE HandleAccept
  <2>1. "write_frame" \notin pending
    BY <1>5 DEF HandleAccept, OrderInv
  <2> QED
    BY <1>4, <1>5, <2>1 DEF HandleAccept, Unwritten
<1>6. CASE HandleWriteResponse
  BY <1>4, <1>6 DEF HandleWriteResponse, GoOn, Unwritten
<1>7. CASE FrameStep
  BY <1>7, FramesInOrder
<1>8. CASE WriteFrame
  BY <1>8, WriteFrameInOrder
<1>9. CASE HandleWriteFrame \/ HandleWriteFailure
  BY <1>3, <1>9, HandleWriteInOrder
<1>10. CASE HandleReadHandshake \/ HandleReadFrame \/ HandleFailure
  BY <1>4, <1>10 DEF HandleReadHandshake, HandleReadFrame, HandleFailure, Unwritten
<1>11. CASE TimerStep
  BY <1>4, <1>11 DEF TimerStep, Expire, HandleTimeout, Unwritten
<1>12. CASE ClientStep
  BY <1>4, <1>12 DEF ClientStep, ClientSends, ClientLeaves, Unwritten
<1>13. CASE UNCHANGED vars
  BY <1>4, <1>13 DEF vars, Unwritten
<1> QED
  BY <1>5, <1>6, <1>7, <1>8, <1>9, <1>10, <1>11, <1>12, <1>13 DEF Next, WriteStep, ReadStep

LEMMA OrderInvariant == Spec => []OrderInv
<1>1. Init => OrderInv
  <2> SUFFICES ASSUME Init PROVE OrderInv
    OBVIOUS
  <2>1. wire = <<>> /\ current = <<>> /\ sendQueue = <<>> /\ replies = 0
        /\ pending = {} /\ writeFlag = "free"
    BY DEF Init
  <2>2. <<>> \o <<>> = <<>> /\ DOMAIN <<>> = {}
    BY ConcatEmptySeq, EmptySeq
  <2>3. DOMAIN Output = {}
    BY <2>1, <2>2 DEF Output
  <2>4. InOrder(Output, 0)
    BY <2>3 DEF InOrder, Numbers
  <2> QED
    BY <2>1, <2>2, <2>4 DEF OrderInv, ClosesLast, NeverCloses, Stopped
<1>2. TypeOK /\ TypeOK' /\ WriteInv /\ WriteInv' /\ OrderInv /\ [Next]_vars => OrderInv'
  BY OrderInvKept DEF TypeOK
<1> QED
  BY <1>1, <1>2, ConnectionTypeCorrect, WriteInvariant, PTL DEF Spec

LEMMA WireIsWritten ==
    ASSUME WriteInv, OrderInv, replies \in 0..MaxSent
    PROVE  WrittenInOrder(wire) /\ WrittenInFull(wire, replies)
<1>1. CASE Stopped
  BY <1>1 DEF OrderInv
<1>2. CASE ~Stopped
  <2>1. NeverCloses(wire) /\ InOrder(Output, replies) /\ wire \in Seq(Messages)
    BY <1>2 DEF OrderInv, WriteInv
  <2>2. ClosesLast(wire)
    BY <2>1 DEF NeverCloses, ClosesLast
  <2> QED
    BY <2>1, <2>2, WireBeginsOutput, OutputType, BeginningInOrder
<1> QED
  BY <1>1, <1>2

\* The answers reach the wire in order, each once, and nothing after a close frame,
\* in whatever batches they are written (see WireInOrder).
THEOREM WireStaysInOrder == Spec => []WireInOrder
<1>1. TypeOK /\ WriteInv /\ OrderInv => WireInOrder
  <2> SUFFICES ASSUME TypeOK, WriteInv, OrderInv PROVE WireInOrder
    OBVIOUS
  <2>1. WrittenInOrder(wire)
    BY WireIsWritten DEF TypeOK, ConnectionAssumption
  <2> QED
    BY <2>1 DEF WireInOrder, WrittenInOrder, Numbers
<1> QED
  BY <1>1, ConnectionTypeCorrect, WriteInvariant, OrderInvariant, PTL

\* A close frame on the wire has every accepted answer before it (see
\* CloseLosesNothing): nothing but close frames is queued behind a close frame.
THEOREM NothingLostAtClose == Spec => []CloseLosesNothing
<1>1. TypeOK /\ WriteInv /\ OrderInv => CloseLosesNothing
  <2> SUFFICES ASSUME TypeOK, WriteInv, OrderInv PROVE CloseLosesNothing
    OBVIOUS
  <2>1. WrittenInFull(wire, replies)
    BY WireIsWritten DEF TypeOK, ConnectionAssumption
  <2> QED
    BY <2>1 DEF CloseLosesNothing, WrittenInFull, Range, Answered
<1> QED
  BY <1>1, ConnectionTypeCorrect, WriteInvariant, OrderInvariant, PTL
=============================================================================
