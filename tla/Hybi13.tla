------------------------------- MODULE Hybi13 -------------------------------
(***************************************************************************)
(* How the vendored websocketpp makes messages of the bytes a client       *)
(* sends: processor::hybi13::consume, one iteration of its loop per        *)
(* action, called by the loop of handle_read_frame for whatever part of    *)
(* the stream a read has brought.  Connection.tla takes its results, the   *)
(* messages and the error, one by one as the frames of a read.             *)
(*                                                                         *)
(* A frame is a record of what its header says and its payload; the bytes  *)
(* it comes in are those the client would send for it.                     *)
(***************************************************************************)
EXTENDS Integers, SequencesExt

CONSTANTS Streams,        \* the sequences of frames a client may send
          MaxMessageSize, \* 32000000 in config/core.hpp:228
          ByteXor         \* ByteXor[a][b] is the exclusive or of two bytes

Byte == 0..255

\* A frame, whether or not it keeps the rules: its length is coded in 7 bits or in 16.
Frames == [op: 0..15, fin: BOOLEAN, rsv: 0..7, masked: BOOLEAN, code: {7, 16},
           key: [1..4 -> Byte], payload: Seq(Byte)]

ASSUME Hybi13Assumption ==
    /\ MaxMessageSize \in Nat
    /\ ByteXor \in [Byte -> [Byte -> Byte]]
    /\ \A a, b \in Byte : ByteXor[ByteXor[a][b]][b] = a
    /\ Streams \subseteq Seq(Frames)
    /\ \A s \in Streams : \A i \in DOMAIN s :
          Len(s[i].payload) <= IF s[i].code = 7 THEN 125 ELSE 65535

VARIABLES stream,      \* the frames the client sends
          unread,      \* their bytes that no read has brought yet
          chunk,       \* buf + p: what is left of the last read
          mState,      \* m_state
          bytesNeeded, \* m_bytes_needed
          header,      \* m_basic_header: b0 and b1
          extended,    \* m_extended_header, as far as it is filled
          data,        \* m_data_msg
          control,     \* m_control_msg
          current,     \* m_current_msg points to one of the two
          delivered,   \* the messages given to the connection
          failed       \* consume returned an error: nothing is read any more

vars == <<stream, unread, chunk, mState, bytesNeeded, header, extended, data, control,
          current, delivered, failed>>

CONTINUATION == 0
TEXT == 1
CLOSE == 8
PING == 9
IsControl(op) == op >= 8
Reserved(op) == op \in 3..7 \/ op >= 11

\* The bytes of a frame: the basic header, a length of two bytes if it is coded
\* so, the masking key, and the payload under the key.
BasicHeader(f) ==
    <<(IF f.fin THEN 128 ELSE 0) + f.rsv * 16 + f.op,
      (IF f.masked THEN 128 ELSE 0) + (IF f.code = 16 THEN 126 ELSE Len(f.payload))>>
Length(f) == IF f.code = 16 THEN <<Len(f.payload) \div 256, Len(f.payload) % 256>> ELSE <<>>
UnderKey(f) ==
    [i \in 1..Len(f.payload) |->
        IF f.masked THEN ByteXor[f.payload[i]][f.key[((i - 1) % 4) + 1]] ELSE f.payload[i]]
Bytes(f) ==
    BasicHeader(f) \o (Length(f) \o (IF f.masked THEN f.key ELSE <<>>)) \o UnderKey(f)

\* The bytes of the first k frames.
Wire(frames) ==
    LET bytes[k \in 0..Len(frames)] ==
            IF k = 0 THEN <<>> ELSE bytes[k - 1] \o Bytes(frames[k])
    IN bytes

\* get_opcode, get_fin, get_rsv1 to 3, get_basic_size
Opcode    == header.b0 % 16
Fin       == header.b0 >= 128
BasicSize == header.b1 % 128

\* The validator: how many bytes are missing of a character after a byte, or, where
\* not all go with it, which byte that was; "reject" for good.
Decode(s, b) ==
    CASE \/ s = "accept" /\ b \in 0..127
         \/ s = "one"    /\ b \in 128..191          -> "accept"
      [] \/ s = "accept" /\ b \in 194..223
         \/ s = "two"    /\ b \in 128..191
         \/ s = "E0"     /\ b \in 160..191
         \/ s = "ED"     /\ b \in 128..159          -> "one"
      [] \/ s = "accept" /\ b \in (225..239) \ {237}
         \/ s = "three"  /\ b \in 128..191
         \/ s = "F0"     /\ b \in 144..191
         \/ s = "F4"     /\ b \in 128..143          -> "two"
      [] s = "accept" /\ b \in 241..243             -> "three"
      [] s = "accept" /\ b = 224                    -> "E0"
      [] s = "accept" /\ b = 237                    -> "ED"
      [] s = "accept" /\ b = 240                    -> "F0"
      [] s = "accept" /\ b = 244                    -> "F4"
      [] OTHER                                      -> "reject"
Decoded(s, bytes) ==
    LET state[k \in 0..Len(bytes)] == IF k = 0 THEN s ELSE Decode(state[k - 1], bytes[k])
    IN state[Len(bytes)]

NoMessage == [op |-> CONTINUATION, payload |-> <<>>, keyAt |-> 0, utf8 |-> "none"]
NewMessage(op) == [op |-> op, payload |-> <<>>, keyAt |-> 0, utf8 |-> "accept"]

Init ==
    /\ stream \in Streams
    /\ unread = Wire(stream)[Len(stream)]
    /\ chunk = <<>>
    /\ mState = "HEADER_BASIC" /\ bytesNeeded = 2
    /\ header = [b0 |-> 0, b1 |-> 0] /\ extended = <<>>
    /\ data = NoMessage /\ control = NoMessage /\ current = "none"
    /\ delivered = <<>> /\ failed = FALSE

-----------------------------------------------------------------------------
\* The loop of consume goes on at the end of the bytes if it needs none. A wrong
\* variant, and the condition:
OnlyWithBytes == chunk # <<>>
GoesOn        == chunk # <<>> \/ bytesNeeded = 0

Consuming(s) == ~failed /\ mState = s /\ GoesOn

\* The loop is through, and the connection waits for what the next read brings.
Waiting == ~failed /\ mState # "READY" /\ ~GoesOn

\* A read brings any part of what is on its way.
Read ==
    /\ Waiting
    /\ \E n \in 1..Len(unread) :
          /\ chunk' = SubSeq(unread, 1, n)
          /\ unread' = SubSeq(unread, n + 1, Len(unread))
    /\ UNCHANGED <<stream, mState, bytesNeeded, header, extended, data, control, current,
                   delivered, failed>>

Fail ==
    /\ failed' = TRUE /\ chunk' = <<>>
    /\ UNCHANGED <<mState, bytesNeeded, header, extended, data, control, current>>

\* copy_basic_header_bytes: two bytes at once if there are two and both are needed.
TwoIfThereAre == Len(chunk) > 1
TwoAtOnce     == Len(chunk) > 1 /\ bytesNeeded = 2

\* validate_incoming_basic_header
AcceptsBasicHeader(h0, h1) ==
    LET op == h0 % 16  fin == h0 >= 128 IN
    /\ IsControl(op) => h1 % 128 <= 125
    /\ (h0 \div 16) % 8 = 0
    /\ ~Reserved(op)
    /\ IsControl(op) => fin
    /\ ~IsControl(op) => (op = CONTINUATION <=> data # NoMessage)
    /\ h1 >= 128

\* get_header_len, less the basic header
ExtendedLength(h1) ==
    (CASE h1 % 128 = 126 -> 2 [] h1 % 128 = 127 -> 8 [] OTHER -> 0)
    + (IF h1 >= 128 THEN 4 ELSE 0)

HeaderBasic ==
    /\ Consuming("HEADER_BASIC")
    /\ LET h  == IF TwoAtOnce THEN [b0 |-> chunk[1], b1 |-> chunk[2]]
                 ELSE IF bytesNeeded = 2 THEN [header EXCEPT !.b0 = chunk[1]]
                 ELSE [header EXCEPT !.b1 = chunk[1]]
           n  == IF TwoAtOnce THEN 2 ELSE 1
       IN IF bytesNeeded = n /\ ~AcceptsBasicHeader(h.b0, h.b1)
          THEN Fail
          ELSE /\ chunk' = SubSeq(chunk, n + 1, Len(chunk))
               /\ header' = h
               /\ IF bytesNeeded = n
                  THEN mState' = "HEADER_EXTENDED" /\ bytesNeeded' = ExtendedLength(h.b1)
                  ELSE bytesNeeded' = bytesNeeded - n /\ UNCHANGED mState
               /\ UNCHANGED <<extended, data, control, current, failed>>
    /\ UNCHANGED <<stream, unread, delivered>>

\* get_payload_size: the jumbo size is not read here, no frame of a model has one.
PayloadSize(ext) == IF BasicSize = 126 THEN ext[1] * 256 + ext[2] ELSE BasicSize

\* validate_incoming_extended_header
MinimallyCoded(ext) == BasicSize = 126 => PayloadSize(ext) > 125

\* What the bytes of the frame come to with what the message has: at its beginning
\* or when it goes on.
MessageSize(size) == IF data = NoMessage THEN size ELSE Len(data.payload) + size

HeaderExtended ==
    /\ Consuming("HEADER_EXTENDED")
    /\ LET n    == IF bytesNeeded < Len(chunk) THEN bytesNeeded ELSE Len(chunk)
           ext  == extended \o SubSeq(chunk, 1, n)
       IN IF n < bytesNeeded
          THEN /\ chunk' = <<>> /\ extended' = ext /\ bytesNeeded' = bytesNeeded - n
               /\ UNCHANGED <<mState, header, data, control, current, failed>>
          ELSE IF \/ ~MinimallyCoded(ext)
                  \/ (~IsControl(Opcode) /\ MessageSize(PayloadSize(ext)) > MaxMessageSize)
          THEN Fail
          ELSE /\ chunk' = SubSeq(chunk, n + 1, Len(chunk)) /\ extended' = ext
               /\ mState' = "APPLICATION" /\ bytesNeeded' = PayloadSize(ext)
               /\ IF IsControl(Opcode)
                  THEN /\ control' = NewMessage(Opcode) /\ current' = "control"
                       /\ UNCHANGED data
                  ELSE /\ data' = IF data = NoMessage THEN NewMessage(Opcode)
                                  ELSE [data EXCEPT !.keyAt = 0]
                       /\ current' = "data" /\ UNCHANGED control
               /\ UNCHANGED <<header, failed>>
    /\ UNCHANGED <<stream, unread, delivered>>

\* process_payload_bytes: the key is left turned by as many bytes as were read.
KeyStaysThere(k, n) == k
KeyTurned(k, n)     == (k + n) % 4
Key == SubSeq(extended, Len(extended) - 3, Len(extended))

WithBytes(m, bytes) ==
    LET plain == [i \in 1..Len(bytes) |-> ByteXor[bytes[i]][Key[((m.keyAt + i - 1) % 4) + 1]]]
    IN [m EXCEPT !.payload = m.payload \o plain,
                 !.keyAt = KeyTurned(m.keyAt, Len(bytes)),
                 !.utf8 = IF m.op = TEXT THEN Decoded(m.utf8, plain) ELSE m.utf8]

\* finalize_message: only a text frame that ends its message is looked at.
NotLookedAt(m)     == TRUE
EndsACharacter(m)  == Opcode = TEXT => m.utf8 = "accept"

\* The headers are read anew.
ResetHeaders ==
    mState' = "HEADER_BASIC" /\ bytesNeeded' = 2
    /\ header' = [b0 |-> 0, b1 |-> 0] /\ extended' = <<>>

Application ==
    /\ Consuming("APPLICATION")
    /\ LET n == IF bytesNeeded < Len(chunk) THEN bytesNeeded ELSE Len(chunk)
           m == WithBytes(IF current = "control" THEN control ELSE data, SubSeq(chunk, 1, n))
       IN IF m.utf8 = "reject" \/ (n = bytesNeeded /\ Fin /\ ~EndsACharacter(m))
          THEN Fail
          ELSE /\ chunk' = SubSeq(chunk, n + 1, Len(chunk))
               /\ control' = IF current = "control" THEN m ELSE control
               /\ data' = IF current = "data" THEN m ELSE data
               /\ CASE n < bytesNeeded -> /\ bytesNeeded' = bytesNeeded - n
                                          /\ UNCHANGED <<mState, header, extended>>
                    [] n = bytesNeeded /\ Fin -> /\ mState' = "READY" /\ bytesNeeded' = 0
                                                 /\ UNCHANGED <<header, extended>>
                    [] n = bytesNeeded /\ ~Fin -> ResetHeaders
               /\ UNCHANGED <<current, failed>>
    /\ UNCHANGED <<stream, unread, delivered>>

\* get_message and the dispatch: a control message leaves a data message that is
\* not complete where it is. A wrong variant drops both.
DataAfterBoth == NoMessage
DataAfter     == IF current = "data" THEN NoMessage ELSE data

GetMessage ==
    /\ mState = "READY"
    /\ LET m == IF current = "control" THEN control ELSE data
       IN delivered' = Append(delivered, [op |-> m.op, payload |-> m.payload])
    /\ data' = DataAfter /\ control' = NoMessage
    /\ ResetHeaders
    /\ UNCHANGED <<stream, unread, chunk, current, failed>>

Processing == HeaderBasic \/ HeaderExtended \/ Application \/ GetMessage

Next == Read \/ Processing

Spec == Init /\ [][Next]_vars

-----------------------------------------------------------------------------
(* What the frames stand for, whatever bytes they come in.                 *)

Legal(f, open) ==
    /\ f.masked /\ f.rsv = 0 /\ ~Reserved(f.op)
    /\ f.code = 16 => Len(f.payload) > 125
    /\ IF IsControl(f.op) THEN f.fin /\ f.code = 7 ELSE f.op = CONTINUATION <=> open

\* One frame more, after the messages and the unfinished one of those before it.
AddFrame(acc, f) ==
    LET payload == acc.partial \o f.payload
        isText  == (IF f.op = CONTINUATION THEN acc.op ELSE f.op) = TEXT
        utf8    == Decoded("accept", payload)
    IN CASE acc.bad -> acc
         [] ~acc.bad /\ ~Legal(f, acc.open) -> [acc EXCEPT !.bad = TRUE]
         [] ~acc.bad /\ Legal(f, acc.open) /\ IsControl(f.op) ->
               [acc EXCEPT !.messages = Append(acc.messages, [op |-> f.op, payload |-> f.payload])]
         [] OTHER ->
               IF \/ Len(payload) > MaxMessageSize
                  \/ isText /\ utf8 = "reject"
                  \/ f.fin /\ f.op = TEXT /\ utf8 # "accept"
               THEN [acc EXCEPT !.bad = TRUE]
               ELSE IF f.fin
               THEN [acc EXCEPT !.open = FALSE, !.partial = <<>>, !.messages =
                        Append(acc.messages,
                               [op |-> IF f.op = CONTINUATION THEN acc.op ELSE f.op,
                                payload |-> payload])]
               ELSE [acc EXCEPT !.open = TRUE, !.partial = payload,
                                !.op = IF f.op = CONTINUATION THEN acc.op ELSE f.op]

NoFrames == [messages |-> <<>>, open |-> FALSE, op |-> CONTINUATION,
             partial |-> <<>>, bad |-> FALSE]

\* What the first k frames stand for.
Meaning(frames) ==
    LET after[k \in 0..Len(frames)] ==
            IF k = 0 THEN NoFrames ELSE AddFrame(after[k - 1], frames[k])
    IN after

\* How many frames have come in whole.
Received ==
    LET wire == Wire(stream)
        read == Len(wire[Len(stream)]) - Len(unread) - Len(chunk)
    IN CHOOSE k \in 0..Len(stream) :
          Len(wire[k]) <= read /\ (k = Len(stream) \/ Len(wire[k + 1]) > read)

\* The types, and what the states of the processor need: no count of bytes ever
\* goes below zero, which a size_t does not hold.
TypeOK ==
    /\ mState \in {"HEADER_BASIC", "HEADER_EXTENDED", "APPLICATION", "READY"}
    /\ bytesNeeded \in Nat /\ bytesNeeded <= 65535 /\ header \in [b0: Byte, b1: Byte]
    /\ chunk \in Seq(Byte) /\ extended \in Seq(Byte) /\ Len(extended) <= 12
    /\ current \in {"none", "data", "control"}
    /\ failed \in BOOLEAN
    /\ mState = "HEADER_BASIC" => bytesNeeded \in 1..2
    /\ mState = "READY" => current # "none" /\ bytesNeeded = 0

\* However reads cut the bytes, the messages are those of the frames, in order and
\* with their own bytes, also where control frames come between the fragments of
\* another; none outgrows the limit by coming in fragments; and after a frame that
\* breaks the rules there is none.
MessagesOfTheFrames == IsPrefix(delivered, Meaning(stream)[Len(stream)].messages)

\* A message is delivered when its last byte is in, not with the next read, which
\* may never come: an empty frame at the end of a read is not left waiting.
NothingHeldBack ==
    Waiting => delivered = Meaning(stream)[Received].messages

\* With frame j the n-th message is complete.
Completes(n, j) ==
    LET meaning == Meaning(stream) IN
    Len(meaning[j - 1].messages) = n - 1 /\ Len(meaning[j].messages) = n

\* A text message that ends within a character came in fragments, the one that began
\* it, others with control frames in between, and the one that completes it: as the
\* opcode of that says nothing of text, finalize_message lets it through
\* (hybi13.hpp:515). No message of a single frame does.
HalfCharactersAreFragments ==
    \A n \in DOMAIN delivered :
        delivered[n].op = TEXT /\ Decoded("accept", delivered[n].payload) # "accept"
            => \E i, j \in DOMAIN stream :
                  /\ i < j /\ Completes(n, j)
                  /\ stream[i].op = TEXT /\ ~stream[i].fin
                  /\ stream[j].op = CONTINUATION /\ stream[j].fin
                  /\ \A k \in i + 1..j - 1 :
                        \/ IsControl(stream[k].op)
                        \/ stream[k].op = CONTINUATION /\ ~stream[k].fin

\* "ensure that text messages end on a valid UTF8 code point" (finalize_message).
TextEndsOnACharacter ==
    \A m \in Range(delivered) : m.op = TEXT => Decoded("accept", m.payload) = "accept"
=============================================================================
