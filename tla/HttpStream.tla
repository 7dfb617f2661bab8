------------------------------ MODULE HttpStream ------------------------------
(***************************************************************************)
(* One TCP connection of the simulator below the level of frames: the      *)
(* queue of DashServer, the socket's bytes, and HttpParser, which cuts the *)
(* bytes the client reads back into messages.                              *)
(*                                                                         *)
(* A byte is known by its place in the stream, the number of bytes the     *)
(* server's socket took before it; stream tells which frame lies where.    *)
(* DataSend and ReadSocket repeat themselves, DataSend in a loop and       *)
(* ReadSocket by calling itself: an action is one round, and running keeps *)
(* every other event out until the last one.                               *)
(***************************************************************************)
EXTENDS Integers, Sequences

CONSTANTS
  Header,       \* GetSerializedSize of the two headers together, 66
  FrameSize,    \* payload of a frame, 1288
  MaxMessage,   \* MPEG_MAX_MESSAGE, the size of m_buffer, 100000
  TxBuffer,     \* bytes the server's socket holds, 131072
  PacketNums,   \* frames a segment may have
  Requests      \* bound: how many segments are asked for

ASSUME SizesAssumption ==
  /\ Header \in Nat \ {0} /\ FrameSize \in Nat
  /\ MaxMessage \in Nat /\ Header + FrameSize <= MaxMessage
  /\ TxBuffer \in Nat /\ Header + FrameSize <= TxBuffer
ASSUME LoadAssumption == PacketNums \subseteq Nat \ {0} /\ Requests \in Nat

VARIABLES
  asked,     \* segments asked for
  made,      \* frames made for them
  queue,     \* m_queues of the socket: frames waiting to be sent
  stream,    \* frames the socket has taken, with their place in the stream
  written,   \* bytes the socket has taken
  acked,     \* bytes it may forget
  arrived,   \* bytes at the client's socket
  read,      \* bytes ReadSocket has taken from there
  m_buffer,  \* HttpParser's buffer
  m_bytes,   \* how much of it is in use
  received,  \* messages handed to MessageReceived
  running    \* the handler that has not returned, or "none"

vars == <<asked, made, queue, stream, written, acked, arrived, read,
          m_buffer, m_bytes, received, running>>
serverVars == <<asked, made, queue, stream, written>>
clientVars == <<read, m_buffer, m_bytes, received>>

Frame == [id : Nat, size : {0, FrameSize}]
Placed == [id : Nat, at : Nat, size : {0, FrameSize}]
Message == [0 .. Header - 1 -> Nat] \cup [0 .. Header + FrameSize - 1 -> Nat]
Slots == 0 .. MaxMessage - 1
Least(a, b) == IF a < b THEN a ELSE b

\* The buffer is not initialised; what it holds beyond m_bytes is never used.
Init ==
  /\ asked = 0 /\ made = 0
  /\ queue = <<>> /\ stream = <<>>
  /\ written = 0 /\ acked = 0 /\ arrived = 0 /\ read = 0
  /\ m_buffer = [i \in Slots |-> 0]
  /\ m_bytes = 0
  /\ received = <<>>
  /\ running = "none"

-----------------------------------------------------------------------------
(* The server.                                                             *)

\* SendSegment: n frames of FrameSize, or a single one without payload.
SegmentFrames(n) ==
  [i \in 1 .. n |-> [id |-> made + i, size |-> IF n = 1 THEN 0 ELSE FrameSize]]

\* HandleRead: a request for a segment of n frames has come.
ServerHandleRead ==
  /\ running = "none"
  /\ asked < Requests
  /\ \E n \in PacketNums :
       /\ queue' = queue \o SegmentFrames(n)
       /\ made' = made + n
  /\ asked' = asked + 1
  /\ running' = "DataSend"
  /\ UNCHANGED <<stream, written, acked, arrived>>
  /\ UNCHANGED clientVars

\* Socket::Send takes a frame whole or not at all.
Fits(f) == Header + f.size <= TxBuffer - (written - acked)

\* Bug: the frame is popped before the socket is asked.
DataSendPopsFirst ==
  /\ running = "DataSend"
  /\ IF queue = <<>>
     THEN running' = "none" /\ UNCHANGED <<queue, stream, written>>
     ELSE /\ queue' = Tail(queue)
          /\ IF Fits(Head(queue))
             THEN /\ stream' = Append(stream, [id |-> Head(queue).id, at |-> written,
                                               size |-> Head(queue).size])
                  /\ written' = written + Header + Head(queue).size
                  /\ UNCHANGED running
             ELSE running' = "none" /\ UNCHANGED <<stream, written>>
  /\ UNCHANGED <<asked, made, acked, arrived>>
  /\ UNCHANGED clientVars

\* One round of DataSend.
DataSend ==
  /\ running = "DataSend"
  /\ IF queue # <<>> /\ Fits(Head(queue))
     THEN /\ stream' = Append(stream, [id |-> Head(queue).id, at |-> written,
                                       size |-> Head(queue).size])
          /\ written' = written + Header + Head(queue).size
          /\ queue' = Tail(queue)
          /\ UNCHANGED running
     ELSE running' = "none" /\ UNCHANGED <<queue, stream, written>>
  /\ UNCHANGED <<asked, made, acked, arrived>>
  /\ UNCHANGED clientVars

\* TCP acknowledges bytes, and the socket's send callback is DataSend.
Acknowledge ==
  /\ running = "none"
  /\ \E k \in acked + 1 .. arrived : acked' = k
  /\ running' = "DataSend"
  /\ UNCHANGED <<arrived>>
  /\ UNCHANGED serverVars
  /\ UNCHANGED clientVars

-----------------------------------------------------------------------------
(* The client.                                                             *)

\* TCP delivers the next bytes, as many as it likes, and calls HandleRead.
ClientHandleRead ==
  /\ running = "none"
  /\ \E k \in arrived + 1 .. written : arrived' = k
  /\ running' = "ReadSocket"
  /\ UNCHANGED acked
  /\ UNCHANGED serverVars
  /\ UNCHANGED clientVars

\* The sizes RemoveHeader may find at the start of buffer b: that of the frame
\* whose header lies there, and any number if the bytes are no frame's header
\* (MaxMessage stands for those that are larger still).
MpegSizes(b) ==
  LET there == {k \in DOMAIN stream :
                  \A i \in 0 .. Header - 1 : b[i] = stream[k].at + i}
  IN  IF there = {} THEN 0 .. MaxMessage ELSE {stream[k].size : k \in there}

\* RecvFrom(&m_buffer[m_bytes], MPEG_MAX_MESSAGE - m_bytes, ...).
Taken == Least(arrived - read, MaxMessage - m_bytes)
BufferFilled ==
  [i \in Slots |-> IF m_bytes <= i /\ i < m_bytes + Taken
                   THEN read + (i - m_bytes) ELSE m_buffer[i]]

Wait(b, bytes) ==
  /\ m_buffer' = b
  /\ m_bytes' = bytes
  /\ running' = "none"
  /\ UNCHANGED received

\* Bug: what is left in the buffer is forgotten with the message.
HandOverDropsRest(b, bytes, n) ==
  /\ received' = Append(received, [i \in 0 .. n - 1 |-> b[i]])
  /\ m_buffer' = b
  /\ m_bytes' = 0
  /\ UNCHANGED running

\* Bug: m_bytes is not reduced.
HandOverKeepsCount(b, bytes, n) ==
  /\ received' = Append(received, [i \in 0 .. n - 1 |-> b[i]])
  /\ m_buffer' = [i \in Slots |-> IF i < bytes - n THEN b[i + n] ELSE b[i]]
  /\ m_bytes' = bytes
  /\ UNCHANGED running

\* Bug: ReadSocket does not call itself again.
HandOverOnce(b, bytes, n) ==
  /\ received' = Append(received, [i \in 0 .. n - 1 |-> b[i]])
  /\ m_buffer' = [i \in Slots |-> IF i < bytes - n THEN b[i + n] ELSE b[i]]
  /\ m_bytes' = bytes - n
  /\ running' = "none"

\* MessageReceived gets the first n bytes, memmove brings the rest forward,
\* and ReadSocket is called again.
HandOver(b, bytes, n) ==
  /\ received' = Append(received, [i \in 0 .. n - 1 |-> b[i]])
  /\ m_buffer' = [i \in Slots |-> IF i < bytes - n THEN b[i + n] ELSE b[i]]
  /\ m_bytes' = bytes - n
  /\ UNCHANGED running

\* Bug: the payload alone is compared with what is there.
ReadSocketForgetsHeader ==
  /\ running = "ReadSocket"
  /\ read' = read + Taken
  /\ LET bytes == m_bytes + Taken
     IN  IF bytes < Header THEN Wait(BufferFilled, bytes)
         ELSE \E size \in MpegSizes(BufferFilled) :
                IF bytes < size THEN Wait(BufferFilled, bytes)
                ELSE HandOver(BufferFilled, bytes, Header + size)
  /\ UNCHANGED <<acked, arrived>>
  /\ UNCHANGED serverVars

\* One call of HttpParser::ReadSocket.
ReadSocket ==
  /\ running = "ReadSocket"
  /\ read' = read + Taken
  /\ LET bytes == m_bytes + Taken
     IN  IF bytes < Header THEN Wait(BufferFilled, bytes)
         ELSE \E size \in MpegSizes(BufferFilled) :
                IF bytes < Header + size THEN Wait(BufferFilled, bytes)
                ELSE HandOver(BufferFilled, bytes, Header + size)
  /\ UNCHANGED <<acked, arrived>>
  /\ UNCHANGED serverVars

Next ==
  \/ ServerHandleRead
  \/ DataSend
  \/ Acknowledge
  \/ ClientHandleRead
  \/ ReadSocket

Spec == Init /\ [][Next]_vars

\* Handlers return; TCP delivers what was sent and acknowledges what was
\* delivered.  Requests need not come.
FairSpec ==
  /\ Spec
  /\ WF_vars(DataSend)
  /\ WF_vars(Acknowledge)
  /\ WF_vars(ClientHandleRead)
  /\ WF_vars(ReadSocket)

-----------------------------------------------------------------------------
(* Properties.                                                             *)

\* The type invariant.
TypeOK ==
  /\ asked \in Nat /\ made \in Nat
  /\ queue \in Seq(Frame)
  /\ stream \in Seq(Placed)
  /\ written \in Nat /\ acked \in Nat /\ arrived \in Nat /\ read \in Nat
  /\ m_buffer \in [Slots -> Nat]
  /\ m_bytes \in 0 .. MaxMessage
  /\ received \in Seq(Message)
  /\ running \in {"none", "DataSend", "ReadSocket"}

\* The bytes of frame k of the stream.
Bytes(k) == [i \in 0 .. Header + stream[k].size - 1 |-> stream[k].at + i]

\* HttpParser hands over the frames of the stream, whole, in their order and
\* each once, however TCP cuts the stream and wherever the buffer ends.
WholeFramesInOrder ==
  /\ Len(received) <= Len(stream)
  /\ \A k \in 1 .. Len(received) : received[k] = Bytes(k) /\ stream[k].id = k

\* When ReadSocket has returned, no frame that has arrived in full is still in
\* the buffer or at the socket: the parser does not wait for bytes it has.
NothingLeftBehind ==
  running = "none" =>
    \A k \in DOMAIN stream :
      stream[k].at + Header + stream[k].size <= arrived => k <= Len(received)

\* The connection is a channel of frames.
Channel == INSTANCE FrameChannel WITH
  sent <- Len(stream), got <- Len(received)

ChannelSpec == Channel!ChannelSpec

\* Every frame made is handed over in the end: neither the frame the socket
\* refused nor the one that arrived in pieces is forgotten.
ChannelFairSpec == Channel!ChannelFairSpec
=============================================================================
