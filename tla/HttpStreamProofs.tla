--------------------------- MODULE HttpStreamProofs ---------------------------
(***************************************************************************)
(* Proofs about HttpStream: the inductive invariant IInv, the properties   *)
(* that follow from it, and the refinement of FrameChannel.                *)
(***************************************************************************)
EXTENDS HttpStream, SequenceTheorems, TLAPS

\* Where frame k of the stream ends, and where frame k starts or will start.
End(k) == stream[k].at + Header + stream[k].size
Start(k) == IF k <= Len(stream) THEN stream[k].at ELSE written

\* The frames lie in the stream one behind the other.
Layout ==
  /\ Start(1) = 0
  /\ \A k \in 1 .. Len(stream) : Start(k + 1) = End(k) /\ End(k) <= written
  /\ \A j, k \in 1 .. Len(stream) : j < k => End(j) <= stream[k].at

\* Frames are sent in the order they are made.
Numbered ==
  /\ made = Len(stream) + Len(queue)
  /\ \A k \in 1 .. Len(stream) : stream[k].id = k
  /\ \A j \in 1 .. Len(queue) : queue[j].id = Len(stream) + j

\* Bytes are read after they arrive, which is after they are written.
Positions == acked <= arrived /\ arrived <= written /\ read <= arrived

\* The part of the buffer in use holds the bytes read last, in their order.
Contents == \A i \in 0 .. m_bytes - 1 : m_buffer[i] = (read - m_bytes) + i

\* The buffer starts at the frame that is to be handed over next.
InStep == read - m_bytes = Start(Len(received) + 1)

\* Outside ReadSocket the socket is empty, and the next frame not complete.
Quiet ==
  running # "ReadSocket" =>
    /\ read = arrived
    /\ Len(received) < Len(stream) =>
         m_bytes < Header + stream[Len(received) + 1].size

IInv ==
  /\ TypeOK
  /\ Layout
  /\ Numbered
  /\ Positions
  /\ Contents
  /\ InStep
  /\ WholeFramesInOrder
  /\ Quiet

USE SizesAssumption, LoadAssumption

-----------------------------------------------------------------------------
\* The types of the numbers of a state, in the form the other proofs use.
LEMMA Numbers ==
  ASSUME TypeOK
  PROVE  /\ asked \in Nat /\ made \in Nat /\ m_bytes \in Nat /\ m_bytes <= MaxMessage
         /\ written \in Nat /\ acked \in Nat /\ arrived \in Nat /\ read \in Nat
         /\ Len(queue) \in Nat /\ Len(stream) \in Nat /\ Len(received) \in Nat
         /\ DOMAIN stream = 1 .. Len(stream)
         /\ \A k \in 1 .. Len(stream) :
              /\ stream[k].id \in Nat /\ stream[k].at \in Nat
              /\ stream[k].size \in Nat /\ stream[k].size <= FrameSize
              /\ End(k) \in Nat
         /\ \A j \in 1 .. Len(queue) :
              /\ queue[j].id \in Nat
              /\ queue[j].size \in Nat /\ queue[j].size <= FrameSize
<1>1. /\ asked \in Nat /\ made \in Nat /\ m_bytes \in Nat /\ m_bytes <= MaxMessage
      /\ written \in Nat /\ acked \in Nat /\ arrived \in Nat /\ read \in Nat
      /\ Len(queue) \in Nat /\ Len(stream) \in Nat /\ Len(received) \in Nat
      /\ DOMAIN stream = 1 .. Len(stream)
  BY DEF TypeOK
<1>2. ASSUME NEW k \in 1 .. Len(stream)
      PROVE  stream[k] \in Placed
  BY ElementOfSeq DEF TypeOK
<1>3. ASSUME NEW j \in 1 .. Len(queue)
      PROVE  queue[j] \in Frame
  BY ElementOfSeq DEF TypeOK
<1>4. ASSUME NEW k \in 1 .. Len(stream)
      PROVE  /\ stream[k].id \in Nat /\ stream[k].at \in Nat
             /\ stream[k].size \in Nat /\ stream[k].size <= FrameSize
             /\ End(k) \in Nat
  BY <1>2 DEF End, Placed
<1>5. ASSUME NEW j \in 1 .. Len(queue)
      PROVE  /\ queue[j].id \in Nat
             /\ queue[j].size \in Nat /\ queue[j].size <= FrameSize
  BY <1>3 DEF Frame
<1> QED BY <1>1, <1>4, <1>5

\* A frame that has arrived in full lies before the bytes in the buffer, so
\* that it has been handed over.
LEMMA QuietLeavesNothing == IInv => NothingLeftBehind
<1> SUFFICES ASSUME IInv, running = "none", NEW k \in DOMAIN stream,
                    End(k) <= arrived, ~(k <= Len(received))
             PROVE  FALSE
  BY DEF NothingLeftBehind, End
<1>0. TypeOK
  BY DEF IInv
<1> PICK next \in Nat : next = Len(received) + 1
  BY <1>0, Numbers
<1>1. next \in 1 .. Len(stream) /\ k \in 1 .. Len(stream) /\ next <= k
  BY <1>0, Numbers
<1>2. End(next) <= End(k)
  <2>1. CASE next = k
    <3>1. stream[k].at \in Nat /\ stream[k].size \in Nat
      BY <1>0, <1>1, Numbers
    <3> QED BY <2>1, <3>1 DEF End
  <2>2. CASE next < k
    <3>1. End(next) <= stream[k].at
      BY <2>2, <1>1 DEF IInv, Layout
    <3>2. End(next) \in Nat /\ stream[k].at \in Nat /\ stream[k].size \in Nat
      BY <1>0, <1>1, Numbers
    <3> QED BY <3>1, <3>2 DEF End
  <2> QED BY <1>1, <2>1, <2>2
<1>3. arrived - m_bytes = stream[next].at
  BY <1>1 DEF IInv, InStep, Start, Quiet
<1>4. m_bytes < Header + stream[next].size
  <2>1. Len(received) < Len(stream)
    BY <1>0, <1>1, Numbers
  <2> QED BY <2>1 DEF IInv, Quiet
<1>5. /\ stream[next].at \in Nat /\ stream[next].size \in Nat
      /\ arrived \in Nat /\ m_bytes \in Nat /\ Header \in Nat
  BY <1>0, <1>1, Numbers
<1>6. arrived < End(next)
  BY <1>3, <1>4, <1>5 DEF End
<1>7. End(next) \in Nat /\ End(k) \in Nat
  BY <1>0, <1>1, Numbers
<1> HIDE DEF End
<1> QED BY <1>2, <1>5, <1>6, <1>7

\* The first state.
LEMMA InitIInv == Init => IInv
<1> SUFFICES ASSUME Init PROVE IInv
  OBVIOUS
<1>1. TypeOK
  BY DEF Init, TypeOK, Slots, Frame
<1>2. Layout /\ Numbered /\ Positions /\ Contents /\ InStep /\ Quiet
  BY DEF Init, Layout, Numbered, Positions, Contents, InStep, Quiet, Start, End
<1>3. WholeFramesInOrder
  BY DEF Init, WholeFramesInOrder
<1> QED BY <1>1, <1>2, <1>3 DEF IInv

\* A request: new frames join the queue, with the next numbers.
LEMMA ServerHandleReadStep == IInv /\ ServerHandleRead => IInv'
<1> SUFFICES ASSUME IInv, ServerHandleRead PROVE IInv'
  OBVIOUS
<1>1. PICK n \in PacketNums : /\ queue' = queue \o SegmentFrames(n)
                              /\ made' = made + n
  BY DEF ServerHandleRead
<1>2. n \in Nat \ {0} /\ SegmentFrames(n) \in Seq(Frame) /\ Len(SegmentFrames(n)) = n
  BY DEF SegmentFrames, Frame, IInv, TypeOK
<1>3. /\ queue' \in Seq(Frame)
      /\ Len(queue') = Len(queue) + n
      /\ \A i \in 1 .. Len(queue') :
           queue'[i] = IF i <= Len(queue) THEN queue[i] ELSE SegmentFrames(n)[i - Len(queue)]
  BY <1>1, <1>2, ConcatProperties DEF IInv, TypeOK
<1>4. TypeOK'
  BY <1>1, <1>2, <1>3 DEF IInv, TypeOK, ServerHandleRead, clientVars
<1>5. Numbered'
  <2>1. made' = Len(stream') + Len(queue')
    BY <1>1, <1>2, <1>3 DEF IInv, TypeOK, Numbered, ServerHandleRead
  <2>2. ASSUME NEW j \in 1 .. Len(queue') PROVE queue'[j].id = Len(stream') + j
    <3>1. CASE j <= Len(queue)
      BY <3>1, <1>3 DEF IInv, TypeOK, Numbered, ServerHandleRead
    <3>2. CASE j > Len(queue)
      <4>1. j - Len(queue) \in 1 .. n
        BY <3>2, <1>2, <1>3 DEF IInv, TypeOK
      <4>2. queue'[j].id = made + (j - Len(queue))
        <5>1. queue'[j] = SegmentFrames(n)[j - Len(queue)]
          BY <3>2, <1>3
        <5> QED BY <4>1, <5>1 DEF SegmentFrames
      <4> QED BY <4>2, <4>1 DEF IInv, TypeOK, Numbered, ServerHandleRead
    <3> QED BY <3>1, <3>2, <1>3 DEF IInv, TypeOK
  <2> QED BY <2>1, <2>2 DEF IInv, Numbered, ServerHandleRead
<1>6. /\ UNCHANGED <<stream, written, acked, arrived, read, m_buffer, m_bytes, received>>
      /\ running = "none" /\ running' # "ReadSocket"
  BY DEF ServerHandleRead, clientVars
<1>7. Layout' /\ Positions' /\ Contents' /\ InStep'
  BY <1>6 DEF IInv, Layout, Positions, Contents, InStep, Start, End
<1>8. WholeFramesInOrder'
  BY <1>6 DEF IInv, WholeFramesInOrder, Bytes
<1>9. Quiet'
  BY <1>6 DEF IInv, Quiet
<1> QED BY <1>4, <1>5, <1>7, <1>8, <1>9 DEF IInv

\* One round of DataSend: the first frame of the queue goes to the end of the
\* stream, or nothing changes.
LEMMA DataSendStep == IInv /\ DataSend => IInv'
<1> SUFFICES ASSUME IInv, DataSend PROVE IInv'
  OBVIOUS
<1>0. TypeOK
  BY DEF IInv
<1>1. UNCHANGED <<asked, made, acked, arrived, read, m_buffer, m_bytes, received>>
  BY DEF DataSend, clientVars
<1>2. CASE queue # <<>> /\ Fits(Head(queue))
  <2> DEFINE f == Head(queue)
  <2> PICK L \in Nat : L = Len(stream)
    BY <1>0, Numbers
  <2>1. /\ stream' = Append(stream, [id |-> f.id, at |-> written, size |-> f.size])
        /\ written' = written + Header + f.size
        /\ queue' = Tail(queue)
        /\ running = "DataSend" /\ running' = "DataSend"
    BY <1>2 DEF DataSend
  <2>2. f \in Frame /\ f = queue[1] /\ Len(queue) >= 1
    BY <1>0, <1>2, HeadTailProperties, ElementOfSeq DEF TypeOK
  <2>3. f.id = L + 1 /\ f.size \in Nat /\ f.size \in {0, FrameSize}
    BY <1>0, <2>2, Numbers DEF IInv, Numbered, Frame
  <2>4. [id |-> f.id, at |-> written, size |-> f.size] \in Placed
    BY <1>0, <2>3, Numbers DEF Placed
  <2>5. /\ stream' \in Seq(Placed) /\ Len(stream') = L + 1
        /\ \A k \in 1 .. L : stream'[k] = stream[k]
        /\ stream'[L + 1] = [id |-> f.id, at |-> written, size |-> f.size]
    BY <1>0, <2>1, <2>4, AppendProperties DEF TypeOK
  <2>6. /\ queue' \in Seq(Frame) /\ Len(queue') = Len(queue) - 1
        /\ \A j \in 1 .. Len(queue') : queue'[j] = queue[j + 1]
    BY <1>0, <1>2, <2>1, HeadTailProperties DEF TypeOK
  <2>7. TypeOK'
    BY <1>0, <1>1, <2>1, <2>3, <2>5, <2>6 DEF TypeOK
  <2>8. /\ stream'[L + 1].id = L + 1 /\ stream'[L + 1].at = written
        /\ stream'[L + 1].size = f.size
    BY <2>3, <2>5
  <2>9. written \in Nat /\ written' \in Nat /\ written <= written' /\ L \in Nat
    <3>1. written \in Nat
      BY <1>0, Numbers
    <3> QED BY <3>1, <2>1, <2>3
  <2> HIDE DEF f
  <2>10. Numbered'
    <3>1. made' = Len(stream') + Len(queue')
      BY <1>0, <1>1, <2>5, <2>6, Numbers DEF IInv, Numbered
    <3>2. ASSUME NEW k \in 1 .. Len(stream') PROVE stream'[k].id = k
      <4>1. CASE k = L + 1
        BY <4>1, <2>8
      <4>2. CASE k \in 1 .. L
        BY <4>2, <2>5 DEF IInv, Numbered
      <4> QED BY <4>1, <4>2, <2>5, <2>9
    <3>3. ASSUME NEW j \in 1 .. Len(queue') PROVE queue'[j].id = Len(stream') + j
      <4>1. j + 1 \in 1 .. Len(queue)
        BY <1>0, <2>6, Numbers
      <4>2. queue[j + 1].id = L + (j + 1)
        BY <4>1 DEF IInv, Numbered
      <4> QED BY <4>2, <2>5, <2>6, <2>9
    <3> QED BY <3>1, <3>2, <3>3 DEF Numbered
  <2>11. \A k \in 1 .. L + 1 : Start(k)' = Start(k)
    BY <1>0, <2>5, <2>8, Numbers DEF Start
  <2>12. Start(L + 2)' = End(L + 1)' /\ End(L + 1)' = written'
    <3>1. stream'[L + 1].at + Header + stream'[L + 1].size = written'
      BY <2>1, <2>8
    <3>2. ~(L + 2 <= Len(stream'))
      BY <2>5, <2>9
    <3> QED BY <3>1, <3>2 DEF Start, End
  <2>13. \A k \in 1 .. L : End(k)' = End(k) /\ End(k) <= written
    BY <2>5 DEF End, IInv, Layout
  <2>14. Layout'
    <3>1. Start(1)' = 0
      BY <2>11, <2>9 DEF IInv, Layout
    <3>2. ASSUME NEW k \in 1 .. L + 1
          PROVE  Start(k + 1)' = End(k)' /\ End(k)' <= written'
      <4>1. CASE k = L + 1
        BY <4>1, <2>12, <2>9
      <4>2. CASE k \in 1 .. L
        <5>1. Start(k + 1)' = Start(k + 1)
          BY <4>2, <2>11, <2>9
        <5>2. Start(k + 1) = End(k)
          BY <4>2 DEF IInv, Layout
        <5>3. End(k) \in Nat
          BY <1>0, <4>2, Numbers
        <5>4. End(k)' = End(k) /\ End(k) <= written
          BY <4>2, <2>13
        <5>5. Start(k + 1)' = End(k)'
          BY <5>1, <5>2, <5>4, Zenon
        <5>6. End(k)' <= written'
          BY <5>3, <5>4, <2>9
        <5> QED BY <5>5, <5>6
      <4> QED BY <4>1, <4>2, <2>9
    <3>3. ASSUME NEW j \in 1 .. L + 1, NEW k \in 1 .. L + 1, j < k
          PROVE  End(j)' <= stream'[k].at
      <4>1. j \in 1 .. L
        BY <3>3, <2>9
      <4>2. CASE k = L + 1
        BY <4>1, <4>2, <2>8, <2>13
      <4>3. CASE k \in 1 .. L
        BY <4>1, <4>3, <3>3, <2>5, <2>13 DEF IInv, Layout
      <4> QED BY <4>2, <4>3, <2>9
    <3> QED BY <3>1, <3>2, <3>3, <2>5 DEF Layout
  <2>15. Positions' /\ Contents'
    BY <1>0, <1>1, <2>9, Numbers DEF IInv, Positions, Contents
  <2>16. Len(received) + 1 \in 1 .. L + 1
    BY <1>0, Numbers DEF IInv, WholeFramesInOrder
  <2>17. InStep'
    BY <1>1, <2>11, <2>16 DEF IInv, InStep
  <2>18. WholeFramesInOrder'
    <3>1. Len(received') <= Len(stream')
      BY <1>0, <1>1, <2>5, <2>16, Numbers
    <3>2. ASSUME NEW k \in 1 .. Len(received')
          PROVE  received'[k] = Bytes(k)' /\ stream'[k].id = k
      <4>1. k \in 1 .. Len(received) /\ k \in 1 .. L
        BY <1>1, <2>9, <2>16, <1>0, Numbers
      <4> QED BY <4>1, <1>1, <2>5 DEF IInv, WholeFramesInOrder, Bytes
    <3> QED BY <3>1, <3>2 DEF WholeFramesInOrder
  <2>19. Quiet'
    <3>1. read' = arrived'
      BY <1>1, <2>1 DEF IInv, Quiet
    <3>2. CASE Len(received) < L
      BY <3>2, <1>0, <1>1, <2>1, <2>5, <3>1, Numbers DEF IInv, Quiet
    <3>3. CASE Len(received) = L
      <4>1. read - m_bytes = written
        BY <3>3, <1>0, Numbers DEF IInv, InStep, Start
      <4>2. m_bytes = 0
        BY <4>1, <1>0, Numbers DEF IInv, Positions
      <4> QED BY <4>2, <3>1, <3>3, <1>1, <2>3, <2>8 DEF Quiet
    <3> QED BY <3>2, <3>3, <2>16, <2>9, <1>0, Numbers
  <2> QED BY <2>7, <2>10, <2>14, <2>15, <2>17, <2>18, <2>19 DEF IInv
<1>3. CASE ~(queue # <<>> /\ Fits(Head(queue)))
  <2>1. /\ UNCHANGED <<queue, stream, written>>
        /\ running = "DataSend" /\ running' = "none"
    BY <1>3 DEF DataSend
  <2>2. TypeOK'
    BY <1>0, <1>1, <2>1 DEF TypeOK
  <2>3. Layout' /\ Numbered' /\ Positions' /\ Contents' /\ InStep'
    BY <1>1, <2>1 DEF IInv, Layout, Numbered, Positions, Contents, InStep, Start, End
  <2>4. WholeFramesInOrder' /\ Quiet'
    BY <1>1, <2>1 DEF IInv, WholeFramesInOrder, Quiet, Bytes
  <2> QED BY <2>2, <2>3, <2>4 DEF IInv
<1> QED BY <1>2, <1>3

\* An acknowledgement makes room at the server and touches nothing else.
LEMMA AcknowledgeStep == IInv /\ Acknowledge => IInv'
<1> SUFFICES ASSUME IInv, Acknowledge PROVE IInv'
  OBVIOUS
<1>0. TypeOK
  BY DEF IInv
<1>1. /\ UNCHANGED <<asked, made, queue, stream, written, arrived, read, m_buffer,
                     m_bytes, received>>
      /\ running = "none" /\ running' = "DataSend"
  BY DEF Acknowledge, serverVars, clientVars
<1>2. acked' \in Nat /\ acked' <= arrived
  BY <1>0, Numbers DEF Acknowledge
<1>3. TypeOK'
  BY <1>0, <1>1, <1>2 DEF TypeOK
<1>4. Layout' /\ Numbered' /\ Positions' /\ Contents' /\ InStep'
  BY <1>1, <1>2 DEF IInv, Layout, Numbered, Positions, Contents, InStep, Start, End
<1>5. WholeFramesInOrder' /\ Quiet'
  BY <1>1 DEF IInv, WholeFramesInOrder, Quiet, Bytes
<1> QED BY <1>3, <1>4, <1>5 DEF IInv

\* Bytes arrive, and ReadSocket is called.
LEMMA ClientHandleReadStep == IInv /\ ClientHandleRead => IInv'
<1> SUFFICES ASSUME IInv, ClientHandleRead PROVE IInv'
  OBVIOUS
<1>0. TypeOK
  BY DEF IInv
<1>1. /\ UNCHANGED <<asked, made, queue, stream, written, acked, read, m_buffer,
                     m_bytes, received>>
      /\ running' = "ReadSocket"
  BY DEF ClientHandleRead, serverVars, clientVars
<1>2. arrived' \in Nat /\ arrived <= arrived' /\ arrived' <= written
  BY <1>0, Numbers DEF ClientHandleRead
<1>3. TypeOK'
  BY <1>0, <1>1, <1>2 DEF TypeOK
<1>4. Layout' /\ Numbered' /\ Contents' /\ InStep'
  BY <1>1 DEF IInv, Layout, Numbered, Contents, InStep, Start, End
<1>5. Positions'
  BY <1>0, <1>1, <1>2, Numbers DEF IInv, Positions
<1>6. WholeFramesInOrder' /\ Quiet'
  BY <1>1 DEF IInv, WholeFramesInOrder, Quiet, Bytes
<1> QED BY <1>3, <1>4, <1>5, <1>6 DEF IInv

\* What RecvFrom adds to the buffer: the part in use then still holds the bytes
\* that follow the last frame handed over, and it does not run over its end.
LEMMA Filled ==
  ASSUME IInv
  PROVE  /\ Taken \in Nat /\ read + Taken <= arrived /\ m_bytes + Taken <= MaxMessage
         /\ Taken = arrived - read \/ m_bytes + Taken = MaxMessage
         /\ BufferFilled \in [Slots -> Nat]
         /\ \A i \in 0 .. (m_bytes + Taken) - 1 :
              i \in Slots /\ BufferFilled[i] = (read - m_bytes) + i
<1>0. TypeOK
  BY DEF IInv
<1>1. /\ m_bytes \in Nat /\ m_bytes <= MaxMessage /\ MaxMessage \in Nat
      /\ arrived \in Nat /\ read \in Nat /\ read <= arrived
  BY <1>0, Numbers DEF IInv, Positions
<1>2. /\ Taken \in Nat /\ read + Taken <= arrived /\ m_bytes + Taken <= MaxMessage
      /\ Taken = arrived - read \/ m_bytes + Taken = MaxMessage
  BY <1>1 DEF Taken, Least
<1>3. m_buffer \in [Slots -> Nat]
  BY <1>0 DEF TypeOK
<1> HIDE DEF Taken
<1>4. BufferFilled \in [Slots -> Nat]
  <2> SUFFICES ASSUME NEW i \in Slots
               PROVE  (IF m_bytes <= i /\ i < m_bytes + Taken
                       THEN read + (i - m_bytes) ELSE m_buffer[i]) \in Nat
    BY DEF BufferFilled
  <2> QED BY <1>1, <1>2, <1>3 DEF Slots
<1>5. ASSUME NEW i \in 0 .. (m_bytes + Taken) - 1
      PROVE  i \in Slots /\ BufferFilled[i] = (read - m_bytes) + i
  <2>1. i \in Slots
    BY <1>1, <1>2 DEF Slots
  <2>2. CASE i < m_bytes
    BY <2>1, <2>2, <1>1, <1>2 DEF BufferFilled, IInv, Contents
  <2>3. CASE m_bytes <= i
    BY <2>1, <2>3, <1>1, <1>2 DEF BufferFilled
  <2> QED BY <2>1, <2>2, <2>3, <1>1, <1>2
<1> QED BY <1>2, <1>4, <1>5

\* With a whole header in the buffer, there is a frame to which it belongs, and
\* RemoveHeader finds that frame's size.
LEMMA HeaderRead ==
  ASSUME IInv, m_bytes + Taken >= Header
  PROVE  /\ Len(received) + 1 \in 1 .. Len(stream)
         /\ read - m_bytes = stream[Len(received) + 1].at
         /\ MpegSizes(BufferFilled) = {stream[Len(received) + 1].size}
<1>0. TypeOK
  BY DEF IInv
<1> PICK next \in Nat : next = Len(received) + 1
  BY <1>0, Numbers
<1>1. next \in 1 .. Len(stream) + 1
  BY <1>0, Numbers DEF IInv, WholeFramesInOrder
<1>2. next # Len(stream) + 1
  <2> SUFFICES ASSUME next = Len(stream) + 1 PROVE FALSE
    OBVIOUS
  <2>1. read - m_bytes = written
    BY <1>0, Numbers DEF IInv, InStep, Start
  <2>2. read + Taken <= written /\ Taken \in Nat
    BY <1>0, Filled, Numbers DEF IInv, Positions
  <2>3. read \in Nat /\ m_bytes \in Nat /\ written \in Nat
    BY <1>0, Numbers
  <2> QED BY <2>1, <2>2, <2>3
<1>3. next \in 1 .. Len(stream) /\ DOMAIN stream = 1 .. Len(stream)
  BY <1>0, <1>1, <1>2, Numbers
<1>4. read - m_bytes = stream[next].at
  BY <1>3 DEF IInv, InStep, Start
<1>5. ASSUME NEW i \in 0 .. Header - 1
      PROVE  BufferFilled[i] = stream[next].at + i
  <2>1. i \in 0 .. (m_bytes + Taken) - 1
    BY SMTT(30), <1>0, Filled, Numbers
  <2> QED BY <2>1, <1>4, Filled
<1>6. ASSUME NEW k \in 1 .. Len(stream),
             \A i \in 0 .. Header - 1 : BufferFilled[i] = stream[k].at + i
      PROVE  k = next
  <2>1. /\ stream[k].at \in Nat /\ stream[next].at \in Nat
        /\ stream[k].size \in Nat /\ stream[next].size \in Nat
    BY <1>0, <1>3, Numbers
  <2>2. stream[k].at = stream[next].at
    <3>1. 0 \in 0 .. Header - 1
      OBVIOUS
    <3>2. BufferFilled[0] = stream[k].at + 0 /\ BufferFilled[0] = stream[next].at + 0
      BY <3>1, <1>5, <1>6
    <3> QED BY <3>2, <2>1
  <2>3. /\ k < next => stream[k].at + Header + stream[k].size <= stream[next].at
        /\ next < k => stream[next].at + Header + stream[next].size <= stream[k].at
    BY <1>3 DEF IInv, Layout, End
  <2> QED BY <2>1, <2>2, <2>3, <1>3
<1>7. {k \in DOMAIN stream :
         \A i \in 0 .. Header - 1 : BufferFilled[i] = stream[k].at + i} = {next}
  BY <1>3, <1>5, <1>6
<1>8. MpegSizes(BufferFilled) = {stream[next].size}
  <2> DEFINE there == {k \in DOMAIN stream :
                         \A i \in 0 .. Header - 1 : BufferFilled[i] = stream[k].at + i}
  <2>1. MpegSizes(BufferFilled) =
          IF there = {} THEN 0 .. MaxMessage ELSE {stream[k].size : k \in there}
    BY DEF MpegSizes
  <2>2. there = {next}
    BY <1>7
  <2> HIDE DEF there
  <2>3. MpegSizes(BufferFilled) = {stream[k].size : k \in {next}}
    BY <2>1, <2>2
  <2> QED BY <2>3
<1> QED BY <1>3, <1>4, <1>8

\* One call of ReadSocket: it waits for the rest of a message, or hands over
\* the next frame and brings what follows to the front.
LEMMA ReadSocketStep ==
  ASSUME IInv, ReadSocket
  PROVE  IInv' /\ \/ received' = received
                  \/ Len(received) < Len(stream) /\ Len(received') = Len(received) + 1
<1>0. TypeOK
  BY DEF IInv
<1> PICK bytes \in Nat : bytes = m_bytes + Taken
  BY <1>0, Filled, Numbers
<1> PICK next \in Nat : next = Len(received) + 1
  BY <1>0, Numbers
<1> PICK b : b = BufferFilled
  OBVIOUS
<1>1. /\ UNCHANGED <<asked, made, queue, stream, written, acked, arrived>>
      /\ read' = read + Taken /\ running = "ReadSocket"
  BY DEF ReadSocket, serverVars
<1>2. /\ b \in [Slots -> Nat] /\ bytes <= MaxMessage
      /\ \A i \in 0 .. bytes - 1 : i \in Slots /\ b[i] = (read - m_bytes) + i
      /\ Taken \in Nat /\ read + Taken <= arrived
      /\ Taken = arrived - read \/ bytes = MaxMessage
  BY Filled
<1>3. read' \in Nat /\ m_bytes \in Nat /\ read \in Nat /\ read' - bytes = read - m_bytes
  <2>1. m_bytes \in Nat /\ read \in Nat
    BY <1>0, Numbers
  <2> QED BY <2>1, <1>1, <1>2
<1>4. bytes >= Header =>
        /\ next \in 1 .. Len(stream) /\ read - m_bytes = stream[next].at
        /\ MpegSizes(b) = {stream[next].size}
  BY HeaderRead
<1>5. Layout' /\ Numbered'
  BY <1>1 DEF IInv, Layout, Numbered, Start, End
<1>6. Positions'
  BY <1>1, <1>2 DEF IInv, Positions
<1>7. \/ /\ Wait(b, bytes)
         /\ bytes < Header \/ bytes < Header + stream[next].size
      \/ /\ bytes >= Header
         /\ bytes >= Header + stream[next].size
         /\ HandOver(b, bytes, Header + stream[next].size)
  <2>1. CASE bytes < Header
    BY <2>1 DEF ReadSocket
  <2>2. CASE ~(bytes < Header)
    <3>1. next \in 1 .. Len(stream) /\ MpegSizes(b) = {stream[next].size}
      BY <2>2, <1>4
    <3>2. stream[next].size \in Nat
      BY <1>0, <3>1, Numbers
    <3>3. IF bytes < Header + stream[next].size
          THEN Wait(b, bytes)
          ELSE HandOver(b, bytes, Header + stream[next].size)
      BY <2>2, <3>1 DEF ReadSocket
    <3> QED BY <2>2, <3>2, <3>3
  <2> QED BY <2>1, <2>2
<1>8. CASE /\ Wait(b, bytes)
           /\ bytes < Header \/ bytes < Header + stream[next].size
  <2>1. /\ m_buffer' = b /\ m_bytes' = bytes /\ running' = "none"
        /\ received' = received
    BY <1>8 DEF Wait
  <2>2. TypeOK'
    BY <1>0, <1>1, <1>2, <1>3, <2>1 DEF TypeOK
  <2>3. Contents' /\ InStep'
    BY <1>1, <1>2, <1>3, <2>1 DEF IInv, Contents, InStep, Start
  <2>4. WholeFramesInOrder'
    BY SMTT(30), <1>1, <2>1 DEF IInv, WholeFramesInOrder, Bytes
  <2>5. Len(received) < Len(stream) => bytes < Header + stream[next].size
    <3> SUFFICES ASSUME Len(received) < Len(stream)
                 PROVE  bytes < Header + stream[next].size
      OBVIOUS
    <3>1. next \in 1 .. Len(stream)
      BY <1>0, Numbers
    <3>2. stream[next].size \in Nat
      BY <1>0, <3>1, Numbers
    <3> QED BY <3>2, <1>8
  <2>6. bytes # MaxMessage
    <3> SUFFICES ASSUME bytes = MaxMessage PROVE FALSE
      OBVIOUS
    <3>1. bytes >= Header
      OBVIOUS
    <3>2. stream[next].size \in Nat /\ stream[next].size <= FrameSize
      BY <1>0, <1>4, <3>1, Numbers
    <3> QED BY <3>1, <3>2, <1>8
  <2>7. Quiet'
    <3>1. read' = arrived'
      <4>1. arrived \in Nat
        BY <1>0, Numbers
      <4> QED BY <4>1, <1>1, <1>2, <1>3, <2>6
    <3> QED BY <3>1, <2>1, <2>5, <1>1 DEF Quiet
  <2> QED BY <2>1, <2>2, <2>3, <2>4, <2>7, <1>5, <1>6 DEF IInv
<1>9. CASE /\ bytes >= Header
           /\ bytes >= Header + stream[next].size
           /\ HandOver(b, bytes, Header + stream[next].size)
  <2>1. /\ next \in 1 .. Len(stream) /\ read - m_bytes = stream[next].at
        /\ stream[next] \in Placed
    BY <1>0, <1>4, <1>9, ElementOfSeq DEF TypeOK
  <2> PICK n \in Nat \ {0} : n = Header + stream[next].size
    BY <2>1 DEF Placed
  <2>2. bytes >= n /\ n \in {Header, Header + FrameSize}
    BY <1>9, <2>1 DEF Placed
  <2>3. /\ received' = Append(received, [i \in 0 .. n - 1 |-> b[i]])
        /\ m_buffer' = [i \in Slots |-> IF i < bytes - n THEN b[i + n] ELSE b[i]]
        /\ m_bytes' = bytes - n
        /\ running' = "ReadSocket"
    BY <1>1, <1>9 DEF HandOver
  <2>4. ASSUME NEW i \in 0 .. n - 1
        PROVE  b[i] = stream[next].at + i /\ b[i] \in Nat
    <3>1. i \in 0 .. bytes - 1
      BY <2>2
    <3> QED BY <3>1, <1>2, <2>1
  <2>5. [i \in 0 .. n - 1 |-> b[i]] = Bytes(next)
    <3>1. Bytes(next) = [i \in 0 .. n - 1 |-> stream[next].at + i]
      <4>1. stream[next].size \in Nat /\ stream[next].at \in Nat
        BY <2>1 DEF Placed
      <4> QED BY <4>1 DEF Bytes
    <3> QED BY <3>1, <2>4
  <2>6. [i \in 0 .. n - 1 |-> b[i]] \in Message
    <3>1. [i \in 0 .. n - 1 |-> b[i]] \in [0 .. n - 1 -> Nat]
      BY <2>4
    <3> QED BY SMTT(30), <3>1, <2>2 DEF Message
  <2>7. /\ received' \in Seq(Message) /\ Len(received') = next
        /\ \A k \in 1 .. Len(received) : received'[k] = received[k]
        /\ received'[next] = Bytes(next)
    BY <1>0, <2>3, <2>5, <2>6, AppendProperties DEF TypeOK
  <2>8. ASSUME NEW i \in Slots
        PROVE  /\ m_buffer'[i] \in Nat
               /\ i < bytes - n => m_buffer'[i] = (read' - (bytes - n)) + i
    <3>1. CASE i < bytes - n
      <4>1. i + n \in 0 .. bytes - 1
        BY <3>1 DEF Slots
      <4>2. m_buffer'[i] = b[i + n]
        BY <3>1, <2>3
      <4>3. b[i + n] = (read - m_bytes) + (i + n) /\ b[i + n] \in Nat
        BY <4>1, <1>2
      <4>4. i \in Nat
        BY DEF Slots
      <4>5. (read - m_bytes) + (i + n) = (read' - (bytes - n)) + i
        BY <4>4, <1>3
      <4> QED BY <4>2, <4>3, <4>5
    <3>2. CASE ~(i < bytes - n)
      BY <3>2, <1>2, <2>3
    <3> QED BY <3>1, <3>2
  <2>9. m_bytes' \in 0 .. MaxMessage
    BY <1>2, <2>2, <2>3
  <2>10. m_buffer' \in [Slots -> Nat]
    <3>1. m_buffer' = [i \in Slots |-> m_buffer'[i]]
      BY <2>3
    <3> QED BY <3>1, <2>8
  <2>11. TypeOK'
    BY <1>0, <1>1, <1>3, <2>3, <2>7, <2>9, <2>10 DEF TypeOK
  <2>12. Contents'
    <3>1. ASSUME NEW i \in 0 .. m_bytes' - 1
          PROVE  m_buffer'[i] = (read' - m_bytes') + i
      <4>1. i \in Slots /\ i < bytes - n
        BY <2>3, <2>9 DEF Slots
      <4> QED BY <4>1, <2>3, <2>8
    <3> QED BY <3>1 DEF Contents
  <2>13. InStep'
    <3>1. Start(next + 1) = End(next)
      BY <2>1 DEF IInv, Layout
    <3>2. Start(next + 1)' = Start(next + 1)
      BY <1>1 DEF Start
    <3>3. read' - m_bytes' = End(next)
      <4>1. stream[next].at \in Nat /\ stream[next].size \in Nat
        BY <2>1 DEF Placed
      <4>2. read' - (bytes - n) = (read - m_bytes) + n
        BY <1>3
      <4>3. (read - m_bytes) + n = stream[next].at + Header + stream[next].size
        BY <4>1, <2>1
      <4> QED BY <4>2, <4>3, <2>3 DEF End
    <3> QED BY <3>1, <3>2, <3>3, <2>7 DEF InStep
  <2>14. WholeFramesInOrder'
    <3>1. stream[next].id = next
      BY <2>1 DEF IInv, Numbered
    <3>2. ASSUME NEW k \in 1 .. next
          PROVE  received'[k] = Bytes(k)' /\ stream'[k].id = k
      <4>1. CASE k = next
        BY <4>1, <3>1, <2>7, <1>1 DEF Bytes
      <4>2. CASE k # next
        <5>1. k \in 1 .. Len(received)
          BY <4>2
        <5>2. received[k] = Bytes(k) /\ stream[k].id = k
          BY <5>1 DEF IInv, WholeFramesInOrder
        <5>3. Bytes(k)' = Bytes(k) /\ stream'[k].id = stream[k].id
          BY <1>1 DEF Bytes
        <5>4. received'[k] = received[k]
          BY <5>1, <2>7
        <5> QED BY <5>2, <5>3, <5>4
      <4> QED BY <4>1, <4>2
    <3> QED BY <3>2, <2>1, <2>7, <1>1 DEF WholeFramesInOrder
  <2>15. Quiet'
    BY <2>3 DEF Quiet
  <2>16. Len(received) < Len(stream) /\ Len(received') = Len(received) + 1
    BY <1>0, <2>1, <2>7, Numbers
  <2> QED BY <2>11, <2>12, <2>13, <2>14, <2>15, <2>16, <1>5, <1>6 DEF IInv
<1> QED BY <1>7, <1>8, <1>9

\* A step that changes nothing.
LEMMA StutterStep == IInv /\ UNCHANGED vars => IInv'
<1> SUFFICES ASSUME IInv, UNCHANGED vars PROVE IInv'
  OBVIOUS
<1>1. UNCHANGED <<asked, made, queue, stream, written, acked, arrived, read,
                  m_buffer, m_bytes, received, running>>
  BY DEF vars
<1>2. TypeOK' /\ Layout' /\ Numbered' /\ Positions'
  BY <1>1 DEF IInv, TypeOK, Layout, Numbered, Positions, Start, End
<1>3. Contents' /\ InStep' /\ Quiet'
  BY <1>1 DEF IInv, Contents, InStep, Quiet, Start
<1>4. WholeFramesInOrder'
  BY <1>1 DEF IInv, WholeFramesInOrder, Bytes
<1> QED BY <1>2, <1>3, <1>4 DEF IInv

\* The inductive invariant holds in every reachable state.
THEOREM Invariance == Spec => []IInv
<1>1. Init => IInv
  BY InitIInv
<1>2. IInv /\ [Next]_vars => IInv'
  BY ServerHandleReadStep, DataSendStep, AcknowledgeStep, ClientHandleReadStep,
     ReadSocketStep, StutterStep DEF Next
<1> QED BY <1>1, <1>2, PTL DEF Spec

\* m_bytes never exceeds the buffer nor runs below zero, and every message is
\* as long as a frame, with one request or many and however the stream is cut.
THEOREM TypeCorrect == Spec => []TypeOK
<1>1. IInv => TypeOK
  BY DEF IInv
<1> QED BY <1>1, Invariance, PTL

\* HttpParser hands over the server's frames, whole, in order and once.
THEOREM WholeFrames == Spec => []WholeFramesInOrder
<1>1. IInv => WholeFramesInOrder
  BY DEF IInv
<1> QED BY <1>1, Invariance, PTL

\* ReadSocket never returns while a complete frame is there.
THEOREM NothingLeft == Spec => []NothingLeftBehind
<1> QED BY QuietLeavesNothing, Invariance, PTL

\* The connection implements the channel of frames.
THEOREM Implements == Spec => ChannelSpec
<1>1. Init => Channel!Init
  BY DEF Init, Channel!Init
<1>2. IInv /\ [Next]_vars => [Channel!Next]_(Channel!vars)
  <2> SUFFICES ASSUME IInv, [Next]_vars PROVE [Channel!Next]_(Channel!vars)
    OBVIOUS
  <2>0. TypeOK
    BY DEF IInv
  <2>1. CASE ServerHandleRead
    <3>1. Channel!Make
      BY <2>1 DEF ServerHandleRead, clientVars, Channel!Make
    <3> QED BY <3>1 DEF Channel!Next
  <2>2. CASE DataSend
    <3>1. UNCHANGED <<asked, made, received>>
      BY <2>2 DEF DataSend, clientVars
    <3>2. CASE UNCHANGED stream
      BY <3>1, <3>2 DEF Channel!vars
    <3>3. CASE queue # <<>> /\ Len(stream') = Len(stream) + 1
      <4>1. Len(stream) < made
        BY <2>0, <3>3, EmptySeq, Numbers DEF IInv, Numbered, TypeOK
      <4>2. Channel!Send
        BY <3>1, <3>3, <4>1 DEF Channel!Send
      <4> QED BY <4>2 DEF Channel!Next
    <3>4. UNCHANGED stream \/ (queue # <<>> /\ Len(stream') = Len(stream) + 1)
      BY <2>0, <2>2 DEF DataSend, TypeOK
    <3> QED BY <3>2, <3>3, <3>4
  <2>3. CASE Acknowledge \/ ClientHandleRead \/ UNCHANGED vars
    BY <2>3 DEF Acknowledge, ClientHandleRead, vars, serverVars, clientVars, Channel!vars
  <2>4. CASE ReadSocket
    <3>1. UNCHANGED <<asked, made, stream>>
      BY <2>4 DEF ReadSocket, serverVars
    <3>2. CASE received' = received
      BY <3>1, <3>2 DEF Channel!vars
    <3>3. CASE Len(received) < Len(stream) /\ Len(received') = Len(received) + 1
      BY <3>1, <3>3 DEF Channel!Next, Channel!HandOver
    <3> QED BY <2>4, <3>2, <3>3, ReadSocketStep
  <2> QED BY <2>1, <2>2, <2>3, <2>4 DEF Next
<1> QED BY <1>1, <1>2, Invariance, PTL DEF Spec, ChannelSpec, Channel!ChannelSpec
=============================================================================
