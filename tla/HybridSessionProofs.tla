------------------------- MODULE HybridSessionProofs -------------------------
(***************************************************************************)
(* Proofs about HybridSession: the TCP half keeps to what UdpStream has    *)
(* assumed of its environment, so that what is proved of each half alone   *)
(* holds of the two together.                                              *)
(*                                                                         *)
(* A step of the TCP half must raise T_start before it plays, which is     *)
(* StartFirst of DashStreamProofs and follows from its invariant.  Base    *)
(* and Enhancement are the halves with their proofs.  The provers do not   *)
(* know that Base!F and Dash!F are the same definition, so this is shown   *)
(* first, from the bottom up.                                              *)
(***************************************************************************)
EXTENDS HybridSession, TLAPS

Base == INSTANCE DashStreamProofs
          WITH PacketNums <- TcpPacketNums, client <- tcp, uplink <- requests

Enhancement == INSTANCE UdpStreamProofs
                 WITH PacketNums <- UdpPacketNums, Lossy <- FALSE,
                      client <- udp, T_start <- tcp.T_start

-----------------------------------------------------------------------------
(* The TCP half.                                                           *)

\* Both instances read the same options.
LEMMA SameOptions ==
  /\ Dash!Cells = Base!Cells
  /\ Dash!init_buffer = Base!init_buffer
  /\ Dash!req_num = Base!req_num
BY DEF Dash!Cells, Base!Cells, Dash!init_buffer, Base!init_buffer, Dash!req_num, Base!req_num

\* The calls that PlayFrame and MessageReceived are made of are the same.
LEMMA SameTcpParts ==
  ASSUME NEW c, NEW n
  PROVE  /\ Dash!RequestSegment(c, n) = Base!RequestSegment(c, n)
         /\ Dash!StopApplication(c) = Base!StopApplication(c)
         /\ Dash!PopFrames(c) = Base!PopFrames(c)
         /\ Dash!PlayerPulls(n) = Base!PlayerPulls(n)
         /\ Dash!CountFrame(c) = Base!CountFrame(c)
<1>1. Dash!RequestSegment(c, n) = Base!RequestSegment(c, n)
  BY SameOptions DEF Dash!RequestSegment, Base!RequestSegment
<1>2. Dash!StopApplication(c) = Base!StopApplication(c)
  BY DEF Dash!StopApplication, Base!StopApplication
<1>3. Dash!PopFrames(c) = Base!PopFrames(c)
  BY DEF Dash!PopFrames, Base!PopFrames
<1>4. Dash!PlayerPulls(n) = Base!PlayerPulls(n)
  BY SameOptions DEF Dash!PlayerPulls, Base!PlayerPulls
<1>5. Dash!CountFrame(c) = Base!CountFrame(c)
  BY DEF Dash!CountFrame, Base!CountFrame
<1> QED
  BY <1>1, <1>2, <1>3, <1>4, <1>5

\* MpegPlayer::PlayFrame is the same in both.
LEMMA SameTcpPlayFrame ==
  ASSUME NEW c, NEW n
  PROVE  Dash!PlayFrame(c, n) = Base!PlayFrame(c, n)
<1>1. \A d, k : Dash!RequestSegment(d, k) = Base!RequestSegment(d, k)
  BY SameTcpParts
<1>2. \A d : Dash!StopApplication(d) = Base!StopApplication(d)
  BY SameTcpParts
<1>3. \A d : Dash!PopFrames(d) = Base!PopFrames(d)
  BY SameTcpParts
<1>4. \A v : Dash!PlayerPulls(v) = Base!PlayerPulls(v)
  BY SameTcpParts
<1> QED
  BY <1>1, <1>2, <1>3, <1>4, Zenon DEF Dash!PlayFrame, Base!PlayFrame

\* So are MpegPlayer::ReceiveFrame and DashClient::MessageReceived.
LEMMA SameTcpReceive ==
  ASSUME NEW c, NEW n, NEW m
  PROVE  Dash!MessageReceived(c, n, m) = Base!MessageReceived(c, n, m)
<1>1. \A d : Dash!ReceiveFrame(d, n) = Base!ReceiveFrame(d, n)
  BY SameTcpPlayFrame, SameOptions, Zenon DEF Dash!ReceiveFrame, Base!ReceiveFrame
<1> QED
  BY <1>1, SameTcpParts, SameOptions, Zenon DEF Dash!MessageReceived, Base!MessageReceived

\* So are the end of a handler and the server's DataSend.
LEMMA SameTcpEnds ==
  /\ Dash!Running = Base!Running
  /\ \A c : Dash!ClientDone(c) = Base!ClientDone(c)
  /\ \A q : Dash!DataSend(q) = Base!DataSend(q)
<1>1. Dash!Running = Base!Running
  BY DEF Dash!Running, Base!Running
<1>2. \A c : Dash!ClientDone(c) = Base!ClientDone(c)
  BY DEF Dash!ClientDone, Base!ClientDone
<1>3. \A q : Dash!DataSend(q) = Base!DataSend(q)
  BY DEF Dash!DataSend, Base!DataSend
<1> QED
  BY <1>1, <1>2, <1>3

\* The TCP half starts as Base does.
LEMMA SameTcpInit == Dash!Init => Base!Init
BY DEF Dash!Init, Base!Init, Dash!InitClient, Base!InitClient, Dash!Cells, Base!Cells

\* A step of the TCP half is a step of Base.
LEMMA SameTcpNext == Dash!Next => Base!Next
<1>1. Dash!ConnectionSucceeded => Base!ConnectionSucceeded
  BY SameTcpParts, SameTcpEnds DEF Dash!ConnectionSucceeded, Base!ConnectionSucceeded
<1>2. Dash!ClientHandleRead => Base!ClientHandleRead
  BY SameTcpReceive, SameTcpEnds DEF Dash!ClientHandleRead, Base!ClientHandleRead
<1>3. Dash!PlayFrameEvent => Base!PlayFrameEvent
  BY SameTcpPlayFrame, SameTcpEnds DEF Dash!PlayFrameEvent, Base!PlayFrameEvent
<1>4. Dash!ServerHandleRead => Base!ServerHandleRead
  BY SameTcpEnds DEF Dash!ServerHandleRead, Base!ServerHandleRead
<1>5. Dash!ServerDataSend => Base!ServerDataSend
  BY SameTcpEnds DEF Dash!ServerDataSend, Base!ServerDataSend
<1> QED
  BY <1>1, <1>2, <1>3, <1>4, <1>5 DEF Dash!Next, Base!Next

\* What is proved of the TCP half alone, for the constants of the session.
LEMMA BaseFacts ==
  /\ Base!Init => Base!IInv
  /\ Base!IInv /\ [Base!Next]_(Base!vars) => Base!IInv' /\ Base!StartFirst
  /\ Base!IInv => Base!TypeOK
<1> USE SegCountAssumption, TcpPacketNumsAssumption, OptionsAssumption, TxBufferAssumption
<1>1. Base!Init => Base!IInv
  BY Base!InitIInv
<1>2. Base!IInv /\ [Base!Next]_(Base!vars) => Base!IInv' /\ Base!StartFirst
  BY Base!NextIInv
<1>3. Base!IInv => Base!TypeOK
  BY Base!IInvImplies
<1> QED
  BY <1>1, <1>2, <1>3

\* Base's invariant holds at the start of the session.
LEMMA BaseInit == Init => Base!IInv
BY SameTcpInit, BaseFacts DEF Init

\* Every step of the session is one of the TCP half or none of it.
LEMMA BaseStep == [Next]_vars => [Base!Next]_(Base!vars)
<1> SUFFICES ASSUME [Next]_vars PROVE [Base!Next]_(Base!vars)
  OBVIOUS
<1>1. CASE TcpStep(Dash!Next)
  BY <1>1, SameTcpNext DEF TcpStep
<1>2. CASE UNCHANGED tcpVars
  BY <1>2 DEF tcpVars, Base!vars
<1>3. CASE UNCHANGED vars
  BY <1>3 DEF vars, Base!vars
<1> QED
  BY <1>1, <1>2, <1>3 DEF Next, Poll, Work, UdpStep

-----------------------------------------------------------------------------
(* The UDP half.                                                           *)

\* Sending a request, and what counts as a fault, are the same.
LEMMA SameUdpSends ==
  /\ Udp!Segments = Enhancement!Segments
  /\ \A c, f : Udp!Fault(c, f) = Enhancement!Fault(c, f)
  /\ \A c, n : Udp!Send(c, n) = Enhancement!Send(c, n)
<1>1. Udp!Segments = Enhancement!Segments
  BY DEF Udp!Segments, Enhancement!Segments
<1>2. \A c, f : Udp!Fault(c, f) = Enhancement!Fault(c, f)
  BY DEF Udp!Fault, Enhancement!Fault
<1>3. \A c, n : Udp!Send(c, n) = Enhancement!Send(c, n)
  BY <1>1, <1>2 DEF Udp!Send, Enhancement!Send
<1> QED
  BY <1>1, <1>2, <1>3

\* UdpPlayer::PlayFrame is the same in both.
LEMMA SameUdpPlayFrame == \A c, n : Udp!PlayFrame(c, n) = Enhancement!PlayFrame(c, n)
<1>1. \A c : Udp!PopSegment(c) = Enhancement!PopSegment(c)
  BY DEF Udp!PopSegment, Enhancement!PopSegment
<1>2. \A c : Udp!StopApplication(c) = Enhancement!StopApplication(c)
  BY DEF Udp!StopApplication, Enhancement!StopApplication
<1> QED
  BY <1>1, <1>2, SameUdpSends DEF Udp!PlayFrame, Enhancement!PlayFrame

\* DudpClient::CallPlayer is the same in both.
LEMMA SameUdpCallPlayer == \A c, n : Udp!CallPlayer(c, n) = Enhancement!CallPlayer(c, n)
<1>1. \A c : Udp!WakeupUdp(c) = Enhancement!WakeupUdp(c)
  BY DEF Udp!WakeupUdp, Enhancement!WakeupUdp
<1> QED
  BY <1>1, SameUdpPlayFrame DEF Udp!CallPlayer, Enhancement!CallPlayer

\* DudpClient::PacketReceive is the same in both.
LEMMA SameUdpReceive ==
  \A c, s, k, n : Udp!PacketReceive(c, s, k, n) = Enhancement!PacketReceive(c, s, k, n)
<1>1. \A c : Udp!WakeupUdp(c) = Enhancement!WakeupUdp(c)
  BY DEF Udp!WakeupUdp, Enhancement!WakeupUdp
<1>2. \A c : Udp!ReceiveFrame(c) = Enhancement!ReceiveFrame(c)
  BY DEF Udp!ReceiveFrame, Enhancement!ReceiveFrame
<1>3. \A c, n : Udp!CheckPlay(c, n) = Enhancement!CheckPlay(c, n)
  BY SameUdpPlayFrame DEF Udp!CheckPlay, Enhancement!CheckPlay
<1>4. Udp!Segments = Enhancement!Segments
  BY SameUdpSends
<1>5. \A c, f : Udp!Fault(c, f) = Enhancement!Fault(c, f)
  BY SameUdpSends
<1> TAKE c, s, k, n
<1> DEFINE counted == [c EXCEPT !.p_num = @ + 1]
           taken == IF ~c.T_play /\ k = s THEN Udp!ReceiveFrame(counted)
                                         ELSE Udp!PlayFrame(counted, n)
           same  == IF ~c.T_play /\ k = s THEN Enhancement!ReceiveFrame(counted)
                                         ELSE Enhancement!PlayFrame(counted, n)
           then(t) == LET last == t.m_segmentId - 1
                      IN  Udp!WakeupUdp(IF last \notin Udp!Segments THEN Udp!Fault(t, "index")
                            ELSE IF t.p_num < t.udp_series[last] THEN Udp!CheckPlay(t, n)
                            ELSE Udp!CallPlayer(t, n))
           also(t) == LET last == t.m_segmentId - 1
                      IN  Enhancement!WakeupUdp(
                            IF last \notin Enhancement!Segments THEN Enhancement!Fault(t, "index")
                            ELSE IF t.p_num < t.udp_series[last] THEN Enhancement!CheckPlay(t, n)
                            ELSE Enhancement!CallPlayer(t, n))
<1>6. taken = same
  BY <1>2, SameUdpPlayFrame
<1>7. \A t : then(t) = also(t)
  BY <1>1, <1>3, <1>4, <1>5, SameUdpCallPlayer
<1>8. /\ Udp!PacketReceive(c, s, k, n) = then(taken)
      /\ Enhancement!PacketReceive(c, s, k, n) = also(same)
  BY DEF Udp!PacketReceive, Enhancement!PacketReceive
<1> HIDE DEF taken, same, then, also
<1> QED
  BY <1>6, <1>7, <1>8

\* So are the ends of the handlers and the server's ScheduleTransmit.
LEMMA SameUdpEnds ==
  /\ Udp!Running = Enhancement!Running
  /\ Udp!TimePasses = Enhancement!TimePasses
  /\ \A c : Udp!ClientDone(c) = Enhancement!ClientDone(c)
  /\ \A c : Udp!CheckStart(c) = Enhancement!CheckStart(c)
  /\ \A s, t : Udp!ScheduleTransmit(s, t) = Enhancement!ScheduleTransmit(s, t)
<1>1. Udp!Running = Enhancement!Running
  BY DEF Udp!Running, Enhancement!Running
<1>2. Udp!TimePasses = Enhancement!TimePasses
  BY <1>1 DEF Udp!TimePasses, Enhancement!TimePasses
<1>3. \A c : Udp!ClientDone(c) = Enhancement!ClientDone(c)
  BY DEF Udp!ClientDone, Enhancement!ClientDone
<1>4. \A c : Udp!CheckStart(c) = Enhancement!CheckStart(c)
  BY DEF Udp!CheckStart, Enhancement!CheckStart
<1>5. \A s, t : Udp!ScheduleTransmit(s, t) = Enhancement!ScheduleTransmit(s, t)
  BY DEF Udp!ScheduleTransmit, Enhancement!ScheduleTransmit
<1> QED
  BY <1>1, <1>2, <1>3, <1>4, <1>5

\* The UDP half starts as Enhancement does.
LEMMA SameUdpInit == Udp!Init => Enhancement!Init
BY DEF Udp!Init, Enhancement!Init, Udp!InitClient, Enhancement!InitClient,
       Udp!InitServer, Enhancement!InitServer, Udp!Segments, Enhancement!Segments

\* Each event of the UDP half is an event of Enhancement.
LEMMA SameUdpActions ==
  /\ Udp!StartApplicationEvent => Enhancement!StartApplicationEvent
  /\ Udp!CheckStartEvent => Enhancement!CheckStartEvent
  /\ Udp!SendEvent => Enhancement!SendEvent
  /\ Udp!ClientHandleRead => Enhancement!ClientHandleRead
  /\ Udp!CallPlayerEvent => Enhancement!CallPlayerEvent
  /\ Udp!ServerHandleRead => Enhancement!ServerHandleRead
  /\ Udp!ScheduleTransmitEvent => Enhancement!ScheduleTransmitEvent
  /\ Udp!ServerSendEvent => Enhancement!ServerSendEvent
  /\ Udp!SetTStart => Enhancement!SetTStart
  /\ Udp!MpegPlay => Enhancement!MpegPlay
  /\ Udp!LoseRequest => Enhancement!LoseRequest
  /\ Udp!LoseData => Enhancement!LoseData
<1>1. Udp!StartApplicationEvent => Enhancement!StartApplicationEvent
  BY SameUdpEnds DEF Udp!StartApplicationEvent, Enhancement!StartApplicationEvent
<1>2. Udp!CheckStartEvent => Enhancement!CheckStartEvent
  BY SameUdpEnds DEF Udp!CheckStartEvent, Enhancement!CheckStartEvent
<1>3. Udp!SendEvent => Enhancement!SendEvent
  BY SameUdpEnds, SameUdpSends DEF Udp!SendEvent, Enhancement!SendEvent
<1>4. Udp!ClientHandleRead => Enhancement!ClientHandleRead
  BY SameUdpEnds, SameUdpReceive DEF Udp!ClientHandleRead, Enhancement!ClientHandleRead
<1>5. Udp!CallPlayerEvent => Enhancement!CallPlayerEvent
  BY SameUdpEnds, SameUdpCallPlayer DEF Udp!CallPlayerEvent, Enhancement!CallPlayerEvent
<1>6. Udp!ServerHandleRead => Enhancement!ServerHandleRead
  BY SameUdpEnds DEF Udp!ServerHandleRead, Enhancement!ServerHandleRead
<1>7. Udp!ScheduleTransmitEvent => Enhancement!ScheduleTransmitEvent
  BY SameUdpEnds DEF Udp!ScheduleTransmitEvent, Enhancement!ScheduleTransmitEvent
<1>8. Udp!ServerSendEvent => Enhancement!ServerSendEvent
  BY SameUdpEnds DEF Udp!ServerSendEvent, Enhancement!ServerSendEvent
<1>9. Udp!SetTStart => Enhancement!SetTStart
  BY SameUdpEnds DEF Udp!SetTStart, Enhancement!SetTStart
<1>10. Udp!MpegPlay => Enhancement!MpegPlay
  BY SameUdpEnds DEF Udp!MpegPlay, Enhancement!MpegPlay
<1>11. Udp!LoseRequest => Enhancement!LoseRequest
  BY DEF Udp!LoseRequest, Enhancement!LoseRequest
<1>12. Udp!LoseData => Enhancement!LoseData
  BY SameUdpEnds DEF Udp!LoseData, Enhancement!LoseData
<1> QED
  BY <1>1, <1>2, <1>3, <1>4, <1>5, <1>6, <1>7, <1>8, <1>9, <1>10, <1>11, <1>12

\* A step of the UDP half, or none, is one of Enhancement.
LEMMA SameUdpNext == [Udp!Next]_(Udp!vars) => [Enhancement!Next]_(Enhancement!vars)
<1>1. Udp!Next => Enhancement!Next
  BY SameUdpActions DEF Udp!Next, Enhancement!Next
<1>2. UNCHANGED Udp!vars => UNCHANGED Enhancement!vars
  BY DEF Udp!vars, Enhancement!vars
<1> QED
  BY <1>1, <1>2

\* What is proved of the UDP half alone, for the constants of the session.
LEMMA EnhancementFacts ==
  /\ Enhancement!Init => Enhancement!IInv
  /\ Enhancement!IInv /\ [Enhancement!Next]_(Enhancement!vars) => Enhancement!IInv'
  /\ Enhancement!IInv => /\ Enhancement!TypeOK /\ Enhancement!NoFault
                         /\ Enhancement!RequestsPacePlayback
                         /\ Enhancement!LossesAccounted /\ Enhancement!StampsInOrder
<1>1. SegCount \in Nat \ {0} /\ FALSE \in BOOLEAN
  BY SegCountAssumption
<1> USE <1>1, UdpPacketNumsAssumption
<1>2. Enhancement!Init => Enhancement!IInv
  BY Enhancement!InitIInv
<1>3. Enhancement!IInv /\ [Enhancement!Next]_(Enhancement!vars) => Enhancement!IInv'
  BY Enhancement!NextIInv
<1>4. Enhancement!IInv => /\ Enhancement!TypeOK /\ Enhancement!NoFault
                         /\ Enhancement!RequestsPacePlayback
                         /\ Enhancement!LossesAccounted /\ Enhancement!StampsInOrder
  BY Enhancement!IInvImplies
<1> QED
  BY <1>2, <1>3, <1>4

-----------------------------------------------------------------------------
(* The two halves.                                                         *)

\* A handler of the TCP half is MpegPlay or SetTStart to the UDP half, or
\* nothing that it sees.
LEMMA TcpStepUdp ==
  Base!IInv /\ TcpStep(Dash!Next) => [Udp!Next]_(Udp!vars)
<1> SUFFICES ASSUME Base!IInv, TcpStep(Dash!Next) PROVE [Udp!Next]_(Udp!vars)
  OBVIOUS
<1>1. /\ Udp!TimePasses /\ UNCHANGED <<uplink, data>>
      /\ MpegPlays(tcp'.play_num # tcp.play_num)
  BY DEF TcpStep
<1>2. Base!IInv' /\ Base!StartFirst
  BY SameTcpNext, BaseFacts DEF TcpStep
<1>3. tcp.T_start \in BOOLEAN /\ tcp'.T_start \in BOOLEAN
  <2>1. (Base!IInv => Base!TypeOK)'
    BY BaseFacts, PTL
  <2>2. Base!TypeOK /\ Base!TypeOK'
    BY <2>1, <1>2, BaseFacts
  <2> QED
    BY <2>2 DEF Base!TypeOK, Base!Client
<1>4. /\ tcp.T_start => tcp'.T_start
      /\ tcp'.play_num # tcp.play_num => tcp.T_start
  BY <1>2 DEF Base!StartFirst
<1>5. CASE tcp'.play_num # tcp.play_num
  <2>1. tcp.T_start /\ tcp'.T_start = tcp.T_start
    BY <1>3, <1>4, <1>5
  <2>2. udp' = [udp EXCEPT !.T_play = TRUE] /\ server' = [server EXCEPT !.count_packet = 0]
    BY <1>1, <1>5 DEF MpegPlays
  <2>3. Udp!MpegPlay
    BY <1>1, <2>1, <2>2 DEF Udp!MpegPlay
  <2> QED
    BY <2>3 DEF Udp!Next
<1>6. CASE tcp'.play_num = tcp.play_num
  <2>1. UNCHANGED <<udp, server, uplink, data>>
    BY <1>1, <1>6 DEF MpegPlays
  <2>2. CASE tcp'.T_start = tcp.T_start
    BY <2>1, <2>2 DEF Udp!vars
  <2>3. CASE tcp'.T_start # tcp.T_start
    <3>1. ~tcp.T_start /\ tcp'.T_start = TRUE
      BY <1>3, <1>4, <2>3
    <3>2. Udp!SetTStart
      BY <1>1, <2>1, <3>1 DEF Udp!SetTStart
    <3> QED
      BY <3>2 DEF Udp!Next
  <2> QED
    BY <2>2, <2>3
<1> QED
  BY <1>5, <1>6

\* Every step of the session is a step of the UDP half's specification, or none.
LEMMA StepUdp == Base!IInv /\ [Next]_vars => [Udp!Next]_(Udp!vars)
<1> SUFFICES ASSUME Base!IInv, [Next]_vars PROVE [Udp!Next]_(Udp!vars)
  OBVIOUS
<1>1. CASE TcpStep(Dash!Next)
  BY <1>1, TcpStepUdp
<1>2. CASE Next /\ ~TcpStep(Dash!Next)
  BY <1>2 DEF Next, Poll, Work, UdpStep, Udp!Next
<1>3. CASE UNCHANGED vars
  BY <1>3 DEF vars, Udp!vars
<1> QED
  BY <1>1, <1>2, <1>3

\* The session starts as the UDP half does.
LEMMA InitUdp == Init => Udp!Init
<1>1. Dash!Init => tcp.T_start = FALSE
  BY DEF Dash!Init, Dash!InitClient
<1> QED
  BY <1>1 DEF Init, Udp!Init

\* The invariant of the TCP half holds next to the UDP half.
THEOREM BaseInvariance == Spec => []Base!IInv
<1>1. Base!IInv /\ [Next]_vars => Base!IInv'
  BY BaseStep, BaseFacts
<1> QED
  BY <1>1, BaseInit, PTL DEF Spec

\* The session implements the UDP stream with its environment: MpegPlayer
\* raises T_start once and before its first play, in an event of its own, and
\* writes T_play and count_packet only when it plays.
THEOREM Implements == Spec => UdpSpec
<1>1. Base!IInv /\ [Next]_vars => [Udp!Next]_(Udp!vars)
  BY StepUdp
<1> QED
  BY <1>1, InitUdp, BaseInvariance, PTL DEF Spec, UdpSpec, Udp!Spec
-----------------------------------------------------------------------------
(* What holds of the session because it holds of its halves, and more.     *)

\* The invariants of both halves, and the one that relates them.
SessionInv == Base!IInv /\ Enhancement!IInv /\ EnhancementStartsAfter

\* What the session's steps rely on of its invariant, types and ranges.
LEMMA SessionFacts ==
  ASSUME SessionInv
  PROVE  /\ tcp.play_num \in Nat
         /\ udp \in Enhancement!Client
         /\ udp.T_play \in BOOLEAN /\ udp.v_num \in Nat
         /\ \A i \in 1 .. Len(data) : data[i] <= server.now_seg
         /\ server.now_seg <= udp.v_num /\ server.now_seg \in Int
         /\ \A i \in 1 .. Len(data) : data[i] \in Nat
         /\ data # <<>> => Head(data) = data[1] /\ 1 \in 1 .. Len(data)
<1>1. Base!TypeOK /\ Enhancement!TypeOK /\ Enhancement!StampsInOrder
  BY BaseFacts, EnhancementFacts DEF SessionInv
<1>2. tcp.play_num \in Nat
  BY <1>1, SegCountAssumption DEF Base!TypeOK, Base!Client
<1>3. udp \in Enhancement!Client
  BY <1>1 DEF Enhancement!TypeOK
<1>4. udp.T_play \in BOOLEAN /\ udp.v_num \in Nat
  BY <1>3, SegCountAssumption DEF Enhancement!Client
<1>5. server.now_seg \in Int
  <2>1. server.now_seg \in Enhancement!Segments \cup {-1}
    BY <1>1 DEF Enhancement!TypeOK, Enhancement!Server
  <2> QED
    BY <2>1, SegCountAssumption DEF Enhancement!Segments
<1>6. /\ \A i \in 1 .. Len(data) : data[i] \in Nat
      /\ data # <<>> => Head(data) = data[1] /\ 1 \in 1 .. Len(data)
  <2>1. data \in Seq(Enhancement!Segments) /\ \A x \in Enhancement!Segments : x \in Nat
    BY <1>1, SegCountAssumption DEF Enhancement!TypeOK, Enhancement!Segments
  <2>2. \A i \in 1 .. Len(data) : data[i] \in Enhancement!Segments
    BY <2>1
  <2>3. data # <<>> => Head(data) = data[1] /\ 1 \in 1 .. Len(data)
    BY <2>1
  <2> QED
    BY <2>1, <2>2, <2>3
<1> QED
  BY <1>1, <1>2, <1>3, <1>4, <1>5, <1>6 DEF Enhancement!StampsInOrder

\* A packet that arrives before the first play is of segment 0, as the server
\* is, so that it is queued, and nothing plays it.
LEMMA EarlyPacket ==
  ASSUME NEW c \in Enhancement!Client, NEW n, ~c.T_play
  PROVE  LET d == Enhancement!PacketReceive(c, 0, 0, n)
         IN  d.T_play = FALSE /\ d.v_num = c.v_num
<1> DEFINE t == [c EXCEPT !.p_num = @ + 1, !.m_queue = @ + 1, !.received = @ + 1]
           d == Enhancement!PacketReceive(c, 0, 0, n)
<1>1. /\ t \in Enhancement!Client
      /\ t.T_play = FALSE /\ t.v_num = c.v_num
  <2>1. /\ c.p_num + 1 \in Nat /\ c.m_queue + 1 \in Nat /\ c.received + 1 \in Nat
        /\ c.T_play \in BOOLEAN
    BY DEF Enhancement!Client
  <2>2. \A i, j, k \in Nat : LET r == [c EXCEPT !.p_num = i, !.m_queue = j, !.received = k]
        IN  r \in Enhancement!Client /\ r.T_play = c.T_play /\ r.v_num = c.v_num
    BY DEF Enhancement!Client
  <2>3. t = [c EXCEPT !.p_num = c.p_num + 1, !.m_queue = c.m_queue + 1,
                      !.received = c.received + 1]
    BY DEF Enhancement!Client
  <2> HIDE DEF t
  <2> QED
    BY <2>1, <2>2, <2>3
<1>2. d = LET last == t.m_segmentId - 1
          IN  Enhancement!WakeupUdp(
                IF last \notin Enhancement!Segments THEN Enhancement!Fault(t, "index")
                ELSE IF t.p_num < t.udp_series[last] THEN Enhancement!CheckPlay(t, n)
                ELSE Enhancement!CallPlayer(t, n))
  BY DEF Enhancement!PacketReceive, Enhancement!ReceiveFrame, Enhancement!Client
<1> HIDE DEF t, d
<1>3. Enhancement!CheckPlay(t, n) = t
  BY <1>1 DEF Enhancement!CheckPlay
<1>4. Enhancement!CallPlayer(t, n) = [t EXCEPT !.calls = @ + 1]
  BY <1>1 DEF Enhancement!CallPlayer
<1>5. \E e : /\ e \in {Enhancement!Fault(t, "index"), t, [t EXCEPT !.calls = @ + 1]}
             /\ d = Enhancement!WakeupUdp(e)
  BY <1>2, <1>3, <1>4
<1>6. PICK e \in {Enhancement!Fault(t, "index"), t, [t EXCEPT !.calls = @ + 1]} :
           d = Enhancement!WakeupUdp(e)
  BY <1>5
<1>7. e.T_play = FALSE /\ e.v_num = c.v_num
  BY <1>1, <1>6 DEF Enhancement!Fault, Enhancement!Client
<1>8. d.T_play = e.T_play /\ d.v_num = e.v_num
  BY <1>6 DEF Enhancement!WakeupUdp
<1> QED
  BY <1>7, <1>8 DEF d

\* No handler plays a segment of the UDP half, or lets it, before the first play.
LEMMA EarlyStep ==
  ASSUME SessionInv, [Next]_vars, tcp.play_num = 0, tcp'.play_num = 0
  PROVE  udp'.T_play = FALSE /\ udp'.v_num = 0
<1>1. udp.T_play = FALSE /\ udp.v_num = 0
  BY SessionFacts DEF SessionInv, EnhancementStartsAfter
<1>2. udp \in Enhancement!Client
  BY SessionFacts
<1>3. CASE Enhancement!StartApplicationEvent \/ Enhancement!CheckStartEvent
  BY <1>1, <1>2, <1>3 DEF Enhancement!StartApplicationEvent, Enhancement!CheckStartEvent,
     Enhancement!ClientDone, Enhancement!CheckStart, Enhancement!Client
<1>4. CASE Enhancement!SendEvent
  BY <1>1, <1>2, <1>4 DEF Enhancement!SendEvent, Enhancement!ClientDone, Enhancement!Send,
     Enhancement!Fault, Enhancement!Client
<1>5. CASE Enhancement!ClientHandleRead
  <2>1. Head(data) = 0 /\ server.now_seg = 0
    <3>1. data # <<>>
      BY <1>5 DEF Enhancement!ClientHandleRead
    <3>2. data[1] \in Nat /\ Head(data) = data[1] /\ 1 \in 1 .. Len(data)
      BY <3>1, SessionFacts
    <3>3. data[1] <= server.now_seg /\ server.now_seg <= 0 /\ server.now_seg \in Int
      BY <3>2, <1>1, SessionFacts
    <3> QED
      BY <3>2, <3>3
  <2>2. PICK n : Enhancement!ClientDone(Enhancement!PacketReceive(udp, 0, 0, n))
    BY <1>5, <2>1 DEF Enhancement!ClientHandleRead
  <2> DEFINE d == Enhancement!PacketReceive(udp, 0, 0, n)
  <2>3. d.T_play = FALSE /\ d.v_num = 0
    BY <1>1, <1>2, EarlyPacket
  <2>4. udp' = [d EXCEPT !.outbox = <<>>]
    BY <2>2 DEF Enhancement!ClientDone
  <2> HIDE DEF d
  <2> QED
    BY <2>3, <2>4
<1>6. CASE Enhancement!CallPlayerEvent
  BY <1>1, <1>2, <1>6 DEF Enhancement!CallPlayerEvent, Enhancement!CallPlayer,
     Enhancement!ClientDone, Enhancement!Client
<1>7. CASE Enhancement!ServerHandleRead
  BY <1>1, <1>2, <1>7 DEF Enhancement!ServerHandleRead, Enhancement!Client
<1>8. CASE UNCHANGED udp
  BY <1>1, <1>8
<1>9. CASE TcpStep(Dash!Next)
  BY <1>8, <1>9 DEF TcpStep, MpegPlays
<1>10. CASE \/ Udp!ScheduleTransmitEvent \/ Udp!ServerSendEvent \/ Udp!LoseData
  BY <1>8, <1>10 DEF Udp!ScheduleTransmitEvent, Udp!ServerSendEvent, Udp!LoseData
<1>11. CASE UNCHANGED vars
  BY <1>8, <1>11 DEF vars
<1> QED
  BY <1>3, <1>4, <1>5, <1>6, <1>7, <1>9, <1>10, <1>11, SameUdpActions
     DEF Next, Poll, Work, UdpStep

\* The invariant of the session is kept by every step.
LEMMA SessionStep == SessionInv /\ [Next]_vars => SessionInv'
<1> SUFFICES ASSUME SessionInv, [Next]_vars PROVE SessionInv'
  OBVIOUS
<1>1. Base!IInv' /\ Base!StartFirst
  BY BaseStep, BaseFacts DEF SessionInv
<1>2. Enhancement!IInv'
  BY StepUdp, SameUdpNext, EnhancementFacts DEF SessionInv
<1>3. EnhancementStartsAfter'
  <2>1. tcp.play_num \in Nat
    BY SessionFacts
  <2>2. CASE tcp'.play_num > 0
    BY <2>2 DEF EnhancementStartsAfter
  <2>3. CASE ~(tcp'.play_num > 0)
    <3>1. tcp'.play_num = tcp.play_num
      BY <2>3, <1>1 DEF Base!StartFirst
    <3>2. tcp.play_num = 0 /\ tcp'.play_num = 0
      BY <3>1, <2>1, <2>3
    <3>3. udp'.T_play = FALSE /\ udp'.v_num = 0
      BY <3>2, EarlyStep
    <3> QED
      BY <3>3 DEF EnhancementStartsAfter
  <2> QED
    BY <2>2, <2>3
<1> QED
  BY <1>1, <1>2, <1>3 DEF SessionInv

\* The session's invariant holds at the start.
LEMMA SessionInit == Init => SessionInv
<1> SUFFICES ASSUME Init PROVE SessionInv
  OBVIOUS
<1>1. Base!IInv
  BY BaseInit
<1>2. Enhancement!IInv
  BY InitUdp, SameUdpInit, EnhancementFacts
<1>3. EnhancementStartsAfter
  BY DEF Init, Udp!InitClient, EnhancementStartsAfter
<1> QED
  BY <1>1, <1>2, <1>3 DEF SessionInv

\* The invariants of the two halves hold together.
THEOREM Invariance == Spec => []SessionInv
BY SessionInit, SessionStep, PTL DEF Spec

\* Nothing of the enhancement layer is played before the base layer plays.
THEOREM StartsAfter == Spec => []EnhancementStartsAfter
<1>1. SessionInv => EnhancementStartsAfter
  BY DEF SessionInv
<1> QED
  BY <1>1, Invariance, PTL

\* What else is proved of the UDP half alone, for the constants of the session,
\* in which no packet is lost.
LEMMA EnhancementMoreFacts ==
  /\ Enhancement!Init => /\ Enhancement!NoPacketUnasked /\ Enhancement!MarkInv
                         /\ Enhancement!Pull!Init
  /\ Enhancement!IInv /\ [Enhancement!Next]_(Enhancement!vars)
       => /\ Enhancement!NoPacketUnasked => Enhancement!NoPacketUnasked'
          /\ Enhancement!MarkInv => Enhancement!MarkInv'
          /\ [Enhancement!Pull!Next]_(Enhancement!Pull!pullVars)
  /\ Enhancement!MarkInv => Enhancement!LossMarkHasRequest
<1>1. SegCount \in Nat \ {0} /\ FALSE \in BOOLEAN /\ ~FALSE
  BY SegCountAssumption
<1> USE <1>1, UdpPacketNumsAssumption
<1>2. Enhancement!Init => Enhancement!NoPacketUnasked
  BY Enhancement!InitUnasked
<1>3. /\ Enhancement!Init => Enhancement!MarkInv
      /\ Enhancement!MarkInv => Enhancement!LossMarkHasRequest
  BY Enhancement!InitMark
<1>4. Enhancement!Init => Enhancement!Pull!Init
  BY Enhancement!InitPull
<1>5. Enhancement!IInv /\ Enhancement!NoPacketUnasked /\ [Enhancement!Next]_(Enhancement!vars)
        => Enhancement!NoPacketUnasked'
  BY Enhancement!NextUnasked
<1>6. Enhancement!IInv /\ Enhancement!MarkInv /\ [Enhancement!Next]_(Enhancement!vars)
        => Enhancement!MarkInv'
  BY Enhancement!NextMark
<1>7. Enhancement!IInv /\ [Enhancement!Next]_(Enhancement!vars)
        => [Enhancement!Pull!Next]_(Enhancement!Pull!pullVars)
  BY Enhancement!StepPull
<1> QED
  BY <1>2, <1>3, <1>4, <1>5, <1>6, <1>7

\* A session starts and goes on as the UDP half does.
LEMMA SessionEnhancement ==
  /\ Init => Enhancement!Init
  /\ SessionInv /\ [Next]_vars
       => Enhancement!IInv /\ [Enhancement!Next]_(Enhancement!vars)
<1>1. Init => Enhancement!Init
  BY InitUdp, SameUdpInit
<1>2. SessionInv /\ [Next]_vars
        => Enhancement!IInv /\ [Enhancement!Next]_(Enhancement!vars)
  BY StepUdp, SameUdpNext DEF SessionInv
<1> QED
  BY <1>1, <1>2

\* What is proved of the UDP half in its most general environment holds in the
\* session: no fault, requests and plays in step, every loss accounted for,
\* requests and packets in order, no packet that was not asked for, and a loss
\* mark only as long as the request that clears it is on its way.
THEOREM EnhancementInherits ==
  Spec => [](/\ Enhancement!NoFault /\ Enhancement!RequestsPacePlayback
             /\ Enhancement!LossesAccounted /\ Enhancement!StampsInOrder
             /\ Enhancement!NoPacketUnasked /\ Enhancement!LossMarkHasRequest)
<1>1. SessionInv => /\ Enhancement!NoFault /\ Enhancement!RequestsPacePlayback
                    /\ Enhancement!LossesAccounted /\ Enhancement!StampsInOrder
  BY EnhancementFacts DEF SessionInv
<1>2. Init => Enhancement!NoPacketUnasked /\ Enhancement!MarkInv
  BY SessionEnhancement, EnhancementMoreFacts
<1>3. SessionInv /\ Enhancement!NoPacketUnasked /\ Enhancement!MarkInv /\ [Next]_vars
        => Enhancement!NoPacketUnasked' /\ Enhancement!MarkInv'
  BY SessionEnhancement, EnhancementMoreFacts
<1>4. Enhancement!MarkInv => Enhancement!LossMarkHasRequest
  BY EnhancementMoreFacts
<1> QED
  BY <1>1, <1>2, <1>3, <1>4, Invariance, PTL DEF Spec

\* The enhancement layer of the session is pulled: a chain of two refinements,
\* from the session to the UDP half and from there to SegmentPull.
THEOREM EnhancementPulls == Spec => Enhancement!Pull!Spec
<1>1. Init => Enhancement!Pull!Init
  BY SessionEnhancement, EnhancementMoreFacts
<1>2. SessionInv /\ [Next]_vars => [Enhancement!Pull!Next]_(Enhancement!Pull!pullVars)
  BY SessionEnhancement, EnhancementMoreFacts
<1> QED
  BY <1>1, <1>2, Invariance, PTL DEF Spec, Enhancement!Pull!Spec

\* What is proved of the orders of the TCP half alone, for the constants of the
\* session.
LEMMA BaseOrderFacts ==
  /\ Base!Init => Base!InOrder /\ Base!Waits
  /\ Base!IInv /\ Base!InOrder /\ Base!Waits /\ [Base!Next]_(Base!vars)
       => Base!InOrder' /\ Base!Waits'
  /\ Base!IInv => /\ Base!RequestsEarned /\ Base!NoOverrunIfFit /\ Base!OneTimer
                  /\ Base!PlayerKnowsClient /\ Base!QueueHoldsSegments
  /\ Base!IInv /\ Base!InOrder => Base!FramesMatchCount
  /\ Base!IInv /\ Base!InOrder /\ Base!Waits => Base!SomethingComes
<1> USE SegCountAssumption, TcpPacketNumsAssumption, OptionsAssumption, TxBufferAssumption
<1>1. Base!Init => Base!InOrder
  BY Base!InitInOrder
<1>2. Base!Init => Base!Waits
  BY Base!InitWaits
<1>3. Base!IInv /\ Base!InOrder /\ [Base!Next]_(Base!vars) => Base!InOrder'
  BY Base!NextInOrder
<1>4. Base!IInv /\ Base!InOrder /\ Base!Waits /\ [Base!Next]_(Base!vars) => Base!Waits'
  BY Base!NextWaits
<1>5. Base!IInv => /\ Base!RequestsEarned /\ Base!NoOverrunIfFit /\ Base!OneTimer
                   /\ Base!PlayerKnowsClient /\ Base!QueueHoldsSegments
  BY Base!IInvImplies
<1>6. Base!IInv /\ Base!InOrder => Base!FramesMatchCount
  BY Base!InOrderMatches
<1>7. Base!IInv /\ Base!InOrder /\ Base!Waits => Base!SomethingComes
  BY Base!WaitsForSomething
<1> QED
  BY <1>1, <1>2, <1>3, <1>4, <1>5, <1>6, <1>7

\* What is proved of the TCP half alone holds in the session, where the UDP half
\* runs next to it: requests are made as earned, the queue and the frames are
\* those of the segments counted, and a player that waits has something to come.
THEOREM BaseInherits ==
  Spec => [](/\ Base!RequestsEarned /\ Base!NoOverrunIfFit /\ Base!OneTimer
             /\ Base!PlayerKnowsClient /\ Base!QueueHoldsSegments
             /\ Base!FramesMatchCount /\ Base!SomethingComes)
<1>1. Init => Base!InOrder /\ Base!Waits
  BY SameTcpInit, BaseOrderFacts DEF Init
<1>2. Base!IInv /\ Base!InOrder /\ Base!Waits /\ [Next]_vars => Base!InOrder' /\ Base!Waits'
  BY BaseStep, BaseOrderFacts
<1>3. Base!IInv /\ Base!InOrder /\ Base!Waits
        => /\ Base!RequestsEarned /\ Base!NoOverrunIfFit /\ Base!OneTimer
           /\ Base!PlayerKnowsClient /\ Base!QueueHoldsSegments
           /\ Base!FramesMatchCount /\ Base!SomethingComes
  BY BaseOrderFacts
<1> QED
  BY <1>1, <1>2, <1>3, BaseInvariance, PTL DEF Spec
=============================================================================
