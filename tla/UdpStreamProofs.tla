--------------------------- MODULE UdpStreamProofs ---------------------------
(***************************************************************************)
(* Proofs about UdpStream, for every number of segments, every set of      *)
(* packet counts, with and without losses.                                 *)
(*                                                                         *)
(* The handlers of the client are compositions of PlayFrame with small     *)
(* updates, so the argument is first made on the client's record: what     *)
(* holds of it (ClientInv), and what a handler may do to its progress      *)
(* (Outcome).  PlayFrame is idempotent, which is why PacketReceive, that   *)
(* calls it twice, still advances by one segment at most.                  *)
(***************************************************************************)
EXTENDS UdpStream, SumTheorems

\* The client runs: its first request is out, the last segment not yet played.
Live(c) == c.m_socket /\ c.startup = "none"

\* What the client's record satisfies between any two of its calls.
ClientInv(c) ==
  /\ c \in Client
  /\ c.fault = "none"
  /\ c.m_segmentId = c.m_sent
  /\ c.startup # "none" => c.m_sent = 0
  /\ c.startup \in {"CheckStart", "Send"} => c.m_socket
  /\ c.m_sent = c.v_num + (IF Live(c) THEN 1 ELSE 0)
  /\ c.m_queue > 0 => Live(c)
  /\ c.received + c.lost >=
       c.m_queue + c.asked - (IF c.v_num < c.m_sent THEN c.udp_series[c.v_num] ELSE 0)

\* The player knows its client before it has anything to play.
Wired(c) == c.m_queue > 0 => c.m_udpClient

\* What a handler may do to the client's progress: nothing, play a segment and
\* ask for the next, or play the last segment and close the socket.
Same(c, d) ==
  /\ d.m_sent = c.m_sent
  /\ d.v_num = c.v_num
  /\ d.m_socket = c.m_socket
  /\ d.outbox = c.outbox
  /\ d.loss_mark = c.loss_mark

Advance(c, d, n) ==
  /\ c.m_socket /\ d.m_socket
  /\ c.m_queue > 0
  /\ c.m_sent = c.v_num + 1
  /\ c.m_sent < SegCount
  /\ d.m_sent = c.m_sent + 1
  /\ d.v_num = c.v_num + 1
  /\ d.outbox = Append(c.outbox, [seg |-> c.m_sent, num |-> n])

Finish(c, d) ==
  /\ c.m_socket /\ ~d.m_socket
  /\ c.m_queue > 0
  /\ c.m_sent = SegCount /\ d.m_sent = SegCount
  /\ c.v_num = SegCount - 1 /\ d.v_num = SegCount
  /\ d.outbox = c.outbox

Outcome(c, d, n) == Same(c, d) \/ Advance(c, d, n) \/ Finish(c, d)

-----------------------------------------------------------------------------

\* A packet count, set or not yet set, is a natural number.
LEMMA PacketCountNat == \A k \in PacketNums \cup {0} : k \in Nat
  BY PacketNumsAssumption

\* PopSegment keeps the record's types and its accounts: what was owed for the
\* segment is now received, queued no more, or lost.
LEMMA PopSegmentFacts ==
  ASSUME NEW c, ClientInv(c), c.m_queue > 0
  PROVE  LET d == PopSegment(c) IN
         /\ d \in Client
         /\ d.m_queue = 0
         /\ d.v_num = c.v_num + 1
         /\ d.received + d.lost >= c.asked
         /\ d.m_sent = c.m_sent /\ d.m_segmentId = c.m_segmentId
         /\ d.m_socket = c.m_socket /\ d.startup = c.startup
         /\ d.outbox = c.outbox /\ d.fault = c.fault
         /\ d.asked = c.asked /\ d.udp_series = c.udp_series
<1>1. c \in Client /\ Live(c) /\ c.v_num < c.m_sent
  BY DEF ClientInv, Live, Client
<1>2. c.v_num \in Segments /\ c.v_num + 1 \in 0 .. SegCount
  BY <1>1, SegCountAssumption DEF Client, Segments
<1>3. c.udp_series[c.v_num] \in Nat
  <2>1. c.udp_series \in [Segments -> PacketNums \cup {0}]
    BY <1>1 DEF Client
  <2>2. c.udp_series[c.v_num] \in PacketNums \cup {0}
    BY <2>1, <1>2
  <2> QED
    BY <2>2, PacketCountNat
<1>4. c.received + c.lost >= c.m_queue + c.asked - c.udp_series[c.v_num]
  BY <1>1 DEF ClientInv
<1> DEFINE missing == c.udp_series[c.v_num] - c.m_queue
           d == PopSegment(c)
<1>5. missing \in Int /\ c.m_queue \in Nat /\ c.lost \in Nat /\ c.received \in Nat
      /\ c.asked \in Nat
  BY <1>1, <1>3 DEF Client
<1>6. d.m_queue = 0
      /\ d.v_num = c.v_num + 1
      /\ d.lost = c.lost + (IF missing > 0 THEN missing ELSE 0)
      /\ d.received = c.received
      /\ d.m_sent = c.m_sent /\ d.m_segmentId = c.m_segmentId
      /\ d.m_socket = c.m_socket /\ d.startup = c.startup
      /\ d.outbox = c.outbox /\ d.fault = c.fault
      /\ d.asked = c.asked /\ d.udp_series = c.udp_series
  BY <1>1 DEF PopSegment, Client
<1>7. d.received + d.lost >= c.asked
  BY <1>4, <1>5, <1>6, <1>3
<1>8. d \in Client
  <2>1. ASSUME NEW mark \in BOOLEAN, NEW lost \in Nat, NEW v \in 0 .. SegCount
        PROVE  [c EXCEPT !.loss_mark = mark, !.lost = lost, !.m_queue = 0, !.v_num = v]
                 \in Client
    BY <1>1 DEF Client
  <2>2. (c.loss_mark \/ missing > 0) \in BOOLEAN
    OBVIOUS
  <2>3. c.lost + (IF missing > 0 THEN missing ELSE 0) \in Nat
    BY <1>5
  <2>4. [c EXCEPT !.loss_mark = (c.loss_mark \/ missing > 0),
                  !.lost = c.lost + (IF missing > 0 THEN missing ELSE 0),
                  !.m_queue = 0, !.v_num = c.v_num + 1] \in Client
    BY <2>1, <2>2, <2>3, <1>2
  <2> QED
    BY <2>4 DEF PopSegment
<1> QED
  BY <1>6, <1>7, <1>8

\* Send, with the socket open, a segment left and no send pending, asks for it.
LEMMA SendFacts ==
  ASSUME NEW c \in Client, NEW n \in PacketNums,
         c.startup # "Send", c.m_socket, c.m_segmentId = c.m_sent,
         c.m_sent < SegCount
  PROVE  LET d == Send(c, n) IN
         /\ d \in Client
         /\ d.udp_series = [c.udp_series EXCEPT ![c.m_sent] = n]
         /\ d.outbox = Append(c.outbox, [seg |-> c.m_sent, num |-> n])
         /\ d.asked = c.asked + n
         /\ d.m_sent = c.m_sent + 1 /\ d.m_segmentId = c.m_sent + 1
         /\ d.m_queue = c.m_queue /\ d.v_num = c.v_num
         /\ d.received = c.received /\ d.lost = c.lost
         /\ d.m_socket = c.m_socket /\ d.startup = c.startup /\ d.fault = c.fault
         /\ d.m_udpClient = c.m_udpClient
<1> DEFINE series == [c.udp_series EXCEPT ![c.m_sent] = n]
           out == Append(c.outbox, [seg |-> c.m_sent, num |-> n])
<1>1. c.m_sent \in Segments /\ c.m_sent + 1 \in 0 .. SegCount
  BY SegCountAssumption DEF Client, Segments
<1>2. Send(c, n) = [c EXCEPT !.udp_series = series, !.outbox = out,
                             !.asked = c.asked + n,
                             !.m_segmentId = c.m_sent + 1,
                             !.m_sent = c.m_sent + 1]
  BY <1>1 DEF Send, Client
<1>3. n \in Nat
  BY PacketCountNat
<1>4. series \in [Segments -> PacketNums \cup {0}]
  BY DEF Client
<1>5. out \in Seq(Request)
  <2>1. [seg |-> c.m_sent, num |-> n] \in Request
    BY SegCountAssumption DEF Client, Request
  <2>2. c.outbox \in Seq(Request)
    BY DEF Client
  <2> QED
    BY <2>1, <2>2
<1>6. c.asked + n \in Nat
  BY <1>3 DEF Client
<1> HIDE DEF series, out
<1>7. [c EXCEPT !.udp_series = series, !.outbox = out, !.asked = c.asked + n,
                !.m_segmentId = c.m_sent + 1, !.m_sent = c.m_sent + 1] \in Client
  BY <1>1, <1>4, <1>5, <1>6 DEF Client
<1>8. LET d == Send(c, n) IN
      /\ d.udp_series = series /\ d.outbox = out /\ d.asked = c.asked + n
      /\ d.m_sent = c.m_sent + 1 /\ d.m_segmentId = c.m_sent + 1
  BY <1>2 DEF Client
<1>9. LET d == Send(c, n) IN
      /\ d.m_queue = c.m_queue /\ d.v_num = c.v_num
      /\ d.received = c.received /\ d.lost = c.lost
      /\ d.m_socket = c.m_socket /\ d.startup = c.startup /\ d.fault = c.fault
      /\ d.m_udpClient = c.m_udpClient
  BY <1>2 DEF Client
<1> QED
  BY <1>2, <1>7, <1>8, <1>9 DEF series, out

\* PlayFrame keeps ClientInv, advances by a segment at most, and if it does
\* anything it leaves the queue empty.
LEMMA PlayFrameFacts ==
  ASSUME NEW c, ClientInv(c), Wired(c), NEW n \in PacketNums
  PROVE  LET d == PlayFrame(c, n) IN
         /\ ClientInv(d)
         /\ Wired(d)
         /\ Outcome(c, d, n)
         /\ d = c \/ d.m_queue = 0
<1> DEFINE d == PlayFrame(c, n)
           popped == PopSegment(c)
           idle == c.m_queue = 0 \/ (c.m_queue < c.udp_series[c.v_num] /\ c.loss_mark)
<1>1. CASE c.m_queue = 0
  BY <1>1 DEF PlayFrame, Outcome, Same
<1>2. CASE c.m_queue # 0
  <2>1. c \in Client /\ Live(c) /\ c.m_queue > 0 /\ c.m_udpClient
        /\ c.m_sent = c.v_num + 1
    BY <1>2 DEF ClientInv, Live, Client, Wired
  <2>2. c.v_num \in Segments
    BY <2>1, SegCountAssumption DEF Client, Segments
  <2>3. CASE c.m_queue < c.udp_series[c.v_num] /\ c.loss_mark
    BY <2>1, <2>2, <2>3 DEF PlayFrame, Outcome, Same
  <2>4. CASE ~(c.m_queue < c.udp_series[c.v_num] /\ c.loss_mark)
    <3>1. popped \in Client
          /\ popped.m_queue = 0
          /\ popped.v_num = c.v_num + 1
          /\ popped.received + popped.lost >= c.asked
          /\ popped.m_sent = c.m_sent /\ popped.m_segmentId = c.m_segmentId
          /\ popped.m_socket = c.m_socket /\ popped.startup = c.startup
          /\ popped.outbox = c.outbox /\ popped.fault = c.fault
          /\ popped.asked = c.asked /\ popped.udp_series = c.udp_series
      BY <2>1, PopSegmentFacts
    <3>2. c.m_socket /\ c.startup = "none" /\ c.m_segmentId = c.m_sent /\ c.fault = "none"
      BY <2>1 DEF ClientInv, Live
    <3>3. CASE c.v_num + 1 = SegCount
      <4>1. d = StopApplication(popped)
        BY <1>2, <2>1, <2>2, <2>4, <3>3 DEF PlayFrame
      <4>2. d = [popped EXCEPT !.m_socket = FALSE, !.startup = "none"]
        BY <4>1, <3>1, <3>2 DEF StopApplication, Client
      <4> HIDE DEF popped, d
      <4>3. d \in Client
        BY <4>2, <3>1 DEF Client, Startup
      <4>4. d.m_queue = 0 /\ d.v_num = SegCount /\ d.m_sent = SegCount
            /\ d.m_segmentId = SegCount /\ ~d.m_socket /\ d.startup = "none"
            /\ d.outbox = c.outbox /\ d.fault = "none"
            /\ d.asked = c.asked /\ d.received + d.lost >= c.asked
        BY <4>2, <3>1, <3>2, <3>3, <2>1 DEF Client
      <4>5. d.received \in Nat /\ d.lost \in Nat /\ d.asked \in Nat
        BY <4>3 DEF Client
      <4>6. ClientInv(d)
        BY <4>3, <4>4, <4>5, SegCountAssumption DEF ClientInv, Live
      <4>7. Finish(c, d)
        BY <4>4, <3>2, <3>3, <2>1, SegCountAssumption DEF Finish, Client
      <4> QED
        BY <4>4, <4>6, <4>7 DEF Outcome, Wired, d
    <3>4. CASE c.v_num + 1 # SegCount
      <4>1. d = Send(popped, n)
        BY <1>2, <2>1, <2>2, <2>4, <3>4 DEF PlayFrame
      <4>2. c.m_sent < SegCount
        BY <2>1, <2>2, <3>4, SegCountAssumption DEF Segments
      <4> HIDE DEF popped, d
      <4>3. /\ d \in Client
            /\ d.udp_series = [popped.udp_series EXCEPT ![popped.m_sent] = n]
            /\ d.outbox = Append(popped.outbox, [seg |-> popped.m_sent, num |-> n])
            /\ d.asked = popped.asked + n
            /\ d.m_sent = popped.m_sent + 1 /\ d.m_segmentId = popped.m_sent + 1
            /\ d.m_queue = popped.m_queue /\ d.v_num = popped.v_num
            /\ d.received = popped.received /\ d.lost = popped.lost
            /\ d.m_socket = popped.m_socket /\ d.startup = popped.startup
            /\ d.fault = popped.fault
        <5>1. /\ popped \in Client
              /\ popped.startup # "Send"
              /\ popped.m_socket
              /\ popped.m_segmentId = popped.m_sent
              /\ popped.m_sent < SegCount
          BY <3>1, <3>2, <4>2
        <5> HIDE DEF idle
        <5> QED
          BY <5>1, <4>1, SendFacts, Zenon
      <4>4. Advance(c, d, n)
        BY <4>3, <3>1, <3>2, <4>2, <2>1 DEF Advance
      <4>5. d.udp_series[d.v_num] = n
        <5>1. c.m_sent \in Segments /\ c.udp_series \in [Segments -> PacketNums \cup {0}]
          BY <2>1, <4>2, SegCountAssumption DEF Client, Segments
        <5> QED
          BY <5>1, <4>3, <3>1, <2>1
      <4>6. n \in Nat /\ c.asked \in Nat /\ d.received \in Nat /\ d.lost \in Nat
            /\ c.v_num \in Nat /\ c.m_sent \in Nat
        <5>1. n \in Nat
          BY PacketCountNat
        <5>2. c.asked \in Nat /\ c.v_num \in Nat /\ c.m_sent \in Nat
          BY <2>1, SegCountAssumption DEF Client
        <5>3. d.received \in Nat /\ d.lost \in Nat
          BY <4>3 DEF Client
        <5> QED
          BY <5>1, <5>2, <5>3
      <4>7. d.received + d.lost >= d.m_queue + d.asked - n
        BY <4>3, <4>6, <3>1
      <4>8. d.m_sent = d.v_num + 1 /\ d.v_num < d.m_sent /\ Live(d) /\ d.startup = "none"
        BY <4>3, <4>6, <3>1, <3>2, <2>1 DEF Live
      <4>9. ClientInv(d)
        BY <4>3, <4>5, <4>7, <4>8, <3>1, <3>2 DEF ClientInv
      <4>10. d.m_queue = 0
        BY <4>3, <3>1
      <4> QED
        BY <4>4, <4>9, <4>10 DEF Outcome, Wired, d
    <3> QED
      BY <3>3, <3>4
  <2> QED
    BY <2>3, <2>4
<1> QED
  BY <1>1, <1>2

\* Calling PlayFrame again, as CheckPlay and CallPlayer do in the handler of a
\* packet that was played at, changes nothing.
LEMMA PlayFrameIdempotent ==
  ASSUME NEW c, ClientInv(c), Wired(c), NEW n \in PacketNums
  PROVE  PlayFrame(PlayFrame(c, n), n) = PlayFrame(c, n)
<1>1. CASE PlayFrame(c, n) = c
  BY <1>1
<1>2. CASE PlayFrame(c, n).m_queue = 0
  <2> DEFINE d == PlayFrame(c, n)
  <2> HIDE DEF d
  <2>1. d.m_queue = 0 => PlayFrame(d, n) = d
    BY DEF PlayFrame
  <2> QED
    BY <1>2, <2>1 DEF d
<1> QED
  BY <1>1, <1>2, PlayFrameFacts

\* d differs from c only in fields that play no part in ClientInv.
Flags(c, d) ==
  /\ d \in Client
  /\ d.m_queue = c.m_queue /\ d.v_num = c.v_num /\ d.udp_series = c.udp_series
  /\ d.m_sent = c.m_sent /\ d.m_segmentId = c.m_segmentId
  /\ d.m_socket = c.m_socket /\ d.startup = c.startup /\ d.fault = c.fault
  /\ d.received = c.received /\ d.lost = c.lost /\ d.asked = c.asked
  /\ d.loss_mark = c.loss_mark

\* The flags of the record do not enter what ClientInv and Client say of the
\* rest of it.
LEMMA FlagFacts ==
  ASSUME NEW c, NEW d, ClientInv(c), Flags(c, d)
  PROVE  ClientInv(d)
BY DEF ClientInv, Flags, Live

\* What the calls that only touch flags do.
LEMMA SmallCalls ==
  ASSUME NEW c \in Client, NEW k \in Nat
  PROVE  /\ LET d == [c EXCEPT !.p_num = k] IN
              Flags(c, d) /\ d.outbox = c.outbox /\ d.m_udpClient = c.m_udpClient
              /\ d.T_play = c.T_play
         /\ LET d == [c EXCEPT !.calls = k] IN
              Flags(c, d) /\ d.outbox = c.outbox /\ d.m_udpClient = c.m_udpClient
         /\ LET d == [c EXCEPT !.T_play = FALSE] IN
              Flags(c, d) /\ d.outbox = c.outbox /\ d.m_udpClient = c.m_udpClient
         /\ LET d == WakeupUdp(c) IN
              Flags(c, d) /\ d.outbox = c.outbox /\ d.m_udpClient
              /\ (c.m_udpClient => d = c)
BY DEF Flags, Client, WakeupUdp

\* Waking the player first makes no difference to what it plays.
LEMMA PlayAfterWakeup ==
  ASSUME NEW c, ClientInv(c), Wired(c), NEW n \in PacketNums
  PROVE  LET d == PlayFrame(WakeupUdp(c), n) IN
         /\ ClientInv(d)
         /\ Wired(d)
         /\ Outcome(c, d, n)
         /\ d.m_queue > 0 => c.m_queue > 0
         /\ PlayFrame(c, n) = c => Flags(c, d) /\ d.outbox = c.outbox
<1>1. c \in Client
  BY DEF ClientInv
<1>2. CASE c.m_udpClient
  <2>1. WakeupUdp(c) = c
    BY <1>1, <1>2, SmallCalls
  <2> QED
    BY <2>1, <1>1, PlayFrameFacts DEF Flags
<1>3. CASE ~c.m_udpClient
  <2> DEFINE w == WakeupUdp(c)
  <2>1. c.m_queue = 0
    BY <1>1, <1>3 DEF Wired, Client
  <2>2. Flags(c, w) /\ w.outbox = c.outbox
    BY <1>1, SmallCalls
  <2>3. PlayFrame(w, n) = w
    BY <2>1, <2>2 DEF PlayFrame, Flags
  <2> HIDE DEF w
  <2>4. ClientInv(w)
    BY <2>2, FlagFacts
  <2>5. Wired(w) /\ Same(c, w)
    BY <2>1, <2>2 DEF Wired, Flags, Same
  <2>6. ~(w.m_queue > 0)
    BY <2>1, <2>2 DEF Flags
  <2> QED
    BY <2>2, <2>3, <2>4, <2>5, <2>6 DEF Outcome, w
<1> QED
  BY <1>2, <1>3

\* Outcome ignores what flags did before and after.
LEMMA OutcomeFlags ==
  ASSUME NEW c, NEW c1, NEW d1, NEW d, NEW n, Outcome(c1, d1, n),
         Flags(c, c1), c1.outbox = c.outbox,
         Flags(d1, d), d.outbox = d1.outbox
  PROVE  Outcome(c, d, n)
BY DEF Outcome, Same, Advance, Finish, Flags

\* The handler of a data packet, whatever segment the packet is stamped with.
LEMMA PacketReceiveFacts ==
  ASSUME NEW c, ClientInv(c), Wired(c), c.m_socket, c.m_sent > 0,
         NEW p_seg, NEW now_seg, NEW n \in PacketNums
  PROVE  LET d == PacketReceive(c, p_seg, now_seg, n) IN
         ClientInv(d) /\ Wired(d) /\ Outcome(c, d, n)
<1> DEFINE counted == [c EXCEPT !.p_num = c.p_num + 1]
           frame == ReceiveFrame(counted)
           play == PlayFrame(counted, n)
           taken == IF ~c.T_play /\ now_seg = p_seg THEN frame ELSE play
           last == taken.m_segmentId - 1
           called == IF taken.p_num < taken.udp_series[last]
                     THEN CheckPlay(taken, n) ELSE CallPlayer(taken, n)
           d == PacketReceive(c, p_seg, now_seg, n)
<1>1. c \in Client /\ c.p_num + 1 \in Nat
  BY DEF ClientInv, Client
<1>2. Flags(c, counted) /\ counted.outbox = c.outbox /\ counted.T_play = c.T_play
      /\ counted.m_udpClient = c.m_udpClient
  BY <1>1 DEF Flags, Client
<1>3. ClientInv(counted) /\ Wired(counted) /\ counted \in Client
  BY <1>2, FlagFacts DEF Wired, Flags
<1>4. d = WakeupUdp(IF last \notin Segments THEN Fault(taken, "index") ELSE called)
  BY <1>2 DEF PacketReceive
<1>5. ASSUME NEW e, ClientInv(e), e.m_sent > 0
      PROVE  e.m_segmentId - 1 \in Segments
  <2>1. e.m_segmentId = e.m_sent /\ e \in Client
    BY <1>5 DEF ClientInv
  <2>2. e.m_sent \in 0 .. SegCount
    BY <2>1 DEF Client
  <2> QED
    BY <2>1, <2>2, <1>5, SegCountAssumption DEF Segments
<1>6. ASSUME NEW e, ClientInv(e), Outcome(c, e, n)
      PROVE  ClientInv(WakeupUdp(e)) /\ Wired(WakeupUdp(e))
             /\ Outcome(c, WakeupUdp(e), n)
  <2>1. e \in Client
    BY <1>6 DEF ClientInv
  <2>2. Flags(e, WakeupUdp(e)) /\ WakeupUdp(e).outbox = e.outbox /\ WakeupUdp(e).m_udpClient
    BY <2>1, SmallCalls
  <2>3. Flags(c, c)
    BY <1>1 DEF Flags
  <2> QED
    BY <2>2, <2>3, <1>6, FlagFacts, OutcomeFlags DEF Wired
<1>7. CASE ~c.T_play /\ now_seg = p_seg
  <2> HIDE DEF counted
  <2>1. taken = frame
    BY <1>7
  <2>2. c.startup = "none"
    BY <1>1 DEF ClientInv, Client
  <2>3. frame \in Client /\ frame.m_queue = c.m_queue + 1
        /\ frame.received = c.received + 1 /\ frame.v_num = c.v_num
        /\ frame.udp_series = c.udp_series /\ frame.m_sent = c.m_sent
        /\ frame.m_segmentId = c.m_segmentId /\ frame.m_socket = c.m_socket
        /\ frame.startup = c.startup /\ frame.fault = c.fault /\ frame.lost = c.lost
        /\ frame.asked = c.asked /\ frame.outbox = c.outbox /\ frame.T_play = c.T_play
        /\ frame.loss_mark = c.loss_mark
    <3>1. /\ counted \in Client
          /\ counted.m_queue = c.m_queue /\ counted.v_num = c.v_num
          /\ counted.udp_series = c.udp_series /\ counted.m_sent = c.m_sent
          /\ counted.m_segmentId = c.m_segmentId /\ counted.m_socket = c.m_socket
          /\ counted.startup = c.startup /\ counted.fault = c.fault
          /\ counted.received = c.received /\ counted.lost = c.lost
          /\ counted.asked = c.asked /\ counted.outbox = c.outbox
          /\ counted.T_play = c.T_play /\ counted.loss_mark = c.loss_mark
      BY <1>2 DEF Flags
    <3>2. frame \in Client
      <4>1. counted.m_queue + 1 \in Nat /\ counted.received + 1 \in Nat
        BY <3>1 DEF Client
      <4>2. frame = [counted EXCEPT !.m_queue = counted.m_queue + 1,
                                    !.received = counted.received + 1]
        BY DEF ReceiveFrame
      <4>3. ASSUME NEW q \in Nat, NEW r \in Nat
            PROVE  [counted EXCEPT !.m_queue = q, !.received = r] \in Client
        BY <3>1 DEF Client
      <4> HIDE DEF frame
      <4> QED
        BY <4>1, <4>2, <4>3
    <3>3. /\ frame.m_queue = counted.m_queue + 1
          /\ frame.received = counted.received + 1
          /\ frame.v_num = counted.v_num /\ frame.udp_series = counted.udp_series
          /\ frame.m_sent = counted.m_sent /\ frame.m_segmentId = counted.m_segmentId
          /\ frame.m_socket = counted.m_socket /\ frame.startup = counted.startup
          /\ frame.fault = counted.fault /\ frame.lost = counted.lost
          /\ frame.asked = counted.asked /\ frame.outbox = counted.outbox
          /\ frame.T_play = counted.T_play /\ frame.loss_mark = counted.loss_mark
      BY <3>1 DEF ReceiveFrame, Client
    <3> QED
      BY <3>1, <3>2, <3>3
  <2>4. c.received \in Nat /\ c.lost \in Nat /\ c.asked \in Nat /\ c.m_queue \in Nat
        /\ c.udp_series \in [Segments -> PacketNums \cup {0}]
    BY <1>1 DEF Client
  <2> HIDE DEF frame
  <2>5. frame.received + frame.lost >=
          frame.m_queue + frame.asked
            - (IF frame.v_num < frame.m_sent THEN frame.udp_series[frame.v_num] ELSE 0)
    <3>1. (IF c.v_num < c.m_sent THEN c.udp_series[c.v_num] ELSE 0) \in Nat
      <4>1. CASE c.v_num < c.m_sent
        <5>1. c.v_num \in Segments
          BY <1>1, <4>1, SegCountAssumption DEF Client, Segments
        <5>2. c.udp_series[c.v_num] \in PacketNums \cup {0}
          BY <5>1, <2>4
        <5> QED
          BY <4>1, <5>2, PacketCountNat
      <4> QED
        BY <4>1
    <3> DEFINE owed == IF c.v_num < c.m_sent THEN c.udp_series[c.v_num] ELSE 0
    <3>2. c.received + c.lost >= c.m_queue + c.asked - owed
      BY DEF ClientInv
    <3>3. owed \in Nat
      BY <3>1
    <3> HIDE DEF owed
    <3>4. (c.received + 1) + c.lost >= (c.m_queue + 1) + c.asked - owed
      BY <3>2, <3>3, <2>4
    <3> QED
      BY <3>4, <2>3 DEF owed
  <2>6. ClientInv(frame)
    BY <2>2, <2>3, <2>5 DEF ClientInv, Live
  <2>7. Outcome(c, frame, n)
    BY <2>3 DEF Outcome, Same
  <2>8. last \in Segments
    BY <1>5, <2>1, <2>3, <2>6
  <2>9. called = frame \/ called = [frame EXCEPT !.calls = frame.calls + 1]
    BY <2>1, <2>3, <1>7 DEF CheckPlay, CallPlayer
  <2>10. frame.calls + 1 \in Nat
    BY <2>3 DEF Client
  <2>11. ASSUME NEW e, e = [frame EXCEPT !.calls = frame.calls + 1]
         PROVE  ClientInv(e) /\ Outcome(c, e, n)
    <3>1. Flags(frame, e) /\ e.outbox = frame.outbox
      BY <2>3, <2>10, <2>11 DEF Flags, Client
    <3>2. Flags(c, c)
      BY <1>1 DEF Flags
    <3> QED
      BY <3>1, <3>2, <2>6, <2>7, FlagFacts, OutcomeFlags
  <2>12. ClientInv(called) /\ Outcome(c, called, n)
    BY <2>6, <2>7, <2>9, <2>11
  <2> HIDE DEF called, last
  <2> QED
    BY <1>4, <1>6, <2>8, <2>12
<1>8. CASE ~(~c.T_play /\ now_seg = p_seg)
  <2>1. taken = play
    BY <1>8
  <2>2. ClientInv(play) /\ Wired(play) /\ Outcome(counted, play, n)
        /\ PlayFrame(play, n) = play
    BY <1>3, PlayFrameFacts, PlayFrameIdempotent
  <2> HIDE DEF play
  <2>3. play \in Client
    BY <2>2 DEF ClientInv
  <2>4. Flags(play, play)
    BY <2>3 DEF Flags
  <2>5. Outcome(c, play, n)
    BY <2>2, <2>4, <1>2, OutcomeFlags
  <2>6. play.m_sent > 0
    <3>1. c.m_sent \in Nat /\ c.m_sent > 0
      BY <1>1, SegCountAssumption DEF Client
    <3>2. play.m_sent = c.m_sent \/ play.m_sent = c.m_sent + 1 \/ play.m_sent = SegCount
      BY <2>5 DEF Outcome, Same, Advance, Finish
    <3> QED
      BY <3>1, <3>2, SegCountAssumption
  <2>7. last \in Segments
    BY <1>5, <2>1, <2>2, <2>6
  <2>8. called = CheckPlay(play, n) \/ called = CallPlayer(play, n)
    BY <2>1
  <2> HIDE DEF called, last
  <2>9. ASSUME NEW e, Flags(play, e), e.outbox = play.outbox
        PROVE  ClientInv(e) /\ Outcome(c, e, n)
    <3>1. Flags(c, c)
      BY <1>1 DEF Flags
    <3> QED
      BY <3>1, <2>9, <2>2, <2>5, FlagFacts, OutcomeFlags
  <2>10. ClientInv(CheckPlay(play, n)) /\ Outcome(c, CheckPlay(play, n), n)
    <3>1. CheckPlay(play, n) = play \/ CheckPlay(play, n) = [play EXCEPT !.T_play = FALSE]
      BY <2>2 DEF CheckPlay
    <3> DEFINE quiet == [play EXCEPT !.T_play = FALSE]
    <3>2. Flags(play, quiet) /\ quiet.outbox = play.outbox
      BY <2>3, SmallCalls, 0 \in Nat
    <3> HIDE DEF quiet
    <3> QED
      BY <3>1, <3>2, <2>2, <2>5, <2>9 DEF quiet
  <2>11. ClientInv(CallPlayer(play, n)) /\ Outcome(c, CallPlayer(play, n), n)
    <3>1. CASE play.T_play
      <4> DEFINE woken == PlayFrame(WakeupUdp(play), n)
      <4>1. Flags(play, woken) /\ woken.outbox = play.outbox
        BY <2>2, PlayAfterWakeup
      <4>2. CallPlayer(play, n) = woken
        BY <3>1 DEF CallPlayer
      <4> HIDE DEF woken
      <4> QED
        BY <4>1, <4>2, <2>9
    <3>2. CASE ~play.T_play
      <4> DEFINE polled == [play EXCEPT !.calls = play.calls + 1]
      <4>1. play.calls + 1 \in Nat
        BY <2>3 DEF Client
      <4>2. Flags(play, polled) /\ polled.outbox = play.outbox
        BY <2>3, <4>1, SmallCalls
      <4>3. CallPlayer(play, n) = polled
        BY <3>2 DEF CallPlayer
      <4> HIDE DEF polled
      <4> QED
        BY <4>2, <4>3, <2>9
    <3> QED
      BY <3>1, <3>2
  <2>12. ClientInv(called) /\ Outcome(c, called, n)
    BY <2>8, <2>10, <2>11
  <2> QED
    BY <1>4, <1>6, <2>7, <2>12
<1> QED
  BY <1>7, <1>8

-----------------------------------------------------------------------------
(* The inductive invariant of the specification.                           *)

\* The requests on their way: in order, newer than the one being answered,
\* and without losses exactly those between it and the last one sent.
UplinkInv ==
  /\ uplink \in Seq(Request)
  /\ \A i, j \in 1 .. Len(uplink) : i < j => uplink[i].seg < uplink[j].seg
  /\ \A i \in 1 .. Len(uplink) :
       server.now_seg < uplink[i].seg /\ uplink[i].seg < client.m_sent
  /\ ~Lossy => /\ \A i \in 1 .. Len(uplink) : uplink[i].seg = server.now_seg + i
               /\ client.m_sent = server.now_seg + 1 + Len(uplink)

\* The data on its way: in order and not newer than the server.
DataInv ==
  /\ data \in Seq(Segments)
  /\ NonDecreasing(data)
  /\ \A i \in 1 .. Len(data) : data[i] <= server.now_seg

\* The server answers a request that was made, and has something to do only
\* once it has one.
ServerInv ==
  /\ server \in Server
  /\ server.now_seg < client.m_sent
  /\ (server.sends > 0 \/ server.ticks > 0 \/ data # <<>> \/ client.m_queue > 0)
       => server.now_seg >= 0

IInv ==
  /\ ClientInv(client) /\ Wired(client) /\ client.outbox = <<>>
  /\ UplinkInv /\ DataInv /\ ServerInv
  /\ T_start \in BOOLEAN

\* The inductive invariant holds when the applications are installed.
LEMMA InitIInv == Init => IInv
<1> SUFFICES ASSUME Init PROVE IInv
  OBVIOUS
<1> USE DEF Init
<1>1. client \in Client
  BY SegCountAssumption DEF InitClient, Client, Startup, Faults, Segments
<1>2. client.m_queue = 0 /\ client.m_sent = 0 /\ client.m_segmentId = 0
      /\ client.v_num = 0 /\ client.startup = "StartApplication"
      /\ client.fault = "none" /\ client.received = 0 /\ client.lost = 0
      /\ client.asked = 0 /\ client.outbox = <<>> /\ ~client.m_socket
  BY DEF InitClient
<1>3. ClientInv(client) /\ Wired(client)
  BY <1>1, <1>2 DEF ClientInv, Wired, Live
<1>4. server \in Server /\ server.now_seg = -1 /\ server.sends = 0 /\ server.ticks = 0
  BY DEF InitServer, Server
<1>5. UplinkInv
  BY <1>2, <1>4 DEF UplinkInv
<1>6. DataInv
  BY DEF DataInv, NonDecreasing
<1>7. ServerInv
  BY <1>2, <1>4 DEF ServerInv
<1> QED
  BY <1>2, <1>3, <1>5, <1>6, <1>7 DEF IInv

\* IInv gives the five invariants of the runs.
LEMMA IInvImplies ==
  IInv => TypeOK /\ NoFault /\ RequestsPacePlayback /\ LossesAccounted /\ StampsInOrder
<1> SUFFICES ASSUME IInv
             PROVE  TypeOK /\ NoFault /\ RequestsPacePlayback /\ LossesAccounted
                    /\ StampsInOrder
  OBVIOUS
<1>1. client \in Client
  BY DEF IInv, ClientInv
<1>2. TypeOK
  BY <1>1 DEF IInv, UplinkInv, DataInv, ServerInv, TypeOK
<1>3. NoFault /\ RequestsPacePlayback /\ LossesAccounted
  BY DEF IInv, ClientInv, Live, NoFault, RequestsPacePlayback, LossesAccounted
<1>4. server.now_seg <= client.v_num
  <2>1. server.now_seg \in Int /\ client.v_num \in Int /\ client.m_sent \in Int
    BY <1>1, SegCountAssumption DEF IInv, ServerInv, Server, Client, Segments
  <2>2. client.m_sent <= client.v_num + 1
    BY <2>1 DEF IInv, ClientInv
  <2> QED
    BY <2>1, <2>2 DEF IInv, ServerInv
<1> QED
  BY <1>2, <1>3, <1>4 DEF IInv, UplinkInv, DataInv, StampsInOrder

\* What a handler of the client may have sent when it ends.
Sent(c, d) ==
  \/ d.outbox = <<>> /\ d.m_sent = c.m_sent
  \/ \E n \in PacketNums : /\ d.outbox = <<[seg |-> c.m_sent, num |-> n]>>
                           /\ d.m_sent = c.m_sent + 1

\* A handler of the client that keeps the record's invariant and sends the
\* next request or none keeps IInv.
LEMMA ClientDoneIInv ==
  ASSUME IInv, NEW d, ClientInv(d), Wired(d), Sent(client, d), ClientDone(d),
         d.m_queue > 0 => server.now_seg >= 0, 
         UNCHANGED <<server, T_start>>,
         data' = data \/ (data # <<>> /\ data' = Tail(data))
  PROVE  IInv'
<1>1. client \in Client /\ d \in Client /\ client.m_sent \in Nat /\ d.m_sent \in Nat
  <2>1. client \in Client /\ d \in Client
    BY DEF IInv, ClientInv
  <2>2. \A x \in Client : x.m_sent \in Nat
    BY SegCountAssumption DEF Client
  <2> QED
    BY <2>1, <2>2
<1>2. Flags(d, client') /\ client'.m_udpClient = d.m_udpClient /\ client'.outbox = <<>>
  <2>1. client' = [d EXCEPT !.outbox = <<>>]
    BY DEF ClientDone
  <2>2. <<>> \in Seq(Request)
    OBVIOUS
  <2>3. ASSUME NEW out \in Seq(Request)
        PROVE  [d EXCEPT !.outbox = out] \in Client
    BY <1>1 DEF Client
  <2>4. client' \in Client
    BY <2>1, <2>2, <2>3
  <2>5. ASSUME NEW e \in Client, e = [d EXCEPT !.outbox = <<>>]
        PROVE  Flags(d, e) /\ e.m_udpClient = d.m_udpClient /\ e.outbox = <<>>
    <3>1. e.m_udpClient = d.m_udpClient /\ e.outbox = <<>>
      BY <1>1, <2>5 DEF Client
    <3>2. Flags(d, e)
      BY <1>1, <2>5, Zenon DEF Flags, Client
    <3> QED
      BY <3>1, <3>2
  <2> QED
    BY <2>1, <2>4, <2>5
<1>3. ClientInv(client') /\ Wired(client')
  BY <1>2, FlagFacts DEF Wired, Flags
<1>4. client'.m_sent = d.m_sent
  BY <1>2 DEF Flags
<1>5. server.now_seg \in Int /\ server.now_seg < client.m_sent
  BY SegCountAssumption DEF IInv, ServerInv, Server, Segments
<1>6. UplinkInv'
  <2>1. CASE d.outbox = <<>> /\ d.m_sent = client.m_sent
    <3>1. uplink' = uplink
      BY <2>1 DEF ClientDone, IInv, UplinkInv
    <3> QED
      BY <2>1, <3>1, <1>4 DEF IInv, UplinkInv
  <2>2. ASSUME NEW n \in PacketNums,
               d.outbox = <<[seg |-> client.m_sent, num |-> n]>>,
               d.m_sent = client.m_sent + 1
        PROVE  UplinkInv'
    <3> DEFINE r == [seg |-> client.m_sent, num |-> n]
    <3>1. r \in Request /\ r.seg = client.m_sent
      BY <1>1 DEF Request
    <3>2. uplink \in Seq(Request)
      BY DEF IInv, UplinkInv
    <3>3. uplink' = uplink \o <<r>>
      BY <2>2 DEF ClientDone
    <3> HIDE DEF r
    <3>4. /\ uplink' \in Seq(Request)
          /\ Len(uplink') = Len(uplink) + 1
          /\ \A i \in 1 .. Len(uplink) : uplink'[i] = uplink[i]
          /\ uplink'[Len(uplink) + 1] = r
      BY <3>1, <3>2, <3>3
    <3>5. \A i \in 1 .. Len(uplink') :
            i \in 1 .. Len(uplink) \/ i = Len(uplink) + 1
      BY <3>2, <3>4
    <3>6. \A i \in 1 .. Len(uplink) : uplink[i].seg \in Nat
      <4>1. \A q \in Request : q.seg \in Nat
        BY DEF Request
      <4>2. \A i \in 1 .. Len(uplink) : uplink[i] \in Request
        BY <3>2
      <4> QED
        BY <4>1, <4>2
    <3>7. \A i \in 1 .. Len(uplink') :
            server.now_seg < uplink'[i].seg /\ uplink'[i].seg < client'.m_sent
      BY <3>1, <3>4, <3>5, <3>6, <2>2, <1>1, <1>4, <1>5 DEF IInv, UplinkInv
    <3>8. \A i, j \in 1 .. Len(uplink') : i < j => uplink'[i].seg < uplink'[j].seg
      BY <3>1, <3>2, <3>4, <3>5, <3>6 DEF IInv, UplinkInv
    <3>9. ASSUME ~Lossy
          PROVE  /\ \A i \in 1 .. Len(uplink') : uplink'[i].seg = server.now_seg + i
                 /\ client'.m_sent = server.now_seg + 1 + Len(uplink')
      <4>1. /\ \A i \in 1 .. Len(uplink) : uplink[i].seg = server.now_seg + i
            /\ client.m_sent = server.now_seg + 1 + Len(uplink)
        BY <3>9 DEF IInv, UplinkInv
      <4>2. Len(uplink) \in Nat
        BY <3>2
      <4>3. client.m_sent = server.now_seg + (Len(uplink) + 1)
        BY <4>1, <4>2, <1>5
      <4>4. client'.m_sent = server.now_seg + 1 + Len(uplink')
        BY <3>4, <4>2, <4>3, <2>2, <1>4, <1>5
      <4>5. ASSUME NEW i \in 1 .. Len(uplink')
            PROVE  uplink'[i].seg = server.now_seg + i
        <5>1. CASE i \in 1 .. Len(uplink)
          BY <5>1, <3>4, <4>1
        <5>2. CASE i = Len(uplink) + 1
          BY <5>2, <3>1, <3>4, <4>3
        <5> QED
          BY <3>5, <5>1, <5>2
      <4> QED
        BY <4>4, <4>5
    <3> QED
      BY <3>4, <3>7, <3>8, <3>9 DEF UplinkInv
  <2> QED
    BY <2>1, <2>2 DEF Sent
<1>7. DataInv'
  <2>1. CASE data' = data
    BY <2>1 DEF IInv, DataInv, NonDecreasing
  <2>2. CASE data # <<>> /\ data' = Tail(data)
    <3>1. data \in Seq(Segments)
      BY DEF IInv, DataInv
    <3>2. data' \in Seq(Segments) /\ Len(data') = Len(data) - 1
          /\ \A i \in 1 .. Len(data') : data'[i] = data[i + 1] /\ i + 1 \in 1 .. Len(data)
      BY <2>2, <3>1
    <3>3. /\ \A i, j \in 1 .. Len(data) : i < j => data[i] <= data[j]
          /\ \A i \in 1 .. Len(data) : data[i] <= server.now_seg
      BY DEF IInv, DataInv, NonDecreasing
    <3>4. Len(data) \in Nat
      BY <3>1
    <3>5. NonDecreasing(data')
      <4> SUFFICES ASSUME NEW i \in 1 .. Len(data'), NEW j \in 1 .. Len(data'), i < j
                   PROVE  data'[i] <= data'[j]
        BY DEF NonDecreasing
      <4> QED
        BY <3>2, <3>3, <3>4
    <3> QED
      BY <3>2, <3>3, <3>5 DEF DataInv
  <2> QED
    BY <2>1, <2>2
<1>8. ServerInv'
  <2>1. client.m_sent <= client'.m_sent
    <3>1. d.m_sent = client.m_sent \/ d.m_sent = client.m_sent + 1
      BY DEF Sent
    <3> QED
      BY <3>1, <1>1, <1>4
  <2>2. client'.m_sent \in Nat
    BY <1>1, <1>4
  <2>3. client'.m_queue = d.m_queue
    BY <1>2 DEF Flags
  <2> QED
    BY <2>1, <2>2, <2>3, <1>1, <1>5 DEF IInv, ServerInv
<1> QED
  BY <1>2, <1>3, <1>6, <1>7, <1>8 DEF IInv

-----------------------------------------------------------------------------
(* Each event keeps IInv.                                                  *)

\* The three outcomes of a played segment, for a handler that starts with an
\* empty outbox, send the next request or none.
LEMMA OutcomeSent ==
  ASSUME NEW c, NEW d, NEW n \in PacketNums, c.outbox = <<>>, Outcome(c, d, n)
  PROVE  Sent(c, d)
<1>1. CASE Same(c, d) \/ Finish(c, d)
  BY <1>1 DEF Same, Finish, Sent
<1>2. CASE Advance(c, d, n)
  <2>1. Append(<<>>, [seg |-> c.m_sent, num |-> n]) = <<[seg |-> c.m_sent, num |-> n]>>
    OBVIOUS
  <2> QED
    BY <1>2, <2>1 DEF Advance, Sent
<1> QED
  BY <1>1, <1>2 DEF Outcome

\* The start-up handlers only move along the start-up chain.
LEMMA StartApplicationIInv == IInv /\ StartApplicationEvent => IInv'
<1> SUFFICES ASSUME IInv, StartApplicationEvent PROVE IInv'
  OBVIOUS
<1> DEFINE d == CheckStart([client EXCEPT !.m_socket = TRUE])
<1>1. client \in Client
  BY DEF IInv, ClientInv
<1>2. /\ d \in Client
      /\ d.m_socket /\ d.startup \in {"CheckStart", "Send"}
      /\ d.m_queue = client.m_queue /\ d.v_num = client.v_num
      /\ d.udp_series = client.udp_series /\ d.m_sent = client.m_sent
      /\ d.m_segmentId = client.m_segmentId /\ d.fault = client.fault
      /\ d.received = client.received /\ d.lost = client.lost
      /\ d.asked = client.asked /\ d.outbox = client.outbox
      /\ d.m_udpClient = client.m_udpClient
  BY <1>1 DEF CheckStart, Client, Startup
<1>3. client.startup = "StartApplication" /\ ClientDone(d)
      /\ UNCHANGED <<server, data, T_start>>
  BY DEF StartApplicationEvent
<1> HIDE DEF d
<1>4. ClientInv(d) /\ Wired(d)
  BY <1>2, <1>3 DEF IInv, ClientInv, Live, Wired
<1>5. Sent(client, d) /\ (d.m_queue > 0 => server.now_seg >= 0)
  BY <1>2 DEF Sent, IInv, ServerInv
<1> QED
  BY <1>3, <1>4, <1>5, ClientDoneIInv

\* The 1 ms timer of the start-up moves along the start-up chain.
LEMMA CheckStartIInv == IInv /\ CheckStartEvent => IInv'
<1> SUFFICES ASSUME IInv, CheckStartEvent PROVE IInv'
  OBVIOUS
<1> DEFINE d == CheckStart(client)
<1>1. client \in Client
  BY DEF IInv, ClientInv
<1>2. /\ d \in Client
      /\ d.startup \in {"CheckStart", "Send"}
      /\ d.m_socket = client.m_socket
      /\ d.m_queue = client.m_queue /\ d.v_num = client.v_num
      /\ d.udp_series = client.udp_series /\ d.m_sent = client.m_sent
      /\ d.m_segmentId = client.m_segmentId /\ d.fault = client.fault
      /\ d.received = client.received /\ d.lost = client.lost
      /\ d.asked = client.asked /\ d.outbox = client.outbox
      /\ d.m_udpClient = client.m_udpClient
  BY <1>1 DEF CheckStart, Client, Startup
<1>3. client.startup = "CheckStart" /\ ClientDone(d)
      /\ UNCHANGED <<server, data, T_start>>
  BY DEF CheckStartEvent
<1> HIDE DEF d
<1>4. ClientInv(d) /\ Wired(d)
  BY <1>2, <1>3 DEF IInv, ClientInv, Live, Wired
<1>5. Sent(client, d) /\ (d.m_queue > 0 => server.now_seg >= 0)
  BY <1>2 DEF Sent, IInv, ServerInv
<1> QED
  BY <1>3, <1>4, <1>5, ClientDoneIInv

\* The first request: nothing is owed before it, all of its segment after it.
LEMMA SendIInv == IInv /\ SendEvent => IInv'
<1> SUFFICES ASSUME IInv, SendEvent PROVE IInv'
  OBVIOUS
<1>1. PICK n \in PacketNums : ClientDone(Send([client EXCEPT !.startup = "none"], n))
  BY DEF SendEvent
<1> DEFINE c == [client EXCEPT !.startup = "none"]
           d == Send(c, n)
<1>2. client \in Client /\ client.startup = "Send"
  BY DEF IInv, ClientInv, SendEvent
<1>3. client.m_sent = 0 /\ client.m_segmentId = 0 /\ client.v_num = 0 /\ client.m_socket
      /\ client.m_queue = 0 /\ client.fault = "none" /\ client.outbox = <<>>
  <2>1. client.v_num \in Nat /\ client.m_queue \in Nat
    BY <1>2, SegCountAssumption DEF Client
  <2>2. client.m_sent = 0 /\ client.m_segmentId = 0 /\ client.m_socket
        /\ client.fault = "none" /\ client.outbox = <<>>
    BY <1>2 DEF IInv, ClientInv
  <2>3. ~Live(client)
    BY <1>2 DEF Live
  <2>4. client.m_sent = client.v_num + 0 /\ ~(client.m_queue > 0)
    BY <2>3 DEF IInv, ClientInv
  <2> QED
    BY <2>1, <2>2, <2>4
<1>4. client.received + client.lost >= client.asked
  <2>1. client.received \in Nat /\ client.lost \in Nat /\ client.asked \in Nat
    BY <1>2 DEF Client
  <2>2. client.received + client.lost >= client.m_queue + client.asked - 0
    BY <1>3 DEF IInv, ClientInv
  <2> QED
    BY <2>1, <2>2, <1>3
<1>5. /\ c \in Client /\ c.startup = "none"
      /\ c.m_sent = 0 /\ c.m_segmentId = 0 /\ c.v_num = 0 /\ c.m_socket
      /\ c.m_queue = 0 /\ c.fault = "none" /\ c.outbox = <<>>
      /\ c.received = client.received /\ c.lost = client.lost /\ c.asked = client.asked
      /\ c.udp_series = client.udp_series
  BY <1>2, <1>3 DEF Client, Startup
<1> HIDE DEF c
<1>6. /\ d \in Client
      /\ d.udp_series = [c.udp_series EXCEPT ![0] = n]
      /\ d.outbox = Append(<<>>, [seg |-> 0, num |-> n])
      /\ d.asked = c.asked + n
      /\ d.m_sent = 1 /\ d.m_segmentId = 1
      /\ d.m_queue = 0 /\ d.v_num = 0
      /\ d.received = c.received /\ d.lost = c.lost
      /\ d.m_socket /\ d.startup = "none" /\ d.fault = "none"
  BY <1>5, SendFacts, SegCountAssumption
<1> HIDE DEF d
<1>7. d.udp_series[0] = n
  <2>1. 0 \in Segments /\ c.udp_series \in [Segments -> PacketNums \cup {0}]
    BY <1>5, SegCountAssumption DEF Client, Segments
  <2> QED
    BY <2>1, <1>6
<1>8. d.received + d.lost >= d.m_queue + d.asked - d.udp_series[0]
  <2>1. n \in Nat /\ d.received \in Nat /\ d.lost \in Nat /\ client.asked \in Nat
    <3>1. n \in Nat
      BY PacketCountNat
    <3> QED
      BY <3>1, <1>2, <1>6 DEF Client
  <2> QED
    BY <2>1, <1>4, <1>5, <1>6, <1>7
<1>9. ClientInv(d) /\ Wired(d)
  BY <1>6, <1>8 DEF ClientInv, Wired, Live
<1>10. Sent(client, d)
  <2>1. d.outbox = <<[seg |-> 0, num |-> n]>>
    BY <1>6
  <2> QED
    BY <2>1, <1>3, <1>6 DEF Sent
<1>11. ClientDone(d) /\ UNCHANGED <<server, data, T_start>>
  BY <1>1 DEF SendEvent, c, d
<1>12. ~(d.m_queue > 0)
  BY <1>6
<1> QED
  BY <1>9, <1>10, <1>11, <1>12, ClientDoneIInv

\* A handler of the running client ends in record d: an outcome for it, and a
\* filled queue only if the server has answered something.
Handled(d, n) ==
  /\ ClientInv(d) /\ Wired(d)
  /\ Outcome(client, d, n)
  /\ d.m_queue > 0 => server.now_seg >= 0
  /\ ClientDone(d)

\* A client handler that has any of the allowed outcomes keeps IInv.
LEMMA HandledIInv ==
  ASSUME IInv, NEW d, NEW n \in PacketNums, Handled(d, n),
         UNCHANGED <<server, T_start>>,
         data' = data \/ (data # <<>> /\ data' = Tail(data))
  PROVE  IInv'
<1>1. Sent(client, d)
  BY OutcomeSent DEF IInv, Handled
<1> QED
  BY <1>1, ClientDoneIInv DEF Handled

\* A data packet is on its way only after the first request.
LEMMA ClientHandleReadHandled ==
  IInv /\ ClientHandleRead => \E d \in Client, n \in PacketNums : Handled(d, n)
<1> SUFFICES ASSUME IInv, ClientHandleRead
             PROVE  \E d \in Client, n \in PacketNums : Handled(d, n)
  OBVIOUS
<1>1. PICK n \in PacketNums :
        ClientDone(PacketReceive(client, Head(data), server.now_seg, n))
  BY DEF ClientHandleRead
<1> DEFINE d == PacketReceive(client, Head(data), server.now_seg, n)
<1>2. client.m_sent > 0
  <2>1. client \in Client /\ server \in Server
    BY DEF IInv, ClientInv, ServerInv
  <2>2. client.m_sent \in Int /\ server.now_seg \in Int
    BY <2>1, SegCountAssumption DEF Client, Server, Segments
  <2> QED
    BY <2>2 DEF IInv, ServerInv, ClientHandleRead
<1>3. ClientInv(d) /\ Wired(d) /\ Outcome(client, d, n)
  BY <1>2, PacketReceiveFacts DEF IInv, ClientHandleRead
<1>4. server.now_seg >= 0
  BY DEF IInv, ServerInv, ClientHandleRead
<1> HIDE DEF d
<1>5. d \in Client
  BY <1>3 DEF ClientInv
<1>6. Handled(d, n)
  BY <1>1, <1>3, <1>4 DEF Handled, d
<1> QED
  BY <1>5, <1>6

\* DudpClient::HandleRead keeps IInv.
LEMMA ClientHandleReadIInv == IInv /\ ClientHandleRead => IInv'
<1> SUFFICES ASSUME IInv, ClientHandleRead PROVE IInv'
  OBVIOUS
<1>1. UNCHANGED <<server, T_start>> /\ data # <<>> /\ data' = Tail(data)
  BY DEF ClientHandleRead
<1> QED
  BY <1>1, ClientHandleReadHandled, HandledIInv

\* A poll, that of DudpClient::CallPlayer, has one of the allowed outcomes.
LEMMA CallPlayerHandled ==
  IInv /\ CallPlayerEvent => \E d \in Client, n \in PacketNums : Handled(d, n)
<1> SUFFICES ASSUME IInv, CallPlayerEvent
             PROVE  \E d \in Client, n \in PacketNums : Handled(d, n)
  OBVIOUS
<1>1. PICK n \in PacketNums : ClientDone(CallPlayer([client EXCEPT !.calls = @ - 1], n))
  BY DEF CallPlayerEvent
<1> DEFINE c == [client EXCEPT !.calls = client.calls - 1]
           d == CallPlayer(c, n)
<1>2. client \in Client
  BY DEF IInv, ClientInv
<1>3. client.calls - 1 \in Nat
  BY <1>2 DEF CallPlayerEvent, Client
<1>4. Flags(client, c) /\ c.outbox = <<>> /\ c.m_udpClient = client.m_udpClient
      /\ c.calls = client.calls - 1
  <2>1. ASSUME NEW k \in Nat
        PROVE  [client EXCEPT !.calls = k] \in Client
    BY <1>2 DEF Client
  <2>2. c \in Client
    BY <2>1, <1>3
  <2> QED
    BY <1>2, <2>2 DEF Flags, Client, IInv
<1>5. ClientDone(d)
  BY <1>1
<1> HIDE DEF c
<1>6. ClientInv(c) /\ Wired(c) /\ c \in Client
  BY <1>4, FlagFacts DEF IInv, Wired, Flags
<1>7. ASSUME NEW e, ClientInv(e), Wired(e), Outcome(c, e, n), ClientDone(e),
             e.m_queue > 0 => c.m_queue > 0
      PROVE  e \in Client /\ Handled(e, n)
  <2>1. e \in Client
    BY <1>7 DEF ClientInv
  <2>2. Outcome(client, e, n)
    <3>1. Flags(e, e) /\ c.outbox = client.outbox
      BY <2>1, <1>4 DEF Flags, IInv
    <3> QED
      BY <3>1, <1>4, <1>7, OutcomeFlags
  <2>3. e.m_queue > 0 => server.now_seg >= 0
    BY <1>4, <1>7 DEF IInv, ServerInv, Flags
  <2> QED
    BY <1>7, <2>1, <2>2, <2>3 DEF Handled
<1>8. CASE c.T_play
  <2>1. d = PlayFrame(WakeupUdp(c), n)
    BY <1>8 DEF CallPlayer
  <2> HIDE DEF d
  <2>2. ClientInv(d) /\ Wired(d) /\ Outcome(c, d, n) /\ (d.m_queue > 0 => c.m_queue > 0)
    BY <2>1, <1>6, PlayAfterWakeup
  <2> QED
    BY <1>5, <1>7, <2>2
<1>9. CASE ~c.T_play
  <2>1. d = [c EXCEPT !.calls = c.calls + 1]
    BY <1>9 DEF CallPlayer
  <2>2. c.calls + 1 \in Nat
    BY <1>6 DEF Client
  <2> DEFINE e == [c EXCEPT !.calls = c.calls + 1]
  <2>3. Flags(c, e) /\ e.outbox = c.outbox /\ e.m_udpClient = c.m_udpClient
    BY <1>6, <2>2, SmallCalls
  <2> HIDE DEF e
  <2>4. ClientInv(e) /\ Wired(e) /\ (e.m_queue > 0 => c.m_queue > 0)
    BY <2>3, <1>6, FlagFacts DEF Wired, Flags
  <2>5. Outcome(c, e, n)
    BY <2>3 DEF Outcome, Same, Flags
  <2>6. ClientDone(e)
    BY <1>5, <2>1 DEF e
  <2> QED
    BY <1>7, <2>4, <2>5, <2>6
<1> QED
  BY <1>8, <1>9

\* DudpClient::CallPlayer, as an event, keeps IInv.
LEMMA CallPlayerIInv == IInv /\ CallPlayerEvent => IInv'
<1> SUFFICES ASSUME IInv, CallPlayerEvent PROVE IInv'
  OBVIOUS
<1>1. UNCHANGED <<server, data, T_start>>
  BY DEF CallPlayerEvent
<1> QED
  BY <1>1, CallPlayerHandled, HandledIInv

\* A server step that leaves the request stamps alone.
LEMMA ScheduleTransmitFacts ==
  ASSUME NEW s \in Server, NEW T \in BOOLEAN
  PROVE  LET d == ScheduleTransmit(s, T) IN
         d \in Server /\ d.now_seg = s.now_seg
<1>1. CASE s.count_packet - 1 >= 0 /\ ~T
  <2>1. s.count_packet - 1 \in Nat /\ s.sends + 1 \in Nat /\ s.ticks + 1 \in Nat
    BY <1>1 DEF Server
  <2> DEFINE k == s.count_packet - 1
             x == s.sends + 1
             y == s.ticks + 1
  <2>2. ScheduleTransmit(s, T) = [s EXCEPT !.count_packet = k, !.sends = x, !.ticks = y]
    BY <1>1 DEF ScheduleTransmit
  <2>3. k \in Nat /\ x \in Nat /\ y \in Nat
    BY <2>1
  <2> HIDE DEF k, x, y
  <2> QED
    BY <2>2, <2>3 DEF Server
<1>2. CASE ~(s.count_packet - 1 >= 0 /\ ~T)
  BY <1>2 DEF ScheduleTransmit, Server
<1> QED
  BY <1>1, <1>2

\* The server takes the oldest request: the rest is newer than it.
LEMMA ServerHandleReadIInv == IInv /\ ServerHandleRead => IInv'
<1> SUFFICES ASSUME IInv, ServerHandleRead PROVE IInv'
  OBVIOUS
<1> DEFINE r == Head(uplink)
           s == [server EXCEPT !.count_packet = r.num, !.now_seg = r.seg]
<1>1. uplink \in Seq(Request) /\ uplink # <<>> /\ uplink' = Tail(uplink)
      /\ client' = [client EXCEPT !.T_play = FALSE, !.loss_mark = FALSE]
      /\ server' = ScheduleTransmit(s, FALSE) /\ data' = data /\ T_start' = T_start
  BY DEF IInv, UplinkInv, ServerHandleRead
<1>2. client \in Client /\ server \in Server
  BY DEF IInv, ClientInv, ServerInv
<1>3. client.m_sent \in 0 .. SegCount /\ server.now_seg \in Int /\ server.now_seg >= -1
  BY <1>2, SegCountAssumption DEF Client, Server, Segments
<1>4. r = uplink[1] /\ 1 \in 1 .. Len(uplink) /\ r \in Request
  BY <1>1
<1>5. r.seg \in Nat /\ r.num \in PacketNums
  BY <1>4 DEF Request
<1>6. server.now_seg < r.seg /\ r.seg < client.m_sent
  BY <1>4 DEF IInv, UplinkInv
<1> HIDE DEF r
<1>7. s \in Server /\ s.now_seg = r.seg
  <2>1. r.seg \in Segments \cup {-1}
    BY <1>3, <1>5, <1>6, SegCountAssumption DEF Segments
  <2>2. r.num \in Nat \cup {-1}
    BY <1>5, PacketCountNat
  <2>3. ASSUME NEW k \in Nat \cup {-1}, NEW g \in Segments \cup {-1}
        PROVE  [server EXCEPT !.count_packet = k, !.now_seg = g] \in Server
    BY <1>2 DEF Server
  <2>4. s \in Server
    BY <2>1, <2>2, <2>3
  <2> QED
    BY <1>2, <2>4 DEF Server
<1> HIDE DEF s
<1>8. server' \in Server /\ server'.now_seg = r.seg
  BY <1>1, <1>7, ScheduleTransmitFacts
<1>9. /\ client' \in Client
      /\ client'.m_queue = client.m_queue /\ client'.v_num = client.v_num
      /\ client'.udp_series = client.udp_series /\ client'.m_sent = client.m_sent
      /\ client'.m_segmentId = client.m_segmentId /\ client'.m_socket = client.m_socket
      /\ client'.startup = client.startup /\ client'.fault = client.fault
      /\ client'.received = client.received /\ client'.lost = client.lost
      /\ client'.asked = client.asked /\ client'.outbox = client.outbox
      /\ client'.m_udpClient = client.m_udpClient
  BY <1>1, <1>2 DEF Client
<1>10. ClientInv(client') /\ Wired(client') /\ client'.outbox = <<>>
       /\ client'.m_sent = client.m_sent /\ client'.m_queue = client.m_queue
  BY <1>9 DEF IInv, ClientInv, Live, Wired
<1>11. UplinkInv'
  <2>1. /\ uplink' \in Seq(Request)
        /\ Len(uplink') = Len(uplink) - 1
        /\ \A i \in 1 .. Len(uplink') :
             uplink'[i] = uplink[i + 1] /\ i + 1 \in 1 .. Len(uplink) /\ 1 < i + 1
        /\ Len(uplink) \in Nat
    BY <1>1
  <2>2. /\ \A i, j \in 1 .. Len(uplink) : i < j => uplink[i].seg < uplink[j].seg
        /\ \A i \in 1 .. Len(uplink) : uplink[i].seg < client.m_sent
    BY DEF IInv, UplinkInv
  <2>3. ASSUME NEW i \in 1 .. Len(uplink'), NEW j \in 1 .. Len(uplink'), i < j
        PROVE  uplink'[i].seg < uplink'[j].seg
    BY <2>1, <2>2, <2>3
  <2>4. ASSUME NEW i \in 1 .. Len(uplink')
        PROVE  server'.now_seg < uplink'[i].seg /\ uplink'[i].seg < client'.m_sent
    BY <2>1, <2>2, <1>4, <1>8, <1>10
  <2>5. ASSUME ~Lossy
        PROVE  /\ \A i \in 1 .. Len(uplink') : uplink'[i].seg = server'.now_seg + i
               /\ client'.m_sent = server'.now_seg + 1 + Len(uplink')
    <3>1. /\ \A i \in 1 .. Len(uplink) : uplink[i].seg = server.now_seg + i
          /\ client.m_sent = server.now_seg + 1 + Len(uplink)
      BY <2>5 DEF IInv, UplinkInv
    <3>2. server'.now_seg = server.now_seg + 1
      BY <3>1, <1>4, <1>8
    <3>3. client'.m_sent = server'.now_seg + 1 + Len(uplink')
      BY <3>1, <3>2, <2>1, <1>3, <1>10
    <3>4. ASSUME NEW i \in 1 .. Len(uplink')
          PROVE  uplink'[i].seg = server'.now_seg + i
      <4>1. uplink'[i] = uplink[i + 1] /\ i + 1 \in 1 .. Len(uplink)
        BY <2>1
      <4>2. uplink[i + 1].seg = server.now_seg + (i + 1)
        BY <3>1, <4>1
      <4>3. i \in Int /\ server.now_seg + (i + 1) = (server.now_seg + 1) + i
        BY <1>3
      <4> QED
        BY <3>2, <4>1, <4>2, <4>3
    <3> QED
      BY <3>3, <3>4
  <2> QED
    BY <2>1, <2>3, <2>4, <2>5 DEF UplinkInv
<1>12. DataInv'
  <2>1. data \in Seq(Segments) /\ NonDecreasing(data)
        /\ \A i \in 1 .. Len(data) : data[i] <= server.now_seg
    BY DEF IInv, DataInv
  <2>2. \A i \in 1 .. Len(data) : data[i] \in Int
    BY <2>1, SegCountAssumption DEF Segments
  <2>3. \A i \in 1 .. Len(data) : data[i] <= server'.now_seg
    BY <2>1, <2>2, <1>3, <1>5, <1>6, <1>8
  <2> QED
    BY <2>1, <2>3, <1>1 DEF DataInv, NonDecreasing
<1>13. ServerInv'
  BY <1>5, <1>6, <1>8, <1>10 DEF ServerInv
<1> QED
  BY <1>1, <1>10, <1>11, <1>12, <1>13 DEF IInv

\* A tick of the server keeps IInv.
LEMMA ScheduleTransmitIInv == IInv /\ ScheduleTransmitEvent => IInv'
<1> SUFFICES ASSUME IInv, ScheduleTransmitEvent PROVE IInv'
  OBVIOUS
<1> DEFINE s == [server EXCEPT !.ticks = server.ticks - 1]
<1>1. client \in Client /\ server \in Server
  BY DEF IInv, ClientInv, ServerInv
<1>2. s \in Server /\ s.now_seg = server.now_seg
  <2>1. server.ticks - 1 \in Nat
    BY <1>1 DEF ScheduleTransmitEvent, Server
  <2>2. ASSUME NEW k \in Nat
        PROVE  [server EXCEPT !.ticks = k] \in Server
               /\ [server EXCEPT !.ticks = k].now_seg = server.now_seg
    BY <1>1 DEF Server
  <2> QED
    BY <2>1, <2>2
<1>3. server' = ScheduleTransmit(s, client.T_play)
      /\ UNCHANGED <<client, uplink, data, T_start>>
  BY DEF ScheduleTransmitEvent
<1>4. client.T_play \in BOOLEAN
  BY <1>1 DEF Client
<1> HIDE DEF s
<1>5. server' \in Server /\ server'.now_seg = server.now_seg
  BY <1>2, <1>3, <1>4, ScheduleTransmitFacts
<1>6. server.now_seg >= 0
  BY <1>1 DEF IInv, ServerInv, ScheduleTransmitEvent, Server
<1>7. ServerInv'
  BY <1>3, <1>5, <1>6 DEF IInv, ServerInv
<1>8. UplinkInv' /\ DataInv'
  BY <1>3, <1>5 DEF IInv, UplinkInv, DataInv, NonDecreasing
<1> QED
  BY <1>3, <1>7, <1>8 DEF IInv, ClientInv, Live, Wired

\* A packet is stamped with the segment being answered, the newest so far.
LEMMA ServerSendIInv == IInv /\ ServerSendEvent => IInv'
<1> SUFFICES ASSUME IInv, ServerSendEvent PROVE IInv'
  OBVIOUS
<1>1. server \in Server /\ server.sends > 0
  BY DEF IInv, ServerInv, ServerSendEvent
<1>2. /\ server' = [server EXCEPT !.sends = server.sends - 1]
      /\ data' = Append(data, server.now_seg)
      /\ UNCHANGED <<client, uplink, T_start>>
  BY DEF ServerSendEvent
<1>3. server' \in Server /\ server'.now_seg = server.now_seg
  <2>1. server.sends - 1 \in Nat
    BY <1>1 DEF Server
  <2>2. ASSUME NEW k \in Nat
        PROVE  [server EXCEPT !.sends = k] \in Server
               /\ [server EXCEPT !.sends = k].now_seg = server.now_seg
    BY <1>1 DEF Server
  <2> QED
    BY <1>2, <2>1, <2>2
<1>4. server.now_seg \in Segments /\ server.now_seg >= 0
  <2>1. server.now_seg \in Segments \cup {-1}
    BY <1>1 DEF Server
  <2>2. server.now_seg >= 0
    BY <1>1 DEF IInv, ServerInv
  <2> QED
    BY <2>1, <2>2
<1>5. ServerInv'
  BY <1>2, <1>3, <1>4 DEF IInv, ServerInv
<1>6. DataInv'
  <2>1. data \in Seq(Segments) /\ Len(data) \in Nat
    BY DEF IInv, DataInv
  <2>2. /\ data' \in Seq(Segments)
        /\ Len(data') = Len(data) + 1
        /\ \A i \in 1 .. Len(data) : data'[i] = data[i]
        /\ data'[Len(data) + 1] = server.now_seg
    BY <1>2, <1>4, <2>1
  <2>3. /\ \A i, j \in 1 .. Len(data) : i < j => data[i] <= data[j]
        /\ \A i \in 1 .. Len(data) : data[i] <= server.now_seg
    BY DEF IInv, DataInv, NonDecreasing
  <2>4. \A i \in 1 .. Len(data') : i \in 1 .. Len(data) \/ i = Len(data) + 1
    BY <2>1, <2>2
  <2>5. server.now_seg \in Int
    BY <1>4, SegCountAssumption DEF Segments
  <2>6. ASSUME NEW i \in 1 .. Len(data')
        PROVE  data'[i] <= server'.now_seg
    BY <1>3, <2>2, <2>3, <2>4, <2>5
  <2>7. ASSUME NEW i \in 1 .. Len(data'), NEW j \in 1 .. Len(data'), i < j
        PROVE  data'[i] <= data'[j]
    <3>1. i \in 1 .. Len(data)
      BY <2>1, <2>2, <2>4, <2>7
    <3> QED
      BY <3>1, <2>2, <2>3, <2>4, <2>7
  <2> QED
    BY <2>2, <2>6, <2>7 DEF DataInv, NonDecreasing
<1>7. UplinkInv'
  BY <1>2, <1>3 DEF IInv, UplinkInv
<1> QED
  BY <1>2, <1>5, <1>6, <1>7 DEF IInv, ClientInv, Live, Wired

\* The environment: T_start, the MPEG player, and the network.
LEMMA SetTStartIInv == IInv /\ SetTStart => IInv'
BY DEF IInv, SetTStart, ClientInv, Live, Wired, UplinkInv, DataInv, NonDecreasing, ServerInv

\* An MPEG play, which sets T_play and takes the server's count, keeps IInv.
LEMMA MpegPlayIInv == IInv /\ MpegPlay => IInv'
<1> SUFFICES ASSUME IInv, MpegPlay PROVE IInv'
  OBVIOUS
<1>1. client \in Client /\ server \in Server
  BY DEF IInv, ClientInv, ServerInv
<1>2. /\ client' = [client EXCEPT !.T_play = TRUE]
      /\ server' = [server EXCEPT !.count_packet = 0]
      /\ UNCHANGED <<uplink, data, T_start>>
  BY DEF MpegPlay
<1>3. server' \in Server /\ server'.now_seg = server.now_seg
      /\ server'.sends = server.sends /\ server'.ticks = server.ticks
  BY <1>1, <1>2 DEF Server
<1>4. Flags(client, client') /\ client'.m_udpClient = client.m_udpClient
      /\ client'.outbox = client.outbox
  <2>1. client' \in Client
    BY <1>1, <1>2 DEF Client
  <2> QED
    BY <1>1, <1>2, <2>1 DEF Flags, Client
<1>5. ClientInv(client') /\ Wired(client') /\ client'.outbox = <<>>
      /\ client'.m_sent = client.m_sent /\ client'.m_queue = client.m_queue
  BY <1>4, FlagFacts DEF IInv, Wired, Flags
<1>6. UplinkInv' /\ DataInv' /\ ServerInv'
  BY <1>2, <1>3, <1>5 DEF IInv, UplinkInv, DataInv, NonDecreasing, ServerInv
<1> QED
  BY <1>2, <1>5, <1>6 DEF IInv

\* A lost request leaves a gap in the stamps, never a disorder.
LEMMA LoseRequestIInv == IInv /\ LoseRequest => IInv'
<1> SUFFICES ASSUME IInv, LoseRequest PROVE IInv'
  OBVIOUS
<1>1. /\ uplink \in Seq(Request) /\ uplink # <<>> /\ uplink' = Tail(uplink)
      /\ Lossy /\ UNCHANGED <<client, server, data, T_start>>
  BY DEF LoseRequest, IInv, UplinkInv
<1>2. /\ uplink' \in Seq(Request)
      /\ \A i \in 1 .. Len(uplink') : uplink'[i] = uplink[i + 1] /\ i + 1 \in 1 .. Len(uplink)
      /\ Len(uplink) \in Nat /\ Len(uplink') = Len(uplink) - 1
  BY <1>1
<1>3. /\ \A i, j \in 1 .. Len(uplink) : i < j => uplink[i].seg < uplink[j].seg
      /\ \A i \in 1 .. Len(uplink) :
           server.now_seg < uplink[i].seg /\ uplink[i].seg < client.m_sent
  BY DEF IInv, UplinkInv
<1>4. ASSUME NEW i \in 1 .. Len(uplink'), NEW j \in 1 .. Len(uplink'), i < j
      PROVE  uplink'[i].seg < uplink'[j].seg
  BY <1>2, <1>3, <1>4
<1>5. ASSUME NEW i \in 1 .. Len(uplink')
      PROVE  server.now_seg < uplink'[i].seg /\ uplink'[i].seg < client.m_sent
  BY <1>2, <1>3
<1>6. UplinkInv'
  BY <1>1, <1>2, <1>4, <1>5 DEF UplinkInv
<1> QED
  BY <1>1, <1>6 DEF IInv, ClientInv, Live, Wired, DataInv, NonDecreasing, ServerInv

\* A lost packet leaves the other packets in order.
LEMMA LoseDataIInv == IInv /\ LoseData => IInv'
<1> SUFFICES ASSUME IInv, LoseData PROVE IInv'
  OBVIOUS
<1>1. /\ data \in Seq(Segments) /\ data # <<>> /\ data' = Tail(data)
      /\ UNCHANGED <<client, server, uplink, T_start>>
  BY DEF LoseData, IInv, DataInv
<1>2. /\ data' \in Seq(Segments)
      /\ \A i \in 1 .. Len(data') : data'[i] = data[i + 1] /\ i + 1 \in 1 .. Len(data)
      /\ Len(data) \in Nat /\ Len(data') = Len(data) - 1
  BY <1>1
<1>3. /\ \A i, j \in 1 .. Len(data) : i < j => data[i] <= data[j]
      /\ \A i \in 1 .. Len(data) : data[i] <= server.now_seg
  BY DEF IInv, DataInv, NonDecreasing
<1>4. ASSUME NEW i \in 1 .. Len(data'), NEW j \in 1 .. Len(data'), i < j
      PROVE  data'[i] <= data'[j]
  BY <1>2, <1>3, <1>4
<1>5. DataInv'
  BY <1>1, <1>2, <1>3, <1>4 DEF DataInv, NonDecreasing
<1>6. ServerInv'
  BY <1>1 DEF IInv, ServerInv
<1> QED
  BY <1>1, <1>5, <1>6 DEF IInv, ClientInv, Live, Wired, UplinkInv

\* Every step, and every stutter, keeps IInv.
LEMMA NextIInv == IInv /\ [Next]_vars => IInv'
<1> SUFFICES ASSUME IInv, [Next]_vars PROVE IInv'
  OBVIOUS
<1>1. CASE UNCHANGED vars
  BY <1>1 DEF vars, IInv, ClientInv, Live, Wired, UplinkInv, DataInv, NonDecreasing, ServerInv
<1>2. CASE Next
  BY <1>2, StartApplicationIInv, CheckStartIInv, SendIInv, ClientHandleReadIInv,
     CallPlayerIInv, ServerHandleReadIInv, ScheduleTransmitIInv, ServerSendIInv,
     SetTStartIInv, MpegPlayIInv, LoseRequestIInv, LoseDataIInv DEF Next
<1> QED
  BY <1>1, <1>2

\* The inductive invariant holds throughout.
THEOREM Invariance == Spec => []IInv
BY InitIInv, NextIInv, PTL DEF Spec

\* The state of the stream has its types, count_packet and the counters
\* m_sent, v_num included, for every SegCount.
THEOREM TypeCorrect == Spec => []TypeOK
BY Invariance, IInvImplies, PTL

\* No handler of the client meets undefined behaviour or an assertion: not the
\* closed socket, not an index out of range, not the unset m_udpClient.
THEOREM NeverFaults == Spec => []NoFault
BY Invariance, IInvImplies, PTL

\* One request per segment played, and one ahead.
THEOREM Paced == Spec => []RequestsPacePlayback
BY Invariance, IInvImplies, PTL

\* No packet that was asked for drops out of the log's accounts.
THEOREM Accounted == Spec => []LossesAccounted
BY Invariance, IInvImplies, PTL

\* Requests and data travel in the order of their segments.
THEOREM Ordered == Spec => []StampsInOrder
BY Invariance, IInvImplies, PTL

\* What keeps the loss mark from outliving its request: it is only put up by a
\* segment played, so after the first request, and by the step that sends the
\* next one or closes the socket.
MarkInv ==
  client.loss_mark => client.m_sent > 0 /\ (uplink # <<>> \/ ~client.m_socket)

\* A handler of the client that puts the mark up also asks, or closes the socket.
LEMMA HandledMark ==
  ASSUME IInv, MarkInv, NEW d \in Client, NEW n \in PacketNums, Handled(d, n)
  PROVE  MarkInv'
<1>1. client \in Client /\ client.outbox = <<>> /\ uplink \in Seq(Request)
  BY DEF IInv, ClientInv, UplinkInv
<1>2. /\ client'.loss_mark = d.loss_mark /\ client'.m_sent = d.m_sent
      /\ client'.m_socket = d.m_socket /\ uplink' = uplink \o d.outbox
  BY DEF Handled, ClientDone, Client
<1>3. CASE Same(client, d)
  <2>1. uplink' = uplink
    BY <1>1, <1>2, <1>3 DEF Same
  <2> QED
    BY <1>2, <1>3, <2>1 DEF Same, MarkInv
<1>4. CASE Advance(client, d, n)
  <2> DEFINE r == [seg |-> client.m_sent, num |-> n]
  <2>1. client.m_sent \in Nat
    BY <1>1, SegCountAssumption DEF Client
  <2>2. r \in Request
    BY <2>1 DEF Request
  <2>3. d.outbox = Append(client.outbox, r) /\ d.m_sent = client.m_sent + 1
    BY <1>4 DEF Advance
  <2> HIDE DEF r
  <2>4. uplink' = uplink \o <<r>>
    BY SMTT(30), <2>3, <1>1, <1>2
  <2>5. Len(uplink') = Len(uplink) + 1 /\ Len(uplink) \in Nat
    BY <2>2, <2>4, <1>1
  <2>6. uplink' # <<>>
    BY <2>5
  <2> QED
    BY <2>1, <2>3, <2>6, <1>2 DEF MarkInv
<1>5. CASE Finish(client, d)
  BY <1>2, <1>5, SegCountAssumption DEF Finish, MarkInv
<1> QED
  BY <1>3, <1>4, <1>5 DEF Handled, Outcome

\* The start-up is over before the mark can be up: its last step asks.
LEMMA StartUpMark ==
  ASSUME IInv, MarkInv, StartApplicationEvent \/ CheckStartEvent \/ SendEvent
  PROVE  MarkInv'
<1>1. client \in Client /\ client.m_sent = 0
  BY DEF IInv, ClientInv, StartApplicationEvent, CheckStartEvent, SendEvent
<1>2. ~client.loss_mark
  BY <1>1 DEF MarkInv
<1>3. CASE StartApplicationEvent
  <2>1. client'.loss_mark = client.loss_mark
    BY <1>1, <1>3 DEF StartApplicationEvent, ClientDone, CheckStart, Client
  <2> QED
    BY <2>1, <1>2 DEF MarkInv
<1>4. CASE CheckStartEvent
  <2>1. client'.loss_mark = client.loss_mark
    BY <1>1, <1>4 DEF CheckStartEvent, ClientDone, CheckStart, Client
  <2> QED
    BY <2>1, <1>2 DEF MarkInv
<1>5. CASE SendEvent
  <2> DEFINE c == [client EXCEPT !.startup = "none"]
  <2>1. PICK n \in PacketNums : ClientDone(Send(c, n))
    BY <1>5 DEF SendEvent
  <2>2. c \in Client /\ c.startup = "none" /\ c.loss_mark = client.loss_mark
        /\ c.m_socket = client.m_socket /\ c.m_segmentId = client.m_segmentId
        /\ c.m_sent = 0
    BY <1>1 DEF Client, Startup
  <2>3. c.m_segmentId = 0 /\ c.m_socket
    BY <2>2, <1>1, <1>5 DEF IInv, ClientInv, SendEvent
  <2> HIDE DEF c
  <2>4. Send(c, n).loss_mark = c.loss_mark
    <3>1. c.m_segmentId \in Segments
      BY <2>3, SegCountAssumption DEF Segments
    <3> QED
      BY <3>1, <2>2, <2>3 DEF Send, Client
  <2>5. client'.loss_mark = Send(c, n).loss_mark
    <3>1. Send(c, n) \in Client
      <4>1. c.startup # "Send" /\ c.m_segmentId = c.m_sent /\ c.m_sent < SegCount
        BY <2>2, <2>3, SegCountAssumption
      <4> QED
        BY <4>1, <2>2, <2>3, SendFacts
    <3> QED
      BY <2>1, <3>1 DEF ClientDone, Client
  <2> QED
    BY <1>2, <2>2, <2>4, <2>5 DEF MarkInv
<1> QED
  BY <1>3, <1>4, <1>5

\* The arrival of a request takes the mark down; the other steps of the server,
\* the TCP half and, without losses, the network leave mark and request alone.
LEMMA QuietMark ==
  ASSUME ~Lossy, IInv, MarkInv,
         ServerHandleRead \/ ScheduleTransmitEvent \/ ServerSendEvent \/ SetTStart
           \/ MpegPlay \/ LoseRequest \/ LoseData
  PROVE  MarkInv'
<1>1. client \in Client
  BY DEF IInv, ClientInv
<1>2. CASE ServerHandleRead
  BY <1>1, <1>2 DEF ServerHandleRead, MarkInv, Client
<1>3. CASE MpegPlay
  BY <1>1, <1>3 DEF MpegPlay, MarkInv, Client
<1>4. CASE ScheduleTransmitEvent \/ ServerSendEvent \/ SetTStart \/ LoseRequest \/ LoseData
  BY <1>4 DEF ScheduleTransmitEvent, ServerSendEvent, SetTStart, LoseRequest, LoseData,
              MarkInv
<1> QED
  BY <1>2, <1>3, <1>4

\* Without losses every step keeps MarkInv.
LEMMA NextMark ==
  ASSUME ~Lossy
  PROVE  IInv /\ MarkInv /\ [Next]_vars => MarkInv'
<1> SUFFICES ASSUME IInv, MarkInv, [Next]_vars PROVE MarkInv'
  OBVIOUS
<1>1. CASE UNCHANGED vars
  BY <1>1 DEF vars, MarkInv
<1>2. CASE ClientHandleRead
  BY <1>2, ClientHandleReadHandled, HandledMark
<1>3. CASE CallPlayerEvent
  BY <1>3, CallPlayerHandled, HandledMark
<1>4. CASE StartApplicationEvent \/ CheckStartEvent \/ SendEvent
  BY <1>4, StartUpMark
<1>5. CASE ServerHandleRead \/ ScheduleTransmitEvent \/ ServerSendEvent \/ SetTStart
             \/ MpegPlay \/ LoseRequest \/ LoseData
  BY <1>5, QuietMark
<1> QED
  BY <1>1, <1>2, <1>3, <1>4, <1>5 DEF Next

\* The mark is down at the start, and what is kept of it is the property.
LEMMA InitMark == (Init => MarkInv) /\ (MarkInv => LossMarkHasRequest)
BY DEF Init, InitClient, MarkInv, LossMarkHasRequest

\* Without losses the loss mark, which makes PlayFrame return early, never
\* blocks the player for good: the request that clears it is on its way.
THEOREM MarkCleared ==
  ASSUME ~Lossy
  PROVE  Spec => []LossMarkHasRequest
<1>1. IInv /\ MarkInv /\ [Next]_vars => MarkInv'
  BY NextMark
<1> QED
  BY <1>1, InitMark, Invariance, PTL DEF Spec

-----------------------------------------------------------------------------
(* No packet is sent that nobody asked for.                                *)

\* What the requests of u promise, as a function to take the sums of.
Counts(u) == [i \in 1 .. Len(u) |-> u[i].num]

\* PromisedBy is the last of the partial sums of the requests' counts.
LEMMA PromisedSum ==
  ASSUME NEW u \in Seq(Request)
  PROVE  \E g : PartialSums(g, Counts(u), Len(u)) /\ g[Len(u)] = PromisedBy(u)
<1> DEFINE Solves(g) ==
             g = [i \in 0 .. Len(u) |-> IF i = 0 THEN 0 ELSE g[i - 1] + u[i].num]
           sum == CHOOSE g : Solves(g)
<1>1. \A i \in 1 .. Len(u) : Counts(u)[i] = u[i].num /\ u[i].num \in Int
  <2> SUFFICES ASSUME NEW i \in 1 .. Len(u)
               PROVE  Counts(u)[i] = u[i].num /\ u[i].num \in Int
    OBVIOUS
  <2>1. u[i] \in Request
    OBVIOUS
  <2>2. u[i].num \in PacketNums
    BY <2>1 DEF Request
  <2> QED BY <2>2, PacketCountNat DEF Counts
<1>2. PICK g : PartialSums(g, Counts(u), Len(u))
  <2> DEFINE h == Counts(u)
             N == Len(u)
  <2>1. N \in Nat /\ \A i \in 1 .. N : h[i] \in Int
    BY <1>1
  <2> HIDE DEF h, N
  <2>2. \E g : PartialSums(g, h, N)
    BY <2>1, PartialSumsExist
  <2> QED BY <2>2 DEF h, N
<1>3. Solves(g)
  <2>1. g = [i \in 0 .. Len(u) |-> IF i = 0 THEN 0 ELSE g[i - 1] + Counts(u)[i]]
    BY <1>2, PartialSumsSolve
  <2>2. ASSUME NEW i \in 0 .. Len(u)
        PROVE  (IF i = 0 THEN 0 ELSE g[i - 1] + Counts(u)[i])
                 = (IF i = 0 THEN 0 ELSE g[i - 1] + u[i].num)
    <3>1. i # 0 => i \in 1 .. Len(u)
      OBVIOUS
    <3> QED BY <3>1, <1>1, Zenon
  <2> QED BY <2>1, <2>2
<1>4. Solves(sum)
  BY <1>3
<1>5. PromisedBy(u) = sum[Len(u)]
  BY DEF PromisedBy
<1> HIDE DEF sum
<1>6. sum = [i \in 0 .. Len(u) |-> IF i = 0 THEN 0 ELSE sum[i - 1] + Counts(u)[i]]
  <2>1. ASSUME NEW i \in 0 .. Len(u)
        PROVE  (IF i = 0 THEN 0 ELSE sum[i - 1] + Counts(u)[i])
                 = (IF i = 0 THEN 0 ELSE sum[i - 1] + u[i].num)
    BY <1>1
  <2> QED BY <2>1, <1>4
<1>7. PartialSums(sum, Counts(u), Len(u))
  <2>1. Len(u) \in Nat /\ \A i \in 1 .. Len(u) : Counts(u)[i] \in Int
    BY <1>1
  <2> QED BY <2>1, <1>6, PartialSumsSolution
<1> QED BY <1>5, <1>7

\* Nothing is promised by no requests.
LEMMA PromisedNone == PromisedBy(<<>>) = 0
<1>1. <<>> \in Seq(Request) /\ Len(<<>>) = 0
  OBVIOUS
<1>2. PICK g : PartialSums(g, Counts(<<>>), 0) /\ g[0] = PromisedBy(<<>>)
  BY <1>1, PromisedSum
<1> QED BY <1>2 DEF PartialSums

\* Requests promise no negative number of packets.
LEMMA PromisedNat ==
  ASSUME NEW u \in Seq(Request)
  PROVE  PromisedBy(u) \in Nat
<1>1. PICK g : PartialSums(g, Counts(u), Len(u)) /\ g[Len(u)] = PromisedBy(u)
  BY PromisedSum
<1>2. \A i \in 1 .. Len(u) : Counts(u)[i] \in Nat
  <2> SUFFICES ASSUME NEW i \in 1 .. Len(u) PROVE Counts(u)[i] \in Nat
    OBVIOUS
  <2>1. u[i] \in Request
    OBVIOUS
  <2>2. u[i].num \in PacketNums
    BY <2>1 DEF Request
  <2> QED BY <2>2, PacketCountNat DEF Counts
<1>3. Len(u) \in Nat /\ Len(u) \in 0 .. Len(u)
  OBVIOUS
<1> QED BY <1>1, <1>2, <1>3, PartialSumsNat

\* A request sent adds its packets.
LEMMA PromisedAppend ==
  ASSUME NEW u \in Seq(Request), NEW r \in Request
  PROVE  PromisedBy(Append(u, r)) = PromisedBy(u) + r.num
<1> DEFINE v == Append(u, r)
           n == Len(u)
<1>1. v \in Seq(Request) /\ Len(v) = n + 1 /\ n \in Nat
  OBVIOUS
<1>2. PICK g : PartialSums(g, Counts(u), n) /\ g[n] = PromisedBy(u)
  BY PromisedSum
<1>3. PICK k : PartialSums(k, Counts(v), n + 1) /\ k[n + 1] = PromisedBy(v)
  BY <1>1, PromisedSum
<1>4. \A i \in 1 .. n : Counts(u)[i] = Counts(v)[i]
  BY DEF Counts
<1>5. Counts(v)[n + 1] = r.num
  BY DEF Counts
<1> HIDE DEF v, n
<1>6. g[n] = k[n]
  BY <1>1, <1>2, <1>3, <1>4, PartialSumsUnique
<1>7. k[n + 1] = k[n] + r.num
  <2>1. n + 1 \in 1 .. n + 1 /\ n + 1 - 1 = n
    BY <1>1
  <2> QED BY <2>1, <1>3, <1>5 DEF PartialSums
<1> QED BY <1>2, <1>3, <1>6, <1>7 DEF v

\* A request that arrives takes its packets from what is promised.
LEMMA PromisedTail ==
  ASSUME NEW u \in Seq(Request), u # <<>>
  PROVE  PromisedBy(u) = Head(u).num + PromisedBy(Tail(u))
<1> DEFINE v == Tail(u)
           n == Len(v)
<1>1. v \in Seq(Request) /\ Len(u) = n + 1 /\ n \in Nat
  OBVIOUS
<1>2. PICK g : PartialSums(g, Counts(u), n + 1) /\ g[n + 1] = PromisedBy(u)
  BY <1>1, PromisedSum
<1>3. PICK k : PartialSums(k, Counts(v), n) /\ k[n] = PromisedBy(v)
  BY <1>1, PromisedSum
<1> DEFINE l == [i \in 0 .. n |-> g[i + 1] - g[1]]
<1>4. \A i \in 1 .. n : Counts(v)[i] = Counts(u)[i + 1]
  BY DEF Counts
<1>5. Counts(u)[1] = Head(u).num /\ Head(u).num \in Int
  <2>1. Head(u) \in Request /\ Head(u) = u[1] /\ 1 \in 1 .. Len(u)
    OBVIOUS
  <2>2. Head(u).num \in PacketNums
    BY <2>1 DEF Request
  <2> QED BY <2>1, <2>2, PacketCountNat DEF Counts
<1> HIDE DEF v, n
<1>6. PartialSums(l, Counts(v), n)
  <2>1. \A i \in 0 .. n : g[i + 1] \in Int /\ g[1] \in Int
    BY <1>1, <1>2 DEF PartialSums
  <2>2. l \in [0 .. n -> Int] /\ l[0] = 0
    BY <1>1, <2>1
  <2>3. ASSUME NEW i \in 1 .. n PROVE l[i] = l[i - 1] + Counts(v)[i]
    <3>1. i + 1 \in 1 .. n + 1 /\ i - 1 \in 0 .. n /\ i \in 0 .. n
          /\ i + 1 - 1 = i /\ i - 1 + 1 = i
      BY <1>1
    <3>2. g[i + 1] = g[i] + Counts(u)[i + 1]
      BY <3>1, <1>2 DEF PartialSums
    <3>3. l[i] = g[i + 1] - g[1] /\ l[i - 1] = g[i] - g[1]
      BY <3>1
    <3>4. Counts(v)[i] = Counts(u)[i + 1]
      BY <1>4
    <3>5. g[i + 1] \in Int /\ g[i] \in Int /\ g[1] \in Int
      BY <2>1, <3>1, <1>2 DEF PartialSums
    <3>6. Counts(u)[i + 1] \in Int
      <4>1. Len(v) = n
        BY DEF n
      <4>2. v[i] \in Request
        BY <1>1, <4>1
      <4>3. v[i].num \in Int
        BY <4>2, PacketCountNat DEF Request
      <4> QED BY <4>1, <4>3, <3>4 DEF Counts
    <3> HIDE DEF l
    <3> QED BY <3>2, <3>3, <3>4, <3>5, <3>6
  <2> HIDE DEF l
  <2> QED BY <2>2, <2>3 DEF PartialSums
<1>7. l[n] = k[n]
  BY <1>1, <1>3, <1>6, PartialSumsUnique
<1>8. g[1] = Head(u).num
  <2>1. 1 \in 1 .. n + 1 /\ 1 - 1 = 0
    BY <1>1
  <2> QED BY <2>1, <1>2, <1>5 DEF PartialSums
<1>9. l[n] = g[n + 1] - g[1] /\ g[n + 1] \in Int
  BY <1>1, <1>2 DEF PartialSums
<1> QED BY <1>2, <1>3, <1>5, <1>7, <1>8, <1>9 DEF v

\* A record with the fields of a client and no bounds on its counters: every
\* call keeps these types, whatever the rest of the state is.
LooseClient ==
  [ m_socket : BOOLEAN, startup : Startup, m_segmentId : Nat, m_sent : Nat,
    udp_series : [Segments -> PacketNums \cup {0}], outbox : Seq(Request),
    p_num : Nat, calls : Nat, m_queue : Nat, v_num : Nat, m_udpClient : BOOLEAN,
    T_play : BOOLEAN, loss_mark : BOOLEAN, asked : Nat, received : Nat, lost : Nat,
    fault : Faults ]

\* What a call of the client does to its accounts of requests: the packets it
\* counts as asked for are those of the requests it hands to the socket.
Charged(c, d) ==
  /\ d \in LooseClient
  /\ d.p_num = c.p_num
  /\ d.asked - PromisedBy(d.outbox) = c.asked - PromisedBy(c.outbox)

\* A client's record has the types of a loose one.
LEMMA ClientIsLoose == ASSUME NEW c \in Client PROVE c \in LooseClient
BY SegCountAssumption DEF Client, LooseClient

\* A call that leaves the accounts alone charges nothing.
LEMMA UnchargedIsCharged ==
  ASSUME NEW c \in LooseClient, NEW d \in LooseClient, d.p_num = c.p_num,
         d.asked = c.asked, d.outbox = c.outbox
  PROVE  Charged(c, d)
BY DEF Charged

\* The charges of two calls add up.
LEMMA ChargedTransitive ==
  ASSUME NEW c, NEW d, NEW e, Charged(c, d), Charged(d, e)
  PROVE  Charged(c, e)
BY DEF Charged

\* DudpClient::Send charges the request it makes, or makes none.
LEMMA SendCharged ==
  ASSUME NEW c \in LooseClient, NEW n \in PacketNums
  PROVE  Charged(c, Send(c, n))
<1>1. c.outbox \in Seq(Request) /\ c.asked \in Nat /\ c.m_sent \in Nat /\ n \in Nat
      /\ c.m_segmentId \in Nat /\ c.udp_series \in [Segments -> PacketNums \cup {0}]
  BY PacketCountNat DEF LooseClient
<1>2. ASSUME NEW f \in Faults PROVE Charged(c, Fault(c, f))
  <2>1. /\ Fault(c, f) \in LooseClient /\ Fault(c, f).p_num = c.p_num
        /\ Fault(c, f).asked = c.asked /\ Fault(c, f).outbox = c.outbox
    BY DEF Fault, LooseClient
  <2> QED BY <2>1, UnchargedIsCharged
<1> DEFINE r == [seg |-> c.m_sent, num |-> n]
           series == [c.udp_series EXCEPT ![c.m_segmentId] = n]
           out == Append(c.outbox, r)
           a == c.asked + n
           k == c.m_segmentId + 1
           l == c.m_sent + 1
           sent == [c EXCEPT !.udp_series = series, !.outbox = out, !.asked = a,
                             !.m_segmentId = k, !.m_sent = l]
<1>3. r \in Request /\ r.num = n
  BY <1>1 DEF Request
<1>4. series \in [Segments -> PacketNums \cup {0}]
  BY <1>1
<1>5. Send(c, n) \in {Fault(c, "assert"), Fault(c, "index"), Fault(c, "socket"), sent}
  BY DEF Send
<1>6. {"assert", "index", "socket"} \subseteq Faults
  BY DEF Faults
<1> HIDE DEF r, series
<1>7. PromisedBy(out) = PromisedBy(c.outbox) + n /\ out \in Seq(Request)
  BY <1>1, <1>3, PromisedAppend
<1>8. PromisedBy(c.outbox) \in Nat
  BY <1>1, PromisedNat
<1>9. a \in Nat /\ k \in Nat /\ l \in Nat /\ a = c.asked + n
  BY <1>1
<1> HIDE DEF out, a, k, l
<1>10. /\ sent \in LooseClient /\ sent.p_num = c.p_num
      /\ sent.asked = a /\ sent.outbox = out
  BY <1>4, <1>7, <1>9 DEF LooseClient
<1>11. Charged(c, sent)
  BY <1>1, <1>7, <1>8, <1>10, <1>9 DEF Charged
<1> HIDE DEF sent
<1> QED BY <1>2, <1>5, <1>6, <1>11

\* UdpPlayer::PlayFrame charges what its call of Send does.
LEMMA PlayFrameCharged ==
  ASSUME NEW c \in LooseClient, NEW n \in PacketNums
  PROVE  Charged(c, PlayFrame(c, n))
<1> DEFINE missing == c.udp_series[c.v_num] - c.m_queue
           mark == c.loss_mark \/ missing > 0
           lost == c.lost + (IF missing > 0 THEN missing ELSE 0)
           popped == [c EXCEPT !.loss_mark = mark, !.lost = lost, !.m_queue = 0,
                               !.v_num = c.v_num + 1]
           stopped == StopApplication(popped)
<1>1. PopSegment(c) = popped
  BY DEF PopSegment
<1>2. Charged(c, c)
  BY UnchargedIsCharged
<1>3. ASSUME NEW f \in Faults PROVE Charged(c, Fault(c, f))
  <2>1. /\ Fault(c, f) \in LooseClient /\ Fault(c, f).p_num = c.p_num
        /\ Fault(c, f).asked = c.asked /\ Fault(c, f).outbox = c.outbox
    BY DEF Fault, LooseClient
  <2> QED BY <2>1, UnchargedIsCharged
<1>4. CASE c.v_num \notin Segments \/ PlayFrame(c, n) = c \/ ~c.m_udpClient
  <2>1. PlayFrame(c, n) \in {c, Fault(c, "index"), Fault(c, "udpClient")}
    BY <1>4 DEF PlayFrame
  <2>2. {"index", "udpClient"} \subseteq Faults
    BY DEF Faults
  <2> QED BY <1>2, <1>3, <2>1, <2>2
<1>5. CASE c.v_num \in Segments /\ PlayFrame(c, n) # c /\ c.m_udpClient
  <2>1. PlayFrame(c, n) = stopped \/ PlayFrame(c, n) = Send(popped, n)
    <3> HIDE DEF popped
    <3> QED BY <1>1, <1>5 DEF PlayFrame
  <2>2. mark \in BOOLEAN /\ c.v_num + 1 \in Nat
    BY DEF LooseClient
  <2>3. lost \in Nat
    <3>1. c.udp_series[c.v_num] \in PacketNums \cup {0}
      BY <1>5 DEF LooseClient
    <3>2. c.udp_series[c.v_num] \in Nat /\ c.lost \in Nat /\ c.m_queue \in Nat
      BY <3>1, PacketCountNat DEF LooseClient
    <3> QED BY <3>2
  <2> HIDE DEF mark, lost
  <2>4. /\ popped \in LooseClient /\ popped.p_num = c.p_num
        /\ popped.asked = c.asked /\ popped.outbox = c.outbox
    BY <2>2, <2>3 DEF LooseClient
  <2> HIDE DEF popped
  <2>5. Charged(c, popped)
    BY <2>4, UnchargedIsCharged
  <2>6. Charged(popped, Send(popped, n))
    BY <2>4, SendCharged
  <2>7. /\ stopped \in LooseClient /\ stopped.p_num = popped.p_num
        /\ stopped.asked = popped.asked /\ stopped.outbox = popped.outbox
    BY <2>4 DEF StopApplication, LooseClient, Startup
  <2> HIDE DEF stopped
  <2>8. Charged(popped, stopped)
    BY <2>4, <2>7, UnchargedIsCharged
  <2> QED BY <2>1, <2>5, <2>6, <2>8, ChargedTransitive
<1> QED BY <1>4, <1>5

\* DudpClient::CallPlayer and CheckPlay charge what PlayFrame does, and waking
\* the player charges nothing.
LEMMA PollCharged ==
  ASSUME NEW c \in LooseClient, NEW n \in PacketNums
  PROVE  /\ Charged(c, WakeupUdp(c))
         /\ Charged(c, CallPlayer(c, n))
         /\ Charged(c, CheckPlay(c, n))
<1>1. Charged(c, c)
  BY UnchargedIsCharged
<1>2. Charged(c, WakeupUdp(c))
  <2>1. /\ WakeupUdp(c) \in LooseClient /\ WakeupUdp(c).p_num = c.p_num
        /\ WakeupUdp(c).asked = c.asked /\ WakeupUdp(c).outbox = c.outbox
    BY DEF WakeupUdp, LooseClient
  <2> QED BY <2>1, UnchargedIsCharged
<1>3. Charged(c, CallPlayer(c, n))
  <2>1. CASE c.T_play
    <3>1. WakeupUdp(c) \in LooseClient
      BY <1>2 DEF Charged
    <3>2. Charged(WakeupUdp(c), PlayFrame(WakeupUdp(c), n))
      BY <3>1, PlayFrameCharged
    <3> QED BY <2>1, <1>2, <3>2, ChargedTransitive DEF CallPlayer
  <2>2. CASE ~c.T_play
    <3> DEFINE k == c.calls + 1
               d == [c EXCEPT !.calls = k]
    <3>1. k \in Nat
      BY DEF LooseClient
    <3> HIDE DEF k
    <3>2. d \in LooseClient /\ d.p_num = c.p_num /\ d.asked = c.asked /\ d.outbox = c.outbox
      BY <3>1 DEF LooseClient
    <3>3. CallPlayer(c, n) = d
      BY <2>2 DEF CallPlayer, k
    <3> HIDE DEF d
    <3> QED BY <3>2, <3>3, UnchargedIsCharged
  <2> QED BY <2>1, <2>2
<1>4. Charged(c, CheckPlay(c, n))
  <2> DEFINE p == PlayFrame(c, n)
             d == [p EXCEPT !.T_play = FALSE]
  <2>1. Charged(c, p)
    BY PlayFrameCharged
  <2>2. CheckPlay(c, n) = c \/ CheckPlay(c, n) = d
    BY DEF CheckPlay
  <2> HIDE DEF p
  <2>3. p \in LooseClient
    BY <2>1 DEF Charged
  <2>4. d \in LooseClient /\ d.p_num = p.p_num /\ d.asked = p.asked /\ d.outbox = p.outbox
    BY <2>3 DEF LooseClient
  <2> HIDE DEF d
  <2>5. Charged(p, d)
    BY <2>3, <2>4, UnchargedIsCharged
  <2> QED BY <1>1, <2>1, <2>2, <2>5, ChargedTransitive
<1> QED BY <1>2, <1>3, <1>4

\* The handler of a data packet counts it, and charges what it asks for.
LEMMA PacketReceiveCharged ==
  ASSUME NEW c \in LooseClient, NEW p_seg, NEW now_seg, NEW n \in PacketNums
  PROVE  Charged([c EXCEPT !.p_num = c.p_num + 1], PacketReceive(c, p_seg, now_seg, n))
<1> DEFINE k == c.p_num + 1
           counted == [c EXCEPT !.p_num = k]
           frame == ReceiveFrame(counted)
           taken == IF ~counted.T_play /\ now_seg = p_seg
                    THEN frame ELSE PlayFrame(counted, n)
           d == PacketReceive(c, p_seg, now_seg, n)
<1>1. k \in Nat
  BY DEF LooseClient
<1>2. counted \in LooseClient
  <2> HIDE DEF k
  <2> QED BY <1>1 DEF LooseClient
<1>3. \E e \in {Fault(taken, "index"), CheckPlay(taken, n), CallPlayer(taken, n)} :
        d = WakeupUdp(e)
  BY DEF PacketReceive, LooseClient
<1> HIDE DEF counted
<1>4. Charged(counted, frame)
  <2> DEFINE q == counted.m_queue + 1
             r == counted.received + 1
  <2>1. q \in Nat /\ r \in Nat
    <3>1. counted.m_queue \in Nat /\ counted.received \in Nat
      BY <1>2 DEF LooseClient
    <3> QED BY <3>1
  <2>2. frame = [counted EXCEPT !.m_queue = q, !.received = r]
    BY DEF ReceiveFrame
  <2> HIDE DEF q, r, frame
  <2>3. /\ frame \in LooseClient /\ frame.p_num = counted.p_num
        /\ frame.asked = counted.asked /\ frame.outbox = counted.outbox
    BY <1>2, <2>1, <2>2 DEF LooseClient
  <2> QED BY <1>2, <2>3, UnchargedIsCharged
<1>5. Charged(counted, taken)
  BY <1>2, <1>4, PlayFrameCharged
<1> HIDE DEF taken
<1>6. taken \in LooseClient
  BY <1>5 DEF Charged
<1>7. Charged(taken, Fault(taken, "index"))
  <2> DEFINE e == Fault(taken, "index")
  <2>1. e \in LooseClient /\ e.p_num = taken.p_num /\ e.asked = taken.asked
        /\ e.outbox = taken.outbox
    BY <1>6 DEF Fault, Faults, LooseClient
  <2> HIDE DEF e
  <2> QED BY <1>6, <2>1, UnchargedIsCharged DEF e
<1>8. PICK e : Charged(taken, e) /\ d = WakeupUdp(e)
  BY <1>3, <1>6, <1>7, PollCharged
<1>9. Charged(e, d)
  <2>1. e \in LooseClient
    BY <1>8 DEF Charged
  <2> QED BY <2>1, <1>8, PollCharged
<1>10. Charged(counted, d)
  BY <1>5, <1>8, <1>9, ChargedTransitive
<1> QED BY <1>10 DEF counted, k

\* What NoPacketUnasked adds up are natural numbers.
LEMMA UnaskedTypes ==
  ASSUME IInv
  PROVE  /\ client \in Client /\ client \in LooseClient /\ client.outbox = <<>>
         /\ server \in Server /\ uplink \in Seq(Request) /\ data \in Seq(Segments)
         /\ client.p_num \in Nat /\ client.asked \in Nat
         /\ server.sends \in Nat /\ server.ticks \in Nat
         /\ server.count_packet \in Int
         /\ PromisedBy(uplink) \in Nat /\ Len(data) \in Nat
<1>1. client \in Client /\ client.outbox = <<>> /\ server \in Server
      /\ uplink \in Seq(Request) /\ data \in Seq(Segments)
  BY DEF IInv, ClientInv, UplinkInv, DataInv, ServerInv
<1>2. PromisedBy(uplink) \in Nat
  BY <1>1, PromisedNat
<1>3. server.sends \in Nat /\ server.ticks \in Nat /\ server.count_packet \in Int
  BY <1>1 DEF Server
<1>4. client.p_num \in Nat /\ client.asked \in Nat
  BY <1>1 DEF Client
<1> QED BY <1>1, <1>2, <1>3, <1>4, ClientIsLoose

\* A handler of the client that ends in record d, by which it has charged what
\* it sends: what the uplink promises grows by what is asked for.
LEMMA ChargedUplink ==
  ASSUME IInv, NEW c \in LooseClient, c.outbox = <<>>, c.asked = client.asked,
         NEW d, Charged(c, d), Sent(client, d), ClientDone(d)
  PROVE  /\ client'.p_num = c.p_num
         /\ client'.asked - PromisedBy(uplink') = client.asked - PromisedBy(uplink)
<1>1. uplink \in Seq(Request) /\ client.m_sent \in Nat /\ client.asked \in Nat
  BY UnaskedTypes, SegCountAssumption DEF Client
<1>2. client'.p_num = c.p_num /\ client'.asked = d.asked /\ d.asked \in Nat
  BY DEF Charged, ClientDone, LooseClient
<1>3. d.asked = client.asked + PromisedBy(d.outbox)
  <2>1. d.outbox \in Seq(Request)
    BY DEF Charged, LooseClient
  <2>2. PromisedBy(d.outbox) \in Nat
    BY <2>1, PromisedNat
  <2> QED BY <1>1, <1>2, <2>2, PromisedNone DEF Charged
<1>4. PromisedBy(uplink) \in Nat
  BY <1>1, PromisedNat
<1>5. CASE d.outbox = <<>>
  <2>1. uplink' = uplink
    BY <1>1, <1>5 DEF ClientDone
  <2> QED BY <1>1, <1>2, <1>3, <1>4, <1>5, <2>1, PromisedNone
<1>6. CASE d.outbox # <<>>
  <2>1. PICK n \in PacketNums : d.outbox = <<[seg |-> client.m_sent, num |-> n]>>
    BY <1>6 DEF Sent
  <2> DEFINE r == [seg |-> client.m_sent, num |-> n]
  <2>2. r \in Request
    BY <1>1 DEF Request
  <2>3. d.outbox = <<r>> /\ Append(<<>>, r) = <<r>> /\ <<>> \in Seq(Request)
    BY <2>1
  <2>4. r.num \in Nat
    BY <2>2, PacketCountNat DEF Request
  <2> HIDE DEF r
  <2>5. uplink' = Append(uplink, r)
    <3>1. uplink \o <<r>> = Append(uplink, r)
      BY <1>1, <2>2
    <3> QED BY <3>1, <2>3 DEF ClientDone
  <2>6. PromisedBy(uplink') = PromisedBy(uplink) + r.num
    BY <1>1, <2>2, <2>5, PromisedAppend
  <2>7. PromisedBy(<<r>>) = PromisedBy(<<>>) + r.num
    BY <2>2, <2>3, PromisedAppend
  <2> QED BY <1>1, <1>2, <1>3, <1>4, <2>3, <2>4, <2>6, <2>7, PromisedNone
<1> QED BY <1>2, <1>5, <1>6

\* The handlers of the client: what they send is asked for, and a packet that
\* arrives is received instead of being on its way.
LEMMA ClientUnasked ==
  ASSUME IInv, NoPacketUnasked,
         StartApplicationEvent \/ CheckStartEvent \/ SendEvent \/ ClientHandleRead
           \/ CallPlayerEvent
  PROVE  NoPacketUnasked'
<1>1. /\ client \in Client /\ client \in LooseClient /\ client.outbox = <<>>
      /\ client.p_num \in Nat /\ client.asked \in Nat
      /\ server.sends \in Nat /\ server.count_packet \in Int
      /\ PromisedBy(uplink) \in Nat /\ Len(data) \in Nat
      /\ data \in Seq(Segments)
  BY UnaskedTypes
<1>2. PromisedBy(uplink') \in Nat /\ client'.asked \in Nat
  <2>1. IInv'
    BY StartApplicationIInv, CheckStartIInv, SendIInv, ClientHandleReadIInv, CallPlayerIInv
  <2>2. uplink' \in Seq(Request) /\ client' \in Client
    BY <2>1 DEF IInv, UplinkInv, ClientInv
  <2> QED BY <2>2, PromisedNat DEF Client
<1>3. ASSUME NEW c \in LooseClient, c.outbox = <<>>, c.asked = client.asked,
             c.p_num + Len(data') = client.p_num + Len(data), c.p_num \in Nat,
             NEW d, Charged(c, d), Sent(client, d), ClientDone(d), UNCHANGED server,
             data' \in Seq(Segments)
      PROVE  NoPacketUnasked'
  <2>1. /\ client'.p_num = c.p_num
        /\ client'.asked - PromisedBy(uplink') = client.asked - PromisedBy(uplink)
    BY <1>3, ChargedUplink
  <2>2. Len(data') \in Nat
    BY <1>3
  <2>3. client'.p_num + Len(data') = client.p_num + Len(data)
    BY <1>3, <2>1
  <2>4. client'.p_num \in Nat
    BY <1>3, <2>1
  <2> DEFINE owed(s) == IF s.count_packet > 0 THEN s.count_packet ELSE 0
  <2>5. owed(server) \in Nat /\ server' = server
    BY <1>1, <1>3
  <2>6. client.p_num + Len(data) + server.sends + PromisedBy(uplink) + owed(server)
          <= client.asked
    BY DEF NoPacketUnasked
  <2> HIDE DEF owed
  <2>7. /\ client.p_num \in Nat /\ client.asked \in Nat /\ server.sends \in Nat
        /\ PromisedBy(uplink) \in Nat /\ Len(data) \in Nat
    BY <1>1
  <2> DEFINE held == server.sends + owed(server)
  <2>8. held \in Nat /\ client.p_num + Len(data) + held + PromisedBy(uplink) <= client.asked
    BY <2>5, <2>6, <2>7
  <2> HIDE DEF held
  <2>9. client'.p_num + Len(data') + held <= client.asked - PromisedBy(uplink)
    BY <2>2, <2>3, <2>4, <2>7, <2>8
  <2>10. client'.p_num + Len(data') + held <= client'.asked - PromisedBy(uplink')
    BY <2>1, <2>9
  <2>11. client'.p_num + Len(data') + held + PromisedBy(uplink') <= client'.asked
    BY <1>2, <2>2, <2>4, <2>8, <2>10
  <2>12. client'.p_num + Len(data') + server.sends + PromisedBy(uplink') + owed(server)
          <= client'.asked
    BY <1>2, <2>2, <2>4, <2>5, <2>7, <2>11 DEF held
  <2> QED BY <2>5, <2>12 DEF NoPacketUnasked, owed
<1>4. CASE StartApplicationEvent \/ CheckStartEvent
  <2> DEFINE opened == [client EXCEPT !.m_socket = TRUE]
  <2>1. \E c \in {opened, client} : ClientDone(CheckStart(c)) /\ UNCHANGED <<server, data>>
    BY <1>4 DEF StartApplicationEvent, CheckStartEvent
  <2>2. PICK c \in {opened, client} : ClientDone(CheckStart(c)) /\ UNCHANGED <<server, data>>
    BY <2>1
  <2>3. /\ c \in Client /\ c.outbox = <<>> /\ c.asked = client.asked
        /\ c.p_num = client.p_num /\ c.m_sent = client.m_sent
    BY <1>1 DEF Client
  <2> HIDE DEF opened
  <2>4. /\ CheckStart(c) \in Client /\ CheckStart(c).outbox = <<>>
        /\ CheckStart(c).asked = c.asked /\ CheckStart(c).p_num = c.p_num
        /\ CheckStart(c).m_sent = client.m_sent
    BY <2>3 DEF CheckStart, Client, Startup
  <2>5. Charged(c, CheckStart(c))
    BY <2>3, <2>4, ClientIsLoose, UnchargedIsCharged
  <2>6. Sent(client, CheckStart(c))
    BY <2>4 DEF Sent
  <2>7. c \in LooseClient /\ c.p_num + Len(data') = client.p_num + Len(data)
        /\ data' \in Seq(Segments)
    BY <1>1, <2>2, <2>3, ClientIsLoose
  <2> QED BY <1>1, <1>3, <2>2, <2>3, <2>5, <2>6, <2>7
<1>5. CASE SendEvent
  <2> DEFINE c == [client EXCEPT !.startup = "none"]
  <2>1. PICK n \in PacketNums : ClientDone(Send(c, n))
    BY <1>5 DEF SendEvent
  <2>2. c \in Client /\ c.outbox = <<>> /\ c.asked = client.asked
        /\ c.p_num = client.p_num /\ c.m_sent = client.m_sent
        /\ c.startup = "none" /\ c.m_socket = client.m_socket
        /\ c.m_segmentId = client.m_segmentId
    BY <1>1 DEF Client, Startup
  <2> HIDE DEF c
  <2>3. Charged(c, Send(c, n)) /\ c \in LooseClient
    BY <2>2, ClientIsLoose, SendCharged
  <2>4. client.m_sent = 0 /\ client.m_segmentId = 0 /\ client.m_socket
    BY <1>5 DEF SendEvent, IInv, ClientInv
  <2>5. /\ Send(c, n).outbox = Append(c.outbox, [seg |-> c.m_sent, num |-> n])
        /\ Send(c, n).m_sent = c.m_sent + 1
    <3>1. /\ c \in Client /\ n \in PacketNums /\ c.startup # "Send" /\ c.m_socket
          /\ c.m_segmentId = c.m_sent /\ c.m_sent < SegCount
      BY <2>2, <2>4, SegCountAssumption
    <3> QED BY <3>1, SendFacts
  <2>6. Sent(client, Send(c, n))
    <3>1. Append(<<>>, [seg |-> client.m_sent, num |-> n])
            = <<[seg |-> client.m_sent, num |-> n]>>
      OBVIOUS
    <3> QED BY <3>1, <2>2, <2>5 DEF Sent
  <2>7. UNCHANGED <<server, data>>
    BY <1>5 DEF SendEvent
  <2>8. c.p_num + Len(data') = client.p_num + Len(data) /\ data' \in Seq(Segments)
    BY <1>1, <2>2, <2>7
  <2> QED BY <1>1, <1>3, <2>1, <2>2, <2>3, <2>6, <2>7, <2>8
<1>6. CASE ClientHandleRead
  <2> DEFINE c == [client EXCEPT !.p_num = client.p_num + 1]
  <2>1. PICK n \in PacketNums :
          ClientDone(PacketReceive(client, Head(data), server.now_seg, n))
    BY <1>6 DEF ClientHandleRead
  <2> DEFINE d == PacketReceive(client, Head(data), server.now_seg, n)
  <2>2. Charged(c, d)
    BY <1>1, PacketReceiveCharged
  <2>3. Sent(client, d)
    <3>1. client.m_sent > 0
      <4>1. client.m_sent \in Int /\ server.now_seg \in Int
        BY UnaskedTypes, SegCountAssumption DEF Client, Server, Segments
      <4> QED BY <4>1, <1>6 DEF IInv, ServerInv, ClientHandleRead
    <3>2. ClientInv(d) /\ Outcome(client, d, n)
      BY <3>1, <1>6, PacketReceiveFacts DEF IInv, ClientHandleRead
    <3> HIDE DEF d
    <3> QED BY <1>1, <3>2, OutcomeSent
  <2> HIDE DEF d
  <2>4. client.p_num + 1 \in Nat
    BY <1>1
  <2>5. c \in LooseClient /\ c.outbox = <<>> /\ c.asked = client.asked
        /\ c.p_num = client.p_num + 1
    BY <1>1, <2>4 DEF LooseClient
  <2> HIDE DEF c
  <2>6. data # <<>> /\ data' = Tail(data) /\ UNCHANGED server
    BY <1>6 DEF ClientHandleRead
  <2>7. Len(data') = Len(data) - 1 /\ data' \in Seq(Segments)
    BY <1>1, <2>6
  <2>8. c.p_num + Len(data') = client.p_num + Len(data) /\ c.p_num \in Nat
    <3>1. \A a, b \in Nat : a + 1 \in Nat /\ (a + 1) + (b - 1) = a + b
      OBVIOUS
    <3>2. client.p_num \in Nat /\ Len(data) \in Nat
      BY <1>1
    <3> QED BY <3>1, <3>2, <2>5, <2>7
  <2>9. ClientDone(d)
    BY <2>1 DEF d
  <2> QED BY <1>3, <2>2, <2>3, <2>5, <2>6, <2>7, <2>8, <2>9
<1>7. CASE CallPlayerEvent
  <2> DEFINE k == client.calls - 1
             c == [client EXCEPT !.calls = k]
  <2>1. PICK n \in PacketNums : ClientDone(CallPlayer(c, n))
    BY <1>7 DEF CallPlayerEvent
  <2>2. k \in Nat
    BY <1>1, <1>7 DEF CallPlayerEvent, Client
  <2> HIDE DEF k
  <2>3. c \in LooseClient /\ c.outbox = <<>> /\ c.asked = client.asked
        /\ c.p_num = client.p_num
    BY <1>1, <2>2 DEF LooseClient
  <2> HIDE DEF c
  <2>4. Charged(c, CallPlayer(c, n))
    BY <2>3, PollCharged
  <2>5. Sent(client, CallPlayer(c, n))
    <3>1. c \in Client /\ Flags(client, c) /\ c.m_udpClient = client.m_udpClient
          /\ c.m_sent = client.m_sent
      BY <1>1, <2>2 DEF Flags, Client, c
    <3>2. ClientInv(c) /\ Wired(c)
      BY <3>1, FlagFacts DEF IInv, Wired, Flags
    <3>3. CASE c.T_play
      <4> DEFINE d == PlayFrame(WakeupUdp(c), n)
      <4>1. Outcome(c, d, n)
        BY <3>2, PlayAfterWakeup
      <4> HIDE DEF d
      <4>2. Sent(c, d)
        BY <2>3, <4>1, OutcomeSent
      <4> QED BY <3>1, <3>3, <4>2 DEF Sent, CallPlayer, d
    <3>4. CASE ~c.T_play
      <4>1. CallPlayer(c, n).outbox = c.outbox /\ CallPlayer(c, n).m_sent = c.m_sent
        BY <3>1, <3>4 DEF CallPlayer, Client
      <4> QED BY <2>3, <3>1, <4>1 DEF Sent
    <3> QED BY <3>3, <3>4
  <2>6. UNCHANGED <<server, data>>
    BY <1>7 DEF CallPlayerEvent
  <2>7. c.p_num + Len(data') = client.p_num + Len(data) /\ data' \in Seq(Segments)
    BY <1>1, <2>3, <2>6
  <2> QED BY <1>1, <1>3, <2>1, <2>3, <2>4, <2>5, <2>6, <2>7
<1> QED BY <1>4, <1>5, <1>6, <1>7

\* The server, the TCP half and the network: a request that arrives makes room
\* for its packets, and every packet sent was owed.
LEMMA ServerUnasked ==
  ASSUME IInv, NoPacketUnasked,
         ServerHandleRead \/ ScheduleTransmitEvent \/ ServerSendEvent \/ SetTStart
           \/ MpegPlay \/ LoseRequest \/ LoseData
  PROVE  NoPacketUnasked'
<1> DEFINE owed(s) == IF s.count_packet > 0 THEN s.count_packet ELSE 0
<1>1. /\ client \in Client /\ server \in Server /\ uplink \in Seq(Request)
      /\ data \in Seq(Segments)
      /\ client.p_num \in Nat /\ client.asked \in Nat
      /\ server.sends \in Nat /\ server.ticks \in Nat /\ server.count_packet \in Int
      /\ PromisedBy(uplink) \in Nat /\ Len(data) \in Nat /\ owed(server) \in Nat
      /\ client.p_num + Len(data) + server.sends + PromisedBy(uplink) + owed(server)
           <= client.asked
  BY UnaskedTypes DEF NoPacketUnasked
<1>2. /\ client.p_num \in Nat /\ client.asked \in Nat /\ server.sends \in Nat
      /\ PromisedBy(uplink) \in Nat /\ Len(data) \in Nat /\ owed(server) \in Nat
      /\ client.p_num + Len(data) + server.sends + PromisedBy(uplink) + owed(server)
           <= client.asked
  BY <1>1
<1> DEFINE p == client.p_num
           l == Len(data)
           x == server.sends
           y == PromisedBy(uplink)
           z == owed(server)
           m == client.asked
<1>11. /\ p \in Nat /\ l \in Nat /\ x \in Nat /\ y \in Nat /\ z \in Nat /\ m \in Nat
       /\ p + l + x + y + z <= m
  BY <1>2
<1> HIDE DEF p, l, x, y, z, m
<1>3. ASSUME uplink # <<>>
      PROVE  /\ Tail(uplink) \in Seq(Request) /\ PromisedBy(Tail(uplink)) \in Nat
             /\ Head(uplink).num \in Nat \ {0} /\ Head(uplink).seg \in Nat
             /\ PromisedBy(uplink) = Head(uplink).num + PromisedBy(Tail(uplink))
  <2>1. Head(uplink) \in Request /\ Tail(uplink) \in Seq(Request)
    BY <1>1, <1>3
  <2>2. Head(uplink).num \in Nat \ {0} /\ Head(uplink).seg \in Nat
    BY <2>1, PacketNumsAssumption DEF Request
  <2> QED BY <1>1, <1>3, <2>1, <2>2, PromisedNat, PromisedTail
<1>4. CASE ServerHandleRead
  <2> DEFINE r == Head(uplink)
             s == [server EXCEPT !.count_packet = r.num, !.now_seg = r.seg]
  <2>1. uplink # <<>> /\ uplink' = Tail(uplink) /\ data' = data
        /\ client' = [client EXCEPT !.T_play = FALSE, !.loss_mark = FALSE]
        /\ server' = ScheduleTransmit(s, FALSE)
    BY <1>4 DEF ServerHandleRead
  <2>2. r.num \in Nat \ {0} /\ PromisedBy(uplink) = r.num + PromisedBy(uplink')
        /\ PromisedBy(uplink') \in Nat
    BY <1>3, <2>1
  <2>3. s.count_packet = r.num /\ s.sends = server.sends
    BY <1>1 DEF Server
  <2>4. server' = [s EXCEPT !.count_packet = @ - 1, !.sends = @ + 1, !.ticks = @ + 1]
    <3> HIDE DEF s
    <3> QED BY <2>1, <2>2, <2>3 DEF ScheduleTransmit
  <2>5. server'.count_packet = r.num - 1 /\ server'.sends = server.sends + 1
    BY <2>3, <2>4, <1>1 DEF Server
  <2>6. client'.p_num = client.p_num /\ client'.asked = client.asked
    BY <1>1, <2>1 DEF Client
  <2>7. server'.sends + owed(server') = server.sends + r.num
        /\ server'.sends \in Nat /\ owed(server') \in Nat
    <3> HIDE DEF r
    <3>1. r.num \in Nat /\ r.num > 0 /\ server.sends \in Nat
      BY <1>2, <2>2
    <3> QED BY <3>1, <2>5
  <2>8. Len(data') = Len(data) /\ r.num \in Nat
    BY <2>1, <2>2
  <2> DEFINE n == r.num
             x2 == server'.sends
             y2 == PromisedBy(uplink')
             z2 == owed(server')
  <2>9. /\ x2 + z2 = x + n /\ y = n + y2
        /\ n \in Nat /\ x2 \in Nat /\ y2 \in Nat /\ z2 \in Nat
    <3> HIDE DEF owed, r
    <3> QED BY <2>2, <2>7, <2>8 DEF x, y
  <2> HIDE DEF owed, r, n, x2, y2, z2
  <2>10. p + l + x2 + y2 + z2 <= m
    BY <1>11, <2>9
  <2> QED BY <2>6, <2>8, <2>10 DEF NoPacketUnasked, owed, p, l, m, x2, y2, z2
<1>5. CASE ScheduleTransmitEvent
  <2> DEFINE k == server.ticks - 1
             s == [server EXCEPT !.ticks = k]
  <2>1. UNCHANGED <<client, uplink, data>> /\ server' = ScheduleTransmit(s, client.T_play)
    BY <1>5 DEF ScheduleTransmitEvent
  <2>2. s.count_packet = server.count_packet /\ s.sends = server.sends
    BY <1>1 DEF Server
  <2>3. \/ /\ server.count_packet > 0
           /\ server' = [s EXCEPT !.count_packet = @ - 1, !.sends = @ + 1, !.ticks = @ + 1]
        \/ server' = [s EXCEPT !.count_packet = -1]
    <3> HIDE DEF s
    <3> QED BY <1>1, <2>1, <2>2 DEF ScheduleTransmit
  <2>4. \/ /\ server.count_packet > 0
           /\ server'.count_packet = server.count_packet - 1
           /\ server'.sends = server.sends + 1
        \/ server'.count_packet = -1 /\ server'.sends = server.sends
    BY <1>1, <2>2, <2>3 DEF Server
  <2> DEFINE x2 == server'.sends
             z2 == owed(server')
  <2>5. x2 + z2 <= x + z /\ x2 \in Nat /\ z2 \in Nat
    <3> DEFINE c == server.count_packet
               c2 == server'.count_packet
    <3>1. c \in Int /\ x \in Nat
      BY <1>1 DEF x
    <3>2. \/ c > 0 /\ c2 = c - 1 /\ x2 = x + 1
          \/ c2 = -1 /\ x2 = x
      BY <2>4, Zenon DEF x
    <3>3. z = (IF c > 0 THEN c ELSE 0) /\ z2 = (IF c2 > 0 THEN c2 ELSE 0)
      BY DEF z
    <3> HIDE DEF c, c2, x2, z2
    <3> QED BY <3>1, <3>2, <3>3
  <2> HIDE DEF owed, x2, z2
  <2>6. client' = client /\ Len(data') = Len(data) /\ PromisedBy(uplink') = PromisedBy(uplink)
    BY <2>1
  <2>7. p + l + x2 + y + z2 <= m
    BY <1>11, <2>5
  <2> QED BY <2>6, <2>7 DEF NoPacketUnasked, owed, p, l, y, m, x2, z2
<1>6. CASE ServerSendEvent
  <2>1. UNCHANGED <<client, uplink>> /\ server' = [server EXCEPT !.sends = @ - 1]
        /\ data' = Append(data, server.now_seg) /\ server.sends > 0
    BY <1>6 DEF ServerSendEvent
  <2>2. Len(data') = Len(data) + 1
    BY <1>1, <2>1
  <2>3. server'.sends = server.sends - 1 /\ server'.count_packet = server.count_packet
    BY <1>1, <2>1 DEF Server
  <2>4. owed(server') = owed(server) /\ client' = client
        /\ PromisedBy(uplink') = PromisedBy(uplink)
    BY <2>1, <2>3
  <2>5. p + (l + 1) + (x - 1) + y + z <= m
    BY <1>11
  <2> HIDE DEF owed
  <2> QED BY <2>2, <2>3, <2>4, <2>5 DEF NoPacketUnasked, owed, p, l, x, y, z, m
<1>7. CASE SetTStart
  BY <1>7 DEF SetTStart, NoPacketUnasked
<1>8. CASE MpegPlay
  <2>1. UNCHANGED <<uplink, data>> /\ client' = [client EXCEPT !.T_play = TRUE]
        /\ server' = [server EXCEPT !.count_packet = 0]
    BY <1>8 DEF MpegPlay
  <2>2. client'.p_num = client.p_num /\ client'.asked = client.asked
        /\ server'.sends = server.sends /\ server'.count_packet = 0
    BY <1>1, <2>1 DEF Client, Server
  <2>3. p + l + x + y + 0 <= m
    BY <1>11
  <2> HIDE DEF owed
  <2> QED BY <2>1, <2>2, <2>3 DEF NoPacketUnasked, p, l, x, y, m
<1>9. CASE LoseRequest
  <2>1. UNCHANGED <<client, server, data>> /\ uplink # <<>> /\ uplink' = Tail(uplink)
    BY <1>9 DEF LoseRequest
  <2> DEFINE y2 == PromisedBy(uplink')
  <2>2. y2 <= y /\ y2 \in Nat
    BY <1>1, <1>3, <2>1 DEF y
  <2> HIDE DEF owed, y2
  <2>3. p + l + x + y2 + z <= m
    BY <1>11, <2>2
  <2> QED BY <2>1, <2>3 DEF NoPacketUnasked, owed, p, l, x, z, m, y2
<1>10. CASE LoseData
  <2>1. UNCHANGED <<client, server, uplink>> /\ data # <<>> /\ data' = Tail(data)
    BY <1>10 DEF LoseData
  <2> DEFINE l2 == Len(data')
  <2>2. l2 = l - 1 /\ l2 \in Nat
    BY <1>1, <2>1 DEF l
  <2> HIDE DEF owed, l2
  <2>3. p + l2 + x + y + z <= m
    BY <1>11, <2>2
  <2> QED BY <2>1, <2>3 DEF NoPacketUnasked, owed, p, x, y, z, m, l2
<1> QED BY <1>4, <1>5, <1>6, <1>7, <1>8, <1>9, <1>10

\* At the start nobody has asked and nothing is there.
LEMMA InitUnasked == Init => NoPacketUnasked
<1> SUFFICES ASSUME Init PROVE NoPacketUnasked
  OBVIOUS
<1>1. client.p_num = 0 /\ client.asked = 0 /\ server.sends = 0 /\ server.count_packet = 0
      /\ uplink = <<>> /\ Len(data) = 0
  BY DEF Init, InitClient, InitServer
<1> QED BY <1>1, PromisedNone DEF NoPacketUnasked

\* No step makes a packet that nobody asked for.
LEMMA NextUnasked == IInv /\ NoPacketUnasked /\ [Next]_vars => NoPacketUnasked'
<1> SUFFICES ASSUME IInv, NoPacketUnasked, [Next]_vars PROVE NoPacketUnasked'
  OBVIOUS
<1>1. CASE UNCHANGED vars
  BY <1>1 DEF vars, NoPacketUnasked
<1>2. CASE Next
  BY <1>2, ClientUnasked, ServerUnasked DEF Next
<1> QED BY <1>1, <1>2

\* Overlapping chains of ticks never make a packet that was not asked for: all
\* packets received, on the link, owed and still requested are within the count
\* of those the client asked for.
THEOREM Unasked == Spec => []NoPacketUnasked
BY InitUnasked, NextUnasked, Invariance, PTL DEF Spec

-----------------------------------------------------------------------------
(* Every step is a step of the pull protocol, or none.                     *)

\* What a step of the pull protocol sees of the state.
Progress == <<client.m_socket, client.m_sent, server.now_seg, client.v_num>>

\* A step that leaves the progress alone is a stutter of the pull protocol.
LEMMA StutterPull == UNCHANGED Progress => [Pull!Next]_(Pull!pullVars)
BY DEF Progress, Pull!pullVars

\* The record a handler ends in is the client's, but for the outbox.
LEMMA ClientDoneProgress ==
  ASSUME NEW d \in Client, ClientDone(d)
  PROVE  client'.m_socket = d.m_socket /\ client'.m_sent = d.m_sent
         /\ client'.v_num = d.v_num
BY DEF ClientDone, Client

\* A played segment is PlayAndAsk or PlayLast; the server has answered before,
\* or the queue would be empty.
LEMMA HandledPull ==
  ASSUME IInv, NEW d \in Client, NEW n \in PacketNums, Handled(d, n), server' = server
  PROVE  [Pull!Next]_(Pull!pullVars)
<1>1. client'.m_socket = d.m_socket /\ client'.m_sent = d.m_sent /\ client'.v_num = d.v_num
  BY ClientDoneProgress DEF Handled
<1>2. client.m_queue > 0 => server.now_seg + 1 > 0
  <2>1. server.now_seg \in Int
    BY SegCountAssumption DEF IInv, ServerInv, Server, Segments
  <2> QED
    BY <2>1 DEF IInv, ServerInv
<1>3. CASE Same(client, d)
  BY <1>1, <1>3, StutterPull DEF Same, Progress
<1>4. CASE Advance(client, d, n)
  <2>1. Pull!PlayAndAsk
    BY <1>1, <1>2, <1>4 DEF Advance, Pull!PlayAndAsk
  <2> QED
    BY <2>1 DEF Pull!Next
<1>5. CASE Finish(client, d)
  <2>1. Pull!PlayLast
    BY <1>1, <1>2, <1>5 DEF Finish, Pull!PlayLast
  <2> QED
    BY <2>1 DEF Pull!Next
<1> QED
  BY <1>3, <1>4, <1>5 DEF Handled, Outcome

\* StartApplication opens the protocol.
LEMMA StartApplicationPull ==
  IInv /\ StartApplicationEvent => [Pull!Next]_(Pull!pullVars)
<1> SUFFICES ASSUME IInv, StartApplicationEvent PROVE [Pull!Next]_(Pull!pullVars)
  OBVIOUS
<1> DEFINE d == CheckStart([client EXCEPT !.m_socket = TRUE])
<1>1. client \in Client /\ client.m_sent = 0 /\ client.m_socket \in BOOLEAN
  BY DEF IInv, ClientInv, StartApplicationEvent, Client
<1>2. /\ d \in Client /\ d.m_socket = TRUE
      /\ d.m_sent = client.m_sent /\ d.v_num = client.v_num
  BY <1>1 DEF CheckStart, Client, Startup
<1>3. ClientDone(d) /\ server' = server
  BY DEF StartApplicationEvent
<1> HIDE DEF d
<1>4. client'.m_socket = TRUE /\ client'.m_sent = client.m_sent
      /\ client'.v_num = client.v_num
  BY <1>2, <1>3, ClientDoneProgress
<1>5. CASE client.m_socket
  BY <1>1, <1>3, <1>4, <1>5, StutterPull DEF Progress
<1>6. CASE ~client.m_socket
  <2>1. Pull!Open
    BY <1>1, <1>3, <1>4, <1>6 DEF Pull!Open
  <2> QED
    BY <2>1 DEF Pull!Next
<1> QED
  BY <1>1, <1>5, <1>6

\* The start-up timer shows nothing of the protocol.
LEMMA CheckStartPull == IInv /\ CheckStartEvent => [Pull!Next]_(Pull!pullVars)
<1> SUFFICES ASSUME IInv, CheckStartEvent PROVE [Pull!Next]_(Pull!pullVars)
  OBVIOUS
<1> DEFINE d == CheckStart(client)
<1>1. /\ d \in Client /\ d.m_socket = client.m_socket
      /\ d.m_sent = client.m_sent /\ d.v_num = client.v_num
  BY DEF CheckStart, Client, Startup, IInv, ClientInv
<1>2. ClientDone(d) /\ server' = server
  BY DEF CheckStartEvent
<1> HIDE DEF d
<1> QED
  BY <1>1, <1>2, ClientDoneProgress, StutterPull DEF Progress

\* The first Send asks for the first segment.
LEMMA SendPull == IInv /\ SendEvent => [Pull!Next]_(Pull!pullVars)
<1> SUFFICES ASSUME IInv, SendEvent PROVE [Pull!Next]_(Pull!pullVars)
  OBVIOUS
<1>1. PICK n \in PacketNums : ClientDone(Send([client EXCEPT !.startup = "none"], n))
  BY DEF SendEvent
<1> DEFINE c == [client EXCEPT !.startup = "none"]
           d == Send(c, n)
<1>2. client \in Client /\ client.m_socket /\ client.m_sent = 0 /\ client.m_segmentId = 0
  BY DEF IInv, ClientInv, SendEvent
<1>3. c \in Client /\ c.startup = "none" /\ c.m_socket /\ c.m_sent = 0
      /\ c.m_segmentId = 0 /\ c.v_num = client.v_num
  BY <1>2 DEF Client, Startup
<1>4. ClientDone(d) /\ server' = server
  BY <1>1 DEF SendEvent
<1> HIDE DEF c
<1>5. d \in Client /\ d.m_socket /\ d.m_sent = 1 /\ d.v_num = client.v_num
  <2>1. c.startup # "Send" /\ c.m_segmentId = c.m_sent /\ c.m_sent < SegCount
    BY <1>3, SegCountAssumption
  <2>2. d \in Client /\ d.m_sent = c.m_sent + 1 /\ d.m_socket = c.m_socket
        /\ d.v_num = c.v_num
    BY <1>3, <2>1, SendFacts
  <2> QED
    BY <1>3, <2>2
<1>6. d.m_socket = TRUE /\ client.m_socket = TRUE
  BY <1>2, <1>5 DEF Client
<1> HIDE DEF d
<1>7. client'.m_socket = client.m_socket /\ client'.m_sent = 1
      /\ client'.v_num = client.v_num
  BY <1>4, <1>5, <1>6, ClientDoneProgress
<1>8. Pull!AskFirst
  BY <1>2, <1>4, <1>7 DEF Pull!AskFirst
<1> QED
  BY <1>8 DEF Pull!Next

\* The oldest request is newer than the answer before it, and without losses
\* it is the next one.
LEMMA ServerHandleReadPull == IInv /\ ServerHandleRead => Pull!Answer
<1> SUFFICES ASSUME IInv, ServerHandleRead PROVE Pull!Answer
  OBVIOUS
<1> DEFINE r == Head(uplink)
           s == [server EXCEPT !.count_packet = r.num, !.now_seg = r.seg]
<1>1. client \in Client /\ server \in Server /\ server' \in Server
  <2>1. IInv'
    BY ServerHandleReadIInv
  <2> QED
    BY <2>1 DEF IInv, ClientInv, ServerInv
<1>2. /\ client'.m_socket = client.m_socket
      /\ client'.m_sent = client.m_sent /\ client'.v_num = client.v_num
  BY <1>1 DEF ServerHandleRead, Client
<1>3. server'.now_seg = r.seg
  BY <1>1 DEF ServerHandleRead, ScheduleTransmit, Server
<1>4. uplink \in Seq(Request) /\ r = uplink[1] /\ 1 \in 1 .. Len(uplink) /\ r \in Request
  BY DEF IInv, UplinkInv, ServerHandleRead
<1>5. r.seg \in Nat
  BY <1>4 DEF Request
<1>6. server.now_seg \in Int /\ client.m_sent \in Int
  BY <1>1, SegCountAssumption DEF Client, Server, Segments
<1>7. server.now_seg < r.seg /\ r.seg < client.m_sent
      /\ (~Lossy => r.seg = server.now_seg + 1)
  BY <1>4 DEF IInv, UplinkInv
<1> HIDE DEF r
<1>8. server.now_seg + 1 < client.m_sent
  BY <1>5, <1>6, <1>7
<1>9. server'.now_seg + 1 \in
        (server.now_seg + 1 + 1) .. (IF Lossy THEN client.m_sent ELSE server.now_seg + 1 + 1)
  BY <1>3, <1>5, <1>6, <1>7, LossyAssumption
<1> QED
  BY <1>2, <1>8, <1>9 DEF Pull!Answer

\* The server's other steps, the environment's and the network's show nothing.
LEMMA QuietPull ==
  ASSUME IInv,
         ScheduleTransmitEvent \/ ServerSendEvent \/ SetTStart \/ MpegPlay
           \/ LoseRequest \/ LoseData
  PROVE  UNCHANGED Progress
<1>1. client \in Client /\ server \in Server
  BY DEF IInv, ClientInv, ServerInv
<1>2. CASE ScheduleTransmitEvent
  BY <1>1, <1>2 DEF ScheduleTransmitEvent, ScheduleTransmit, Server, Progress
<1>3. CASE ServerSendEvent
  BY <1>1, <1>3 DEF ServerSendEvent, Server, Progress
<1>4. CASE MpegPlay
  BY <1>1, <1>4 DEF MpegPlay, Client, Server, Progress
<1>5. CASE SetTStart \/ LoseRequest \/ LoseData
  BY <1>5 DEF SetTStart, LoseRequest, LoseData, Progress
<1> QED
  BY <1>2, <1>3, <1>4, <1>5

\* Every step of the stream is a step of the pull protocol, or none.
LEMMA StepPull == IInv /\ [Next]_vars => [Pull!Next]_(Pull!pullVars)
<1> SUFFICES ASSUME IInv, [Next]_vars PROVE [Pull!Next]_(Pull!pullVars)
  OBVIOUS
<1>1. CASE UNCHANGED vars
  BY <1>1, StutterPull DEF vars, Progress
<1>2. CASE ClientHandleRead
  <2>1. server' = server
    BY <1>2 DEF ClientHandleRead
  <2> QED
    BY <1>2, <2>1, ClientHandleReadHandled, HandledPull
<1>3. CASE CallPlayerEvent
  <2>1. server' = server
    BY <1>3 DEF CallPlayerEvent
  <2> QED
    BY <1>3, <2>1, CallPlayerHandled, HandledPull
<1>4. CASE ServerHandleRead
  BY <1>4, ServerHandleReadPull DEF Pull!Next
<1>5. CASE StartApplicationEvent \/ CheckStartEvent \/ SendEvent
  BY <1>5, StartApplicationPull, CheckStartPull, SendPull
<1>6. CASE ScheduleTransmitEvent \/ ServerSendEvent \/ SetTStart \/ MpegPlay
             \/ LoseRequest \/ LoseData
  BY <1>6, QuietPull, StutterPull
<1> QED
  BY <1>1, <1>2, <1>3, <1>4, <1>5, <1>6 DEF Next

\* The initial states map to the initial state of the pull protocol.
LEMMA InitPull == Init => Pull!Init
BY DEF Init, InitClient, InitServer, Pull!Init

\* The stream implements the pull protocol, with losses and without.
THEOREM Implements == Spec => PullSpec
BY Invariance, InitPull, StepPull, PTL DEF Spec, PullSpec, Pull!Spec
=============================================================================
