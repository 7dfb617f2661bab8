------------------------------ MODULE UdpStream ------------------------------
(***************************************************************************)
(* The UDP half of the hybrid 360-degree streaming session: DudpClient and *)
(* the UdpPlayer it owns, DudpServer, and the two directions of the UDP    *)
(* path between them.                                                      *)
(*                                                                         *)
(* ns-3 runs one event handler at a time to completion, so every action is *)
(* one whole handler.  The operators Send, StopApplication, PlayFrame,     *)
(* CheckPlay and CallPlayer take the client's record and return the record *)
(* after the call, so that a handler composes them in the order the code   *)
(* makes the calls.  Simulated time is abstracted: any pending event may   *)
(* be next, except that a zero-delay DudpServer::Send runs before the tick *)
(* scheduled a positive p_inter after it.                                  *)
(***************************************************************************)
EXTENDS Integers, Sequences

CONSTANTS
  SegCount,    \* Segments of the stream: the literal 60 of UdpPlayer::PlayFrame
               \* and the number of rows of udp_seg_size and udp_series.
  PacketNums,  \* What packet_number, packet_number2, packet_number3 may be.
  Lossy        \* May the network drop packets?

ASSUME SegCountAssumption == SegCount \in Nat \ {0}
ASSUME PacketNumsAssumption == PacketNums \subseteq Nat \ {0}
ASSUME LossyAssumption == Lossy \in BOOLEAN

VARIABLES
  client,   \* DudpClient, its UdpPlayer and the globals their handlers write
  server,   \* DudpServer and the globals its handlers write
  uplink,   \* requests on their way to the server, first sent first
  data,     \* segment stamps of data packets on their way to the client
  T_start   \* the global dash-client sets when its buffer is filled

vars == <<client, server, uplink, data, T_start>>

Segments == 0 .. SegCount - 1
Startup == {"StartApplication", "CheckStart", "Send", "none"}
Faults == {"none", "socket", "index", "assert", "udpClient"}
Request == [seg : Nat, num : PacketNums]

InitClient ==
  [ m_socket    |-> FALSE,               \* is the socket open?
    startup     |-> "StartApplication",  \* the pending event of the start-up chain
    m_segmentId |-> 0,
    m_sent      |-> 0,
    udp_series  |-> [s \in Segments |-> 0],
    outbox      |-> <<>>,     \* requests this handler hands to the socket
    p_num       |-> 0,
    calls       |-> 0,        \* pending CallPlayer events
    m_queue     |-> 0,        \* packets in the player's queue
    v_num       |-> 0,
    m_udpClient |-> FALSE,    \* has WakeupUdp set the pointer?
    T_play      |-> FALSE,
    loss_mark   |-> FALSE,
    asked       |-> 0,        \* packets on the "u,4" lines of the log
    received    |-> 0,        \* number of "u,2" lines of the log
    lost        |-> 0,        \* packets on the "u,3" lines of the log
    fault       |-> "none" ]  \* the undefined behaviour or abort met, if any

InitServer ==
  [ count_packet |-> 0,
    now_seg      |-> -1,      \* s_id and now_seg, always assigned together
    sends        |-> 0,       \* pending Send events
    ticks        |-> 0 ]      \* pending ScheduleTransmit events

Init ==
  /\ client = InitClient
  /\ server = InitServer
  /\ uplink = <<>>
  /\ data = <<>>
  /\ T_start = FALSE

-----------------------------------------------------------------------------
(* The client's and the player's member functions, as operators on the     *)
(* client's record.  n is the packet number the quality choice of Send     *)
(* arrives at.                                                             *)

Fault(c, f) == [c EXCEPT !.fault = f]


\* Bug (for the checks): m_sent is incremented before the header is filled in.
SendStampsLate(c, n) ==
  [c EXCEPT !.udp_series[c.m_segmentId] = n,
            !.outbox = Append(@, [seg |-> c.m_sent + 1, num |-> n]),
            !.asked = @ + n,
            !.m_segmentId = @ + 1,
            !.m_sent = @ + 1]

\* DudpClient::Send.  The packet count goes to udp_series and to the request.
Send(c, n) ==
  IF c.startup = "Send" THEN Fault(c, "assert")
  ELSE IF c.m_segmentId \notin Segments THEN Fault(c, "index")
  ELSE IF ~c.m_socket THEN Fault(c, "socket")
  ELSE [c EXCEPT !.udp_series[c.m_segmentId] = n,
                 !.outbox = Append(@, [seg |-> c.m_sent, num |-> n]),
                 !.asked = @ + n,
                 !.m_segmentId = @ + 1,
                 !.m_sent = @ + 1]

\* Bug: the socket stays open after the last segment.
StopApplicationLeavesOpen(c) ==
  [c EXCEPT !.startup = IF @ = "Send" THEN "none" ELSE @]

\* Simulator::Cancel clears m_sendEvent, the zero-delay event of CheckStart.
StopApplication(c) ==
  [c EXCEPT !.m_socket = FALSE,
            !.startup = IF @ = "Send" THEN "none" ELSE @]

\* Bug: a single missing packet is not worth a report.
PopSegmentTolerant(c) ==
  LET missing == c.udp_series[c.v_num] - c.m_queue
  IN  [c EXCEPT !.loss_mark = @ \/ missing > 1,
                !.lost = @ + (IF missing > 1 THEN missing ELSE 0),
                !.m_queue = 0,
                !.v_num = @ + 1]

\* What UdpPlayer::PlayFrame does once it has decided to play: report the
\* shortfall, empty the queue, move to the next segment.
PopSegment(c) ==
  LET missing == c.udp_series[c.v_num] - c.m_queue
  IN  [c EXCEPT !.loss_mark = @ \/ missing > 0,
                !.lost = @ + (IF missing > 0 THEN missing ELSE 0),
                !.m_queue = 0,
                !.v_num = @ + 1]

\* Bug: the last segment is recognised one play too late.
PlayFrameStopsLate(c, n) ==
  IF c.m_queue = 0 THEN c
  ELSE IF c.v_num \notin Segments THEN Fault(c, "index")
  ELSE IF c.m_queue < c.udp_series[c.v_num] /\ c.loss_mark THEN c
  ELSE IF ~c.m_udpClient THEN Fault(c, "udpClient")
  ELSE IF c.v_num = SegCount THEN StopApplication(PopSegment(c))
  ELSE Send(PopSegment(c), n)

\* m_state is never UDP_PLAYER_DONE, so the first return of the code is not
\* taken.
PlayFrame(c, n) ==
  IF c.m_queue = 0 THEN c
  ELSE IF c.v_num \notin Segments THEN Fault(c, "index")
  ELSE IF c.m_queue < c.udp_series[c.v_num] /\ c.loss_mark THEN c
  ELSE IF ~c.m_udpClient THEN Fault(c, "udpClient")
  ELSE IF c.v_num + 1 = SegCount THEN StopApplication(PopSegment(c))
  ELSE Send(PopSegment(c), n)

ReceiveFrame(c) ==
  [c EXCEPT !.m_queue = @ + 1, !.received = @ + 1]

CheckPlay(c, n) ==
  IF c.T_play THEN [PlayFrame(c, n) EXCEPT !.T_play = FALSE] ELSE c

WakeupUdp(c) == [c EXCEPT !.m_udpClient = TRUE]

\* Bug: the poll is not re-armed while nothing plays.
CallPlayerOnce(c, n) ==
  IF c.T_play THEN PlayFrame(WakeupUdp(c), n) ELSE c

\* Bug: the poll is re-armed whether or not it plays.
CallPlayerAlwaysArms(c, n) ==
  IF c.T_play THEN [PlayFrame(WakeupUdp(c), n) EXCEPT !.calls = @ + 1]
  ELSE [c EXCEPT !.calls = @ + 1]

CallPlayer(c, n) ==
  IF c.T_play THEN PlayFrame(WakeupUdp(c), n)
  ELSE [c EXCEPT !.calls = @ + 1]

\* PacketReceive for a packet whose header carries segment p_seg.
PacketReceive(c, p_seg, now_seg, n) ==
  LET counted == [c EXCEPT !.p_num = @ + 1]
      taken == IF ~c.T_play /\ now_seg = p_seg
               THEN ReceiveFrame(counted)
               ELSE PlayFrame(counted, n)
      last == taken.m_segmentId - 1
  IN  WakeupUdp(IF last \notin Segments THEN Fault(taken, "index")
                ELSE IF taken.p_num < taken.udp_series[last]
                THEN CheckPlay(taken, n)
                ELSE CallPlayer(taken, n))

\* Bug: the counter is tested before it is decremented.
ScheduleTransmitOneMore(s, T_play) ==
  IF s.count_packet >= 0 /\ ~T_play
  THEN [s EXCEPT !.count_packet = @ - 1, !.sends = @ + 1, !.ticks = @ + 1]
  ELSE [s EXCEPT !.count_packet = -1]

\* Bug: the counter is not parked at -1 when the answer is over.
ScheduleTransmitNoPark(s, T_play) ==
  IF s.count_packet - 1 >= 0 /\ ~T_play
  THEN [s EXCEPT !.count_packet = @ - 1, !.sends = @ + 1, !.ticks = @ + 1]
  ELSE [s EXCEPT !.count_packet = @ - 1]

\* Bug: the tick is re-armed whether or not there is something to send.
ScheduleTransmitForever(s, T_play) ==
  IF s.count_packet - 1 >= 0 /\ ~T_play
  THEN [s EXCEPT !.count_packet = @ - 1, !.sends = @ + 1, !.ticks = @ + 1]
  ELSE [s EXCEPT !.count_packet = -1, !.ticks = @ + 1]

\* DudpServer::ScheduleTransmit on the server's record.
ScheduleTransmit(s, T_play) ==
  IF s.count_packet - 1 >= 0 /\ ~T_play
  THEN [s EXCEPT !.count_packet = @ - 1, !.sends = @ + 1, !.ticks = @ + 1]
  ELSE [s EXCEPT !.count_packet = -1]

-----------------------------------------------------------------------------
(* The events of the simulator.                                            *)

Running == client.fault = "none"

\* Simulated time moves on only when the zero-delay Send events are done.  Of
\* the events that can fall on the same instant as a Send, a request's arrival
\* is the only one whose order with it matters.
TimePasses == Running /\ server.sends = 0

\* The client's handler ends in record c: what it sent leaves on the uplink.
ClientDone(c) ==
  /\ client' = [c EXCEPT !.outbox = <<>>]
  /\ uplink' = uplink \o c.outbox

\* CheckStart is called by StartApplication, then by its own 1 ms timer.
CheckStart(c) ==
  [c EXCEPT !.startup = IF T_start THEN "Send" ELSE "CheckStart"]

StartApplicationEvent ==
  /\ TimePasses
  /\ client.startup = "StartApplication"
  /\ ClientDone(CheckStart([client EXCEPT !.m_socket = TRUE]))
  /\ UNCHANGED <<server, data, T_start>>

CheckStartEvent ==
  /\ TimePasses
  /\ client.startup = "CheckStart"
  /\ ClientDone(CheckStart(client))
  /\ UNCHANGED <<server, data, T_start>>

\* Bug: the client also sends on a timer, as the disabled tail of Send did.
SendEventPeriodic ==
  /\ TimePasses
  /\ client.startup = "Send"
  /\ \E n \in PacketNums :
       ClientDone([Send([client EXCEPT !.startup = "none"], n)
                     EXCEPT !.startup = "CheckStart"])
  /\ UNCHANGED <<server, data, T_start>>

\* The zero-delay event ScheduleTransmit left in m_sendEvent.
SendEvent ==
  /\ TimePasses
  /\ client.startup = "Send"
  /\ \E n \in PacketNums : ClientDone(Send([client EXCEPT !.startup = "none"], n))
  /\ UNCHANGED <<server, data, T_start>>

\* A data packet arrives at the open socket.
ClientHandleRead ==
  /\ TimePasses
  /\ client.m_socket
  /\ data # <<>>
  /\ \E n \in PacketNums :
       ClientDone(PacketReceive(client, Head(data), server.now_seg, n))
  /\ data' = Tail(data)
  /\ UNCHANGED <<server, T_start>>

CallPlayerEvent ==
  /\ TimePasses
  /\ client.calls > 0
  /\ \E n \in PacketNums :
       ClientDone(CallPlayer([client EXCEPT !.calls = @ - 1], n))
  /\ UNCHANGED <<server, data, T_start>>

\* Bug: the player's loss mark survives the next answer.
ServerHandleReadKeepsMark ==
  /\ Running
  /\ uplink # <<>>
  /\ server' = ScheduleTransmit([server EXCEPT !.count_packet = Head(uplink).num,
                                               !.now_seg = Head(uplink).seg],
                                FALSE)
  /\ client' = [client EXCEPT !.T_play = FALSE]
  /\ uplink' = Tail(uplink)
  /\ UNCHANGED <<data, T_start>>

\* Bug: a request waits for T_play to be cleared, as packets do.
ServerHandleReadWaits ==
  /\ Running
  /\ uplink # <<>> /\ ~client.T_play
  /\ server' = ScheduleTransmit([server EXCEPT !.count_packet = Head(uplink).num,
                                               !.now_seg = Head(uplink).seg],
                                FALSE)
  /\ client' = [client EXCEPT !.T_play = FALSE, !.loss_mark = FALSE]
  /\ uplink' = Tail(uplink)
  /\ UNCHANGED <<data, T_start>>

\* A request arrives: the server answers for its segment and clears the two
\* flags of the client's side.
ServerHandleRead ==
  /\ Running
  /\ uplink # <<>>
  /\ server' = ScheduleTransmit([server EXCEPT !.count_packet = Head(uplink).num,
                                               !.now_seg = Head(uplink).seg],
                                FALSE)
  /\ client' = [client EXCEPT !.T_play = FALSE, !.loss_mark = FALSE]
  /\ uplink' = Tail(uplink)
  /\ UNCHANGED <<data, T_start>>

ScheduleTransmitEvent ==
  /\ TimePasses
  /\ server.ticks > 0
  /\ server' = ScheduleTransmit([server EXCEPT !.ticks = @ - 1], client.T_play)
  /\ UNCHANGED <<client, uplink, data, T_start>>

ServerSendEvent ==
  /\ Running
  /\ server.sends > 0
  /\ server' = [server EXCEPT !.sends = @ - 1]
  /\ data' = Append(data, server.now_seg)
  /\ UNCHANGED <<client, uplink, T_start>>

-----------------------------------------------------------------------------
(* The environment: the TCP half of the session, and the network.          *)

\* MpegPlayer::ReceiveFrame has enough segments.
SetTStart ==
  /\ TimePasses
  /\ ~T_start
  /\ T_start' = TRUE
  /\ UNCHANGED <<client, server, uplink, data>>

\* MpegPlayer::PlayFrame plays a segment.
MpegPlay ==
  /\ TimePasses
  /\ T_start
  /\ client' = [client EXCEPT !.T_play = TRUE]
  /\ server' = [server EXCEPT !.count_packet = 0]
  /\ UNCHANGED <<uplink, data, T_start>>

LoseRequest ==
  /\ TimePasses
  /\ Lossy
  /\ uplink # <<>>
  /\ uplink' = Tail(uplink)
  /\ UNCHANGED <<client, server, data, T_start>>

\* The network drops a packet, or nobody listens where it arrives.
LoseData ==
  /\ TimePasses
  /\ Lossy \/ ~client.m_socket
  /\ data # <<>>
  /\ data' = Tail(data)
  /\ UNCHANGED <<client, server, uplink, T_start>>

Next ==
  \/ StartApplicationEvent
  \/ CheckStartEvent
  \/ SendEvent
  \/ ClientHandleRead
  \/ CallPlayerEvent
  \/ ServerHandleRead
  \/ ScheduleTransmitEvent
  \/ ServerSendEvent
  \/ SetTStart
  \/ MpegPlay
  \/ LoseRequest
  \/ LoseData

Spec == Init /\ [][Next]_vars

\* Every pending event of the simulator has a finite time stamp and is run,
\* and a packet the network keeps arrives.
Fairness ==
  /\ WF_vars(StartApplicationEvent)
  /\ WF_vars(CheckStartEvent)
  /\ WF_vars(SendEvent)
  /\ WF_vars(ClientHandleRead)
  /\ WF_vars(CallPlayerEvent)
  /\ WF_vars(ServerHandleRead)
  /\ WF_vars(ScheduleTransmitEvent)
  /\ WF_vars(ServerSendEvent)

FairSpec == Spec /\ Fairness

\* The MPEG video goes on playing, once a second, as long as it is not over.
PlaySpec == FairSpec /\ WF_vars(SetTStart) /\ WF_vars(MpegPlay)

-----------------------------------------------------------------------------
(* Properties.                                                             *)

Client ==
  [ m_socket    : BOOLEAN,
    startup     : Startup,
    m_segmentId : 0 .. SegCount,
    m_sent      : 0 .. SegCount,
    udp_series  : [Segments -> PacketNums \cup {0}],
    outbox      : Seq(Request),
    p_num       : Nat,
    calls       : Nat,
    m_queue     : Nat,
    v_num       : 0 .. SegCount,
    m_udpClient : BOOLEAN,
    T_play      : BOOLEAN,
    loss_mark   : BOOLEAN,
    asked       : Nat,
    received    : Nat,
    lost        : Nat,
    fault       : Faults ]

Server ==
  [ count_packet : Nat \cup {-1},
    now_seg      : Segments \cup {-1},
    sends        : Nat,
    ticks        : Nat ]

\* The type invariant: in particular count_packet never falls below -1, and
\* the segment counters never leave the range of the arrays they index by
\* more than one.
TypeOK ==
  /\ client \in Client
  /\ server \in Server
  /\ uplink \in Seq(Request)
  /\ data \in Seq(Segments)
  /\ T_start \in BOOLEAN

\* No handler asserts (Send while m_sendEvent is pending), indexes udp_series
\* or udp_seg_size out of range, uses the closed socket, or calls Send through
\* the m_udpClient pointer before WakeupUdp has set it: UdpPlayer::PlayFrame
\* tests only the first of its two uses of the pointer.
NoFault == client.fault = "none"

\* DudpClient has sent one request more than UdpPlayer has played segments
\* while the stream runs, and as many once it has stopped; and a packet is in
\* the player's queue only while it runs.  No segment is asked for twice or
\* skipped, however MPEG plays, polls, packets and answers interleave.
RequestsPacePlayback ==
  /\ client.m_segmentId = client.m_sent
  /\ client.startup # "none" => client.m_sent = 0
  /\ client.m_sent = client.v_num + (IF client.m_socket /\ client.startup = "none"
                                     THEN 1 ELSE 0)
  /\ client.m_queue > 0 => client.m_socket /\ client.startup = "none"

\* Every packet asked for, of a segment that has been played, was received
\* ("u,2" lines) or is reported lost ("u,3" lines), on top of what is still
\* queued: PlayFrame's early returns and its drain of the queue lose none.
LossesAccounted ==
  client.received + client.lost >=
    client.m_queue + client.asked
      - (IF client.v_num < client.m_sent THEN client.udp_series[client.v_num] ELSE 0)

NonDecreasing(s) == \A i, j \in 1 .. Len(s) : i < j => s[i] <= s[j]

\* Requests travel in the order of their segments and are newer than the one
\* being answered; data is stamped in order and never with a segment newer
\* than the server's, which the player has reached.
StampsInOrder ==
  /\ \A i, j \in 1 .. Len(uplink) : i < j => uplink[i].seg < uplink[j].seg
  /\ \A i \in 1 .. Len(uplink) :
       server.now_seg < uplink[i].seg /\ uplink[i].seg < client.m_sent
  /\ NonDecreasing(data)
  /\ \A i \in 1 .. Len(data) : data[i] <= server.now_seg
  /\ server.now_seg <= client.v_num

\* What the requests of u promise, in packets.
PromisedBy(u) ==
  LET sum[i \in 0 .. Len(u)] == IF i = 0 THEN 0 ELSE sum[i - 1] + u[i].num
  IN  sum[Len(u)]

\* Overlapping ScheduleTransmit chains share count_packet and never make a
\* packet nobody asked for: packets received, on the link, about to be sent,
\* still owed and still requested add up to at most what the client asked.
NoPacketUnasked ==
  client.p_num + Len(data) + server.sends + PromisedBy(uplink)
    + (IF server.count_packet > 0 THEN server.count_packet ELSE 0) <= client.asked

\* Nothing of the stream is in flight, so nothing but a poll can wake the player.
NothingInFlight ==
  uplink = <<>> /\ data = <<>> /\ server.sends = 0 /\ server.ticks = 0

\* p_num, which is never reset, has reached the current segment's count, so
\* that a packet's handler takes the CallPlayer branch.
PastFirstCount ==
  client.m_sent > 0 => client.p_num >= client.udp_series[client.m_sent - 1]

\* Without losses, the loss mark that makes PlayFrame return early is only up
\* while a request is on its way to the server, which clears it, or for ever
\* after the end of the stream: it cannot block the player for good.
LossMarkHasRequest == client.loss_mark => (uplink # <<>> \/ ~client.m_socket)

\* The server comes to rest: whatever the overlap of its ticks with requests
\* and MPEG plays, they die out, and so does the simulation's share of them.
ServerQuiet == <>[](server.ticks = 0 /\ server.sends = 0)

\* No lost wakeup: without losses, while the MPEG video plays, packets that
\* wait in the queue are played in the end, with nothing in flight too, unless
\* p_num is still short of the segment's count (the CheckPlay branch of
\* PacketReceive leaves no poll behind).
QueuePlays == (client.m_queue > 0 /\ PastFirstCount) ~> (client.m_queue = 0)

-----------------------------------------------------------------------------
(* The stream implements the pull protocol.                                *)

Pull == INSTANCE SegmentPull
          WITH open      <- client.m_socket,
               requested <- client.m_sent,
               answered  <- server.now_seg + 1,
               played    <- client.v_num

\* Requests, answers, plays and the end of the stream take the steps of the
\* pull protocol, or none, whatever polls, stale packets and losses do.
PullSpec == Pull!Spec

\* Without losses the server also serves every request in the end.
PullFairSpec == Pull!FairSpec
=============================================================================
