---------------------------- MODULE HybridSession ----------------------------
(***************************************************************************)
(* The session that udp_dash.cc starts for one user: the TCP half of       *)
(* DashStream (base layer) and the UDP half of UdpStream (enhancement      *)
(* layer), which share three globals of para.h.  MpegPlayer writes T_start *)
(* and T_play and clears count_packet; DudpClient, UdpPlayer and           *)
(* DudpServer read them.                                                   *)
(*                                                                         *)
(* UdpStream has the TCP half as an environment that raises T_start at any *)
(* time and plays at any time after it.  Here the steps of DashStream take *)
(* the place of that environment.  The network loses no UDP packet.        *)
(***************************************************************************)
EXTENDS Integers, Sequences

CONSTANTS
  SegCount,       \* Segments of the video, in both layers.
  TcpPacketNums,  \* What packet_number of RequestSegment may be.
  UdpPacketNums,  \* What the packet number of DudpClient::Send may be.
  Options,        \* The sets of options a session may be started with.
  TxBuffer        \* Frames the TCP socket's transmit buffer holds.

ASSUME SegCountAssumption == SegCount \in Nat /\ SegCount >= 4
ASSUME TcpPacketNumsAssumption == TcpPacketNums \subseteq Nat \ {0}
ASSUME UdpPacketNumsAssumption == UdpPacketNums \subseteq Nat \ {0}
ASSUME OptionsAssumption ==
  /\ Options \subseteq [init_buffer : Nat, req_num : Nat, coalescing : BOOLEAN]
  /\ \A o \in Options :
       o.req_num + 1 < SegCount /\ o.init_buffer + o.req_num < SegCount
ASSUME TxBufferAssumption == TxBuffer \in Nat \ {0}

VARIABLES
  options, tcp, requests, queue, wire,  \* the state of DashStream
  udp, server, uplink, data             \* the state of UdpStream

tcpVars == <<options, tcp, requests, queue, wire>>
udpVars == <<udp, server, uplink, data>>
vars == <<options, tcp, requests, queue, wire, udp, server, uplink, data>>

Dash == INSTANCE DashStream
          WITH PacketNums <- TcpPacketNums, client <- tcp, uplink <- requests

\* T_start is kept where MpegPlayer writes it.
Udp == INSTANCE UdpStream
         WITH PacketNums <- UdpPacketNums, Lossy <- FALSE,
              client <- udp, T_start <- tcp.T_start

\* All four applications have been installed and started.
Init ==
  /\ Dash!Init
  /\ udp = Udp!InitClient
  /\ server = Udp!InitServer
  /\ uplink = <<>>
  /\ data = <<>>

-----------------------------------------------------------------------------

\* MpegPlayer::PlayFrame tells the UDP half that a segment is played.
MpegPlays(played) ==
  IF played
  THEN /\ udp' = [udp EXCEPT !.T_play = TRUE]
       /\ server' = [server EXCEPT !.count_packet = 0]
  ELSE UNCHANGED <<udp, server>>

\* Bug: T_play is raised where T_start is, in ReceiveFrame.
TcpStepRaisesOnStart(A) ==
  /\ Udp!TimePasses
  /\ A
  /\ MpegPlays(tcp'.play_num # tcp.play_num \/ tcp'.T_start # tcp.T_start)
  /\ UNCHANGED <<uplink, data>>

\* A handler of the TCP half.  One that gets past the early returns of
\* PlayFrame moves the player's v_num on.
TcpStep(A) ==
  /\ Udp!TimePasses
  /\ A
  /\ MpegPlays(tcp'.play_num # tcp.play_num)
  /\ UNCHANGED <<uplink, data>>

\* A handler of the UDP half writes no state of the TCP half.
UdpStep(A) == UNCHANGED tcpVars /\ A

\* The events that poll: they may be armed again, for the same instant later.
Poll ==
  \/ UdpStep(Udp!CheckStartEvent)
  \/ UdpStep(Udp!CallPlayerEvent)

Work ==
  \/ TcpStep(Dash!Next)
  \/ UdpStep(Udp!StartApplicationEvent)
  \/ UdpStep(Udp!SendEvent)
  \/ UdpStep(Udp!ClientHandleRead)
  \/ UdpStep(Udp!ServerHandleRead)
  \/ UdpStep(Udp!ScheduleTransmitEvent)
  \/ UdpStep(Udp!ServerSendEvent)
  \/ UdpStep(Udp!LoseData)

Next == Poll \/ Work

Spec == Init /\ [][Next]_vars

\* Every event has a finite time stamp, so that polls keep none of the others
\* from being run, nor these the polls; both networks deliver.
FairSpec == Spec /\ WF_vars(Work) /\ WF_vars(Poll)

-----------------------------------------------------------------------------
(* Properties.                                                             *)

\* The enhancement layer starts after the base layer: whatever packets, polls
\* and answers come first, nothing of it is played or may be played before
\* MpegPlayer has played.  Later it may get ahead: a packet that is stamped with
\* an older segment than the server's makes UdpPlayer play without being told.
EnhancementStartsAfter == (udp.T_play \/ udp.v_num > 0) => tcp.play_num > 0

\* The TCP half keeps to what the UDP half has been checked under: T_start is
\* raised once and before the first play, and nothing else of it is written.
UdpSpec == Udp!Spec

\* Whatever both halves do to each other, in the end nothing is under way or
\* being sent, by TCP or UDP.  What may be left is polls of CallPlayer, which
\* nothing ends once MpegPlayer plays no more.
SessionEnds ==
  <>[](requests = <<>> /\ queue = <<>> /\ wire = <<>> /\ Udp!NothingInFlight)
=============================================================================
