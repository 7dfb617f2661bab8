------------------------------ MODULE DashStream ------------------------------
(***************************************************************************)
(* The TCP half of the session: DashClient and the MpegPlayer it owns,     *)
(* DashServer with the queue of its one accepted socket, and the TCP       *)
(* connection, which is reliable and keeps the order in each direction.    *)
(*                                                                         *)
(* As in UdpStream every action is one whole event handler, and the member *)
(* functions are operators from the client's record to the record after    *)
(* the call.  Simulated time, the sizes and headers of frames, bit rates   *)
(* and buffer estimates are left out: CalcNextSegment returns the current  *)
(* rate, so none of them reaches the control flow.  One ReadSocket that    *)
(* finds several messages is several ClientHandleRead steps.               *)
(***************************************************************************)
EXTENDS Integers, Sequences, FiniteSets

CONSTANTS
  SegCount,     \* Segments of the video: 60 / seg_length, the length of a row
                \* of video_series, and the literals 56 and 61 of MpegPlayer.
  PacketNums,   \* What packet_number of RequestSegment may be.
  Options,      \* The sets of options a session may be started with.
  TxBuffer      \* Frames the socket's transmit buffer holds.

ASSUME SegCountAssumption == SegCount \in Nat /\ SegCount >= 4
ASSUME PacketNumsAssumption == PacketNums \subseteq Nat \ {0}
ASSUME OptionsAssumption ==
  /\ Options \subseteq [init_buffer : Nat, req_num : Nat, coalescing : BOOLEAN]
  /\ \A o \in Options :
       o.req_num + 1 < SegCount /\ o.init_buffer + o.req_num < SegCount
ASSUME TxBufferAssumption == TxBuffer \in Nat \ {0}

VARIABLES
  options, \* the globals main sets and nobody changes, and whether TCP may
           \* hand two requests of one event over in one read
  client,  \* DashClient, its MpegPlayer and the global T_start
  uplink,  \* what the server's reads will return: sequences of requests
  queue,   \* m_queues of the accepted socket: segments of the frames to send
  wire     \* segments of the frames in the socket's buffer or on their way

vars == <<options, client, uplink, queue, wire>>

init_buffer == options.init_buffer
req_num == options.req_num

\* The entries of video_series, and the one behind its end.
Cells == 0 .. SegCount
States == {"NOT_STARTED", "PLAYING", "PAUSED", "DONE"}
Request == [seg : Cells, num : PacketNums]

Client ==
  [ m_connected  : BOOLEAN,
    m_segmentId  : 0 .. SegCount + 1,
    video_series : [Cells -> PacketNums \cup {0}],
    frame_num    : Nat,
    tmp_num      : Nat,
    v_num        : 0 .. SegCount + 1,
    seg_num      : 0 .. SegCount + 1,
    outbox       : Seq(Request),
    m_state      : States,
    m_queue      : Nat,
    play_num     : 0 .. SegCount + 1,
    plays        : Nat,
    m_dashClient : BOOLEAN,
    T_start      : BOOLEAN,
    index        : {"in", "behind", "out"} ]

InitClient ==
  [ m_connected  |-> FALSE,
    m_segmentId  |-> 0,
    video_series |-> [s \in Cells |-> 0],
    frame_num    |-> 0,      \* frames of the segment being received
    tmp_num      |-> 0,
    v_num        |-> 0,      \* the segment being received
    seg_num      |-> 0,
    outbox       |-> <<>>,   \* requests this handler hands to the socket
    m_state      |-> "NOT_STARTED",
    m_queue      |-> 0,      \* frames in the player's queue
    play_num     |-> 0,      \* MpegPlayer::v_num
    plays        |-> 0,      \* pending PlayFrame events
    m_dashClient |-> FALSE,  \* has SchduleBufferWakeup set the pointer?
    T_start      |-> FALSE,
    index        |-> "in" ]  \* how far indexes of video_series have strayed

\* Both applications have been started: the server listens, and the client's
\* StartApplication has called Connect and waits for ConnectionSucceeded.
Init ==
  /\ options \in Options
  /\ client = InitClient
  /\ uplink = <<>>
  /\ queue = <<>>
  /\ wire = <<>>

-----------------------------------------------------------------------------
(* The client's and the player's member functions.  n and m are packet     *)
(* numbers that RequestSegment computes from user_seg_size.                *)

\* Entry SegCount of video_series is not part of the vector, but the
\* allocation has room for it: the access goes through.  One further on, the
\* build may do anything, and the model stops.
RequestSegment(c, n) ==
  IF ~c.m_connected THEN c
  ELSE IF c.m_segmentId \notin Cells THEN [c EXCEPT !.index = "out"]
  ELSE [c EXCEPT !.index = IF c.m_segmentId = SegCount THEN "behind" ELSE @,
                 !.video_series[c.m_segmentId] = n,
                 !.outbox = Append(@, [seg |-> c.m_segmentId, num |-> n]),
                 !.m_segmentId = @ + 1]

\* Bug: the player is not told.
StopApplicationForgetsPlayer(c) == [c EXCEPT !.m_connected = FALSE]

StopApplication(c) == [c EXCEPT !.m_connected = FALSE, !.m_state = "DONE"]

\* Does the player, arrived at segment v, ask for another one?
PlayerPulls(v) ==
  /\ v <= SegCount - 4
  /\ IF init_buffer > req_num
     THEN v >= init_buffer - req_num + 1
     ELSE v >= init_buffer /\ v <= SegCount + 1 - req_num

\* Bug: the first play takes two segments off the queue but counts one.
PopFramesCountsOne(c) ==
  IF c.play_num = 0
  THEN [c EXCEPT !.m_queue = @ - (c.video_series[0] + c.video_series[1]),
                 !.play_num = 1]
  ELSE [c EXCEPT !.m_queue = @ - c.video_series[c.play_num],
                 !.play_num = @ + 1]

\* The first play takes two segments.
PopFrames(c) ==
  IF c.play_num = 0
  THEN [c EXCEPT !.m_queue = @ - (c.video_series[0] + c.video_series[1]),
                 !.play_num = 2]
  ELSE [c EXCEPT !.m_queue = @ - c.video_series[c.play_num],
                 !.play_num = @ + 1]

\* Bug: the timer is armed when the player pauses, too.
PlayFrameAlwaysArms(c, n) ==
  LET popped  == PopFrames(c)
      stopped == IF popped.play_num = SegCount + 1 /\ popped.m_dashClient
                 THEN StopApplication(popped) ELSE popped
      asked   == IF PlayerPulls(popped.play_num) /\ popped.m_dashClient
                 THEN RequestSegment(stopped, n) ELSE stopped
  IN  IF c.m_state = "DONE" THEN c
      ELSE IF c.m_queue = 0 \/ c.m_queue < c.video_series[c.play_num]
      THEN [c EXCEPT !.m_state = "PAUSED", !.plays = @ + 1]
      ELSE [asked EXCEPT !.plays = @ + 1]

\* Bug: only an empty queue makes the player pause.
PlayFrameIgnoresShortfall(c, n) ==
  LET popped  == PopFrames(c)
      stopped == IF popped.play_num = SegCount + 1 /\ popped.m_dashClient
                 THEN StopApplication(popped) ELSE popped
      asked   == IF PlayerPulls(popped.play_num) /\ popped.m_dashClient
                 THEN RequestSegment(stopped, n) ELSE stopped
  IN  IF c.m_state = "DONE" THEN c
      ELSE IF c.m_queue = 0
      THEN [c EXCEPT !.m_state = "PAUSED"]
      ELSE [asked EXCEPT !.plays = @ + 1]

PlayFrame(c, n) ==
  LET popped  == PopFrames(c)
      stopped == IF popped.play_num = SegCount + 1 /\ popped.m_dashClient
                 THEN StopApplication(popped) ELSE popped
      asked   == IF PlayerPulls(popped.play_num) /\ popped.m_dashClient
                 THEN RequestSegment(stopped, n) ELSE stopped
  IN  IF c.m_state = "DONE" THEN c
      ELSE IF c.m_queue = 0 \/ c.m_queue < c.video_series[c.play_num]
      THEN [c EXCEPT !.m_state = "PAUSED"]
      ELSE [asked EXCEPT !.plays = @ + 1]

\* Bug: T_start waits for the request of the segment after req_num.
ReceiveFrameStartsLate(c, n) ==
  LET queued == [c EXCEPT !.m_queue = @ + 1]
      primed == [queued EXCEPT !.T_start = @ \/ c.video_series[req_num + 1] > 0]
      play(p) == PlayFrame([p EXCEPT !.m_state = "PLAYING"], n)
  IN  CASE c.m_state = "PAUSED" ->
             IF queued.m_queue >= c.video_series[c.play_num]
             THEN play(queued) ELSE queued
        [] c.m_state = "NOT_STARTED" ->
             IF /\ c.video_series[req_num + 1] > 0
                /\ queued.m_queue > c.video_series[0] + c.video_series[1]
             THEN play(primed) ELSE primed
        [] OTHER -> queued

\* Bug: the player resumes when there is more than the segment it waits for.
ReceiveFrameResumesLate(c, n) ==
  LET queued == [c EXCEPT !.m_queue = @ + 1]
      primed == [queued EXCEPT !.T_start = @ \/ c.video_series[req_num] > 0]
      play(p) == PlayFrame([p EXCEPT !.m_state = "PLAYING"], n)
  IN  CASE c.m_state = "PAUSED" ->
             IF queued.m_queue > c.video_series[c.play_num]
             THEN play(queued) ELSE queued
        [] c.m_state = "NOT_STARTED" ->
             IF /\ c.video_series[req_num + 1] > 0
                /\ queued.m_queue > c.video_series[0] + c.video_series[1]
             THEN play(primed) ELSE primed
        [] OTHER -> queued

\* MpegPlayer::ReceiveFrame, state by state.
ReceiveFrame(c, n) ==
  LET queued == [c EXCEPT !.m_queue = @ + 1]
      primed == [queued EXCEPT !.T_start = @ \/ c.video_series[req_num] > 0]
      play(p) == PlayFrame([p EXCEPT !.m_state = "PLAYING"], n)
  IN  CASE c.m_state = "PAUSED" ->
             IF queued.m_queue >= c.video_series[c.play_num]
             THEN play(queued) ELSE queued
        [] c.m_state = "NOT_STARTED" ->
             IF /\ c.video_series[req_num + 1] > 0
                /\ queued.m_queue > c.video_series[0] + c.video_series[1]
             THEN play(primed) ELSE primed
        [] OTHER -> queued

\* Bug: the segments received are not counted in seg_num.
CountFrameForgetsSegNum(c) ==
  IF c.frame_num = c.video_series[c.v_num]
  THEN [c EXCEPT !.tmp_num = IF c.v_num + 1 # SegCount THEN c.frame_num ELSE @,
                 !.frame_num = 0,
                 !.v_num = @ + 1]
  ELSE c

\* The bookkeeping of MessageReceived: does the frame complete its segment?
CountFrame(c) ==
  IF c.frame_num = c.video_series[c.v_num]
  THEN [c EXCEPT !.tmp_num = IF c.v_num + 1 # SegCount THEN c.frame_num ELSE @,
                 !.frame_num = 0,
                 !.v_num = @ + 1,
                 !.seg_num = @ + 1]
  ELSE c

\* Bug: the player is told of the client only when no request is made.
MessageReceivedWakesLate(c, n, m) ==
  LET taken   == ReceiveFrame([c EXCEPT !.frame_num = @ + 1], n)
      counted == CountFrame(taken)
      closed  == [counted EXCEPT !.tmp_num = 0]
  IN  IF \/ counted.m_state = "DONE"
         \/ counted.v_num = 0
         \/ counted.tmp_num # counted.video_series[counted.v_num - 1]
      THEN counted
      ELSE IF counted.seg_num <= init_buffer + req_num
      THEN RequestSegment(closed, m)
      ELSE [closed EXCEPT !.m_dashClient = TRUE]

\* The last frame of a segment may bring a request, and tells the player of the
\* client (SchduleBufferWakeup).
MessageReceived(c, n, m) ==
  LET taken   == ReceiveFrame([c EXCEPT !.frame_num = @ + 1], n)
      counted == CountFrame(taken)
      closed  == [counted EXCEPT !.tmp_num = 0]
  IN  IF \/ counted.m_state = "DONE"
         \/ counted.v_num = 0
         \/ counted.tmp_num # counted.video_series[counted.v_num - 1]
      THEN counted
      ELSE [(IF counted.seg_num <= init_buffer + req_num
             THEN RequestSegment(closed, m) ELSE closed)
              EXCEPT !.m_dashClient = TRUE]

-----------------------------------------------------------------------------
(* The events of the simulator.                                            *)

Running == client.index # "out"

\* The client's handler ends in record c.  The requests it sent reach the
\* server one by one or, when TCP coalesces them, in a single read.
ClientDone(c) ==
  /\ client' = [c EXCEPT !.outbox = <<>>]
  /\ \/ uplink' = uplink \o [i \in 1 .. Len(c.outbox) |-> <<c.outbox[i]>>]
     \/ options.coalescing /\ Len(c.outbox) > 1 /\ uplink' = Append(uplink, c.outbox)

ConnectionSucceeded ==
  /\ Running
  /\ ~client.m_connected
  /\ client.m_segmentId = 0
  /\ \E n \in PacketNums :
       ClientDone(RequestSegment([client EXCEPT !.m_connected = TRUE], n))
  /\ UNCHANGED <<options, queue, wire>>

ClientHandleRead ==
  /\ Running
  /\ wire # <<>>
  /\ \E n, m \in PacketNums : ClientDone(MessageReceived(client, n, m))
  /\ wire' = Tail(wire)
  /\ UNCHANGED <<options, queue>>

PlayFrameEvent ==
  /\ Running
  /\ client.plays > 0
  /\ \E n \in PacketNums :
       ClientDone(PlayFrame([client EXCEPT !.plays = @ - 1], n))
  /\ UNCHANGED <<options, queue, wire>>

\* Bug: a frame the socket refuses is popped off the queue all the same.
DataSendDropsRefused(frames) ==
  LET room == TxBuffer - Len(wire)
      sent == IF Len(frames) < room THEN Len(frames) ELSE room
  IN  /\ wire' = wire \o SubSeq(frames, 1, sent)
      /\ queue' = SubSeq(frames, sent + 2, Len(frames))

\* DataSend: frames leave the queue until one does not fit into the buffer.
DataSend(frames) ==
  LET room == TxBuffer - Len(wire)
      sent == IF Len(frames) < room THEN Len(frames) ELSE room
  IN  /\ wire' = wire \o SubSeq(frames, 1, sent)
      /\ queue' = SubSeq(frames, sent + 1, Len(frames))

\* SendSegment queues the frames of the first request of the read; another one
\* behind it in the same read is dropped with the rest of the packet.
ServerHandleRead ==
  /\ Running
  /\ uplink # <<>>
  /\ LET r == Head(Head(uplink))
     IN  DataSend(queue \o [i \in 1 .. r.num |-> r.seg])
  /\ uplink' = Tail(uplink)
  /\ UNCHANGED <<options, client>>

\* The socket's send callback: there is room again.
ServerDataSend ==
  /\ Running
  /\ queue # <<>>
  /\ Len(wire) < TxBuffer
  /\ DataSend(queue)
  /\ UNCHANGED <<options, client, uplink>>

Next ==
  \/ ConnectionSucceeded
  \/ ClientHandleRead
  \/ PlayFrameEvent
  \/ ServerHandleRead
  \/ ServerDataSend

Spec == Init /\ [][Next]_vars

\* Every pending event has a finite time stamp and is run; TCP delivers.
FairSpec ==
  /\ Spec
  /\ WF_vars(ConnectionSucceeded)
  /\ WF_vars(ClientHandleRead)
  /\ WF_vars(PlayFrameEvent)
  /\ WF_vars(ServerHandleRead)
  /\ WF_vars(ServerDataSend)

-----------------------------------------------------------------------------
(* Properties.                                                             *)

\* The type invariant: the player's queue never runs below empty.
TypeOK ==
  /\ options \in Options
  /\ client \in Client
  /\ uplink \in Seq(Seq(Request))
  /\ queue \in Seq(Cells)
  /\ wire \in Seq(Cells)

\* The requests that downloads and plays have earned: one for the connection,
\* one per segment received up to init_buffer + req_num, one per segment played
\* at which PlayerPulls.
Earned(received, played) ==
  1 + (IF received < init_buffer + req_num
       THEN received ELSE init_buffer + req_num)
    + Cardinality({v \in 2 .. played : PlayerPulls(v)})

\* None of the earned requests is lost on an early return, none made twice.
RequestsEarned ==
  (client.m_segmentId > 0 /\ client.index # "out") =>
    client.m_segmentId = Earned(client.v_num, client.play_num)

\* Do the options make as many requests as the video has segments, or more?
OptionsFit == Earned(SegCount, SegCount) <= SegCount

\* Do they make enough requests for the player to start, which waits for
\* segment req_num + 1, and for all the segments of the video, but none that
\* would index video_series behind its allocation?
OptionsSuffice ==
  init_buffer > 0 /\ Earned(SegCount, SegCount) \in {SegCount, SegCount + 1}

\* The client asks for the segments the video has and for no other, so that
\* every index of video_series and user_seg_size is in range.
NoOverrun == client.index = "in"

\* NoOverrun, for the options whose requests add up to the video: the three
\* sites that request never run ahead of one another.
NoOverrunIfFit == OptionsFit => client.index = "in"

\* The packets of segments a .. b - 1, from the table of those before each one.
PacketsOf(a, b) ==
  LET before[s \in 0 .. SegCount + 1] ==
        IF s = 0 THEN 0 ELSE before[s - 1] + client.video_series[s - 1]
  IN  before[b] - before[a]

\* The player's queue holds the segments received but not yet played and what
\* there is of the next one: pauses, resumes inside ReceiveFrame and the double
\* first play lose no frame and play no segment before it is complete.
QueueHoldsSegments ==
  /\ client.play_num <= client.v_num
  /\ client.m_queue = PacketsOf(client.play_num, client.v_num) + client.frame_num

\* The client tells segments apart by counting frames and never looks at the
\* header; the frames on their way are nevertheless the rest of the segment it
\* is counting, then the following ones, each complete and in order.
FramesMatchCount == ~options.coalescing =>
  LET coming   == wire \o queue
      answered == IF uplink = <<>> THEN client.m_segmentId ELSE Head(Head(uplink)).seg
  IN  /\ \A i, j \in 1 .. Len(coming) : i < j => coming[i] <= coming[j]
      /\ \A s \in Cells :
           Cardinality({i \in 1 .. Len(coming) : coming[i] = s}) =
             IF s < client.v_num \/ s >= answered THEN 0
             ELSE client.video_series[s] - (IF s = client.v_num THEN client.frame_num ELSE 0)

\* Exactly one PlayFrame event is pending while the player plays, and none
\* while it waits for frames: a pause disarms the timer, a resume arms it once.
OneTimer ==
  /\ client.m_state = "PLAYING" => client.plays = 1
  /\ client.m_state \in {"NOT_STARTED", "PAUSED"} => client.plays = 0
  /\ client.plays <= 1

\* MpegPlayer's constructor leaves m_dashClient unset, and PlayFrame tests it.
\* A player that has ever played has been told of its client before, by the end
\* of an earlier segment: no uninitialised pointer is read.
PlayerKnowsClient == client.m_state # "NOT_STARTED" => client.m_dashClient

\* A player that waits for frames has frames of a request to wait for, until
\* the last segment is played: nobody waits for somebody who waits as well.
SomethingComes ==
  (/\ OptionsSuffice /\ ~options.coalescing
   /\ client.m_segmentId > 0 /\ client.m_state \in {"NOT_STARTED", "PAUSED"}
   /\ client.play_num < SegCount)
    => (uplink # <<>> \/ queue # <<>> \/ wire # <<>>)

\* The whole video is played, however downloads, plays and pauses interleave,
\* if the options make the requests and TCP keeps them apart.
AllPlayed ==
  (OptionsSuffice /\ ~options.coalescing) => <>(client.play_num >= SegCount)

\* The player is stopped in the end.  It is so only because the literal 61 of
\* PlayFrame is matched by a request behind the end of video_series: with
\* options that fit, the client waits for ever.
EndsDone ==
  (OptionsSuffice /\ Earned(SegCount, SegCount) = SegCount + 1 /\ ~options.coalescing)
    => <>(client.m_state = "DONE")

\* The server "responds by transmitting back the MPEG frames" of every request:
\* time and again, all the segments asked for so far are received in full.
RequestsAnswered == []<>(client.v_num >= client.m_segmentId)

=============================================================================
