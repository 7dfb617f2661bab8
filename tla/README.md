# Formal model of the hybrid 360-degree video streaming simulator

The repository is an ns-3 module that simulates one viewer of a tiled video.
The base layer travels over TCP, in HTTP requests and MPEG frames
(`DashClient`, `MpegPlayer`, `DashServer`). The enhancement travels over UDP
(`DudpClient`, `UdpPlayer`, `DudpServer`). The two halves share one process and a
set of globals (`para.h`): the TCP player opens the UDP half, tells it when to
play and takes away the rest of an answer that is late. `examples/udp_dash.cc` is
the scenario that runs both.

Everything below is read from the code under `src/`. The two halves are modelled
for one user of `src/examples/udp_dash.cc`, the TCP half with every set of options the
user may give; the nine main programs are modelled for several users.

## Inventory

| Component | Source | State | Operations | Interacts with |
|---|---|---|---|---|
| UDP client | `DudpClient.cc/.h` | `m_socket`, `m_sendEvent`, `m_segmentId`, `m_sent`, `p_num`, `p_seg`, `udp_series`, `T_start`, `T_play` | `StartApplication`, `CheckStart`, `ScheduleTransmit`, `Send`, `HandleRead`, `PacketReceive`, `CallPlayer`, `StopApplication` | calls its `UdpPlayer`; sends requests to `DudpServer`; polls `T_start` and `T_play` |
| UDP player | `udp-player.cc/.h` | `m_queue`, `v_num`, `m_udpClient`, `loss_mark` | `ReceiveFrame`, `CheckPlay`, `PlayFrame`, `WakeupUdp` | calls back `DudpClient::Send` and `StopApplication` |
| UDP server | `DudpServer.cc/.h` | `count_packet`, `s_id`, `now_seg`, pending ticks | `HandleRead`, `ScheduleTransmit`, `Send` | clears the client side's `T_play` and `loss_mark`; sends data |
| TCP client | `dash-client.cc/.h` | `m_connected`, `m_segmentId`, `frame_num`, `tmp_num`, `v_num`, `seg_num`, `video_series` | `ConnectionSucceeded`, `HandleRead`, `MessageReceived`, `RequestSegment`, `StopApplication` | calls its `MpegPlayer`; requests to `DashServer` |
| TCP player | `mpeg-player.cc/.h` | `m_state`, `m_queue`, `v_num`, `m_dashClient`, its timer, `m_start_time`, `m_lastpaused`, `m_interruption_time` | `ReceiveFrame`, `PlayFrame`, `SchduleBufferWakeup` | calls back `RequestSegment` and `StopApplication`; sets `T_start`, `T_play`, `count_packet` |
| TCP server | `dash-server.cc/.h` | `m_queues` | `HandleRead`, `SendSegment`, `DataSend` | TCP connection |
| HTTP parser | `http-parser.cc/.h` | `m_buffer`, `m_bytes` | `ReadSocket` | between the client's socket and `MessageReceived` |
| Headers | `http-header`, `mpeg-header` | fields of a packet | get, set, serialise | every message |
| Quality choice | `DudpClient.cc:382-469` | `TP`, `t_bw`, `p_inter` | part of `Send` | throughput measured by the TCP client |
| Rate algorithms | `model/algorithms/*` | rates, thresholds | `CalcNextSegment` | override the TCP client's, which is called by its qualified name: never run, not modelled |
| Bit rate window | `dash-client.cc:376-389, 459-536` | `m_requestTime`, `m_segment_bytes`, `m_bitrates`, `m_bitrateEstimate`, `m_bufferState` | `AddBitRate`, `LogBufferLevel` | fed by the last frame of a segment; what it computes is read by the rate algorithms only |
| Scenarios | `examples/*.cc` | rows of `user_info`, `user_bw`, `user_seg_size`, `video_series`, links, `protocols`, `clientApps` | `main`: options, files, nodes, links, applications, `Run`, `GetStats` | the tables that clients index; the algorithm names for the helpers |
| Helpers | `helper/` | a factory | `Install` | the order of installation gives each client its `m_id` |
| Scripts, tests | `code/`, `test/` | none while a session runs | | `com.py` adds up the log |

**What is hard here.** ns-3 runs one event handler at a time to completion, so
there are no data races. What is hard is the order of events and the state that
one handler leaves for another:

- *The UDP player has three sources of wakeups*: a packet that arrives, a
  10 ms poll (`CallPlayer`), and stale packets. All of them call `PlayFrame`, which
  both plays and asks for the next segment. `PacketReceive` may call it twice.
- *The server's answer is a chain of ticks on a global counter*. A request that
  arrives early starts a second chain on the same counter, and the TCP player sets
  the counter to zero from outside.
- *Flags of the client side are cleared by the server's handler* (`T_play`,
  `loss_mark`), one network delay after the client made the request.
- *UDP loses requests and packets*, and nothing is sent again.
- *The TCP client asks for segments from two places*, the end of a download and the
  end of a play, split by the options `init_buffer` and `req_num` and by the
  literals 56 and 61.
- *Frames are counted, not identified*, and *TCP is a stream*, which the server
  reads as if it were a sequence of messages.
- *Options steer the control flow*: `init_buffer` and `req_num` are compared for
  equality and in differences, and decide whether enough segments are ever asked for.
- *The halves write each other's state*: a play of the TCP half ends an answer of the
  UDP server and lets the UDP player play; a stale packet does so as well.
- *Tables are filled by one program and indexed by another one*: `main` fills them by
  rows and lines of files, the clients index them by the order of construction.
- *Two classes count the same frames*, the player by the length of its queue and the client
  by `frame_num`, in the same event but one after the other; the player's clock depends on
  that its pauses and resumes come in pairs.
- *A log is erased from while a loop runs over it*, by age, and the averages of that loop are
  only as good as `m_requestTime`, which two callers overwrite.
- *Pointers and literals*: `m_udpClient` and `m_dashClient` are set late, the
  end-of-stream tests (60, 61) are literals.

What makes each component correct: the UDP client asks for every segment once
and in order, one per play, never faults, and its log accounts for every packet;
the server sends what was asked for, in order, and comes to rest; the TCP client
asks for the segments the video has; its player plays complete segments, with one
timer, and is never stuck waiting for itself; the TCP server answers every
request in full. The player's clock says when a segment is due, whatever interruptions there
were, and none of these is longer than it takes to receive the segment; the log of throughputs
is that of the window. A main program gives every client the row, the link and the rate that
are its own. `PROJECT.json` lists the hazards one by one, each at its line.

## Modules

| Module | What it is |
|---|---|
| `UdpStream` | `DudpClient`, `UdpPlayer`, `DudpServer`, and the two directions of the UDP path; the TCP half is an environment |
| `SegmentPull` | the abstract pull protocol the UDP half promises |
| `UdpStreamProofs` | theorems on `UdpStream` and the refinement of `SegmentPull` |
| `MCUdpStream` | two expectations of `code/com.py`, for the runs that refute them |
| `DashStream` | `DashClient`, `MpegPlayer`, `DashServer`, and the TCP connection |
| `MCDashStream` | the sets of options of its runs |
| `DashStreamProofs` | theorems on `DashStream`: the accounts of frames, the order of the frames, who waits for what |
| `HybridSession` | both halves composed over `T_start`, `T_play` and `count_packet` |
| `MCHybridSession` | the options of its run |
| `HybridSessionProofs` | the session implements `UdpStream` with its environment, and inherits the theorems of both halves |
| `HttpStream` | one TCP connection at the level of bytes: `DashServer`'s queue, the socket, `HttpParser` |
| `FrameChannel` | the abstract channel of frames it promises, on which `DashStream` is built |
| `HttpStreamProofs` | theorems on `HttpStream` and the refinement of `FrameChannel` |
| `UdpQuality` | the throughput the TCP client measures, and the quality and spacing that `DudpClient::Send` makes of it |
| `UdpQualityProofs` | theorems on `UdpQuality` |
| `Playout` | `DashStream` in simulated time: the player's clock, and the log of throughputs |
| `MCPlayout` | the sets of options of its run |
| `PlayoutProofs` | theorems on `Playout` |
| `Scenarios` | the main programs of `examples/`, from the options to `GetStats` |
| `ScenariosProofs` | theorems on `Scenarios` |
| `SumTheorems` | induction over the naturals with sets, and tables of partial sums, for the proof modules |

`HybridSession` takes `DashStream` and `UdpStream` as instances and lets the steps of the
first replace the environment of the second. `DashStream` takes frames as wholes, which
`HttpStream` justifies by implementing `FrameChannel`. `UdpStream` takes any packet
number and any positive spacing, of which `UdpQuality` has the arithmetic.

### How state and actions correspond to the code

A handler of the code is one action, with everything it calls. The client's
members, its player's members and the globals they write are fields of one
record, `client`, under the names of the source. A member function is an operator
from a record to the record after the call, so that for example
`PacketReceive` composes `ReceiveFrame` or `PlayFrame`, then `CheckPlay` or
`CallPlayer`, then `WakeupUdp`, as the code does. `Send` inside such a
composition puts the request into the field `outbox`; `ClientDone` moves it to the
link when the handler ends. Undefined behaviour and assertions set `fault` (UDP)
or `index` (TCP), and the model stops there.

*Pending events.* `startup` is the one pending event of `CheckStart` or
`m_sendEvent`; `calls`, `ticks`, `sends` and `plays` count the pending `CallPlayer`,
`DudpServer::ScheduleTransmit`, `DudpServer::Send` and `MpegPlayer::PlayFrame`
events.

*Time* is abstracted: any pending event may be the next. One order is
kept, because the code depends on it: `DudpServer::ScheduleTransmit` schedules
`Send` with no delay and the next tick after `p_inter`, which `TimeBetweenPackets` of
`UdpQuality` shows to be positive, so `TimePasses` lets only
a request overtake a `Send`, no tick, packet or play.

*Data.* A packet of the UDP stream is the number of its segment, which is the only
field that is read. In `UdpStream` the sizes of segments and the choice of quality are
a choice of the packet number from `PacketNums`; the choice itself is `UdpQuality`. `asked`, `received` and `lost` count what the
`u,4`, `u,2` and `u,3` lines of the log say.

*Environment of `UdpStream`.* `SetTStart` and `MpegPlay` are what `MpegPlayer` does
to the UDP half; they may happen at any time, in that order. `LoseRequest` and
`LoseData` are the network (when `Lossy`), and packets that reach a closed
socket. The links keep the order of packets: the scenario has one route.

*Actions whose name differs from the code's:* `ServerHandleRead`,
`ScheduleTransmitEvent` and `ServerSendEvent` are the three handlers of
`DudpServer`; in `DashStream`, `ServerHandleRead` and `ServerDataSend` are those of
`DashServer`, and `ClientHandleRead` is `HttpParser::ReadSocket` handing over one
message. The operators marked *Bug* belong to no behaviour: each is a plausible
mistake in the definition it precedes, used to see that the properties notice.

*TCP.* A request is sent in one segment and read by one `RecvFrom`, except that
with the option `coalescing` (a property of the network, chosen with the program's options) the two requests of one event may come in one read, of which
`HandleRead` parses the first header only. `TxBuffer` is the number of frames the
socket takes before `Send` refuses; the send callback is `ServerDataSend`.
`video_series` and `user_seg_size` have `SegCount` entries. One access behind the end
stays in the block the allocator hands out for 60 integers, so the model carries
it out and records it (`index = "behind"`); a further one would stop the model.

*Bytes.* In `HttpStream` a byte is its place in the stream, `m_buffer` is a function
from slots to bytes, `RecvFrom` writes behind `m_bytes`, and `HandOver` moves the rest
to slot 0 as the `memmove` does. `MpegSizes` is what `RemoveHeader` decodes from the
front of the buffer: the size of a frame if its header lies exactly there, and
anything otherwise, so that a parser that lost step would show. `DataSend` loops
and `ReadSocket` calls itself: an action is one round, and `running` keeps other events
out until the handler returns. `SegmentFrames` makes frames of 1288 bytes, or a single
frame without payload, as `SendSegment` does. TCP cuts the stream anywhere
(`ClientHandleRead`) and acknowledges any number of bytes (`Acknowledge`, which calls
back `DataSend`). Closing the connection is left out: nothing arrives afterwards that
the player would take.

*Session.* A step of `HybridSession` is a handler of one half. `TcpStep` takes one of
`DashStream` and adds what `MpegPlayer::PlayFrame` writes of the other half when it gets
past its early returns, which is when its `v_num` moves. `T_start` is a field of the TCP
half's record and is substituted for the variable of `UdpStream`. The base layer waits
for the zero-delay `Send` events of the UDP server like every other handler.

*Simulated time.* `Playout` adds to each action of `DashStream` what it does to the times, and
the action `Tick`. The `PlayFrame` event has a time, `playAt`, and `Tick` does not pass over it;
requests and frames take any time, since the network decides about that. `GetRealPlayTime` is an
operator, a segment being a second long and the first two, which `PlayFrame` takes together,
being one. The times are set by `ReceiveFrame` and `PlayFrame` in the branches that change
`m_state` and `v_num`, so that `PlayerClock` reads off the client's record which branch it was
(`Starts`, `Pauses`, `Resumes`, `Plays`); a player never does one of these twice in a handler. `Requested`
and `Measured` follow `m_requestTime` and `m_segment_bytes` through the requests that the player and
the client make in one event. An entry of the log keeps the frames and the time of which its rate is
made; the time is 0 where the player has asked in the event of the last frame, and the rate
infinite. Erasing the element that the iterator stands on (fault `iterator`) either goes well
or ends the run. `CalcNextSegment` is the base class's, which keeps the rate and changes nothing.

*Scenarios.* A table is the sequence of the rows or lines it was read from, so that an
entry tells its origin; the text of files is not modelled. The nine programs differ in
what they read, how they connect nodes and in which order they install applications:
each has its three definitions (`Reads_`, `Topology_`, `Apps_`), and the actions are those
of all of them in the order of `main`. An index out of range, or a string that `stod`
cannot parse, sets `fault`, and so does an empty rate or delay of the links, and an address
that is given twice: the network of a user is `10.1.<user>.0`, of which a byte is kept
(`Networks`, 256). Options that have a default that can be used, and the contents of lines,
are taken as well formed. The first request of each client is the one that looks into
the tables.

*Quality.* `UdpQuality` has two actions: the end of a TCP segment, which sets the global
`TP`, and `Send`, which reads it. `answer` keeps what the last `Send` chose and the `TP` it
read. The doubles of the code are fractions over a common denominator, so that the
comparisons are exact: `each_time` is `Ticks / Remaining`, and a test like
`1 - n * each_time >= 0` is multiplied out, with a case for each sign of `B_remain`. A
division by zero stands for infinity, as it does for doubles; rounding errors of
doubles are left out. `MeasureTP` takes any number of frames and any time between the
first and the last that the link allows, an only frame being at once the first and the last.

## Runs

| Run | Configuration | Question | Result |
|---|---|---|---|
| `udp_lossy` | `UdpStream_lossy` | does the UDP half keep its invariants and implement `SegmentPull` when requests and packets are lost? | holds |
| `udp_live` | `UdpStream_live` | without losses: can the loss mark block the player for good; does the server come to rest, do queued packets play, is every request served? | holds |
| `udp_totals` | `UdpStream_totals` | do losses and receptions add up, as `com.py` expects? | violated |
| `udp_label` | `UdpStream_label` | does a loss report name the segment played short? | violated |
| `dash` | `DashStream` | with every set of options, and with coalesced requests: queue, requests, timer, frame counts; is everything played and the client stopped, where the options suffice? | holds |
| `dash_overrun` | `DashStream_overrun` | default options: does the client stay within `video_series`? | violated |
| `dash_lost_request` | `DashStream_lost_request` | is every request answered when two share a read? | violated |
| `http_stream` | `HttpStream` | are frames handed over whole, in order, once and all, however the stream is cut? | holds |
| `udp_quality` | `UdpQuality` | does the spacing of packets stay positive, the two halves within the bandwidth, an answer within its second? | holds |
| `hybrid` | `HybridSession` | both halves: does the enhancement layer start after the base layer, is the TCP half the environment that `UdpStream` assumes, does everything come to rest? | holds |
| `playout` | `Playout` | in simulated time: is a segment due when its event is, whatever the interruptions; does a waiting player resume at the right frame; are log and estimate those of the window? | holds |
| `scenarios` | `Scenarios` | which of the options and files left open can a run not do without, and does each client get its own row, link and rate? | holds |

**UDP invariants.** `NoFault`: no assertion, index, closed socket or unset
`m_udpClient`. `RequestsPacePlayback`: requests are one ahead of plays while the
stream runs. `LossesAccounted`: every packet asked for, of a played segment, was
logged as received or lost. `StampsInOrder`: requests and data are in segment
order and not ahead of the player. `NoPacketUnasked`: overlapping ticks send at most
what was asked. `PullSpec` is the refinement of `SegmentPull`.

**UDP progress.** `LossMarkHasRequest` says that the mark that makes `PlayFrame` return
early is only up while a request that clears it is on its way, or after the end.
`QueuePlays` says that queued packets are played in the end, while the MPEG video goes on.
It has an exception, taken from the code: in the `CheckPlay` branch of `PacketReceive`,
while `p_num` is still short of the first count, no poll is left behind. `ServerQuiet`
says that the ticks die out.

**TCP invariants.** `NoOverrunIfFit` (options whose requests add up to the video never
index behind the rows), `FramesMatchCount` (the frames on their way are the rest of the
segment being counted, then the following ones), `QueueHoldsSegments` (the player's queue is
the segments received and not yet played), `RequestsEarned` (the number of requests is a
function of downloads and plays), `OneTimer`, `PlayerKnowsClient`, `SomethingComes` (a
waiting player has something to wait for). **Progress:** `AllPlayed`, `EndsDone`. The last
three hold for the options that `OptionsSuffice` names: with `init_buffer = 0` the player
never starts, with options that earn fewer requests than there are segments it waits for
ever, and with more than one request too many the index leaves the allocated block.

**Session.** `UdpSpec` is the refinement: whatever the base layer does, the UDP half sees
an environment of `UdpStream`, in particular `T_start` before the first play and in an event
of its own. `EnhancementStartsAfter`: nothing of the enhancement layer is played before the
base layer plays. More does not hold: a packet stamped with an older segment than `now_seg`
makes the UDP player play without a look at `T_play`, so that it may get ahead of the base
layer, by any number of segments (with four packets in a segment TLC finds it). Nothing in
the repository says otherwise, so that this is no finding. `SessionEnds`: in the end
nothing is under way or being sent. It leaves out the polls of `CallPlayer`: some may be
armed when the MPEG video is over, and these stay for ever.

**Bytes.** `WholeFramesInOrder` compares what `MessageReceived` gets with the bytes of
the server's frames; `NothingLeftBehind` says that the parser never waits for bytes it
has; `ChannelSpec` and `ChannelFairSpec` are the refinement of `FrameChannel`, without
and with progress.

**Quality.** `TimeBetweenPackets` holds for every `TP`, also one above `t_bw` or with no time
between the frames. `WithinBandwidth` and `AnswerInTime` need `Truthful`, that `TP` is below `t_bw`.
The code does not ensure that: `TP` counts `n` frames over the time of `n - 1`, and `t_bw` is two
characters of an option. Above `t_bw` the remaining bandwidth is negative, the first test
succeeds, and the highest quality is spread over more than a second; no doc
promises otherwise, so that this is a condition of the properties and not a finding.

**Playout.** `DueInTime`: `GetRealPlayTime` of the next segment is the time until the event that
plays it while the player plays, and 0 while it waits; a pause that is not noted, or an
interruption added up twice, would show at every later segment. `ResumesWhenComplete`: a player
that waits resumes with the very frame with which the client completes the segment it waits for,
no earlier and no later. `EstimateIsFresh`: the log and its average are those of the measurements
of the last window; that these are measurements of one segment is not claimed, since the
player's requests reset `m_requestTime` in the middle of another segment.

**Scenarios.** `SufficientIsExact`: with the options and files that `Sufficient` names, and they
are named without the order of the program, nothing is indexed out of range, all links have a rate
and a delay, and no address is given twice; without one of them no run in which all clients
ask ends well. It is exact about what the model leaves open, no more. `UserGetsOwn`: the row a
client looks up is its own, and its link to the server has the rate of its own line.

### What the violated runs show

- `udp_totals`: MPEG plays a segment short, `PlayFrame` reports the missing packets,
  and `CheckPlay` clears `T_play`. A packet of the same segment that arrives before
  the server has the next request finds `now_seg == p_seg` and is counted as
  received as well.
- `udp_label`: the report prints `now_seg`, while the segment played is `v_num`. The
  player can be one ahead of the server, with stale packets in its queue.
- `dash_overrun`: with `init_buffer = 4`, `req_num = 2` the client makes
  1 + 6 + 54 = 61 requests for 60 segments. The 61st is also what stops the client:
  `v_num == 61` is reached through the segment that does not exist. With options
  that make 60 requests, the client is never stopped.
- `dash_lost_request`: `PlayFrame`, called from `ReceiveFrame`, and the last-frame
  branch of `MessageReceived` each make a request in one event. Read together,
  the second is dropped, and the player waits for its segment for ever.

### Bounds, and why they are enough

- `SegCount` is 3 for UDP (the literal 60): a first, a middle and a last segment; the
  player is at most one segment ahead of the server, so three segments have every
  relation of `now_seg` and `v_num`. It is 7 or 8 for TCP (60): the literals 56 and 61
  are `SegCount - 4` and `SegCount + 1`, and 7 or 8 leave requests by
  downloads only, by both, by plays only, and by nobody.
- `AllOptions` of `dash` is every pair of `init_buffer` and `req_num` that the assumptions
  of the module allow with 7 segments, among them options that suffice, that ask for one
  request too many, for too many and for too few.
- `hybrid` has 4 segments, the least that the module takes (`SegCount - 4` stands for 56; the
  downloads ask for all of them), of one frame by TCP and of 4 packets by UDP: the least
  number with which a stale packet makes the player play unprompted (one is queued, one makes it play, one is queued behind it, one
  comes too late). With fewer packets stronger properties hold, which is why the number
  matters. The theorems on the session hold for all numbers.
- `playout` has 6 segments of one or two frames, a second of two ticks, a window of two and a
  horizon of six (`Horizon` is the one bound on the clock): a player can start, pause for an empty
  queue and for an incomplete segment, resume and pause again, and the log outlives its window.
  Its options are one pair with which the player pulls early and one with which the downloads
  ask for nearly all; TCP keeps requests apart. The theorems hold for all constants.
- `scenarios` has up to 4 users, rows and algorithms, 8 lines (two windows of 4), 4
  stations and 3 networks (256): every table may be too short, just right and too long, and the
  networks too few.
- `PacketNums` is up to {1, 3, 5} for UDP, {1, 2, 4} in the run with liveness: a segment of one packet, and segments
  long enough that stale packets can make up a shorter one; {4, 5, 9} in `udp_label`,
  where a long answer has to be followed by shorter ones. It is {1, 2} for TCP.
- No counter but `now` is capped: requests are bounded by `SegCount`, packets by the requests.
- `TxBuffer` of `DashStream` is 2, so that a segment of two frames fits and the next one is refused.
- `HttpStream` has headers of 2 bytes and payloads of 0 or 3, a buffer of 6, which holds
  one full frame and part of the next, and a socket of 8, which refuses the second
  full frame; up to three segments of up to three frames give every alignment of
  frames, reads and buffer ends. The theorems hold for all sizes.
- `UdpQuality` has a link of 4 bits per tick, frames and packets of 3 bits, and a second of
  12 ticks: segments of one to four frames over up to six ticks give throughputs below, at
  and above `t_bw` and infinite ones; sizes from 0 to 25 bytes, two in a packet, give segments
  that fit in no, some or all qualities, an empty one, and full and partial last packets.
- Deadlock is not checked: a stream that has ended, or starves after losses, has no
  event left; a main program ends. The waiting that should not happen is the subject of
  `LossMarkHasRequest`, `SomethingComes` and of the liveness properties.

### Fairness

Weak fairness of every handler: an event in the simulator's list has a finite
time stamp, and the loop runs until the list is empty (`Simulator::Stop` is
commented out in the scenario). Delivery is fair where the network does not lose.
`PlaySpec` adds that the MPEG video goes on; `MpegPlayer` arms its timer once a second
while it plays. No strong fairness is assumed. Liveness is claimed without losses
only: the code never repeats a request.

`HybridSession` assumes weak fairness of the polls together and of all other
events together: a poll is armed 1 or 10 ms ahead and keeps no other event from its
time, nor do those the polls.

`HttpStream` assumes that handlers return, that TCP delivers the bytes it took and
acknowledges those it delivered; no request need ever come.

## Proofs

### The UDP half

`UdpStreamProofs` proves, for every `SegCount`, every set of positive
`PacketNums`, with and without losses:

| Theorem | Statement |
|---|---|
| `Invariance` | `Spec => []IInv` |
| `TypeCorrect` | `Spec => []TypeOK` |
| `NeverFaults` | `Spec => []NoFault` |
| `Paced` | `Spec => []RequestsPacePlayback` |
| `Accounted` | `Spec => []LossesAccounted` |
| `Ordered` | `Spec => []StampsInOrder` |
| `Implements` | `Spec => PullSpec` |
| `Unasked` | `Spec => []NoPacketUnasked` |
| `MarkCleared` | `Spec => []LossMarkHasRequest`, assuming `~Lossy` |

The assumptions are those of the module: `SegCount` is a positive natural,
`PacketNums` are positive naturals, `Lossy` is a Boolean.

*The argument.* None of the invariants is inductive alone. `NoFault` needs to know
that `Send` is called only while a segment is left, which is
`RequestsPacePlayback`; that needs that the queue is empty after the end, that
polls and stale packets find an empty queue, and that a player with packets has
been told of its client (`Wired`); and `StampsInOrder` is needed so that an
old request never turns the server back. `IInv` joins them.

Handlers are compositions, so the proof is made first on the client's record.
`ClientInv` is what holds between any two calls; `Outcome` says what a call may do
to the progress of the client: nothing, advance by one segment and one request,
or finish. `PlayFrameFacts` proves both of `PlayFrame`, `PlayFrameIdempotent` that a
second call changes nothing, because the first one empties the queue, which is
why `PacketReceive` and its two calls still advance by one at most. Each action then
has one lemma for `IInv` and, where it is visible in the abstract protocol, one
for `SegmentPull`. `MarkCleared` adds `MarkInv` to `IInv`: the mark is put up only by a call
whose outcome also sends a request or closes the socket. `Unasked` is inductive next to
`IInv`, once `PromisedBy`, the packets of the requests on their way, is known to grow by
a request's count when one is sent and to fall by it when one is read. `PromisedSum` gets that
from a table of partial sums (see *Induction* below); overlapping
chains of ticks are no trouble, since what a tick hands to a `Send` it takes from the one `count_packet`.

### The TCP half

`DashStreamProofs` proves, for every number of segments, packet numbers, options and size of
the transmit buffer that the module's assumptions allow, with and without coalescing:

| Theorem | Statement |
|---|---|
| `Invariance` | `Spec => []IInv` |
| `TypeCorrect` | `Spec => []TypeOK` |
| `AsEarned` | `Spec => []RequestsEarned` |
| `InRange` | `Spec => []NoOverrunIfFit` |
| `Timed` | `Spec => []OneTimer` |
| `Introduced` | `Spec => []PlayerKnowsClient` |
| `PlaysReceived` | `Spec => [](client.play_num <= client.v_num)` |
| `StartsFirst` | `Spec => [][StartFirst]_vars` |
| `QueueExact` | `Spec => []QueueHoldsSegments` |
| `FramesInOrder` | `Spec => []FramesMatchCount` |
| `NeverStarved` | `Spec => []SomethingComes` |

*The argument.* `OneTimer` and `RequestsEarned` need that the player's early returns are
the right ones, and these compare sizes of the queue with entries of `video_series`: that
needs to know which frames can still come. `IInv` says that there
*are* two tables: `f`, with `f[s]` the frames of the first `s` segments, which each
request extends by an entry, and `h`, with `h[i]` the frames that the server's reads from
the `i`-th on will bring. What has been received plus what is on its way is at most
what has been asked for; it is an inequality because a coalesced request brings nothing.
From it follow that no frame belongs to a segment not asked for, that a player that plays
finds a whole segment in its queue, and that a request is made exactly when it is earned.
The calls are again proved one by one on the client's record (`RequestSegment`, `PopFrames`,
`PlayFrame`, `ReceiveFrame`, `CountFrame`, `MessageReceived`), each keeping `Sound`.
`QueueExact` needs no more: `PacketsOf`, the sum over a range of segments in its statement,
is a difference of two entries of `f`.

`FramesInOrder` has an equation where `IInv` has an inequality, because `FramesMatchCount` speaks
of networks that keep requests apart. `InOrder` says where in the table `f` each frame on its
way lies: the `i`-th of them is the frame number `Received + i` of the stream, the last one
is the last of the segments answered, and the reads to come are the requests in order.
That the frames of a segment are as many as `video_series` says is then a count of an interval.
`NeverStarved` adds `Waits`: a player that has paused holds less than the segment it wants,
and one that has not started has not received what it starts with. If nothing were on its
way, `InOrder` would make all that was asked for received, `RequestsEarned` gives the number of
requests that received segments have earned, and for options that suffice `EarnedMore` says that
this is more than has been received.

### The session

`HybridSessionProofs` proves, for all values of the constants:

| Theorem | Statement |
|---|---|
| `BaseInvariance` | `Spec => []Base!IInv` |
| `Implements` | `Spec => UdpSpec` |
| `Invariance` | `Spec => []SessionInv` |
| `StartsAfter` | `Spec => []EnhancementStartsAfter` |
| `EnhancementInherits` | `NoFault`, `RequestsPacePlayback`, `LossesAccounted`, `StampsInOrder`, `NoPacketUnasked` and `LossMarkHasRequest` of the UDP half hold in the session |
| `EnhancementPulls` | `Spec => Enhancement!Pull!Spec`: the session's enhancement layer implements `SegmentPull` |
| `BaseInherits` | `RequestsEarned`, `NoOverrunIfFit`, `OneTimer`, `PlayerKnowsClient`, `QueueHoldsSegments`, `FramesMatchCount` and `SomethingComes` of the TCP half hold in the session |

*The argument.* A step of the TCP half is a step of `DashStream` and keeps its invariant;
`StartFirst`, which follows from the invariant, says that a step that plays finds `T_start`
up and leaves it up. So the step is `SetTStart`, `MpegPlay` or invisible to the UDP half, and
all theorems of `UdpStreamProofs` apply. The two halves with their proofs are
instances of their own (`Base`, `Enhancement`); the prover does not identify `Base!F` with
`Dash!F`, so lemmas say that they are equal, from the bottom up. `LossMarkHasRequest` asks for no
losses, and the session's UDP path has none (`Lossy` is `FALSE` in the instance), so that it needs no assumption here.

### The byte stream

`HttpStreamProofs` proves, for all sizes of headers, payload, buffer and socket:

| Theorem | Statement |
|---|---|
| `Invariance` | `Spec => []IInv` |
| `TypeCorrect` | `Spec => []TypeOK` |
| `WholeFrames` | `Spec => []WholeFramesInOrder` |
| `NothingLeft` | `Spec => []NothingLeftBehind` |
| `Implements` | `Spec => ChannelSpec` |

The assumptions are that headers are not empty and that a frame fits into
`m_buffer` and into the socket's transmit buffer (1354 bytes in 100000 and 131072).

*The argument.* `WholeFramesInOrder` alone says nothing of what comes next. `Layout` says
that frames lie one behind the other in the stream; `Contents` that the part of the
buffer in use holds consecutive bytes; `InStep` that the first of them is where the next
frame starts. `HeaderRead` concludes that the header decoded is that frame's and no
other's. `Quiet`, that outside `ReadSocket` the socket is empty and the next frame
incomplete, needs the assumption on the buffer: a read that leaves bytes behind has
filled it, so that a whole message is there.

### The quality choice

`UdpQualityProofs` proves, for every link, `t_bw`, packet and frame size, every set of
segment sizes and of gaps between frames:

| Theorem | Statement |
|---|---|
| `TypeCorrect` | `Spec => []TypeOK` |
| `TicksTakeTime` | `Spec => []TimeBetweenPackets` |
| `BandwidthShared` | `Spec => []WithinBandwidth` |
| `InTime` | `Spec => []AnswerInTime` |

The assumptions are that sizes and gaps are natural numbers, and that the sizes of
packets and frames, the rates, the second and the counts of frames are positive.

*The argument.* The properties together are inductive, since a measurement leaves the
answer alone and an answer is a function of `TP` and of the sizes of one segment; the work is in
what `Send` makes of any `TP`. The fractions are compared by products of variables, of which
the solver knows little, so that each product has a name and a bound of its own. `TicksTakeTime`
is the one that `UdpStream` rests on: the spacing that `DudpServer` schedules its ticks by
is positive, also where `TP` exceeds `t_bw` and the remaining bandwidth is negative.

### The playout

`PlayoutProofs` proves, for every length of a second, window and horizon and all the constants of
`DashStream`, coalescing included:

| Theorem | Statement |
|---|---|
| `TimedInvariance` | `TimedSpec => []TimedInv` |
| `TimesCorrect` | `TimedSpec => []TimesOK` |
| `ClockIsTrue` | `TimedSpec => []DueInTime` |
| `ResumesInTime` | `TimedSpec => ResumesWhenComplete` |
| `Estimated` | `TimedSpec => []EstimateIsFresh` |

*The argument.* A step of `Playout` is one of `DashStream` or a tick, so that `IInv` and `Waits` of
`DashStreamProofs` hold; `TimedInv` adds `ClockInv` and `LogInv`. What a handler can do to the player
follows from them: a timer plays on or pauses (`TimerFires`), frames start the player or let it go on
(`ReadMoves`), and each of these moves keeps `ClockInv`, which is `DueInTime` without subtraction.
That needs `OneTimer`: with a second timer pending the due time would be that of neither.
`ResumesInTime` needs both tables of `IInv`: what is in the queue is what was received and not
played, so that the queue reaches the size of the segment wanted with the frame that makes
`frame_num` reach it; `Waits` says that it had not reached it before. `LogInv` says that the
newest measurement is the time up to which the window reaches, and that what the loop left
standing is what is within it.

### The scenarios

`ScenariosProofs` proves, for any number of users, rows, lines, windows, stations and networks, of
each of the nine programs:

| Theorem | Statement |
|---|---|
| `Invariance` | `Spec => []IInv` |
| `TypeCorrect` | `Spec => []TypeOK` |
| `OwnRows` | `Spec => []UserGetsOwn` |
| `ExactlySufficient` | `Spec => []SufficientIsExact` |

*The argument.* `main` changes no table that it has filled, so `IInv` says for each of them what
it holds, as a function of the options and files, from the phase on in which it is
filled: the window of the bandwidth file (`WindowRead`, by induction over its lines), the rows
read so far, the links, the networks, the protocols, the clients. The tests that `main` has passed are part of
it. `OwnRows` reads the tables off. `Sufficient => fault = "none"` is inductive with the rest: each action
that can fail does so under a condition that a conjunct of `Sufficient` excludes. The other half of
`ExactlySufficient` starts from the end: if all have asked, the user with the highest number
has found its row (`AllAsked`), and every test that `main` passed is a conjunct. That two networks get
the same base exactly if there are more users than networks is `NetworksFacts`. The programs enter
only through `ReadsFacts`, `TopologyFacts` and `AppsFacts`, what they read, link and install.

### Induction

The library's induction theorems take the predicate as a parameter, which the installed
provers cannot instantiate. Its theorem that strict inclusion is well-founded on finite sets
(`FS_StrictSubsetOrderingWellFounded`) has none. `SumTheorems` applies it to the intervals
`0 .. n`: a set of naturals that is not empty has a smallest element, so that a set with 0 and the
successor of each of its elements has all the naturals (the lemma `SetInduction`). A predicate
is then a set, `{n \in Nat : ...}`. The rest of the module is about tables of partial
sums: that they exist, that the last entry is unique, that they grow with their terms. The sums of the
models (`PromisedBy`, `PacketsOf`, `WindowLines`) are recursive functions, whose defining
equation follows from `CHOOSE` once a function that satisfies it is known; the table is that function.

### Only model-checked

Every invariant and action property that the passing runs check has a theorem, and so have the
refinements `PullSpec`, `ChannelSpec` and `UdpSpec`. What stays with TLC is
liveness, `ServerQuiet`, `QueuePlays`, `AllPlayed`, `EndsDone` and `SessionEnds`, and the fair
refinements `PullFairSpec` and `ChannelFairSpec`: liveness under fairness and `ENABLED` are out
of reach of the prover. The four disagreements with the repository's expectations are counterexamples, found by
TLC.

## Not modelled, and why

- Rounding errors of doubles.
- The six classes of `src/model/algorithms`: `MessageReceived` calls `DashClient::CalcNextSegment`
  by its qualified name (`dash-client.cc:400`), which is not a virtual call, so that none of them
  ever runs and the rate never changes, although `dash-client.h:55-57` says that the next bit rate
  is calculated from buffer and throughput. `m_bufferState`, which only they read, is left out as well.
- Several users of the UDP half: its code indexes row 0 and shares its globals, so it is
  written for one. `Scenarios` has several users up to their first requests.
- In `examples/`: the change of a link's rate in `link-example.cc` (`CallBack`,
  `SwitchCallBack`), the text of files and of options with a usable default, tracing, and `first.cc` and `ttt.cc`, two ns-3
  tutorials that use nothing of the simulator.
- `m_bufferDelay`, which is always 0, and the sums of `GetStats`: reports, read by no decision.
- Fields of the headers that nothing reads, the encoding of numbers and the tests of
  the headers: round trips of a packet, with no protocol behaviour.
- `StopApplication` of the two servers, closed and refused connections: never
  scheduled by the scenario, and the client's answer to a refusal is a line in the log.
- Plots and statistics of `code/`, but for the two expectations in `MCUdpStream`.

## Plan

1. An abstract download-and-play specification, in the manner of `SegmentPull`, that
   `DashStream` implements for the options that suffice: how far the requests
   run ahead of the plays, as a refinement instead of `RequestsEarned`. It has to say what the
   abstract protocol does at the request behind the last row.
2. A second TCP user next to the first one: they share `count_packet`, `T_start` and `T_play`.
