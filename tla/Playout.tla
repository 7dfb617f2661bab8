------------------------------- MODULE Playout -------------------------------
(***************************************************************************)
(* DashStream in simulated time: the clock of the player, which counts how *)
(* long the video has been interrupted, and the log of throughputs that    *)
(* DashClient keeps over m_window.                                         *)
(*                                                                         *)
(* Every event of DashStream happens at the time now.  The PlayFrame event *)
(* has its time, playAt; frames and requests may take any time.  What a    *)
(* handler does to the times is told from the client's records before and  *)
(* after it: none of them makes the player start, resume or pause twice.   *)
(*                                                                         *)
(* The handler calls DashClient::CalcNextSegment by its qualified name, so *)
(* that the rate never changes and no class in src/model/algorithms runs.  *)
(* The buffer levels that m_bufferState logs at the same times as the      *)
(* throughputs are left out: nothing that runs reads them.                 *)
(***************************************************************************)
EXTENDS DashStream

CONSTANTS
  Second,  \* the delay of PlayFrame's own event, MilliSeconds(1000)
  Window,  \* the attribute window
  Horizon  \* Bound: the time at which the model stops.

ASSUME TimeAssumption == Second \in Nat \ {0} /\ Window \in Nat /\ Horizon \in Nat

VARIABLES
  now,                  \* Simulator::Now()
  playAt,               \* the time of the pending PlayFrame event
  m_start_time, m_lastpaused, m_interruption_time,  \* of MpegPlayer
  m_requestTime,
  m_segment_bytes,      \* in frames, which are all of one size
  log,                  \* m_bitrates
  m_bitrateEstimate,    \* the entries of which the estimate is the average
  measured,             \* History: what the log would hold without a window.
  fault                 \* "iterator" when a loop has used an erased one

playerTimes == <<playAt, m_start_time, m_lastpaused, m_interruption_time>>
download == <<m_requestTime, m_segment_bytes>>
rates == <<log, m_bitrateEstimate, measured, fault>>
timedVars == <<vars, now, playerTimes, download, rates>>

\* An entry of m_bitrates.  The rate is frames / took; it is infinite when the
\* last frame comes in the instant of the last request.
Entry == [time : Nat, frames : Nat \ {0}, took : Nat]

TimedInit ==
  /\ Init
  /\ now = 0 /\ playAt = 0
  /\ m_start_time = 0 /\ m_lastpaused = 0 /\ m_interruption_time = 0
  /\ m_requestTime = 0 /\ m_segment_bytes = 0
  /\ log = {} /\ m_bitrateEstimate = {} /\ measured = {}
  /\ fault = "none"

-----------------------------------------------------------------------------
(* What the handlers do to the times.                                      *)

Starts == client.m_state = "NOT_STARTED" /\ client'.m_state # "NOT_STARTED"
Pauses == client.m_state # "PAUSED" /\ client'.m_state = "PAUSED"
Resumes == client.m_state = "PAUSED" /\ client'.m_state # "PAUSED"
Plays == client'.play_num # client.play_num

\* Bug: a pause for want of a whole segment does not note the time.
PlayerClockForgets ==
  /\ m_start_time' = IF Starts THEN now ELSE m_start_time
  /\ m_lastpaused' = IF Pauses /\ client'.m_queue = 0 THEN now ELSE m_lastpaused
  /\ m_interruption_time' =
       IF Resumes THEN m_interruption_time + (now - m_lastpaused) ELSE m_interruption_time
  /\ playAt' = IF Plays THEN now + Second ELSE playAt

\* Bug: the length of the interruption has the wrong sign.
PlayerClockSwaps ==
  /\ m_start_time' = IF Starts THEN now ELSE m_start_time
  /\ m_lastpaused' = IF Pauses THEN now ELSE m_lastpaused
  /\ m_interruption_time' =
       IF Resumes THEN m_interruption_time + (m_lastpaused - now) ELSE m_interruption_time
  /\ playAt' = IF Plays THEN now + Second ELSE playAt

\* ReceiveFrame and PlayFrame.
PlayerClock ==
  /\ m_start_time' = IF Starts THEN now ELSE m_start_time
  /\ m_lastpaused' = IF Pauses THEN now ELSE m_lastpaused
  /\ m_interruption_time' =
       IF Resumes THEN m_interruption_time + (now - m_lastpaused) ELSE m_interruption_time
  /\ playAt' = IF Plays THEN now + Second ELSE playAt

\* RequestSegment, called by another handler than MessageReceived: bytes of
\* a segment that is still coming are forgotten, too.
Requested ==
  IF client'.m_segmentId # client.m_segmentId
  THEN m_requestTime' = now /\ m_segment_bytes' = 0
  ELSE UNCHANGED download

\* Does the frame taken complete a segment that counts?  The last one does not.
Ends ==
  client'.v_num # client.v_num /\ client'.v_num # SegCount /\ client'.m_state # "DONE"

\* MessageReceived's own request, and the one of the player it has called.
RequestsNext == Ends /\ client'.seg_num <= init_buffer + req_num
PlayerRequested ==
  client'.m_segmentId - client.m_segmentId > IF RequestsNext THEN 1 ELSE 0

\* m_bitrates[time] = bitrate.
Put(entries, e) == {x \in entries : x.time # e.time} \cup {e}

Fresh(entries, t) == {x \in entries : x.time >= t - Window}

\* Bug: entries that leave the log are still part of the average.
AddBitRateCountsOld(e) ==
  /\ log' = Fresh(Put(log, e), now)
  /\ m_bitrateEstimate' = Put(log, e)
  /\ measured' = Put(measured, e)

\* The loop erases entries older than the window and averages the others.
AddBitRate(e) ==
  /\ log' = Fresh(Put(log, e), now)
  /\ m_bitrateEstimate' = log'
  /\ measured' = Put(measured, e)

\* MessageReceived measures since the last request, its player's included.  An
\* erased entry invalidates the iterator of the loop: it may go on or not.
Measured ==
  LET request == IF PlayerRequested THEN now ELSE m_requestTime
      bytes == 1 + IF PlayerRequested THEN 0 ELSE m_segment_bytes
  IN  /\ m_requestTime' = IF RequestsNext THEN now ELSE request
      /\ m_segment_bytes' = IF RequestsNext THEN 0 ELSE bytes
      /\ IF ~Ends THEN UNCHANGED rates
         ELSE \/ /\ AddBitRate([time |-> now, frames |-> bytes, took |-> now - request])
                 /\ UNCHANGED fault
              \/ /\ \E x \in log : x.time < now - Window
                 /\ fault' = "iterator"
                 /\ UNCHANGED <<log, m_bitrateEstimate, measured>>

-----------------------------------------------------------------------------
(* The events.                                                             *)

TimedConnectionSucceeded ==
  /\ ConnectionSucceeded
  /\ Requested
  /\ UNCHANGED <<playerTimes, rates>>

TimedClientHandleRead ==
  /\ ClientHandleRead
  /\ PlayerClock
  /\ Measured

\* The event runs at its time.
TimedPlayFrameEvent ==
  /\ PlayFrameEvent
  /\ now = playAt
  /\ PlayerClock
  /\ Requested
  /\ UNCHANGED rates

TimedServer ==
  /\ ServerHandleRead \/ ServerDataSend
  /\ UNCHANGED <<playerTimes, download, rates>>

\* Time does not pass over a pending event.
Tick ==
  /\ now < Horizon
  /\ client.plays > 0 => now < playAt
  /\ now' = now + 1
  /\ UNCHANGED <<vars, playerTimes, download, rates>>

Event ==
  \/ TimedConnectionSucceeded
  \/ TimedClientHandleRead
  \/ TimedPlayFrameEvent
  \/ TimedServer

TimedNext ==
  /\ fault = "none"
  /\ \/ Tick
     \/ Event /\ UNCHANGED now

TimedSpec == TimedInit /\ [][TimedNext]_timedVars

-----------------------------------------------------------------------------
(* Properties.                                                             *)

\* The times, the counter of bytes and the log (dash-client.h 118-188,
\* mpeg-player.h 83-104): no time is noted before it has come, no interruption
\* is negative, and at most one PlayFrame is due, within a second.
TimesOK ==
  /\ now \in 0 .. Horizon
  /\ playAt \in 0 .. now + Second
  /\ m_start_time \in 0 .. now
  /\ m_lastpaused \in 0 .. now
  /\ m_interruption_time \in 0 .. now
  /\ m_requestTime \in 0 .. now
  /\ m_segment_bytes \in Nat
  /\ {log, m_bitrateEstimate, measured} \subseteq SUBSET Entry
  /\ fault \in {"none", "iterator"}

\* When t of the video is due, from now on.
GetRealPlayTime(t) ==
  m_start_time + m_interruption_time
    + (IF client.m_state = "PAUSED" THEN now - m_lastpaused ELSE 0) + t - now

\* GetRealPlayTime tells the truth, a segment lasting a second and the first two
\* being taken as one: the next segment is due when its PlayFrame event is, and
\* at once as long as the player waits for it.  However plays, pauses for either
\* reason and resumes in the middle of a download have followed each other, no
\* interruption is forgotten and none counted twice (mpeg-player.cc 55-122,
\* 166-180, 290).
DueInTime ==
  LET due == GetRealPlayTime(Second * (client.play_num - 1))
  IN  /\ client.m_state = "PLAYING" => due = playAt - now
      /\ client.m_state = "PAUSED" => due = 0

\* An interruption is no longer than it has to be and no shorter: the player,
\* which counts the frames in its queue, resumes with the frame with which the
\* client, which counts the frames of the segment, completes the very segment
\* that is to be played (mpeg-player.cc 78-94, dash-client.cc 344-352).
ResumesWhenComplete ==
  [][client.m_state = "PAUSED" =>
       /\ Resumes <=> client'.v_num # client.v_num
       /\ Resumes => client'.play_num = client'.v_num]_timedVars

\* The log and the estimate are those of the measurements of the last window
\* before the last one: what the loop erases while it adds up has left both,
\* and a later measurement of the same instant has replaced an earlier one
\* (dash-client.cc 516-536).
EstimateIsFresh ==
  \A e \in measured :
    (\A x \in measured : x.time <= e.time) =>
      log = Fresh(measured, e.time) /\ m_bitrateEstimate = log
=============================================================================
