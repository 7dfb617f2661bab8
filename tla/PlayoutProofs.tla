----------------------------- MODULE PlayoutProofs -----------------------------
(***************************************************************************)
(* Proofs about Playout, for every length of a second and of the window,   *)
(* every horizon and all the constants of DashStream.                      *)
(*                                                                         *)
(* Each step of Playout is one of DashStream or leaves its variables alone, *)
(* so that the invariants of DashStreamProofs hold.  From them follow the  *)
(* moves that a handler can make the player do; the player's clock is right *)
(* for each of them.                                                       *)
(***************************************************************************)
EXTENDS Playout, DashStreamProofs

\* What the frames received make a player of client c do: nothing, or to start, or
\* to go on.
Moves(c, d) ==
  \/ d.m_state = c.m_state /\ d.play_num = c.play_num
  \/ c.m_state = "NOT_STARTED" /\ d.m_state = "PLAYING" /\ d.play_num = 2
  \/ /\ c.m_state = "PAUSED" /\ d.m_state \in {"PLAYING", "DONE"}
     /\ d.play_num = c.play_num + 1

\* What its timer makes it do: to play on, or to pause.
Fires(c, d) ==
  \/ c.m_state = "DONE" /\ d.m_state = "DONE" /\ d.play_num = c.play_num
  \/ c.m_state = "PLAYING" /\ d.m_state = "PAUSED" /\ d.play_num = c.play_num
  \/ /\ c.m_state = "PLAYING" /\ d.m_state \in {"PLAYING", "DONE"}
     /\ d.play_num = c.play_num + 1

\* A player that waits goes on with the last frame of the segment it waits for.
Complete(c, d) ==
  c.m_state = "PAUSED" =>
    /\ d.m_state # "PAUSED" <=> d.v_num # c.v_num
    /\ d.m_state # "PAUSED" => d.play_num = d.v_num

-----------------------------------------------------------------------------
(* The moves of the player.                                                *)

\* A request leaves the download alone.
LEMMA RequestKeeps ==
  ASSUME NEW Q, NEW d \in LooseClient(Q), NEW n \in PacketNums
  PROVE  LET e == RequestSegment(d, n)
         IN  /\ e \in LooseClient(Q)
             /\ e.frame_num = d.frame_num /\ e.v_num = d.v_num
             /\ e.m_state = d.m_state /\ e.play_num = d.play_num
             /\ e.m_dashClient = d.m_dashClient
<1> DEFINE k == d.m_segmentId
           series == [d.video_series EXCEPT ![k] = n]
           out == Append(d.outbox, [seg |-> k, num |-> n])
           x == IF k = SegCount THEN "behind" ELSE d.index
           l == k + 1
           e == [d EXCEPT !.index = x, !.video_series = series,
                          !.outbox = out, !.m_segmentId = l]
           t == [d EXCEPT !.index = "out"]
<1>1. \/ RequestSegment(d, n) = d
      \/ RequestSegment(d, n) = t
      \/ RequestSegment(d, n) = e
  <2>1. ~d.m_connected => RequestSegment(d, n) = d
    BY DEF RequestSegment
  <2>2. d.m_connected /\ k \notin Cells => RequestSegment(d, n) = t
    BY DEF RequestSegment
  <2>3. d.m_connected /\ k \in Cells => RequestSegment(d, n) = e
    BY DEF RequestSegment
  <2> HIDE DEF e, t, k
  <2> QED BY <2>1, <2>2, <2>3
<1>2. RequestSegment(d, n) \in LooseClient(Q)
  BY RequestSame
<1>3. /\ t.frame_num = d.frame_num /\ t.v_num = d.v_num /\ t.m_state = d.m_state
      /\ t.play_num = d.play_num /\ t.m_dashClient = d.m_dashClient
  BY DEF LooseClient
<1> HIDE DEF out, x, l, series
<1>4. /\ e.frame_num = d.frame_num /\ e.v_num = d.v_num /\ e.m_state = d.m_state
      /\ e.play_num = d.play_num /\ e.m_dashClient = d.m_dashClient
  BY DEF LooseClient
<1> HIDE DEF e, t
<1> QED BY <1>1, <1>2, <1>3, <1>4

\* PlayFrame: the player stops for want of a segment, or plays the next one.
LEMMA PlayFrameMoves ==
  ASSUME NEW Q, NEW c \in LooseClient(Q), NEW n \in PacketNums
  PROVE  LET d == PlayFrame(c, n)
             short == c.m_queue = 0 \/ c.m_queue < c.video_series[c.play_num]
         IN  /\ d.v_num = c.v_num /\ d.frame_num = c.frame_num
             /\ c.m_state = "DONE" => d = c
             /\ c.m_state # "DONE" /\ short =>
                  d.m_state = "PAUSED" /\ d.play_num = c.play_num
             /\ c.m_state # "DONE" /\ ~short =>
                  /\ d.play_num = IF c.play_num = 0 THEN 2 ELSE c.play_num + 1
                  /\ d.m_state \in {c.m_state, "DONE"}
                  /\ d.m_state = "DONE" => d.play_num = SegCount + 1
<1> DEFINE popped == PopFrames(c)
           stopped == IF popped.play_num = SegCount + 1 /\ popped.m_dashClient
                      THEN StopApplication(popped) ELSE popped
           asked == IF PlayerPulls(popped.play_num) /\ popped.m_dashClient
                    THEN RequestSegment(stopped, n) ELSE stopped
           short == c.m_queue = 0 \/ c.m_queue < c.video_series[c.play_num]
           paused == [c EXCEPT !.m_state = "PAUSED"]
           k == asked.plays + 1
           going == [asked EXCEPT !.plays = k]
           next == IF c.play_num = 0 THEN 2 ELSE c.play_num + 1
<1>1. PICK P : /\ popped \in LooseClient(P) /\ popped.m_state = c.m_state
               /\ popped.v_num = c.v_num /\ popped.frame_num = c.frame_num
               /\ popped.play_num = next
  <2> DEFINE x == IF c.play_num = 0
                  THEN c.m_queue - (c.video_series[0] + c.video_series[1])
                  ELSE c.m_queue - c.video_series[c.play_num]
             e == [c EXCEPT !.m_queue = x, !.play_num = next]
  <2>1. popped = e
    BY DEF PopFrames
  <2>2. next \in Nat
    BY DEF LooseClient
  <2> HIDE DEF x, next, popped
  <2>3. /\ e \in LooseClient({x}) /\ e.m_state = c.m_state /\ e.v_num = c.v_num
        /\ e.frame_num = c.frame_num /\ e.play_num = next
    BY <2>2 DEF LooseClient
  <2> HIDE DEF e
  <2> QED BY <2>1, <2>3
<1> HIDE DEF popped
<1>2. /\ stopped \in LooseClient(P) /\ stopped.m_state \in {c.m_state, "DONE"}
      /\ stopped.m_state = "DONE" => next = SegCount + 1 \/ c.m_state = "DONE"
      /\ stopped.v_num = c.v_num /\ stopped.frame_num = c.frame_num
      /\ stopped.play_num = next
  <2> DEFINE t == [popped EXCEPT !.m_connected = FALSE, !.m_state = "DONE"]
  <2>1. /\ t \in LooseClient(P) /\ t.m_state = "DONE" /\ t.v_num = c.v_num
        /\ t.frame_num = c.frame_num /\ t.play_num = popped.play_num
    BY <1>1 DEF LooseClient, States
  <2>2. stopped = IF popped.play_num = SegCount + 1 /\ popped.m_dashClient THEN t ELSE popped
    BY DEF StopApplication
  <2> HIDE DEF stopped, t, next
  <2> QED BY <2>1, <2>2, <1>1
<1> HIDE DEF stopped
<1>3. /\ asked \in LooseClient(P) /\ asked.m_state = stopped.m_state
      /\ asked.v_num = c.v_num /\ asked.frame_num = c.frame_num /\ asked.play_num = next
  BY <1>2, RequestKeeps
<1> HIDE DEF asked, k
<1>4. /\ going.m_state = asked.m_state /\ going.v_num = c.v_num
      /\ going.frame_num = c.frame_num /\ going.play_num = next
  BY <1>3 DEF LooseClient
<1>5. /\ paused.m_state = "PAUSED" /\ paused.v_num = c.v_num
      /\ paused.frame_num = c.frame_num /\ paused.play_num = c.play_num
  BY DEF LooseClient
<1>6. PlayFrame(c, n) = IF c.m_state = "DONE" THEN c ELSE IF short THEN paused ELSE going
  BY Zenon DEF PlayFrame, popped, stopped, asked, k
<1> HIDE DEF going, paused, short, next
<1>7. CASE c.m_state = "DONE"
  <2>1. PlayFrame(c, n) = c
    BY <1>6, <1>7
  <2> QED BY <2>1, <1>7 DEF short, next
<1>8. CASE c.m_state # "DONE" /\ short
  <2>1. PlayFrame(c, n) = paused
    BY <1>6, <1>8
  <2> QED BY <2>1, <1>5, <1>8 DEF short, next
<1>9. CASE c.m_state # "DONE" /\ ~short
  <2>1. PlayFrame(c, n) = going
    BY <1>6, <1>9
  <2> QED BY <2>1, <1>2, <1>3, <1>4, <1>9 DEF short, next
<1> QED BY <1>7, <1>8, <1>9

\* ReceiveFrame: a player that waits for a segment goes on as soon as there are
\* the frames of it.
LEMMA ReceiveFrameMoves ==
  ASSUME NEW b \in LooseClient(Nat), NEW n \in PacketNums,
         b.m_state = "NOT_STARTED" => b.play_num = 0,
         b.m_state = "PAUSED" => b.play_num \in 2 .. SegCount
  PROVE  LET t == ReceiveFrame(b, n)
         IN  /\ t.v_num = b.v_num /\ t.frame_num = b.frame_num
             /\ Moves(b, t)
             /\ b.m_state = "PAUSED" =>
                  (t.m_state # "PAUSED" <=> b.m_queue + 1 >= b.video_series[b.play_num])
<1> DEFINE q == b.m_queue + 1
           queued == [b EXCEPT !.m_queue = q]
           start == queued.T_start \/ b.video_series[req_num] > 0
           primed == [queued EXCEPT !.T_start = start]
           playing(p) == [p EXCEPT !.m_state = "PLAYING"]
           t == ReceiveFrame(b, n)
<1>1. /\ b.m_queue \in Nat /\ b.m_state \in States /\ b.play_num \in Nat
      /\ b.video_series \in [Cells -> PacketNums \cup {0}]
  BY DEF LooseClient
<1>2. q \in Nat /\ q > 0 /\ start \in BOOLEAN
  BY <1>1
<1> HIDE DEF q, start
<1>3. /\ queued \in LooseClient(Nat) /\ queued.m_state = b.m_state /\ queued.v_num = b.v_num
      /\ queued.frame_num = b.frame_num /\ queued.play_num = b.play_num
      /\ queued.m_queue = q /\ queued.video_series = b.video_series
  BY <1>2 DEF LooseClient
<1> HIDE DEF queued
<1>4. /\ primed \in LooseClient(Nat) /\ primed.m_state = b.m_state /\ primed.v_num = b.v_num
      /\ primed.frame_num = b.frame_num /\ primed.play_num = b.play_num
      /\ primed.m_queue = q /\ primed.video_series = b.video_series
  BY <1>2, <1>3 DEF LooseClient
<1> HIDE DEF primed
<1>5. ASSUME NEW p \in {queued, primed},
             ~(q < b.video_series[b.play_num])
      PROVE  LET d == PlayFrame(playing(p), n)
             IN  /\ d.v_num = b.v_num /\ d.frame_num = b.frame_num
                 /\ d.play_num = IF b.play_num = 0 THEN 2 ELSE b.play_num + 1
                 /\ d.m_state \in {"PLAYING", "DONE"}
                 /\ d.m_state = "DONE" => d.play_num = SegCount + 1
  <2> DEFINE r == playing(p)
  <2>1. /\ r \in LooseClient(Nat) /\ r.m_state = "PLAYING" /\ r.v_num = b.v_num
        /\ r.frame_num = b.frame_num /\ r.play_num = b.play_num /\ r.m_queue = q
        /\ r.video_series = b.video_series
    BY <1>3, <1>4 DEF LooseClient, States
  <2> HIDE DEF r
  <2>2. ~(r.m_queue = 0 \/ r.m_queue < r.video_series[r.play_num])
    BY <2>1, <1>2, <1>5
  <2>3. LET d == PlayFrame(r, n)
        IN  /\ d.v_num = b.v_num /\ d.frame_num = b.frame_num
            /\ d.play_num = IF b.play_num = 0 THEN 2 ELSE b.play_num + 1
            /\ d.m_state \in {"PLAYING", "DONE"}
            /\ d.m_state = "DONE" => d.play_num = SegCount + 1
    <3> DEFINE d == PlayFrame(r, n)
    <3>1. /\ d.v_num = r.v_num /\ d.frame_num = r.frame_num
          /\ d.play_num = IF r.play_num = 0 THEN 2 ELSE r.play_num + 1
          /\ d.m_state \in {r.m_state, "DONE"}
          /\ d.m_state = "DONE" => d.play_num = SegCount + 1
      BY <2>1, <2>2, PlayFrameMoves
    <3> HIDE DEF d
    <3> QED BY <3>1, <2>1 DEF d
  <2> QED BY <2>3 DEF r
<1> HIDE DEF playing
<1>6. CASE b.m_state = "PAUSED"
  <2> DEFINE s == b.video_series[b.play_num]
  <2>1. b.play_num \in Cells /\ b.play_num # 0 /\ s \in Nat
    <3>1. b.play_num \in Cells /\ b.play_num # 0
      BY <1>6, SegCountAssumption DEF Cells
    <3> QED BY <3>1, <1>1, PacketCountNat
  <2>2. t = IF q >= s THEN PlayFrame(playing(queued), n) ELSE queued
    <3>1. queued.m_queue = q
      BY <1>3
    <3> QED BY <1>6, <3>1, Zenon DEF ReceiveFrame, playing, queued, q
  <2>3. CASE q >= s
    <3> DEFINE d == PlayFrame(playing(queued), n)
    <3>1. t = d
      BY <2>2, <2>3
    <3>2. ~(q < s)
      BY <2>1, <2>3, <1>2
    <3>3. /\ d.v_num = b.v_num /\ d.frame_num = b.frame_num
          /\ d.play_num = b.play_num + 1
          /\ d.m_state \in {"PLAYING", "DONE"}
      BY <3>2, <2>1, <1>5
    <3> HIDE DEF d, t
    <3> QED BY <3>1, <3>3, <2>3, <1>6 DEF Moves, q, t
  <2>4. CASE ~(q >= s)
    <3>1. t = queued
      BY <2>2, <2>4
    <3> HIDE DEF t
    <3> QED BY <3>1, <2>4, <1>3, <1>6 DEF Moves, q, t
  <2> QED BY <2>3, <2>4
<1>7. CASE b.m_state = "NOT_STARTED"
  <2> DEFINE z == b.video_series[0]
             y == b.video_series[1]
             go == b.video_series[req_num + 1] > 0 /\ q > z + y
  <2>1. z \in Nat /\ y \in Nat
    <3>1. 0 \in Cells /\ 1 \in Cells
      BY SegCountAssumption DEF Cells
    <3> QED BY <3>1, <1>1, PacketCountNat
  <2>2. t = IF go THEN PlayFrame(playing(primed), n) ELSE primed
    <3>1. queued.m_queue = q
      BY <1>3
    <3> QED BY <1>7, <3>1, Zenon DEF ReceiveFrame, playing, primed, start, queued, q
  <2>3. CASE go
    <3> DEFINE d == PlayFrame(playing(primed), n)
    <3>1. t = d
      BY <2>2, <2>3
    <3>2. b.play_num = 0 /\ ~(q < b.video_series[b.play_num])
      BY <2>1, <2>3, <1>2, <1>7
    <3>3. /\ d.v_num = b.v_num /\ d.frame_num = b.frame_num
          /\ d.play_num = 2
          /\ d.m_state \in {"PLAYING", "DONE"}
          /\ d.m_state = "DONE" => d.play_num = SegCount + 1
      BY <3>2, <1>5
    <3> HIDE DEF d, t
    <3> QED BY <3>1, <3>3, <1>7, SegCountAssumption DEF Moves, t
  <2>4. CASE ~go
    <3>1. t = primed
      BY <2>2, <2>4
    <3> HIDE DEF t
    <3> QED BY <3>1, <1>4, <1>7 DEF Moves, t
  <2> QED BY <2>3, <2>4
<1>8. CASE b.m_state \notin {"PAUSED", "NOT_STARTED"}
  <2>1. t = queued
    BY <1>8, Zenon DEF ReceiveFrame, queued, q
  <2> HIDE DEF t
  <2> QED BY <2>1, <1>3, <1>8 DEF Moves, t
<1> QED BY <1>6, <1>7, <1>8

\* What is received, and not more than what was asked for, ends before segment
\* m_segmentId; and a player that waits has the frames of one segment, the one
\* that is being received.
LEMMA WaitsForCurrent ==
  ASSUME options \in Options, NEW c, NEW f, Between(c, f),
         Received(c, f) + 1 <= f[c.m_segmentId], PausedShort(c)
  PROVE  /\ c.v_num < c.m_segmentId /\ c.v_num \in Cells
         /\ c.frame_num < c.video_series[c.v_num] /\ c.video_series[c.v_num] \in Nat
         /\ c.m_state = "PAUSED" => c.play_num = c.v_num /\ c.m_queue = c.frame_num
<1> DEFINE g == c.m_segmentId
           v == c.v_num
           p == c.play_num
<1> USE OptionFacts
<1>1. /\ c \in Client /\ g \in 0 .. SegCount + 1 /\ v \in 0 .. SegCount + 1
      /\ p \in 0 .. SegCount + 1 /\ c.frame_num \in Nat /\ c.m_queue \in Nat
  BY DEF Between, Sound, Client
<1>2. /\ Sums(c, f) /\ Series(c) /\ c.m_queue = (f[v] + c.frame_num) - f[p]
      /\ f[v] + c.frame_num + 1 <= f[g]
  BY DEF Between, Sound, Queued, Received
<1>3. p <= v
  BY PlayedIsReceived
<1>4. f[v] \in Nat /\ f[g] \in Nat /\ f[p] \in Nat
  BY <1>1, <1>2 DEF Sums
<1>5. v < g
  <2> SUFFICES ASSUME g <= v PROVE FALSE
    BY <1>1
  <2>1. f[g] <= f[v]
    BY <1>1, <1>2 DEF Sums
  <2> HIDE DEF g, v
  <2> QED BY <2>1, <1>1, <1>2, <1>4
<1>6. v \in Cells
  BY <1>1, <1>5 DEF Cells
<1>7. c.frame_num < c.video_series[v] /\ c.video_series[v] \in Nat
  BY <1>1, <1>5, <1>6, SeriesNat DEF Between, Counting
<1>8. ASSUME c.m_state = "PAUSED" PROVE p = v
  <2> SUFFICES ASSUME p < v PROVE FALSE
    <3>1. p \in Int /\ v \in Int
      BY <1>1
    <3> HIDE DEF p, v
    <3> QED BY <3>1, <1>3
  <2>1. p \in Cells /\ p + 1 \in 0 .. SegCount + 1 /\ p + 1 <= v /\ p < g
    BY <1>1, <1>5 DEF Cells
  <2>2. /\ f[p + 1] = f[p] + c.video_series[p] /\ f[p + 1] <= f[v]
        /\ f[p + 1] \in Nat /\ c.video_series[p] \in Nat
    BY <2>1, <1>1, <1>2, SeriesNat DEF Sums
  <2>3. c.video_series[p] > 0
    BY <2>1, <1>2 DEF Series
  <2>4. c.m_queue = 0 \/ c.m_queue < c.video_series[p]
    BY <1>8 DEF PausedShort
  <2> HIDE DEF p, v, g
  <2> QED BY <2>2, <2>3, <2>4, <1>1, <1>2, <1>4
<1>9. ASSUME c.m_state = "PAUSED" PROVE c.m_queue = c.frame_num
  <2>1. p = v
    BY <1>8, <1>9
  <2> HIDE DEF p, v, g
  <2> QED BY <2>1, <1>1, <1>2, <1>4
<1> QED BY <1>5, <1>6, <1>7, <1>8, <1>9

\* To count a frame leaves the number of plays, and so does what is noted then.
LEMMA PlayNumSame ==
  ASSUME NEW Q, NEW d \in LooseClient(Q)
  PROVE  /\ CountFrame(d).play_num = d.play_num
         /\ [d EXCEPT !.tmp_num = 0] \in LooseClient(Q)
         /\ LET t == [d EXCEPT !.tmp_num = 0] IN
              t.m_state = d.m_state /\ t.play_num = d.play_num /\ t.v_num = d.v_num
         /\ LET t == [d EXCEPT !.m_dashClient = TRUE] IN
              t.m_state = d.m_state /\ t.play_num = d.play_num /\ t.v_num = d.v_num
<1> DEFINE l == IF d.v_num + 1 # SegCount THEN d.frame_num ELSE d.tmp_num
           v == d.v_num + 1
           s == d.seg_num + 1
           e == [d EXCEPT !.tmp_num = l, !.frame_num = 0, !.v_num = v, !.seg_num = s]
<1>1. CountFrame(d) = IF d.frame_num = d.video_series[d.v_num] THEN e ELSE d
  BY Zenon DEF CountFrame
<1> HIDE DEF l, s, v
<1>2. e.play_num = d.play_num
  BY DEF LooseClient
<1> HIDE DEF e
<1>3. CountFrame(d).play_num = d.play_num
  BY <1>1, <1>2
<1>4. /\ [d EXCEPT !.tmp_num = 0] \in LooseClient(Q)
      /\ LET t == [d EXCEPT !.tmp_num = 0] IN
           t.m_state = d.m_state /\ t.play_num = d.play_num /\ t.v_num = d.v_num
  BY DEF LooseClient
<1>5. LET t == [d EXCEPT !.m_dashClient = TRUE] IN
        t.m_state = d.m_state /\ t.play_num = d.play_num /\ t.v_num = d.v_num
  BY DEF LooseClient
<1> QED BY <1>3, <1>4, <1>5

\* MessageReceived: the player moves as ReceiveFrame has it, and goes on exactly
\* if the client counts a segment more.
LEMMA MessageReceivedMoves ==
  ASSUME options \in Options, NEW c, NEW f, Between(c, f), c.outbox = <<>>,
         Received(c, f) + 1 <= f[c.m_segmentId], PausedShort(c),
         NEW n \in PacketNums, NEW m \in PacketNums
  PROVE  LET d == MessageReceived(c, n, m) IN Moves(c, d) /\ Complete(c, d)
<1> DEFINE k == c.frame_num + 1
           b == [c EXCEPT !.frame_num = k]
           taken == ReceiveFrame(b, n)
           counted == CountFrame(taken)
           closed == [counted EXCEPT !.tmp_num = 0]
           asked == IF counted.seg_num <= init_buffer + req_num
                    THEN RequestSegment(closed, m) ELSE closed
           told == [asked EXCEPT !.m_dashClient = TRUE]
           d == MessageReceived(c, n, m)
           v == c.v_num
<1>1. /\ c \in Client /\ c.frame_num \in Nat /\ k \in Nat /\ v \in Nat
      /\ c.play_num \in Nat /\ Stage(c)
  BY SegCountAssumption DEF Between, Sound, Client
<1>2. /\ v < c.m_segmentId /\ v \in Cells
      /\ c.frame_num < c.video_series[v] /\ c.video_series[v] \in Nat
      /\ c.m_state = "PAUSED" => c.play_num = v /\ c.m_queue = c.frame_num
  BY WaitsForCurrent
<1>3. /\ b \in Client /\ b.m_state = c.m_state /\ b.m_queue = c.m_queue
      /\ b.play_num = c.play_num /\ b.m_segmentId = c.m_segmentId
      /\ b.video_series = c.video_series /\ b.v_num = v /\ b.frame_num = k
      /\ b.outbox = c.outbox
  <2> HIDE DEF k
  <2> QED BY <1>1 DEF Client
<1> HIDE DEF b
<1>4. /\ b.m_state = "NOT_STARTED" => b.play_num = 0
      /\ b.m_state = "PAUSED" => b.play_num \in 2 .. SegCount
  BY <1>1, <1>3 DEF Stage
<1>5. /\ taken.v_num = v /\ taken.frame_num = k /\ Moves(b, taken)
      /\ b.m_state = "PAUSED" =>
           (taken.m_state # "PAUSED" <=> b.m_queue + 1 >= b.video_series[b.play_num])
  BY <1>3, <1>4, ClientIsLoose, ReceiveFrameMoves
<1>6. Asked(b, taken)
  <2>1. Asked(b, b)
    BY <1>1, <1>3, AskedNothing
  <2> QED BY <1>3, <2>1, ReceiveFrameAsked
<1> HIDE DEF taken
<1>7. taken.video_series[v] = c.video_series[v]
  BY <1>2, <1>3, <1>6 DEF Asked
<1>8. PICK Q : taken \in LooseClient(Q)
  BY <1>6 DEF Asked
<1>9. /\ counted \in LooseClient(Q) /\ counted.m_state = taken.m_state
      /\ counted.play_num = taken.play_num
      /\ counted.v_num = IF k = c.video_series[v] THEN v + 1 ELSE v
  BY <1>5, <1>7, <1>8, CountFrameSame, PlayNumSame
<1> HIDE DEF counted
<1>10. /\ closed \in LooseClient(Q) /\ closed.m_state = taken.m_state
       /\ closed.play_num = taken.play_num /\ closed.v_num = counted.v_num
  BY <1>9, PlayNumSame
<1> HIDE DEF closed
<1>11. /\ asked \in LooseClient(Q) /\ asked.m_state = taken.m_state
       /\ asked.play_num = taken.play_num /\ asked.v_num = counted.v_num
  BY <1>10, RequestKeeps
<1> HIDE DEF asked
<1>12. /\ told.m_state = taken.m_state /\ told.play_num = taken.play_num
       /\ told.v_num = counted.v_num
  BY <1>11, PlayNumSame
<1>13. d \in {counted, told}
  BY Zenon DEF MessageReceived, taken, counted, closed, asked, b, k
<1> HIDE DEF told, d
<1>14. /\ d.m_state = taken.m_state /\ d.play_num = taken.play_num
       /\ d.v_num = IF k = c.video_series[v] THEN v + 1 ELSE v
  BY <1>9, <1>12, <1>13
<1>15. Moves(c, d)
  BY <1>3, <1>5, <1>14 DEF Moves
<1>16. ASSUME c.m_state = "PAUSED"
       PROVE  /\ d.m_state # "PAUSED" <=> d.v_num # v
              /\ d.m_state # "PAUSED" => d.play_num = d.v_num
  <2>1. d.m_state # "PAUSED" <=> k >= c.video_series[v]
    BY <1>2, <1>3, <1>5, <1>14, <1>16
  <2>2. k >= c.video_series[v] <=> k = c.video_series[v]
    BY <1>1, <1>2
  <2>3. d.m_state # "PAUSED" => d.play_num = v + 1
    BY <1>2, <1>15, <1>16 DEF Moves
  <2> HIDE DEF k, v
  <2>4. v + 1 # v
    BY <1>1
  <2> QED BY <2>1, <2>2, <2>3, <2>4, <1>14
<1> QED BY <1>15, <1>16 DEF Complete, d

\* A handler that ends in record d leaves the player as it is in d.
LEMMA HandlerEnds ==
  ASSUME NEW Q, NEW d \in LooseClient(Q), ClientDone(d)
  PROVE  /\ client'.m_state = d.m_state /\ client'.play_num = d.play_num
         /\ client'.v_num = d.v_num
<1> DEFINE e == [d EXCEPT !.outbox = <<>>]
<1>1. client' = e
  BY DEF ClientDone
<1>2. e.m_state = d.m_state /\ e.play_num = d.play_num /\ e.v_num = d.v_num
  BY DEF LooseClient
<1> HIDE DEF e
<1> QED BY <1>1, <1>2

\* The connection does not concern the player.
LEMMA ConnectionMoves ==
  ASSUME IInv, ConnectionSucceeded
  PROVE  /\ client'.m_state = client.m_state /\ client'.play_num = client.play_num
         /\ client'.v_num = client.v_num
<1> DEFINE c == [client EXCEPT !.m_connected = TRUE]
<1>1. client \in LooseClient(Nat)
  BY IInvFacts, ClientIsLoose
<1>2. PICK n \in PacketNums : ClientDone(RequestSegment(c, n))
  BY DEF ConnectionSucceeded
<1>3. /\ c \in LooseClient(Nat) /\ c.m_state = client.m_state
      /\ c.play_num = client.play_num /\ c.v_num = client.v_num
  BY <1>1 DEF LooseClient
<1> HIDE DEF c
<1> DEFINE d == RequestSegment(c, n)
<1>4. /\ d \in LooseClient(Nat) /\ d.m_state = c.m_state
      /\ d.play_num = c.play_num /\ d.v_num = c.v_num
  BY <1>3, RequestKeeps
<1> HIDE DEF d
<1>5. /\ client'.m_state = d.m_state /\ client'.play_num = d.play_num
      /\ client'.v_num = d.v_num
  BY <1>2, <1>4, HandlerEnds DEF d
<1> QED BY <1>3, <1>4, <1>5

\* A frame moves the player, and goes with a segment complete where it waits.
LEMMA ReadMoves ==
  ASSUME IInv, PausedShort(client), ClientHandleRead
  PROVE  Moves(client, client') /\ Complete(client, client')
<1>1. PICK f, h :
        /\ Between(client, f) /\ Asks(h, uplink)
        /\ f[client.m_segmentId] \in Nat /\ Received(client, f) \in Nat
        /\ h[1] \in Nat
        /\ Received(client, f) + Len(wire) + Len(queue) + h[1] <= f[client.m_segmentId]
  BY IInvFacts
<1>2. /\ client \in Client /\ client.outbox = <<>> /\ options \in Options
      /\ wire \in Seq(Cells) /\ Len(wire) \in Nat /\ Len(queue) \in Nat
  BY IInvFacts
<1>3. PICK n \in PacketNums, m \in PacketNums :
        ClientDone(MessageReceived(client, n, m)) /\ wire # <<>>
  BY DEF ClientHandleRead
<1>4. Received(client, f) + 1 <= f[client.m_segmentId]
  <2>1. Len(wire) >= 1
    BY <1>2, <1>3
  <2> QED BY <2>1, <1>1, <1>2
<1> DEFINE d == MessageReceived(client, n, m)
<1>5. Moves(client, d) /\ Complete(client, d)
  BY <1>1, <1>2, <1>4, MessageReceivedMoves
<1>6. PICK Q : d \in LooseClient(Q)
  <2>1. Asked(client, d)
    BY <1>2, MessageReceivedAsked
  <2> HIDE DEF d
  <2> QED BY <2>1 DEF Asked
<1> HIDE DEF d
<1>7. /\ client'.m_state = d.m_state /\ client'.play_num = d.play_num
      /\ client'.v_num = d.v_num
  BY <1>3, <1>6, HandlerEnds DEF d
<1> QED BY <1>5, <1>7 DEF Moves, Complete

\* The timer finds a player that plays, or has stopped.
LEMMA TimerFires ==
  ASSUME IInv, PlayFrameEvent
  PROVE  /\ Fires(client, client')
         /\ client.m_state \in {"PLAYING", "DONE"}
<1>1. PICK f : Between(client, f)
  BY IInvFacts
<1>2. /\ client \in Client /\ client.outbox = <<>> /\ options \in Options
      /\ client \in LooseClient(Nat)
  BY IInvFacts, ClientIsLoose
<1> DEFINE k == client.plays - 1
           c == [client EXCEPT !.plays = k]
<1>3. PICK n \in PacketNums : ClientDone(PlayFrame(c, n)) /\ client.plays > 0
  BY DEF PlayFrameEvent
<1>4. k \in Nat
  BY <1>2, <1>3 DEF Client
<1> HIDE DEF k
<1>5. /\ c \in LooseClient(Nat) /\ c.m_state = client.m_state /\ c.outbox = client.outbox
      /\ c.play_num = client.play_num /\ c.m_segmentId = client.m_segmentId
      /\ c.video_series = client.video_series
  BY <1>2, <1>4 DEF LooseClient
<1> HIDE DEF c
<1>6. client.m_state \in {"PLAYING", "DONE"} /\ Stage(client)
  <2>1. client.m_state \in States /\ Timer(client) /\ Stage(client)
    BY <1>1, <1>2 DEF Client, Between
  <2> QED BY <2>1, <1>3 DEF Timer, States
<1> DEFINE d == PlayFrame(c, n)
<1>7. PICK Q : d \in LooseClient(Q)
  <2>1. Asked(client, client)
    BY <1>2, AskedNothing
  <2>2. Asked(client, c)
    BY <2>1, <1>5, AskedSame
  <2> QED BY <2>2, <1>2, PlayFrameAsked DEF Asked
<1>8. /\ c.m_state = "DONE" => d = c
      /\ c.m_state # "DONE" =>
           \/ d.m_state = "PAUSED" /\ d.play_num = c.play_num
           \/ /\ d.play_num = IF c.play_num = 0 THEN 2 ELSE c.play_num + 1
              /\ d.m_state \in {c.m_state, "DONE"}
  BY <1>5, PlayFrameMoves
<1> HIDE DEF d
<1>9. /\ client'.m_state = d.m_state /\ client'.play_num = d.play_num
      /\ client'.v_num = d.v_num
  BY <1>3, <1>7, HandlerEnds DEF d
<1>10. client.m_state = "PLAYING" => client.play_num # 0
  BY <1>6, SegCountAssumption DEF Stage
<1> QED BY <1>5, <1>6, <1>8, <1>9, <1>10 DEF Fires

-----------------------------------------------------------------------------
(* The clock.                                                              *)

\* When segment p is due, from the start on, without the interruptions.
Due(p) == Second * (p - 1)

\* What the player's clock says is true at every time: of a player that plays, when
\* its timer will run, of one that has paused, when it ran last.
ClockInv ==
  /\ now \in 0 .. Horizon /\ playAt \in 0 .. now + Second
  /\ m_start_time \in 0 .. now /\ m_lastpaused \in 0 .. now
  /\ m_interruption_time \in 0 .. now
  /\ client.m_state = "NOT_STARTED" => m_interruption_time = 0
  /\ client.m_state = "PLAYING" =>
       /\ now <= playAt
       /\ playAt = m_start_time + m_interruption_time + Due(client.play_num)
  /\ client.m_state = "PAUSED" =>
       m_lastpaused = m_start_time + m_interruption_time + Due(client.play_num)

\* Every segment after the first two is due a second after the one before.
LEMMA DueFacts ==
  /\ Second \in Nat /\ Second > 0 /\ Horizon \in Nat /\ Window \in Nat
  /\ Due(2) = Second
  /\ \A p \in Nat : p >= 2 => Due(p) \in Nat /\ Due(p) >= Second
                              /\ Due(p + 1) = Due(p) + Second
<1>1. Second \in Nat /\ Second > 0 /\ Horizon \in Nat /\ Window \in Nat
  BY TimeAssumption
<1>2. Due(2) = Second
  BY <1>1 DEF Due
<1>3. ASSUME NEW q \in Nat PROVE Second * q \in Nat
  BY <1>1, SMT
<1>4. ASSUME NEW p \in Nat, p >= 2
      PROVE  Due(p) \in Nat /\ Due(p) >= Second /\ Due(p + 1) = Due(p) + Second
  <2>1. p - 2 \in Nat
    BY <1>4
  <2>2. Second * (p - 2) \in Nat
    BY <2>1, <1>3
  <2>3. Second * (p - 1) = Second * (p - 2) + Second
    BY <1>1, <1>4, SMT
  <2>4. Second * ((p + 1) - 1) = Second * (p - 1) + Second
    BY <1>1, <1>4, SMT
  <2> QED BY <2>2, <2>3, <2>4, <1>1 DEF Due
<1> QED BY <1>1, <1>2, <1>4

\* The player's clock stays right when it moves and when its timer runs.
LEMMA ClockStep ==
  ASSUME ClockInv, PlayerClock, now' = now, client.play_num \in Nat,
         client.m_state = "NOT_STARTED" => client.play_num = 0,
         client.m_state \in {"PLAYING", "PAUSED"} => client.play_num >= 2,
         \/ Moves(client, client')
         \/ Fires(client, client') /\ now = playAt
  PROVE  ClockInv'
<1> DEFINE p == client.play_num
           i == m_interruption_time
<1>1. /\ now \in Nat /\ now <= Horizon /\ Horizon \in Nat /\ playAt \in Nat
      /\ playAt <= now + Second /\ Second \in Nat /\ Second > 0
      /\ m_start_time \in Nat /\ m_start_time <= now
      /\ m_lastpaused \in Nat /\ m_lastpaused <= now
      /\ i \in Nat /\ i <= now
  BY DueFacts DEF ClockInv
<1>2. /\ Due(2) = Second
      /\ p >= 2 => /\ Due(p) \in Nat /\ Due(p) >= Second
                   /\ Due(p + 1) = Due(p) + Second
  BY DueFacts
<1>3. p + 1 # p
  OBVIOUS
<1> HIDE DEF p
<1>4. SUFFICES
        /\ playAt' \in 0 .. now + Second
        /\ m_start_time' \in 0 .. now /\ m_lastpaused' \in 0 .. now
        /\ m_interruption_time' \in 0 .. now
        /\ client'.m_state = "NOT_STARTED" => m_interruption_time' = 0
        /\ client'.m_state = "PLAYING" =>
             /\ now <= playAt'
             /\ playAt' = m_start_time' + m_interruption_time' + Due(client'.play_num)
        /\ client'.m_state = "PAUSED" =>
             m_lastpaused' = m_start_time' + m_interruption_time' + Due(client'.play_num)
  BY <1>1 DEF ClockInv, Due
<1> USE DEF PlayerClock, Starts, Pauses, Resumes, Plays
<1>5. CASE client'.m_state = client.m_state /\ client'.play_num = p
  <2>1. UNCHANGED playerTimes
    BY <1>5 DEF playerTimes, p
  <2> QED BY <2>1, <1>1, <1>5 DEF ClockInv, playerTimes, p
<1>6. CASE client.m_state = "NOT_STARTED" /\ client'.m_state = "PLAYING" /\ client'.play_num = 2
  <2>1. /\ m_start_time' = now /\ m_lastpaused' = m_lastpaused
        /\ m_interruption_time' = i /\ playAt' = now + Second
    BY <1>6 DEF p
  <2>2. i = 0
    BY <1>6 DEF ClockInv
  <2> QED BY <2>1, <2>2, <1>1, <1>2, <1>6
<1>7. CASE /\ client.m_state = "PAUSED" /\ client'.m_state \in {"PLAYING", "DONE"}
           /\ client'.play_num = p + 1
  <2>1. /\ m_start_time' = m_start_time /\ m_lastpaused' = m_lastpaused
        /\ m_interruption_time' = i + (now - m_lastpaused) /\ playAt' = now + Second
    BY <1>3, <1>7 DEF p
  <2>2. m_lastpaused = m_start_time + i + Due(p) /\ p >= 2
    BY <1>7 DEF ClockInv, p
  <2>3. Due(p) \in Nat /\ Due(p + 1) = Due(p) + Second
    BY <2>2, <1>2
  <2> HIDE DEF i
  <2> QED BY <2>1, <2>2, <2>3, <1>1, <1>7
<1>8. CASE /\ client.m_state = "PLAYING" /\ client'.m_state = "PAUSED"
           /\ client'.play_num = p /\ now = playAt
  <2>1. /\ m_start_time' = m_start_time /\ m_lastpaused' = now
        /\ m_interruption_time' = i /\ playAt' = playAt
    BY <1>8 DEF p
  <2>2. playAt = m_start_time + i + Due(p)
    BY <1>8 DEF ClockInv, p
  <2> QED BY <2>1, <2>2, <1>1, <1>8
<1>9. CASE /\ client.m_state = "PLAYING" /\ client'.m_state \in {"PLAYING", "DONE"}
           /\ client'.play_num = p + 1 /\ now = playAt
  <2>1. /\ m_start_time' = m_start_time /\ m_lastpaused' = m_lastpaused
        /\ m_interruption_time' = i /\ playAt' = now + Second
    BY <1>3, <1>9 DEF p
  <2>2. playAt = m_start_time + i + Due(p) /\ p >= 2
    BY <1>9 DEF ClockInv, p
  <2>3. Due(p) \in Nat /\ Due(p + 1) = Due(p) + Second
    BY <2>2, <1>2
  <2> HIDE DEF i
  <2> QED BY <2>1, <2>2, <2>3, <1>1, <1>9
<1> QED BY <1>5, <1>6, <1>7, <1>8, <1>9 DEF Moves, Fires, p

-----------------------------------------------------------------------------
(* The log.                                                                *)

\* The log is made up of the measurements within the window before the latest.
LogInv ==
  /\ m_requestTime \in 0 .. now /\ m_segment_bytes \in Nat
  /\ fault \in {"none", "iterator"}
  /\ measured \in SUBSET Entry
  /\ \A e \in measured : e.time <= now
  /\ m_bitrateEstimate = log
  /\ \/ measured = {} /\ log = {}
     \/ \E e \in measured :
          /\ \A x \in measured : x.time <= e.time
          /\ log = Fresh(measured, e.time)

\* AddBitRate with an entry of this instant: the window only moves on, so that what
\* has left the log would not come back.
LEMMA AddBitRateStep ==
  ASSUME LogInv, now \in Nat, NEW e \in Entry, e.time = now, AddBitRate(e)
  PROVE  /\ measured' \in SUBSET Entry
         /\ \A x \in measured' : x.time <= now
         /\ m_bitrateEstimate' = log'
         /\ \E y \in measured' :
              /\ \A x \in measured' : x.time <= y.time
              /\ log' = Fresh(measured', y.time)
<1>1. /\ log' = Fresh(Put(log, e), now) /\ m_bitrateEstimate' = log'
      /\ measured' = Put(measured, e)
  BY DEF AddBitRate
<1>2. measured \in SUBSET Entry /\ \A x \in measured : x.time \in Nat /\ x.time <= now
  BY DEF LogInv, Entry
<1>3. /\ measured' \in SUBSET Entry /\ e \in measured'
      /\ \A x \in measured' : x.time <= now
  BY <1>1, <1>2 DEF Put
<1>4. Window \in Nat
  BY DueFacts
<1>5. /\ log \subseteq measured
      /\ \A x \in measured : x.time >= now - Window => x \in log
  <2>1. CASE measured = {} /\ log = {}
    BY <2>1
  <2>2. CASE ~(measured = {} /\ log = {})
    <3>1. PICK y \in measured : log = Fresh(measured, y.time)
      BY <2>2 DEF LogInv
    <3>2. y.time \in Nat /\ y.time <= now
      BY <1>2
    <3>3. ASSUME NEW x \in measured, x.time >= now - Window
          PROVE  x.time >= y.time - Window
      BY <1>2, <1>4, <3>2, <3>3
    <3> QED BY <3>1, <3>3 DEF Fresh
  <2> QED BY <2>1, <2>2
<1>6. Fresh(Put(log, e), now) = Fresh(Put(measured, e), now)
  BY <1>5 DEF Fresh, Put
<1>7. log' = Fresh(measured', e.time)
  BY <1>1, <1>6
<1> QED BY <1>1, <1>3, <1>7

\* MessageReceived: a frame more, and an entry if it ends a segment that counts.
LEMMA MeasuredStep ==
  ASSUME LogInv, now \in Nat, now' = now, Measured
  PROVE  LogInv'
<1> DEFINE request == IF PlayerRequested THEN now ELSE m_requestTime
           bytes == 1 + IF PlayerRequested THEN 0 ELSE m_segment_bytes
           e == [time |-> now, frames |-> bytes, took |-> now - request]
<1>1. m_requestTime \in Nat /\ m_requestTime <= now /\ m_segment_bytes \in Nat
  BY DEF LogInv
<1>2. request \in Nat /\ request <= now
  BY <1>1
<1>3. bytes \in Nat /\ bytes # 0
  <2>1. CASE PlayerRequested
    BY <2>1
  <2>2. CASE ~PlayerRequested
    BY <2>2, <1>1
  <2> QED BY <2>1, <2>2
<1>4. /\ m_requestTime' = IF RequestsNext THEN now ELSE request
      /\ m_segment_bytes' = IF RequestsNext THEN 0 ELSE bytes
      /\ \/ UNCHANGED rates
         \/ AddBitRate(e) /\ UNCHANGED fault
         \/ fault' = "iterator" /\ UNCHANGED <<log, m_bitrateEstimate, measured>>
  BY Zenon DEF Measured
<1> HIDE DEF request, bytes
<1>5. e \in Entry /\ e.time = now
  BY <1>2, <1>3 DEF Entry
<1> HIDE DEF e
<1>6. m_requestTime' \in 0 .. now' /\ m_segment_bytes' \in Nat
  BY <1>2, <1>3, <1>4
<1>7. CASE UNCHANGED <<log, m_bitrateEstimate, measured>> /\ fault' \in {fault, "iterator"}
  <2>1. log' = log /\ m_bitrateEstimate' = m_bitrateEstimate /\ measured' = measured
    BY <1>7
  <2> QED BY <2>1, <1>6, <1>7 DEF LogInv, Fresh, Entry
<1>8. CASE AddBitRate(e) /\ UNCHANGED fault
  <2>1. /\ measured' \in SUBSET Entry
        /\ \A x \in measured' : x.time <= now
        /\ m_bitrateEstimate' = log'
        /\ \E y \in measured' :
             /\ \A x \in measured' : x.time <= y.time
             /\ log' = Fresh(measured', y.time)
    BY <1>5, <1>8, AddBitRateStep
  <2>2. fault' \in {"none", "iterator"}
    BY <1>8 DEF LogInv
  <2> QED BY <2>1, <2>2, <1>6 DEF LogInv, Fresh, Entry
<1> QED BY <1>4, <1>7, <1>8 DEF rates

\* What does not end a segment leaves the log as it is, and time passing does.
LEMMA LogKept ==
  ASSUME LogInv, now \in Nat, now' \in {now, now + 1}, UNCHANGED rates,
         (Requested /\ now' = now) \/ UNCHANGED download
  PROVE  LogInv'
<1>1. /\ log' = log /\ m_bitrateEstimate' = m_bitrateEstimate
      /\ measured' = measured /\ fault' = fault
  BY DEF rates
<1>2. m_requestTime \in Nat /\ m_requestTime <= now /\ m_segment_bytes \in Nat
  BY DEF LogInv
<1>3. m_requestTime' \in 0 .. now' /\ m_segment_bytes' \in Nat
  BY <1>2 DEF Requested, download
<1>4. \A e \in measured : e.time <= now'
  <2> SUFFICES ASSUME NEW e \in measured PROVE e.time <= now'
    OBVIOUS
  <2>1. e.time \in Nat /\ e.time <= now
    BY DEF LogInv, Entry
  <2> QED BY <2>1
<1> QED BY <1>1, <1>3, <1>4 DEF LogInv, Fresh, Entry

\* The invariant says what the estimate is: two measurements that nothing is later
\* than are of one time.
LEMMA LogIsFresh ==
  ASSUME LogInv
  PROVE  EstimateIsFresh
<1> SUFFICES ASSUME NEW e \in measured, \A x \in measured : x.time <= e.time
             PROVE  log = Fresh(measured, e.time) /\ m_bitrateEstimate = log
  BY DEF EstimateIsFresh
<1>1. PICK y \in measured :
        /\ \A x \in measured : x.time <= y.time
        /\ log = Fresh(measured, y.time)
  BY DEF LogInv
<1>2. y.time \in Nat /\ e.time \in Nat
  BY DEF LogInv, Entry
<1>3. y.time = e.time
  BY <1>1, <1>2
<1> QED BY <1>1, <1>3 DEF LogInv

-----------------------------------------------------------------------------
(* All of it.                                                              *)

TimedInv == IInv /\ Waits /\ ClockInv /\ LogInv

\* The simulation starts at time 0.
LEMMA TimedInitInv == TimedInit => TimedInv
<1> SUFFICES ASSUME TimedInit PROVE TimedInv
  OBVIOUS
<1>1. IInv /\ Waits
  BY InitIInv, InitWaits DEF TimedInit
<1>2. client.m_state = "NOT_STARTED"
  BY DEF TimedInit, Init, InitClient
<1>3. ClockInv
  BY <1>2, DueFacts DEF TimedInit, ClockInv
<1>4. LogInv
  BY DEF TimedInit, LogInv
<1> QED BY <1>1, <1>3, <1>4 DEF TimedInv

\* What the invariants of DashStream say of the player.
LEMMA PlayerFacts ==
  ASSUME IInv
  PROVE  /\ client.play_num \in Nat
         /\ client.m_state = "NOT_STARTED" => client.play_num = 0
         /\ client.m_state \in {"PLAYING", "PAUSED"} => client.play_num >= 2
         /\ client.m_state = "PLAYING" => client.plays = 1
<1>1. PICK f : Between(client, f)
  BY IInvFacts
<1>2. client \in Client
  BY IInvFacts
<1> QED BY <1>1, <1>2, SegCountAssumption DEF Between, Stage, Timer, Client

\* A handler that leaves the player where it is leaves its clock right.
LEMMA ClockKept ==
  ASSUME ClockInv, UNCHANGED playerTimes, now' = now,
         client'.m_state = client.m_state, client'.play_num = client.play_num
  PROVE  ClockInv'
  BY DEF ClockInv, playerTimes, Due

\* Time passes: never beyond the play that is due.
LEMMA TickStep ==
  ASSUME TimedInv, Tick
  PROVE  ClockInv' /\ LogInv'
<1>1. /\ now \in Nat /\ now + 1 <= Horizon /\ Horizon \in Nat /\ now' = now + 1
      /\ client' = client
      /\ UNCHANGED playerTimes /\ UNCHANGED download /\ UNCHANGED rates
  BY DueFacts DEF TimedInv, ClockInv, Tick, vars
<1>2. client.m_state = "PLAYING" => now < playAt
  BY PlayerFacts DEF TimedInv, Tick
<1>3. /\ playAt' = playAt /\ m_start_time' = m_start_time
      /\ m_lastpaused' = m_lastpaused /\ m_interruption_time' = m_interruption_time
  BY <1>1 DEF playerTimes
<1>4. playAt \in Nat
  BY DEF TimedInv, ClockInv
<1>5. ClockInv'
  BY <1>1, <1>2, <1>3, <1>4, DueFacts DEF TimedInv, ClockInv, Due
<1>6. LogInv'
  BY <1>1, LogKept DEF TimedInv
<1> QED BY <1>5, <1>6

\* Every step of Playout is one of DashStream, or none.
LEMMA TimedNextIsNext == [TimedNext]_timedVars => [Next]_vars
  BY DEF TimedNext, timedVars, Tick, Event, TimedConnectionSucceeded,
         TimedClientHandleRead, TimedPlayFrameEvent, TimedServer, Next, vars

\* Every step keeps the clock and the log right, and resumes in time.
LEMMA TimedNextInv ==
  TimedInv /\ [TimedNext]_timedVars => TimedInv' /\ Complete(client, client')
<1> SUFFICES ASSUME TimedInv, [TimedNext]_timedVars
             PROVE  TimedInv' /\ Complete(client, client')
  OBVIOUS
<1>1. IInv' /\ Waits'
  BY TimedNextIsNext, NextIInv, NextWaits DEF TimedInv
<1>2. IInv /\ PausedShort(client) /\ ClockInv /\ LogInv /\ now \in Nat
  BY DEF TimedInv, Waits, ClockInv
<1>3. CASE Tick
  <2>1. client' = client
    BY <1>3 DEF Tick, vars
  <2> QED BY <2>1, <1>1, <1>3, TickStep DEF TimedInv, Complete
<1>4. CASE TimedConnectionSucceeded /\ now' = now
  <2>1. /\ client'.m_state = client.m_state /\ client'.play_num = client.play_num
        /\ client'.v_num = client.v_num
    BY <1>2, <1>4, ConnectionMoves DEF TimedConnectionSucceeded
  <2>2. ClockInv'
    BY <2>1, <1>2, <1>4, ClockKept DEF TimedConnectionSucceeded
  <2>3. LogInv'
    BY <1>2, <1>4, LogKept DEF TimedConnectionSucceeded
  <2> QED BY <2>1, <2>2, <2>3, <1>1 DEF TimedInv, Complete
<1>5. CASE TimedClientHandleRead /\ now' = now
  <2>1. Moves(client, client') /\ Complete(client, client')
    BY <1>2, <1>5, ReadMoves DEF TimedClientHandleRead
  <2>2. ClockInv'
    BY <2>1, <1>2, <1>5, PlayerFacts, ClockStep DEF TimedClientHandleRead
  <2>3. LogInv'
    BY <1>2, <1>5, MeasuredStep DEF TimedClientHandleRead
  <2> QED BY <2>1, <2>2, <2>3, <1>1 DEF TimedInv
<1>6. CASE TimedPlayFrameEvent /\ now' = now
  <2>1. Fires(client, client') /\ client.m_state # "PAUSED"
    BY <1>2, <1>6, TimerFires DEF TimedPlayFrameEvent
  <2>2. ClockInv'
    BY <2>1, <1>2, <1>6, PlayerFacts, ClockStep DEF TimedPlayFrameEvent
  <2>3. LogInv'
    BY <1>2, <1>6, LogKept DEF TimedPlayFrameEvent
  <2> QED BY <2>1, <2>2, <2>3, <1>1 DEF TimedInv, Complete
<1>7. CASE TimedServer /\ now' = now
  <2>1. client' = client
    BY <1>7 DEF TimedServer, ServerHandleRead, ServerDataSend
  <2>2. ClockInv'
    BY <2>1, <1>2, <1>7, ClockKept DEF TimedServer
  <2>3. LogInv'
    BY <1>2, <1>7, LogKept DEF TimedServer
  <2> QED BY <2>1, <2>2, <2>3, <1>1 DEF TimedInv, Complete
<1>8. CASE UNCHANGED timedVars
  <2>1. /\ client' = client /\ now' = now /\ UNCHANGED playerTimes
        /\ UNCHANGED download /\ UNCHANGED rates
    BY <1>8 DEF timedVars, vars
  <2>2. ClockInv'
    BY <2>1, <1>2, ClockKept
  <2>3. LogInv'
    BY <2>1, <1>2, LogKept
  <2> QED BY <2>1, <2>2, <2>3, <1>1 DEF TimedInv, Complete
<1> QED BY <1>3, <1>4, <1>5, <1>6, <1>7, <1>8 DEF TimedNext, Event

\* The invariant of Playout.
THEOREM TimedInvariance == TimedSpec => []TimedInv
<1>1. TimedInit => TimedInv
  BY TimedInitInv
<1>2. TimedInv /\ [TimedNext]_timedVars => TimedInv'
  BY TimedNextInv
<1> QED BY <1>1, <1>2, PTL DEF TimedSpec

\* The times are what they are meant to be, whatever the network takes.
THEOREM TimesCorrect == TimedSpec => []TimesOK
<1>1. TimedInv => TimesOK
  <2> SUFFICES ASSUME TimedInv PROVE TimesOK
    OBVIOUS
  <2>1. log \in SUBSET Entry
    BY DEF TimedInv, LogInv, Fresh
  <2> QED BY <2>1 DEF TimedInv, ClockInv, LogInv, TimesOK
<1> QED BY <1>1, TimedInvariance, PTL

\* The time at which the player's clock says the next segment is due is the time
\* its timer is set to; while the player waits it says that the segment is late.
THEOREM ClockIsTrue == TimedSpec => []DueInTime
<1>1. TimedInv => DueInTime
  <2> SUFFICES ASSUME TimedInv PROVE DueInTime
    OBVIOUS
  <2> DEFINE p == client.play_num
             d == Second * (p - 1)
  <2>1. /\ m_start_time \in Nat /\ m_interruption_time \in Nat /\ now \in Nat
        /\ playAt \in Nat /\ m_lastpaused \in Nat
    BY DEF TimedInv, ClockInv
  <2>2. p \in Nat /\ Second \in Nat
    BY PlayerFacts, DueFacts DEF TimedInv
  <2>3. d \in Int
    <3> HIDE DEF p
    <3> QED BY <2>2
  <2>4. /\ client.m_state = "PLAYING" => playAt = m_start_time + m_interruption_time + d
        /\ client.m_state = "PAUSED" => m_lastpaused = m_start_time + m_interruption_time + d
    BY DEF TimedInv, ClockInv, Due
  <2> HIDE DEF d
  <2>5. /\ client.m_state = "PLAYING" => GetRealPlayTime(d) = playAt - now
        /\ client.m_state = "PAUSED" => GetRealPlayTime(d) = 0
    BY <2>1, <2>3, <2>4 DEF GetRealPlayTime
  <2> QED BY <2>5 DEF DueInTime, d
<1> QED BY <1>1, TimedInvariance, PTL

\* The estimate is the average of the measurements of the last window.
THEOREM Estimated == TimedSpec => []EstimateIsFresh
<1>1. TimedInv => EstimateIsFresh
  BY LogIsFresh DEF TimedInv
<1> QED BY <1>1, TimedInvariance, PTL

\* An interruption ends with the frame that completes the segment waited for.
THEOREM ResumesInTime == TimedSpec => ResumesWhenComplete
<1>1. TimedInv /\ [TimedNext]_timedVars =>
        (client.m_state = "PAUSED" =>
           /\ Resumes <=> client'.v_num # client.v_num
           /\ Resumes => client'.play_num = client'.v_num)
  BY TimedNextInv DEF Complete, Resumes
<1> QED BY <1>1, TimedInvariance, PTL DEF TimedSpec, ResumesWhenComplete
=============================================================================
