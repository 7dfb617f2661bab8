--------------------------- MODULE DashStreamProofs ---------------------------
(***************************************************************************)
(* Proofs about DashStream, for every number of segments, every set of     *)
(* packet numbers and options, every size of the transmit buffer.          *)
(*                                                                         *)
(* The argument counts frames.  The invariant has a table f of the partial *)
(* sums of video_series, which every request extends by an entry, and      *)
(* likewise a table h of what the requests under way will bring.  With     *)
(* these the client never receives a frame of a segment it has not asked   *)
(* for, so that its counters stay in range and each request is made when   *)
(* earned.  That the table is what PacketsOf computes needs induction,     *)
(* which SumTheorems provides.  Two more invariants, InOrder and Waits,    *)
(* are about TCP that keeps requests apart: where every frame on its way   *)
(* belongs, and what a player that waits is short of.                      *)
(***************************************************************************)
EXTENDS DashStream, FiniteSetTheorems, SequenceTheorems, SumTheorems

\* f[s] is the number of frames of the first s segments.
Sums(c, f) ==
  /\ f \in [0 .. SegCount + 1 -> Nat]
  /\ f[0] = 0
  /\ \A s \in Cells : f[s + 1] = f[s] + c.video_series[s]
  /\ \A a, b \in 0 .. SegCount + 1 : a <= b => f[a] <= f[b]

\* video_series has an entry for every segment asked for, and for no other.
Series(c) == \A s \in Cells : c.video_series[s] > 0 <=> s < c.m_segmentId

\* How far the index may have strayed.
Indices(c) ==
  /\ c.index = "in" => c.m_segmentId <= SegCount
  /\ c.index # "in" => c.m_segmentId = SegCount + 1
  /\ OptionsFit => c.index = "in"

\* The requests made are those earned by v downloads and the plays so far.
Made(c, v) ==
  c.m_segmentId > 0 /\ c.index # "out" => c.m_segmentId = Earned(v, c.play_num)

\* The player's state and the number of segments it has played.
Stage(c) ==
  /\ c.m_state = "NOT_STARTED" => c.play_num = 0
  /\ c.m_state \in {"PLAYING", "PAUSED"} => c.play_num \in 2 .. SegCount
  /\ c.m_state = "DONE" => c.play_num = SegCount + 1

Connected(c) == c.m_connected = (c.m_segmentId > 0 /\ c.m_state # "DONE")

\* Nothing is played before the pointer to the client and T_start are set.
Prepared(c) ==
  /\ ~c.m_dashClient => c.m_segmentId <= 1 /\ c.m_state = "NOT_STARTED"
  /\ c.m_state # "NOT_STARTED" => c.T_start
  /\ c.m_segmentId > req_num + 1 => c.T_start

\* All frames received, those played included.
Received(c, f) == f[c.v_num] + c.frame_num

\* The queue holds what is received and not played; all of it was asked for.
Queued(c, f) ==
  /\ c.m_queue = Received(c, f) - f[c.play_num]
  /\ Received(c, f) <= f[c.m_segmentId]
  /\ c.v_num <= c.m_segmentId
  /\ c.play_num <= c.m_segmentId
  /\ c.seg_num = c.v_num

\* The client between two calls of a handler, v downloads having been counted.
Sound(c, f, v) ==
  /\ c \in Client
  /\ Sums(c, f) /\ Series(c) /\ Indices(c) /\ Connected(c)
  /\ Queued(c, f)
  /\ Made(c, v)

\* The segment being received is not complete; this is so between handlers.
Counting(c) ==
  /\ c.m_state # "DONE" => c.tmp_num = 0
  /\ c.v_num < c.m_segmentId => c.frame_num < c.video_series[c.v_num]

Timer(c) ==
  /\ c.m_state = "PLAYING" => c.plays = 1
  /\ c.m_state \in {"NOT_STARTED", "PAUSED"} => c.plays = 0
  /\ c.plays <= 1

\* The frames a handler's requests ask for; there are two requests at most.
Owed(q) == (IF Len(q) > 0 THEN q[1].num ELSE 0) + (IF Len(q) > 1 THEN q[2].num ELSE 0)

\* h[i] is the number of frames that the reads i, i + 1, ... of the server will
\* bring: those of the first request of each.
Asks(h, u) ==
  /\ h \in [1 .. Len(u) + 1 -> Nat]
  /\ h[Len(u) + 1] = 0
  /\ \A i \in 1 .. Len(u) : u[i] # <<>> /\ h[i] = h[i + 1] + u[i][1].num

\* What no call but CountFrame changes.
SameDownload(c, d) ==
  /\ d.frame_num = c.frame_num /\ d.tmp_num = c.tmp_num
  /\ d.v_num = c.v_num /\ d.seg_num = c.seg_num

\* A call that may ask for a segment: the table grows by what it owes.
Grows(c, d, f, e) ==
  /\ SameDownload(c, d)
  /\ d.m_dashClient = c.m_dashClient
  /\ c.m_segmentId <= d.m_segmentId /\ d.m_segmentId <= c.m_segmentId + 1
  /\ Len(d.outbox) <= Len(c.outbox) + 1
  /\ e[d.m_segmentId] = f[c.m_segmentId] + Owed(d.outbox) - Owed(c.outbox)
  /\ \A x \in 0 .. c.m_segmentId : e[x] = f[x]

\* The client between two handlers.
Between(c, f) ==
  /\ Sound(c, f, c.v_num)
  /\ Stage(c) /\ Prepared(c) /\ Timer(c) /\ Counting(c)

\* What a handler makes of client c.
Handled(c, d, f, e) ==
  /\ Between(d, e)
  /\ Len(d.outbox) <= 2
  /\ e[d.m_segmentId] = f[c.m_segmentId] + Owed(d.outbox)
  /\ c.T_start => d.T_start
  /\ d.play_num # c.play_num => c.T_start /\ d.m_state # "NOT_STARTED"

\* What PlayFrame leaves: the client sound, the timer armed exactly if the player
\* goes on playing.
Played(c, d, f, e, v) ==
  /\ Sound(d, e, v) /\ Stage(d)
  /\ Grows(c, d, f, e)
  /\ d.T_start = c.T_start
  /\ d.m_state # "NOT_STARTED"
  /\ c.m_state = "DONE" => d = c
  /\ d.m_state = "PLAYING" => d.plays = c.plays + 1
  /\ d.m_state = "PAUSED" => d.plays = c.plays
  /\ d.m_state = "DONE" => d.plays = c.plays \/ d.plays = c.plays + 1

\* What ReceiveFrame leaves of a client q that has queued the frame: T_start has
\* been raised in time for the request that may follow.
Taken(q, d, f, e) ==
  /\ Sound(d, e, q.v_num) /\ Stage(d) /\ Timer(d)
  /\ Grows(q, d, f, e)
  /\ ~d.m_dashClient => d.m_segmentId <= 1 /\ d.m_state = "NOT_STARTED"
  /\ d.m_state # "NOT_STARTED" => d.T_start
  /\ d.m_segmentId > req_num => d.T_start
  /\ q.T_start => d.T_start
  /\ d.play_num # q.play_num => q.T_start /\ d.m_state # "NOT_STARTED"
  /\ q.m_state = "DONE" => d.m_state = "DONE"

\* What PlayFrame finds: a player that has stopped, or one that plays, perhaps
\* for the first time and then with two segments to take.
Ready(c) ==
  \/ c.m_state = "DONE" /\ Stage(c)
  \/ /\ c.m_state = "PLAYING"
     /\ c.m_dashClient
     /\ \/ c.play_num \in 2 .. SegCount
        \/ c.play_num = 0 /\ c.m_queue > c.video_series[0] + c.video_series[1]

\* The inductive invariant: between two events the client is sound, and what it
\* has received and what is on its way does not exceed what it has asked for.
IInv ==
  /\ options \in Options
  /\ uplink \in Seq(Seq(Request))
  /\ queue \in Seq(Cells)
  /\ wire \in Seq(Cells) /\ Len(wire) <= TxBuffer
  /\ client.outbox = <<>>
  /\ \E f, h :
       /\ Between(client, f)
       /\ Asks(h, uplink)
       /\ Received(client, f) + Len(wire) + Len(queue) + h[1] <= f[client.m_segmentId]

\* No step plays a segment before T_start has been raised by an earlier one, and
\* none takes a play back.
StartFirst ==
  /\ client.T_start => client'.T_start
  /\ client'.play_num # client.play_num => client.T_start /\ client'.play_num > 0

-----------------------------------------------------------------------------

\* The options in range, as far as the proofs need it.
LEMMA OptionFacts ==
  ASSUME options \in Options
  PROVE  /\ init_buffer \in Nat /\ req_num \in Nat
         /\ req_num + 1 < SegCount /\ init_buffer + req_num < SegCount
         /\ SegCount \in Nat /\ SegCount >= 4
  BY OptionsAssumption, SegCountAssumption DEF init_buffer, req_num

\* A packet count, or the zero of an entry not set, is a natural number.
LEMMA PacketCountNat == \A k \in PacketNums \cup {0} : k \in Nat
  BY PacketNumsAssumption

\* The number of packets of a segment, asked for or not, is a natural number.
LEMMA SeriesNat ==
  ASSUME NEW c \in Client, NEW s \in Cells
  PROVE  c.video_series[s] \in Nat
<1>1. c.video_series \in [Cells -> PacketNums \cup {0}]
  BY DEF Client
<1>2. c.video_series[s] \in PacketNums \cup {0}
  BY <1>1
<1> QED
  BY <1>2, PacketCountNat

\* The segments up to p at which the player pulls are finitely many.
LEMMA PullsFinite ==
  ASSUME NEW p \in Nat
  PROVE  /\ IsFiniteSet({v \in 2 .. p : PlayerPulls(v)})
         /\ Cardinality({v \in 2 .. p : PlayerPulls(v)}) \in Nat
<1>1. IsFiniteSet(2 .. p)
  BY FS_Interval
<1>2. IsFiniteSet({v \in 2 .. p : PlayerPulls(v)})
  BY <1>1, FS_Subset
<1> QED
  BY <1>2, FS_CardinalityType

\* Playing segment p + 1 earns a request exactly if the player pulls there.
LEMMA PullsStep ==
  ASSUME NEW p \in Nat, p >= 1
  PROVE  Cardinality({v \in 2 .. p + 1 : PlayerPulls(v)}) =
           Cardinality({v \in 2 .. p : PlayerPulls(v)})
             + (IF PlayerPulls(p + 1) THEN 1 ELSE 0)
<1> DEFINE S(q) == {v \in 2 .. q : PlayerPulls(v)}
<1>1. CASE PlayerPulls(p + 1)
  <2>1. S(p + 1) = S(p) \cup {p + 1}
    BY <1>1
  <2>2. p + 1 \notin S(p)
    OBVIOUS
  <2>3. IsFiniteSet(S(p))
    BY PullsFinite
  <2>4. Cardinality(S(p) \cup {p + 1}) = Cardinality(S(p)) + 1
    BY <2>2, <2>3, FS_AddElement
  <2> QED
    BY <2>1, <2>4, <1>1
<1>2. CASE ~PlayerPulls(p + 1)
  <2>1. S(p + 1) = S(p)
    BY <1>2
  <2>2. Cardinality(S(p)) \in Nat
    BY PullsFinite
  <2> QED
    BY <2>1, <2>2, <1>2
<1> QED
  BY <1>1, <1>2

\* No play and no download earns more than those of the whole video.
LEMMA EarnedFacts ==
  ASSUME options \in Options, NEW v \in Nat, NEW p \in Nat
  PROVE  /\ Earned(v, p) \in Nat
         /\ Earned(SegCount, SegCount) \in Nat
         /\ Earned(v, p) <= Earned(SegCount, SegCount)
<1> DEFINE S(q) == {w \in 2 .. q : PlayerPulls(w)}
<1> USE OptionFacts
<1>1. S(p) \subseteq S(SegCount)
  BY DEF PlayerPulls
<1>2. /\ Cardinality(S(p)) \in Nat /\ Cardinality(S(SegCount)) \in Nat
      /\ IsFiniteSet(S(SegCount))
  BY PullsFinite
<1>3. Cardinality(S(p)) <= Cardinality(S(SegCount))
  BY <1>1, <1>2, FS_Subset
<1> HIDE DEF S
<1>4. /\ Earned(v, p) = 1 + (IF v < init_buffer + req_num THEN v ELSE init_buffer + req_num)
                          + Cardinality(S(p))
      /\ Earned(SegCount, SegCount) = 1 + (init_buffer + req_num) + Cardinality(S(SegCount))
  BY DEF S, Earned
<1> QED
  BY <1>2, <1>3, <1>4

\* A request asks for a natural number of frames.
LEMMA RequestNum ==
  ASSUME NEW q \in Seq(Request), NEW i \in 1 .. Len(q)
  PROVE  q[i].num \in Nat
<1>1. q[i] \in Request
  OBVIOUS
<1> QED
  BY <1>1, PacketNumsAssumption DEF Request

\* What a handler owes is a natural number.
LEMMA OwedNat ==
  ASSUME NEW q \in Seq(Request)
  PROVE  Owed(q) \in Nat
<1>1. \A i \in 1 .. Len(q) : q[i].num \in Nat
  BY RequestNum
<1>2. Len(q) \in Nat
  OBVIOUS
<1> QED
  BY <1>1, <1>2 DEF Owed

\* A number below two.
LEMMA ZeroOrOne == ASSUME NEW k \in Nat, k <= 1 PROVE k = 0 \/ k = 1
  OBVIOUS

\* A sequence that is not longer than one.
LEMMA AtMostOne ==
  ASSUME NEW q \in Seq(Request), Len(q) <= 1
  PROVE  q = <<>> \/ Len(q) = 1
<1>1. Len(q) \in Nat
  OBVIOUS
<1>2. Len(q) = 0 \/ Len(q) = 1
  BY <1>1, ZeroOrOne
<1>3. Len(q) = 0 => q = <<>>
  OBVIOUS
<1> QED
  BY <1>2, <1>3, Zenon

\* RequestSegment, connected: one more entry of video_series and one more
\* request, unless the index has left the allocation.  v is the number of
\* downloads that have earned requests, the one now made included.
LEMMA RequestFacts ==
  ASSUME options \in Options, NEW n \in PacketNums,
         NEW c \in Client, NEW f, NEW v \in Nat,
         Sums(c, f), Series(c), Indices(c), c.m_connected, Len(c.outbox) <= 1,
         c.index # "out" => c.m_segmentId + 1 = Earned(v, c.play_num)
  PROVE  LET d == RequestSegment(c, n) IN
         \E e :
           /\ d \in Client
           /\ Sums(d, e) /\ Series(d) /\ Indices(d) /\ Made(d, v)
           /\ Grows(c, d, f, e)
           /\ d.m_connected = c.m_connected /\ d.m_state = c.m_state
           /\ d.m_queue = c.m_queue /\ d.play_num = c.play_num
           /\ d.plays = c.plays /\ d.T_start = c.T_start
<1> DEFINE d == RequestSegment(c, n)
           g == c.m_segmentId
<1> USE OptionFacts
<1>1. g \in 0 .. SegCount + 1 /\ c.outbox \in Seq(Request) /\ c.play_num \in Nat
  BY DEF Client
<1>2. CASE g \notin Cells
  <2>1. d = [c EXCEPT !.index = "out"]
    BY <1>2 DEF RequestSegment
  <2>2. d \in Client
    BY <2>1 DEF Client
  <2>3. /\ SameDownload(c, d) /\ d.outbox = c.outbox
        /\ d.m_connected = c.m_connected /\ d.m_state = c.m_state
        /\ d.m_queue = c.m_queue /\ d.play_num = c.play_num
        /\ d.plays = c.plays /\ d.m_dashClient = c.m_dashClient
        /\ d.T_start = c.T_start /\ d.m_segmentId = g /\ d.index = "out"
        /\ d.video_series = c.video_series
    BY <2>1 DEF Client, SameDownload
  <2>4. Sums(d, f) /\ Series(d)
    BY <2>3 DEF Sums, Series
  <2>5. Indices(d)
    <3>1. g = SegCount + 1
      BY <1>1, <1>2 DEF Cells
    <3>2. Earned(v, c.play_num) <= Earned(SegCount, SegCount)
          /\ Earned(v, c.play_num) \in Nat /\ Earned(SegCount, SegCount) \in Nat
      BY <1>1, EarnedFacts
    <3>3. ~OptionsFit
      BY <3>1, <3>2 DEF OptionsFit, Indices
    <3> QED
      BY <3>1, <3>3, <2>3 DEF Indices
  <2>6. Made(d, v)
    BY <2>3 DEF Made
  <2>7. Owed(d.outbox) = Owed(c.outbox) /\ f[g] \in Nat /\ Owed(c.outbox) \in Nat
    <3>1. f[g] \in Nat
      BY <1>1 DEF Sums
    <3>3. Owed(c.outbox) \in Nat
      BY <1>1, OwedNat
    <3> QED
      BY <2>3, <3>1, <3>3
  <2>8. Len(c.outbox) \in Nat
    BY <1>1
  <2>9. Grows(c, d, f, f)
    BY SMTT(30), <2>3, <2>7, <2>8, <1>1 DEF Grows
  <2> QED
    BY <2>2, <2>3, <2>4, <2>5, <2>6, <2>9
<1>3. CASE g \in Cells
  <2> DEFINE index == IF g = SegCount THEN "behind" ELSE c.index
             series == [c.video_series EXCEPT ![g] = n]
             out == Append(c.outbox, [seg |-> g, num |-> n])
             e == [x \in 0 .. SegCount + 1 |-> IF x <= g THEN f[x] ELSE f[x] + n]
  <2>1. d = [c EXCEPT !.index = index, !.video_series = series,
                      !.outbox = out, !.m_segmentId = g + 1]
    BY <1>3 DEF RequestSegment, Client
  <2>2. n \in Nat /\ n > 0 /\ g \in Nat /\ g <= SegCount
    BY <1>3, PacketNumsAssumption DEF Cells
  <2>3. index \in {"in", "behind", "out"}
    BY DEF Client
  <2>4. series \in [Cells -> PacketNums \cup {0}]
    BY DEF Client
  <2>5. [seg |-> g, num |-> n] \in Request
    BY <1>3 DEF Request
  <2>6. out \in Seq(Request) /\ Len(out) = Len(c.outbox) + 1
        /\ \A i \in 1 .. Len(c.outbox) : out[i] = c.outbox[i]
        /\ out[Len(c.outbox) + 1] = [seg |-> g, num |-> n]
    BY <1>1, <2>5
  <2>7. \A s \in Cells : series[s] = IF s = g THEN n ELSE c.video_series[s]
    BY <1>3 DEF Client
  <2>8. /\ f \in [0 .. SegCount + 1 -> Nat] /\ f[0] = 0
        /\ \A s \in Cells : f[s + 1] = f[s] + c.video_series[s]
        /\ \A a, b \in 0 .. SegCount + 1 : a <= b => f[a] <= f[b]
    BY DEF Sums
  <2>9. c.video_series[g] = 0
    BY <1>3, SeriesNat DEF Series, Cells
  <2>10. Owed(out) = Owed(c.outbox) + n /\ Owed(c.outbox) \in Nat
    <3>1. CASE c.outbox = <<>>
      BY <3>1, <2>6, <2>2 DEF Owed
    <3>2. CASE Len(c.outbox) = 1
      <4>1. c.outbox[1].num \in Nat
        BY <3>2, <1>1, RequestNum
      <4> QED
        BY <3>2, <4>1, <2>6, <2>2 DEF Owed
    <3>3. c.outbox = <<>> \/ Len(c.outbox) = 1
      BY <1>1, AtMostOne
    <3> HIDE DEF out
    <3> QED
      BY <3>1, <3>2, <3>3
  <2> HIDE DEF index, series, out
  <2>11. [c EXCEPT !.index = index, !.video_series = series,
                   !.outbox = out, !.m_segmentId = g + 1] \in Client
    <3>1. g + 1 \in 0 .. SegCount + 1
      BY <2>2
    <3> QED
      BY <3>1, <2>3, <2>4, <2>6 DEF Client
  <2>12. d \in Client
    BY <2>1, <2>11
  <2>13. /\ SameDownload(c, d) /\ d.outbox = out
         /\ d.m_connected = c.m_connected /\ d.m_state = c.m_state
         /\ d.m_queue = c.m_queue /\ d.play_num = c.play_num
         /\ d.plays = c.plays /\ d.m_dashClient = c.m_dashClient
         /\ d.T_start = c.T_start /\ d.m_segmentId = g + 1
         /\ d.index = index /\ d.video_series = series
    BY <2>1 DEF Client, SameDownload
  <2>14. Series(d)
    BY SMTT(30), <2>13, <2>7, <2>2 DEF Series, Cells
  <2>15. Sums(d, e)
    <3>1. e \in [0 .. SegCount + 1 -> Nat]
      BY <2>2, <2>8
    <3>2. e[0] = 0
      BY <2>2, <2>8
    <3>3. ASSUME NEW s \in Cells
          PROVE  e[s + 1] = e[s] + d.video_series[s]
      <4>1. s \in Nat /\ s <= SegCount /\ f[s] \in Nat /\ f[s + 1] \in Nat
        BY <2>8 DEF Cells
      <4>2. c.video_series[s] \in Nat
        BY SeriesNat
      <4>3. f[s + 1] = f[s] + c.video_series[s]
            /\ d.video_series[s] = IF s = g THEN n ELSE c.video_series[s]
        BY <2>7, <2>8, <2>13
      <4>4. e[s] = (IF s <= g THEN f[s] ELSE f[s] + n)
            /\ e[s + 1] = (IF s + 1 <= g THEN f[s + 1] ELSE f[s + 1] + n)
        BY <4>1
      <4> HIDE DEF e, d
      <4>5. CASE s = g
        BY <4>5, <4>1, <4>3, <4>4, <2>2, <2>9
      <4>6. CASE s < g
        BY <4>6, <4>1, <4>3, <4>4, <2>2
      <4>7. CASE s > g
        BY <4>7, <4>1, <4>2, <4>3, <4>4, <2>2
      <4> QED
        BY <4>1, <4>5, <4>6, <4>7, <2>2
    <3>4. ASSUME NEW a \in 0 .. SegCount + 1, NEW b \in 0 .. SegCount + 1, a <= b
          PROVE  e[a] <= e[b]
      <4>1. f[a] \in Nat /\ f[b] \in Nat /\ f[a] <= f[b]
        BY <3>4, <2>8
      <4> QED
        BY SMTT(30), <4>1, <3>4, <2>2
    <3> QED
      BY <3>1, <3>2, <3>3, <3>4 DEF Sums
  <2>16. Indices(d)
    <3>1. Earned(v, c.play_num) <= Earned(SegCount, SegCount)
          /\ Earned(v, c.play_num) \in Nat /\ Earned(SegCount, SegCount) \in Nat
      BY <1>1, EarnedFacts
    <3>2. OptionsFit => c.index = "in" /\ g + 1 <= SegCount
      BY <3>1, <2>2 DEF OptionsFit, Indices
    <3>3. c.index # "in" => g = SegCount + 1
      BY DEF Indices
    <3> QED
      BY <3>2, <3>3, <2>2, <2>13 DEF Indices, index
  <2>17. Made(d, v)
    BY <2>2, <2>13 DEF Made, Indices, index
  <2>18. f[g] \in Nat /\ f[g + 1] \in Nat /\ f[g + 1] = f[g]
    BY <2>2, <2>8, <2>9, <1>3
  <2>19. e[g + 1] = f[g] + Owed(out) - Owed(c.outbox)
    BY SMTT(30), <2>2, <2>10, <2>18
  <2>20. \A x \in 0 .. g : e[x] = f[x]
    BY <2>2
  <2> HIDE DEF e
  <2>21. Len(c.outbox) \in Nat
    BY <1>1
  <2>22. Grows(c, d, f, e)
    BY <2>2, <2>6, <2>13, <2>19, <2>20, <2>21 DEF Grows
  <2> QED
    BY <2>12, <2>13, <2>14, <2>15, <2>16, <2>17, <2>22
<1> QED
  BY <1>2, <1>3

\* PopFrames takes segments that are complete and were asked for.
LEMMA PopFacts ==
  ASSUME options \in Options, NEW c, NEW f, NEW v \in Nat,
         Sound(c, f, v), Ready(c), c.m_state = "PLAYING",
         c.m_queue # 0, ~(c.m_queue < c.video_series[c.play_num])
  PROVE  LET d == PopFrames(c) IN
         /\ d \in Client
         /\ d.play_num \in 2 .. SegCount + 1
         /\ d.play_num <= c.m_segmentId
         /\ d.m_queue = Received(c, f) - f[d.play_num]
         /\ Earned(v, d.play_num) =
              Earned(v, c.play_num) + (IF PlayerPulls(d.play_num) THEN 1 ELSE 0)
         /\ d = [c EXCEPT !.m_queue = d.m_queue, !.play_num = d.play_num]
<1> DEFINE d == PopFrames(c)
           p == c.play_num
           g == c.m_segmentId
           S(q) == {w \in 2 .. q : PlayerPulls(w)}
<1> USE OptionFacts
<1>1. c \in Client /\ g \in 0 .. SegCount + 1 /\ p \in 0 .. SegCount + 1 /\ c.m_queue \in Nat
      /\ c.v_num \in 0 .. SegCount + 1 /\ c.frame_num \in Nat
  BY DEF Sound, Client
<1>2. /\ f \in [0 .. SegCount + 1 -> Nat] /\ f[0] = 0
      /\ \A s \in Cells : f[s + 1] = f[s] + c.video_series[s]
      /\ \A a, b \in 0 .. SegCount + 1 : a <= b => f[a] <= f[b]
  BY DEF Sound, Sums
<1>3. /\ c.m_queue = Received(c, f) - f[p] /\ Received(c, f) <= f[g]
      /\ f[p] \in Nat /\ f[g] \in Nat /\ Received(c, f) \in Nat
  <2>1. f[p] \in Nat /\ f[g] \in Nat /\ f[c.v_num] \in Nat
    BY <1>1, <1>2
  <2>2. Received(c, f) \in Nat
    BY <1>1, <2>1 DEF Received
  <2>3. Queued(c, f)
    BY DEF Sound
  <2> QED
    BY <2>1, <2>2, <2>3 DEF Queued
<1>4. \A x \in 0 .. SegCount + 1 : f[x] < f[g] => x < g
  <2> SUFFICES ASSUME NEW x \in 0 .. SegCount + 1, f[x] < f[g], x >= g
               PROVE  FALSE
    BY <1>1
  <2>1. f[g] <= f[x] /\ f[x] \in Nat
    BY <1>1, <1>2
  <2> QED
    BY <2>1, <1>3
<1>5. CASE p = 0
  <2>1. /\ 0 \in Cells /\ 1 \in Cells
        /\ c.video_series[0] \in Nat /\ c.video_series[1] \in Nat
        /\ f[1] = c.video_series[0] /\ f[2] = c.video_series[0] + c.video_series[1]
    <3>1. 0 \in Cells /\ 1 \in Cells
      BY DEF Cells
    <3>2. c.video_series[0] \in Nat /\ c.video_series[1] \in Nat
      BY <3>1, <1>1, SeriesNat
    <3>3. f[0 + 1] = f[0] + c.video_series[0] /\ f[1 + 1] = f[1] + c.video_series[1]
      BY <3>1, <1>2
    <3> QED
      BY <3>1, <3>2, <3>3, <1>2
  <2>2. c.m_queue > f[2] /\ f[2] \in Nat
    BY <2>1, <1>5 DEF Ready
  <2>3. 2 < g
    <3>1. f[2] < f[g]
      BY <2>2, <1>2, <1>3, <1>5
    <3> QED
      BY <3>1, <1>4
  <2>4. d = [c EXCEPT !.m_queue = c.m_queue - f[2], !.play_num = 2]
    BY <2>1, <1>5 DEF PopFrames
  <2>5. c.m_queue - f[2] \in Nat /\ 2 \in 0 .. SegCount + 1
    BY <2>2, <1>1
  <2>6. d \in Client /\ d.m_queue = c.m_queue - f[2] /\ d.play_num = 2
    BY <2>4, <2>5, <1>1 DEF Client
  <2>7. d = [c EXCEPT !.m_queue = d.m_queue, !.play_num = d.play_num]
    BY <2>4, <2>6
  <2>8. Cardinality(S(0)) = 0 /\ Cardinality(S(2)) = IF PlayerPulls(2) THEN 1 ELSE 0
    <3>1. S(0) = {} /\ S(1) = {}
      OBVIOUS
    <3>2. Cardinality({}) = 0
      BY FS_EmptySet
    <3>3. Cardinality(S(1 + 1)) = Cardinality(S(1)) + (IF PlayerPulls(1 + 1) THEN 1 ELSE 0)
      BY PullsStep
    <3> QED
      BY <3>1, <3>2, <3>3
  <2>9. Earned(v, 2) = Earned(v, 0) + (IF PlayerPulls(2) THEN 1 ELSE 0)
    <3> DEFINE due == IF v < init_buffer + req_num THEN v ELSE init_buffer + req_num
    <3>1. due \in Nat /\ Earned(v, 2) = 1 + due + Cardinality(S(2))
          /\ Earned(v, 0) = 1 + due + Cardinality(S(0))
      BY DEF Earned
    <3> HIDE DEF due, S
    <3> QED
      BY <3>1, <2>8
  <2> QED
    BY <2>3, <2>6, <2>7, <2>9, <1>1, <1>2, <1>3, <1>5
<1>6. CASE p \in 2 .. SegCount
  <2>1. p \in Cells /\ p + 1 \in 0 .. SegCount + 1 /\ p # 0
    BY <1>6 DEF Cells
  <2>2. c.video_series[p] \in Nat /\ f[p + 1] = f[p] + c.video_series[p]
    BY <2>1, <1>1, <1>2, SeriesNat
  <2>3. f[p] < f[g]
    BY <1>1, <1>3
  <2>4. p + 1 <= g
    BY <2>3, <1>1, <1>4, <1>6
  <2>5. d = [c EXCEPT !.m_queue = c.m_queue - c.video_series[p], !.play_num = p + 1]
    BY <2>1, <1>1 DEF PopFrames, Client
  <2>6. c.m_queue - c.video_series[p] \in Nat
    BY <2>2, <1>1
  <2>7. d \in Client /\ d.m_queue = c.m_queue - c.video_series[p] /\ d.play_num = p + 1
    BY <2>5, <2>6, <2>1, <1>1 DEF Client
  <2>8. d = [c EXCEPT !.m_queue = d.m_queue, !.play_num = d.play_num]
    BY <2>5, <2>7
  <2>9. Cardinality(S(p + 1)) = Cardinality(S(p)) + (IF PlayerPulls(p + 1) THEN 1 ELSE 0)
    BY <1>6, PullsStep
  <2>10. Earned(v, p + 1) = Earned(v, p) + (IF PlayerPulls(p + 1) THEN 1 ELSE 0)
    <3> DEFINE due == IF v < init_buffer + req_num THEN v ELSE init_buffer + req_num
    <3>1. due \in Nat /\ Earned(v, p + 1) = 1 + due + Cardinality(S(p + 1))
          /\ Earned(v, p) = 1 + due + Cardinality(S(p))
      BY DEF Earned
    <3>2. Cardinality(S(p)) \in Nat
      BY PullsFinite, <1>6
    <3> HIDE DEF due, S
    <3> QED
      BY <3>1, <3>2, <2>9
  <2> QED
    BY <2>2, <2>4, <2>7, <2>8, <2>10, <1>1, <1>3, <1>6
<1> QED
  BY <1>5, <1>6 DEF Ready

\* A call that asks for nothing leaves the table as it is.
LEMMA GrowsNot ==
  ASSUME options \in Options, NEW c \in Client, NEW d, NEW f, Sums(c, f),
         SameDownload(c, d), d.outbox = c.outbox,
         d.m_dashClient = c.m_dashClient, d.m_segmentId = c.m_segmentId
  PROVE  Grows(c, d, f, f)
<1> USE OptionFacts
<1>1. c.outbox \in Seq(Request) /\ c.m_segmentId \in 0 .. SegCount + 1
  BY DEF Client
<1>2. Len(c.outbox) \in Nat /\ Owed(c.outbox) \in Nat /\ f[c.m_segmentId] \in Nat
  <2>1. Len(c.outbox) \in Nat
    BY <1>1
  <2>2. f[c.m_segmentId] \in Nat
    BY <1>1 DEF Sums
  <2> QED
    BY <2>1, <2>2, <1>1, OwedNat
<1>3. /\ d.m_segmentId <= c.m_segmentId + 1 /\ c.m_segmentId <= d.m_segmentId
      /\ Len(d.outbox) <= Len(c.outbox) + 1
      /\ f[d.m_segmentId] = f[c.m_segmentId] + Owed(d.outbox) - Owed(c.outbox)
  BY <1>1, <1>2
<1> QED
  BY <1>3 DEF Grows

\* PlayFrame keeps the client sound, however it returns, and asks for one
\* segment at most.
LEMMA PlayFrameFacts ==
  ASSUME options \in Options, NEW c, NEW f, NEW v \in Nat, NEW n \in PacketNums,
         Sound(c, f, v), Ready(c), Len(c.outbox) <= 1
  PROVE  \E e : Played(c, PlayFrame(c, n), f, e, v)
<1> DEFINE d == PlayFrame(c, n)
           g == c.m_segmentId
<1> USE OptionFacts
<1>1. c \in Client /\ g \in 0 .. SegCount + 1 /\ c.play_num \in 0 .. SegCount + 1
      /\ c.m_queue \in Nat /\ c.plays \in Nat /\ c.outbox \in Seq(Request)
  BY DEF Sound, Client
<1>2. /\ Sums(c, f) /\ Series(c) /\ Indices(c) /\ Connected(c) /\ Queued(c, f) /\ Made(c, v)
  BY DEF Sound
<1>3. c.plays + 1 \in Nat /\ f[g] \in Nat
  BY SMTT(30), <1>1, <1>2 DEF Sums
<1>4. CASE c.m_state = "DONE"
  <2>1. d = c
    BY <1>4 DEF PlayFrame
  <2>2. Grows(c, d, f, f)
    BY <2>1, <1>1, <1>2, GrowsNot DEF SameDownload
  <2>3. Played(c, d, f, f, v)
    BY <2>1, <2>2, <1>4 DEF Ready, Played
  <2> QED
    BY <2>3
<1>5. CASE c.m_state = "PLAYING" /\ (c.m_queue = 0 \/ c.m_queue < c.video_series[c.play_num])
  <2>1. d = [c EXCEPT !.m_state = "PAUSED"]
    BY <1>5 DEF PlayFrame
  <2>2. d \in Client
    BY <2>1, <1>1 DEF Client, States
  <2>3. /\ SameDownload(c, d) /\ d.outbox = c.outbox /\ d.index = c.index
        /\ d.m_connected = c.m_connected /\ d.m_state = "PAUSED"
        /\ d.m_queue = c.m_queue /\ d.play_num = c.play_num
        /\ d.plays = c.plays /\ d.m_dashClient = c.m_dashClient
        /\ d.T_start = c.T_start /\ d.m_segmentId = g
        /\ d.video_series = c.video_series
    BY <2>1, <1>1 DEF Client, SameDownload
  <2>4. Sums(d, f) /\ Series(d) /\ Indices(d) /\ Connected(d) /\ Queued(d, f) /\ Made(d, v)
    BY <2>3, <1>2, <1>5 DEF Sums, Series, Indices, Connected, Queued, Made, Received, SameDownload
  <2>5. c.play_num \in 2 .. SegCount
    <3>1. 0 \in Cells /\ 1 \in Cells
      BY DEF Cells
    <3>2. c.video_series[0] \in Nat /\ c.video_series[1] \in Nat
      BY <3>1, <1>1, SeriesNat
    <3>3. CASE c.play_num = 0 /\ c.m_queue > c.video_series[0] + c.video_series[1]
      BY SMTT(30), <3>2, <3>3, <1>1, <1>5
    <3> QED
      BY <3>3, <1>5 DEF Ready
  <2>6. Grows(c, d, f, f)
    BY <2>3, <1>1, <1>2, GrowsNot
  <2>7. Sound(d, f, v) /\ Stage(d)
    BY <2>2, <2>3, <2>4, <2>5 DEF Sound, Stage
  <2>8. Played(c, d, f, f, v)
    BY <2>3, <2>6, <2>7, <1>5 DEF Played
  <2> QED
    BY <2>8
<1>6. CASE c.m_state = "PLAYING" /\ c.m_queue # 0 /\ ~(c.m_queue < c.video_series[c.play_num])
  <2> DEFINE b == PopFrames(c)
  <2>1. /\ b \in Client
        /\ b.play_num \in 2 .. SegCount + 1
        /\ b.play_num <= g
        /\ b.m_queue = Received(c, f) - f[b.play_num]
        /\ Earned(v, b.play_num) =
             Earned(v, c.play_num) + (IF PlayerPulls(b.play_num) THEN 1 ELSE 0)
        /\ b = [c EXCEPT !.m_queue = b.m_queue, !.play_num = b.play_num]
    BY <1>6, PopFacts
  <2>2. /\ SameDownload(c, b) /\ b.outbox = c.outbox /\ b.index = c.index
        /\ b.m_connected = c.m_connected /\ b.m_state = "PLAYING"
        /\ b.plays = c.plays /\ b.m_dashClient = TRUE
        /\ b.T_start = c.T_start /\ b.m_segmentId = g
        /\ b.video_series = c.video_series
    <3>1. c.m_dashClient = TRUE
      BY <1>1, <1>6 DEF Ready, Client
    <3> HIDE DEF b
    <3> QED
      BY <2>1, <3>1, <1>1, <1>6 DEF Client, SameDownload
  <2>3. d = LET stopped == IF b.play_num = SegCount + 1 THEN StopApplication(b) ELSE b
                asked == IF PlayerPulls(b.play_num) THEN RequestSegment(stopped, n) ELSE stopped
            IN  [asked EXCEPT !.plays = @ + 1]
    BY <2>2, <1>6 DEF PlayFrame
  <2> HIDE DEF b, d
  <2>4. Sums(b, f) /\ Series(b) /\ Indices(b) /\ Queued(b, f)
    BY <2>1, <2>2, <1>2 DEF Sums, Series, Indices, Queued, Received, SameDownload
  <2>5. g > 0 /\ c.m_connected = TRUE
    <3>1. g > 0
      BY <2>1, <1>1
    <3> QED
      BY <3>1, <1>2, <1>6 DEF Connected
  <2>6. CASE b.play_num = SegCount + 1
    <3>1. ~PlayerPulls(b.play_num)
      BY <2>6 DEF PlayerPulls
    <3>2. d = [b EXCEPT !.m_connected = FALSE, !.m_state = "DONE", !.plays = c.plays + 1]
      BY <2>1, <2>2, <2>3, <2>6, <3>1 DEF StopApplication, Client
    <3>3. d \in Client
      <4>1. \A k \in Nat : [b EXCEPT !.m_connected = FALSE, !.m_state = "DONE",
                                    !.plays = k] \in Client
        BY <2>1 DEF Client, States
      <4> QED
        BY <4>1, <3>2, <1>3
    <3>4. /\ SameDownload(c, d) /\ d.outbox = c.outbox /\ d.index = c.index
          /\ d.m_connected = FALSE /\ d.m_state = "DONE"
          /\ d.m_queue = b.m_queue /\ d.play_num = SegCount + 1
          /\ d.plays = c.plays + 1 /\ d.m_dashClient = TRUE
          /\ d.T_start = c.T_start /\ d.m_segmentId = g
          /\ d.video_series = c.video_series
      BY <3>2, <2>1, <2>2, <2>6 DEF Client, SameDownload
    <3>5. Sums(d, f) /\ Series(d) /\ Indices(d) /\ Queued(d, f)
      BY <3>4, <2>1, <2>6, <1>2 DEF Sums, Series, Indices, Queued, Received, SameDownload
    <3>6. Connected(d) /\ Made(d, v) /\ Stage(d)
      <4>1. g \in Nat /\ Earned(v, b.play_num) = Earned(v, c.play_num)
        BY <2>1, <3>1, <1>1, EarnedFacts
      <4> QED
        BY <4>1, <3>4, <2>5, <2>6, <1>2 DEF Connected, Made, Stage
    <3>7. Grows(c, d, f, f)
      <4>1. c.m_dashClient = TRUE
        BY <1>1, <1>6 DEF Ready, Client
      <4> QED
        BY <4>1, <3>4, <1>1, <1>2, GrowsNot
    <3>8. Sound(d, f, v)
      BY <3>3, <3>5, <3>6 DEF Sound
    <3>9. Played(c, d, f, f, v)
      BY <3>4, <3>6, <3>7, <3>8, <1>6 DEF Played
    <3> QED
      BY <3>9 DEF d
  <2>7. CASE b.play_num # SegCount + 1 /\ PlayerPulls(b.play_num)
    <3> DEFINE a == RequestSegment(b, n)
    <3>1. b.index # "out" => b.m_segmentId + 1 = Earned(v, b.play_num)
      BY <2>1, <2>2, <2>5, <2>7, <1>2 DEF Made
    <3>2. PICK e : /\ a \in Client
                   /\ Sums(a, e) /\ Series(a) /\ Indices(a) /\ Made(a, v)
                   /\ Grows(b, a, f, e)
                   /\ a.m_connected = b.m_connected /\ a.m_state = b.m_state
                   /\ a.m_queue = b.m_queue /\ a.play_num = b.play_num
                   /\ a.plays = b.plays /\ a.T_start = b.T_start
      <4>1. b.m_connected /\ Len(b.outbox) <= 1
        BY <2>2, <2>5
      <4> QED
        BY <4>1, <3>1, <2>1, <2>4, RequestFacts
    <3>3. d = [a EXCEPT !.plays = c.plays + 1]
      BY <2>2, <2>3, <2>7, <3>2
    <3> HIDE DEF a
    <3>4. d \in Client
      <4>1. \A k \in Nat : [a EXCEPT !.plays = k] \in Client
        BY <3>2 DEF Client
      <4> QED
        BY <4>1, <3>3, <1>3
    <3>5. /\ SameDownload(a, d) /\ d.outbox = a.outbox /\ d.index = a.index
          /\ d.m_connected = TRUE /\ d.m_state = "PLAYING"
          /\ d.m_queue = b.m_queue /\ d.play_num = b.play_num
          /\ d.plays = c.plays + 1 /\ d.m_dashClient = a.m_dashClient
          /\ d.T_start = c.T_start /\ d.m_segmentId = a.m_segmentId
          /\ d.video_series = a.video_series
      BY <3>2, <3>3, <2>2, <2>5 DEF Client, SameDownload
    <3>6. Sums(d, e) /\ Series(d) /\ Indices(d) /\ Made(d, v)
      BY <3>2, <3>5 DEF Sums, Series, Indices, Made
    <3>7. Grows(c, d, f, e)
      <4>1. c.m_dashClient = TRUE
        BY <1>1, <1>6 DEF Ready, Client
      <4> QED
        BY <4>1, <3>2, <3>5, <2>2 DEF Grows, SameDownload
    <3>8. Queued(d, e)
      <4>1. c.v_num \in 0 .. g /\ b.play_num \in 0 .. g /\ c.frame_num \in Nat
            /\ g \in 0 .. g /\ c.v_num \in 0 .. SegCount + 1
        BY <1>1, <1>2, <2>1 DEF Queued, Client
      <4>2. e[c.v_num] = f[c.v_num] /\ e[b.play_num] = f[b.play_num] /\ e[g] = f[g]
        BY <4>1, <3>7 DEF Grows
      <4>3. Received(d, e) = Received(c, f)
        BY <4>2, <3>7 DEF Grows, Received, SameDownload
      <4>4. d.m_segmentId \in 0 .. SegCount + 1 /\ g <= d.m_segmentId
        BY <3>4, <3>7 DEF Grows, Client
      <4>5. e[g] <= e[d.m_segmentId]
        BY <4>4, <3>6, <1>1 DEF Sums
      <4>6. Received(c, f) <= e[d.m_segmentId]
        <5>1. e[d.m_segmentId] \in Nat /\ f[c.v_num] \in Nat
          BY <4>1, <4>4, <1>2, <3>6 DEF Sums
        <5>2. Received(c, f) \in Nat
          BY SMTT(30), <5>1, <4>1 DEF Received
        <5>3. Received(c, f) <= f[g]
          BY <1>2 DEF Queued
        <5> QED
          BY <5>1, <5>2, <5>3, <4>2, <4>5, <1>3
      <4>7. d.m_queue = Received(d, e) - e[d.play_num]
        BY <4>2, <4>3, <3>5, <2>1
      <4>8. Received(d, e) <= e[d.m_segmentId]
        BY <4>3, <4>6
      <4>9. d.v_num = c.v_num /\ d.seg_num = c.seg_num /\ c.seg_num = c.v_num
        BY <3>7, <1>2 DEF Grows, SameDownload, Queued
      <4>10. d.v_num <= d.m_segmentId /\ d.play_num <= d.m_segmentId
        <5> DEFINE k == d.m_segmentId
        <5>1. k \in Nat /\ g \in Nat /\ g <= k
          BY <4>4, <1>1
        <5> HIDE DEF k, g
        <5>2. c.v_num <= k /\ b.play_num <= k
          BY <5>1, <4>1
        <5> QED
          BY <5>2, <4>9, <3>5 DEF k
      <4> QED
        BY <4>7, <4>8, <4>9, <4>10 DEF Queued
    <3>9. Connected(d) /\ Stage(d)
      <4>1. g <= d.m_segmentId
        BY <3>7 DEF Grows
      <4>2. d.m_segmentId \in Nat
        BY <3>4 DEF Client
      <4>3. d.m_segmentId > 0
        BY <4>1, <4>2, <2>5, <1>1
      <4>4. d.play_num \in 2 .. SegCount
        BY <3>5, <2>1, <2>7
      <4> QED
        BY <4>3, <4>4, <3>5 DEF Connected, Stage
    <3>10. Sound(d, e, v)
      BY <3>4, <3>6, <3>8, <3>9 DEF Sound
    <3>11. Played(c, d, f, e, v)
      BY <3>5, <3>7, <3>9, <3>10, <1>6 DEF Played
    <3> QED
      BY <3>11 DEF d
  <2>8. CASE b.play_num # SegCount + 1 /\ ~PlayerPulls(b.play_num)
    <3>1. d = [b EXCEPT !.plays = c.plays + 1]
      BY <2>2, <2>3, <2>8
    <3>2. d \in Client
      <4>1. \A k \in Nat : [b EXCEPT !.plays = k] \in Client
        BY <2>1 DEF Client
      <4> QED
        BY <4>1, <3>1, <1>3
    <3>3. /\ SameDownload(c, d) /\ d.outbox = c.outbox /\ d.index = c.index
          /\ d.m_connected = TRUE /\ d.m_state = "PLAYING"
          /\ d.m_queue = b.m_queue /\ d.play_num = b.play_num
          /\ d.plays = c.plays + 1 /\ d.m_dashClient = TRUE
          /\ d.T_start = c.T_start /\ d.m_segmentId = g
          /\ d.video_series = c.video_series
      BY <3>1, <2>1, <2>2, <2>5 DEF Client, SameDownload
    <3>4. Sums(d, f) /\ Series(d) /\ Indices(d) /\ Queued(d, f)
      BY <3>3, <2>1, <1>2 DEF Sums, Series, Indices, Queued, Received, SameDownload
    <3>5. Connected(d) /\ Made(d, v) /\ Stage(d)
      <4>1. g \in Nat /\ Earned(v, b.play_num) = Earned(v, c.play_num)
        BY <2>1, <2>8, <1>1, EarnedFacts
      <4>2. d.play_num \in 2 .. SegCount
        BY <3>3, <2>1, <2>8
      <4> QED
        BY <4>1, <4>2, <3>3, <2>5, <1>2 DEF Connected, Made, Stage
    <3>6. Grows(c, d, f, f)
      <4>1. c.m_dashClient = TRUE
        BY <1>1, <1>6 DEF Ready, Client
      <4> QED
        BY <4>1, <3>3, <1>1, <1>2, GrowsNot
    <3>7. Sound(d, f, v)
      BY <3>2, <3>4, <3>5 DEF Sound
    <3>8. Played(c, d, f, f, v)
      BY <3>3, <3>5, <3>6, <3>7, <1>6 DEF Played
    <3> QED
      BY <3>8 DEF d
  <2> QED
    BY <2>6, <2>7, <2>8
<1> QED
  BY <1>4, <1>5, <1>6 DEF Ready

\* The state of the player and the pointers do not matter to Sound, except that
\* a player that is done has closed the connection.
LEMMA SoundSame ==
  ASSUME NEW c, NEW d \in Client, NEW f, NEW v, Sound(c, f, v),
         SameDownload(c, d), d.m_connected = c.m_connected,
         d.m_segmentId = c.m_segmentId, d.video_series = c.video_series,
         d.index = c.index, d.m_queue = c.m_queue, d.play_num = c.play_num,
         d.m_state = "DONE" <=> c.m_state = "DONE"
  PROVE  Sound(d, f, v)
<1>1. Sums(d, f) /\ Series(d) /\ Indices(d) /\ Made(d, v)
  BY DEF Sound, Sums, Series, Indices, Made
<1>2. Connected(d)
  BY DEF Sound, Connected
<1>3. Queued(d, f)
  BY DEF Sound, Queued, Received, SameDownload
<1> QED
  BY <1>1, <1>2, <1>3 DEF Sound

\* MpegPlayer::ReceiveFrame, for a client whose count of frames has been moved on.
LEMMA ReceiveFrameFacts ==
  ASSUME options \in Options, NEW c, NEW f, NEW n \in PacketNums,
         Sound(c, f, c.v_num), Stage(c), Prepared(c), Timer(c), c.outbox = <<>>,
         Received(c, f) + 1 <= f[c.m_segmentId]
  PROVE  LET b == [c EXCEPT !.frame_num = @ + 1]
             q == [b EXCEPT !.m_queue = @ + 1]
         IN  /\ Sound(q, f, c.v_num)
             /\ \E e : Taken(q, ReceiveFrame(b, n), f, e)
<1> DEFINE b == [c EXCEPT !.frame_num = @ + 1]
           q == [b EXCEPT !.m_queue = @ + 1]
           d == ReceiveFrame(b, n)
           g == c.m_segmentId
<1> USE OptionFacts
<1>1. c \in Client /\ g \in 0 .. SegCount + 1 /\ c.play_num \in 0 .. SegCount + 1
      /\ c.v_num \in 0 .. SegCount + 1 /\ c.frame_num \in Nat
      /\ c.m_queue \in Nat /\ c.plays \in Nat
  BY DEF Sound, Client
<1>2. /\ Sums(c, f) /\ Series(c) /\ Indices(c) /\ Connected(c) /\ Queued(c, f)
      /\ Made(c, c.v_num)
  BY DEF Sound
<1>3. c.frame_num + 1 \in Nat /\ c.m_queue + 1 \in Nat
  BY SMTT(30), <1>1
<1>4. \A k, l \in Nat : [c EXCEPT !.frame_num = k, !.m_queue = l] \in Client
  BY <1>1 DEF Client
<1>5. q = [c EXCEPT !.frame_num = c.frame_num + 1, !.m_queue = c.m_queue + 1]
  BY <1>1 DEF Client
<1>6. q \in Client
  BY <1>3, <1>4, <1>5
<1>7. /\ q.frame_num = c.frame_num + 1 /\ q.tmp_num = c.tmp_num
      /\ q.v_num = c.v_num /\ q.seg_num = c.seg_num /\ q.outbox = <<>>
      /\ q.m_connected = c.m_connected /\ q.m_state = c.m_state
      /\ q.m_queue = c.m_queue + 1 /\ q.play_num = c.play_num
      /\ q.plays = c.plays /\ q.m_dashClient = c.m_dashClient
      /\ q.T_start = c.T_start /\ q.m_segmentId = g /\ q.index = c.index
      /\ q.video_series = c.video_series
  BY <1>1, <1>5 DEF Client
<1>8. /\ b.m_state = c.m_state /\ b.video_series = c.video_series
      /\ b.play_num = c.play_num
  BY <1>1 DEF Client
<1> HIDE DEF q, b
<1>9. d = LET primed == [q EXCEPT !.T_start = @ \/ c.video_series[req_num] > 0]
          IN  CASE c.m_state = "PAUSED" ->
                     IF q.m_queue >= c.video_series[c.play_num]
                     THEN PlayFrame([q EXCEPT !.m_state = "PLAYING"], n) ELSE q
                [] c.m_state = "NOT_STARTED" ->
                     IF /\ c.video_series[req_num + 1] > 0
                        /\ q.m_queue > c.video_series[0] + c.video_series[1]
                     THEN PlayFrame([primed EXCEPT !.m_state = "PLAYING"], n) ELSE primed
                [] OTHER -> q
  BY <1>8 DEF ReceiveFrame, q
<1> HIDE DEF d
<1>10. Sound(q, f, c.v_num)
  <2>1. Sums(q, f) /\ Series(q) /\ Indices(q) /\ Connected(q) /\ Made(q, c.v_num)
    BY <1>2, <1>7 DEF Sums, Series, Indices, Connected, Made
  <2>2. f[c.v_num] \in Nat /\ f[c.play_num] \in Nat
    BY <1>1, <1>2 DEF Sums
  <2>3. Received(q, f) = Received(c, f) + 1 /\ Received(c, f) \in Nat
    <3>1. Received(c, f) = f[c.v_num] + c.frame_num
          /\ Received(q, f) = f[c.v_num] + (c.frame_num + 1)
      BY <1>7 DEF Received
    <3>2. \A x, y \in Nat : x + (y + 1) = (x + y) + 1 /\ x + y \in Nat
      OBVIOUS
    <3>3. f[c.v_num] + (c.frame_num + 1) = (f[c.v_num] + c.frame_num) + 1
          /\ f[c.v_num] + c.frame_num \in Nat
      BY <3>2, <2>2, <1>1
    <3> QED
      BY <3>1, <3>3
  <2>4. q.m_queue = Received(q, f) - f[q.play_num]
    <3>1. c.m_queue = Received(c, f) - f[c.play_num]
      BY <1>2 DEF Queued
    <3>2. q.m_queue = c.m_queue + 1 /\ q.play_num = c.play_num
      BY <1>7
    <3> QED
      <4>1. f[q.play_num] = f[c.play_num]
        BY <3>2
      <4>2. \A x, y \in Nat : (x - y) + 1 = (x + 1) - y
        OBVIOUS
      <4>3. Received(q, f) - f[q.play_num] = (Received(c, f) + 1) - f[c.play_num]
        BY <4>1, <2>3
      <4>4. (Received(c, f) - f[c.play_num]) + 1 = (Received(c, f) + 1) - f[c.play_num]
        BY <4>2, <2>2, <2>3, Zenon
      <4> QED
        BY <3>1, <3>2, <4>3, <4>4
  <2>5. Queued(q, f)
    BY <2>3, <2>4, <1>2, <1>7 DEF Queued
  <2> QED
    BY <2>1, <2>5, <1>6 DEF Sound
<1>11. Stage(q) /\ Timer(q) /\ Sums(q, f) /\ Len(q.outbox) <= 1
  BY <1>2, <1>7 DEF Stage, Timer, Sums
<1>12. Grows(q, q, f, f)
  BY <1>6, <1>11, GrowsNot DEF SameDownload
<1>13. CASE c.m_state \notin {"PAUSED", "NOT_STARTED"}
  <2>1. d = q
    BY <1>9, <1>13
  <2>2. c.T_start /\ c.m_dashClient
    BY <1>13 DEF Prepared
  <2>3. Taken(q, d, f, f)
    BY <2>1, <2>2, <1>7, <1>10, <1>11, <1>12 DEF Taken
  <2> QED
    BY <2>3, <1>10 DEF d, q, b
<1>14. ASSUME NEW p \in Client, NEW r,
              r = [p EXCEPT !.m_state = "PLAYING"],
              SameDownload(q, p), p.m_connected = q.m_connected,
              p.m_segmentId = g, p.video_series = c.video_series,
              p.index = q.index, p.m_queue = q.m_queue, p.play_num = q.play_num,
              p.m_state = c.m_state, p.outbox = <<>>, p.plays = c.plays,
              p.m_dashClient = c.m_dashClient, p.T_start,
              c.m_state \in {"PAUSED", "NOT_STARTED"}, c.T_start, Ready(r),
              d = PlayFrame(r, n)
       PROVE  \E e : Taken(q, d, f, e)
  <2>1. r \in Client
    BY <1>14 DEF Client, States
  <2>2. /\ SameDownload(q, r) /\ r.m_connected = q.m_connected
        /\ r.m_segmentId = g /\ r.video_series = c.video_series
        /\ r.index = q.index /\ r.m_queue = q.m_queue /\ r.play_num = q.play_num
        /\ r.m_state = "PLAYING" /\ r.outbox = <<>> /\ r.plays = c.plays
        /\ r.m_dashClient = c.m_dashClient /\ r.T_start
    BY <1>14 DEF Client, SameDownload
  <2>3. Sound(r, f, c.v_num)
    <3>1. /\ SameDownload(q, r) /\ r.m_connected = q.m_connected
          /\ r.m_segmentId = q.m_segmentId /\ r.video_series = q.video_series
          /\ r.index = q.index /\ r.m_queue = q.m_queue /\ r.play_num = q.play_num
      BY <2>2, <1>7
    <3>2. r.m_state # "DONE" /\ q.m_state # "DONE"
      BY <2>2, <1>7, <1>14
    <3> HIDE DEF q
    <3> QED
      BY <3>1, <3>2, <2>1, <1>10, SoundSame
  <2>4. PICK e : Played(r, d, f, e, c.v_num)
    <3>1. Len(r.outbox) <= 1
      BY <2>2
    <3>2. c.v_num \in Nat
      BY <1>1
    <3> QED
      BY <3>1, <3>2, <2>3, <1>14, PlayFrameFacts
  <2>5. Grows(q, d, f, e)
    BY <2>2, <2>4, <1>7 DEF Played, Grows, SameDownload
  <2>6. c.plays = 0
    BY <1>14 DEF Timer
  <2>7. Timer(d)
    <3>1. d.m_state \in States /\ d.plays \in Nat
      BY <2>4 DEF Played, Sound, Client
    <3> QED
      BY <3>1, <2>2, <2>4, <2>6 DEF Played, Timer, States
  <2>8. r.m_dashClient
    BY <2>2, <1>14 DEF Ready, Stage
  <2>9. d.m_dashClient /\ d.T_start
    BY <2>2, <2>4, <2>8 DEF Played, Grows
  <2>10. Taken(q, d, f, e)
    BY <2>4, <2>5, <2>7, <2>9, <1>7, <1>14 DEF Played, Taken
  <2> QED
    BY <2>10
<1>15. CASE c.m_state = "PAUSED"
  <2>1. c.T_start /\ c.m_dashClient
    BY <1>15 DEF Prepared
  <2>2. CASE q.m_queue >= c.video_series[c.play_num]
    <3> DEFINE r == [q EXCEPT !.m_state = "PLAYING"]
    <3>1. d = PlayFrame(r, n)
      BY <2>2, <1>9, <1>15
    <3>2. r.m_state = "PLAYING" /\ r.m_dashClient /\ r.play_num \in 2 .. SegCount
      BY <2>1, <1>6, <1>7, <1>15 DEF Stage, Client
    <3> HIDE DEF r
    <3>3. Ready(r)
      BY <3>2 DEF Ready
    <3>4. r = [q EXCEPT !.m_state = "PLAYING"]
      BY DEF r
    <3>5. SameDownload(q, q)
      BY DEF SameDownload
    <3>6. \E e : Taken(q, d, f, e)
      BY <3>1, <3>3, <3>4, <3>5, <2>1, <1>6, <1>7, <1>14, <1>15
    <3> QED
      BY <3>6, <1>10 DEF d, q, b
  <2>3. CASE ~(q.m_queue >= c.video_series[c.play_num])
    <3>1. d = q
      BY <2>3, <1>9, <1>15
    <3>2. Taken(q, d, f, f)
      BY <3>1, <2>1, <1>7, <1>10, <1>11, <1>12 DEF Taken
    <3> QED
      BY <3>2, <1>10 DEF d, q, b
  <2> QED
    BY <2>2, <2>3
<1>16. CASE c.m_state = "NOT_STARTED"
  <2> DEFINE t == c.T_start \/ c.video_series[req_num] > 0
             p == [q EXCEPT !.T_start = t]
  <2>1. p \in Client
    <3>1. t \in BOOLEAN
      OBVIOUS
    <3> HIDE DEF t
    <3> QED
      BY <3>1, <1>6 DEF Client
  <2>2. /\ SameDownload(q, p) /\ p.m_connected = q.m_connected
        /\ p.m_segmentId = g /\ p.video_series = c.video_series
        /\ p.index = q.index /\ p.m_queue = q.m_queue /\ p.play_num = q.play_num
        /\ p.m_state = c.m_state /\ p.outbox = <<>> /\ p.plays = c.plays
        /\ p.m_dashClient = c.m_dashClient /\ p.T_start = t
    <3> HIDE DEF t
    <3> QED
      BY <1>6, <1>7 DEF Client, SameDownload
  <2>3. Sound(p, f, c.v_num)
    <3>1. /\ p.m_segmentId = q.m_segmentId /\ p.video_series = q.video_series
          /\ p.m_state = q.m_state
      BY <2>2, <1>7
    <3> HIDE DEF p, q, t
    <3> QED
      BY <3>1, <2>1, <2>2, <1>10, SoundSame
  <2>4. req_num \in Cells /\ req_num + 1 \in Cells
    BY DEF Cells
  <2>5. g > req_num => t
    BY <2>4, <1>1, <1>2 DEF Series
  <2> DEFINE plays == c.video_series[req_num + 1] > 0
                        /\ q.m_queue > c.video_series[0] + c.video_series[1]
  <2>6. d = IF plays THEN PlayFrame([p EXCEPT !.m_state = "PLAYING"], n) ELSE p
    <3>1. p = [q EXCEPT !.T_start = @ \/ c.video_series[req_num] > 0]
      BY <1>6, <1>7 DEF Client
    <3> QED
      BY <3>1, <1>9, <1>16
  <2> HIDE DEF p, t
  <2>7. CASE plays
    <3> DEFINE r == [p EXCEPT !.m_state = "PLAYING"]
    <3>1. g > req_num + 1
      BY <2>4, <2>7, <1>1, <1>2 DEF Series
    <3>2. c.T_start /\ c.m_dashClient
      <4>1. ~(g <= 1)
        BY <3>1, <1>1
      <4> QED
        BY <4>1, <3>1 DEF Prepared
    <3>3. p.T_start
      BY <3>2, <2>2 DEF t
    <3>4. /\ r.m_state = "PLAYING" /\ r.m_dashClient /\ r.play_num = 0
          /\ r.m_queue > r.video_series[0] + r.video_series[1]
      BY <3>2, <2>1, <2>2, <2>7, <1>7, <1>16 DEF Stage, Client
    <3>5. Ready(r)
      BY <3>4 DEF Ready
    <3>6. d = PlayFrame(r, n)
      BY <2>6, <2>7
    <3> HIDE DEF r
    <3>7. r = [p EXCEPT !.m_state = "PLAYING"]
      BY DEF r
    <3>8. \E e : Taken(q, d, f, e)
      BY <3>2, <3>3, <3>5, <3>6, <3>7, <2>1, <2>2, <1>14, <1>16
    <3> QED
      BY <3>8, <1>10 DEF d, q, b
  <2>8. CASE ~plays
    <3>1. d = p
      BY <2>6, <2>8
    <3>2. Grows(q, p, f, f)
      BY <2>1, <2>2, <1>6, <1>7, <1>11, GrowsNot
    <3>3. Stage(p) /\ Timer(p)
      BY <2>2, <1>7, <1>11 DEF Stage, Timer
    <3>4. /\ ~p.m_dashClient => g <= 1 /\ p.m_state = "NOT_STARTED"
          /\ g > req_num => p.T_start
          /\ q.T_start => p.T_start
      BY <2>2, <2>5, <1>7, <1>16 DEF Prepared, t
    <3>5. Taken(q, d, f, f)
      BY <3>1, <3>2, <3>3, <3>4, <2>2, <2>3, <1>7, <1>16 DEF Taken
    <3> QED
      BY <3>5, <1>10 DEF d, q, b
  <2> QED
    BY <2>7, <2>8
<1> QED
  BY <1>13, <1>15, <1>16

\* A download earns a request until init_buffer + req_num segments are received.
LEMMA EarnedStep ==
  ASSUME options \in Options, NEW v \in Nat, NEW p \in Nat
  PROVE  Earned(v + 1, p) =
           Earned(v, p) + (IF v < init_buffer + req_num THEN 1 ELSE 0)
<1> DEFINE pulls == Cardinality({w \in 2 .. p : PlayerPulls(w)})
           due(x) == IF x < init_buffer + req_num THEN x ELSE init_buffer + req_num
<1>1. pulls \in Nat
  BY PullsFinite
<1>2. Earned(v + 1, p) = 1 + due(v + 1) + pulls /\ Earned(v, p) = 1 + due(v) + pulls
  BY DEF Earned
<1>3. due(v + 1) = due(v) + (IF v < init_buffer + req_num THEN 1 ELSE 0)
      /\ due(v) \in Nat
  BY OptionFacts
<1> HIDE DEF pulls, due
<1> QED
  BY <1>1, <1>2, <1>3

\* A player that is done has played all segments asked for; the one counted
\* last is the last of them.
LEMMA DoneAll ==
  ASSUME options \in Options, NEW k, NEW f, NEW v,
         Sound(k, f, v), k.m_state = "DONE", Stage(k), k.frame_num = 0
  PROVE  k.v_num = SegCount + 1
<1> USE OptionFacts
<1>1. /\ k \in Client /\ k.play_num = SegCount + 1
      /\ k.m_segmentId \in 0 .. SegCount + 1 /\ k.v_num \in 0 .. SegCount + 1
      /\ k.m_queue \in Nat
  BY DEF Sound, Client, Stage
<1>2. k.play_num <= k.m_segmentId /\ k.m_queue = Received(k, f) - f[k.play_num]
      /\ Sums(k, f) /\ Series(k)
  BY DEF Sound, Queued
<1>3. k.m_segmentId = SegCount + 1
  BY <1>1, <1>2
<1>4. SUFFICES ASSUME k.v_num # SegCount + 1
               PROVE  FALSE
  OBVIOUS
<1> DEFINE x == k.v_num
<1>5. x \in Cells /\ x + 1 \in 0 .. SegCount + 1 /\ x < SegCount + 1
      /\ SegCount + 1 \in 0 .. SegCount + 1 /\ x + 1 <= SegCount + 1
  <2>1. \A y \in 0 .. SegCount + 1 : y # SegCount + 1 =>
          /\ y \in 0 .. SegCount /\ y + 1 \in 0 .. SegCount + 1 /\ y < SegCount + 1
          /\ SegCount + 1 \in 0 .. SegCount + 1 /\ y + 1 <= SegCount + 1
    OBVIOUS
  <2> QED
    BY <2>1, <1>1, <1>4 DEF Cells
<1>6. k.video_series[x] \in Nat /\ k.video_series[x] > 0
  BY <1>1, <1>2, <1>3, <1>5, SeriesNat DEF Series
<1>7. f[x + 1] = f[x] + k.video_series[x] /\ f[x + 1] <= f[SegCount + 1]
      /\ f[x] \in Nat /\ f[x + 1] \in Nat /\ f[SegCount + 1] \in Nat
  BY <1>1, <1>2, <1>5 DEF Sums
<1>8. k.m_queue = f[x] - f[SegCount + 1]
  BY <1>1, <1>2, <1>7 DEF Received
<1> HIDE DEF x
<1> QED
  BY <1>1, <1>6, <1>7, <1>8

\* CountFrame, when the frame completes its segment: what is received does not
\* change, the segment is the next one.
LEMMA CountFrameFacts ==
  ASSUME options \in Options, NEW t, NEW f,
         Sound(t, f, t.v_num), t.v_num < t.m_segmentId,
         t.frame_num = t.video_series[t.v_num]
  PROVE  LET k == CountFrame(t) IN
         /\ Sound(k, f, t.v_num)
         /\ Received(k, f) = Received(t, f)
         /\ k.tmp_num = IF t.v_num + 1 # SegCount THEN t.frame_num ELSE t.tmp_num
         /\ k.frame_num = 0 /\ k.v_num = t.v_num + 1 /\ k.seg_num = t.v_num + 1
         /\ k.video_series = t.video_series /\ k.m_segmentId = t.m_segmentId
         /\ k.outbox = t.outbox /\ k.m_connected = t.m_connected
         /\ k.m_state = t.m_state /\ k.play_num = t.play_num /\ k.plays = t.plays
         /\ k.m_dashClient = t.m_dashClient /\ k.T_start = t.T_start
<1> DEFINE k == CountFrame(t)
           v == t.v_num
           tmp == IF v + 1 # SegCount THEN t.frame_num ELSE t.tmp_num
<1> USE OptionFacts
<1>1. /\ t \in Client /\ v \in 0 .. SegCount + 1 /\ t.frame_num \in Nat /\ t.tmp_num \in Nat
      /\ t.m_segmentId \in 0 .. SegCount + 1
  BY DEF Sound, Client
<1>2. /\ Sums(t, f) /\ Series(t) /\ Indices(t) /\ Connected(t) /\ Queued(t, f)
      /\ Made(t, v) /\ t.seg_num = v
  BY DEF Sound, Queued
<1>3. v + 1 \in 0 .. SegCount + 1 /\ v \in Cells /\ tmp \in Nat /\ v + 1 <= t.m_segmentId
  BY <1>1 DEF Cells
<1>4. k = [t EXCEPT !.tmp_num = tmp, !.frame_num = 0, !.v_num = v + 1, !.seg_num = v + 1]
  BY <1>1, <1>2 DEF CountFrame, Client
<1> HIDE DEF tmp, k
<1>5. k \in Client
  <2>1. ASSUME NEW x \in 0 .. SegCount + 1
        PROVE  [t EXCEPT !.tmp_num = tmp, !.frame_num = 0, !.v_num = x, !.seg_num = x]
                 \in Client
    BY <1>1, <1>3 DEF Client
  <2> QED
    BY <2>1, <1>3, <1>4
<1>6. /\ k.tmp_num = tmp /\ k.index = t.index /\ k.m_queue = t.m_queue
      /\ k.frame_num = 0 /\ k.v_num = v + 1 /\ k.seg_num = v + 1
      /\ k.video_series = t.video_series /\ k.m_segmentId = t.m_segmentId
      /\ k.outbox = t.outbox /\ k.m_connected = t.m_connected
      /\ k.m_state = t.m_state /\ k.play_num = t.play_num /\ k.plays = t.plays
      /\ k.m_dashClient = t.m_dashClient /\ k.T_start = t.T_start
  BY <1>1, <1>4 DEF Client
<1>7. Received(k, f) = Received(t, f)
  <2>1. f[v + 1] = f[v] + t.video_series[v] /\ f[v + 1] \in Nat
    BY <1>2, <1>3 DEF Sums
  <2>2. Received(k, f) = f[v + 1] + 0 /\ Received(t, f) = f[v] + t.video_series[v]
    BY <1>6 DEF Received
  <2> QED
    BY <2>1, <2>2
<1>8. Sums(k, f) /\ Series(k) /\ Indices(k) /\ Connected(k) /\ Made(k, v)
  BY <1>2, <1>6 DEF Sums, Series, Indices, Connected, Made
<1>9. Queued(k, f)
  BY <1>2, <1>3, <1>6, <1>7 DEF Queued
<1> QED
  BY <1>5, <1>6, <1>7, <1>8, <1>9 DEF Sound, k, tmp

\* MessageReceived: one more frame is received, its request is made if earned.
LEMMA MessageReceivedFacts ==
  ASSUME options \in Options, NEW c, NEW f, NEW n \in PacketNums, NEW m \in PacketNums,
         Between(c, f), c.outbox = <<>>, Received(c, f) + 1 <= f[c.m_segmentId]
  PROVE  LET d == MessageReceived(c, n, m) IN
         \E e : Handled(c, d, f, e) /\ Received(d, e) = Received(c, f) + 1
<1> DEFINE b == [c EXCEPT !.frame_num = @ + 1]
           q == [b EXCEPT !.m_queue = @ + 1]
           t == ReceiveFrame(b, n)
           d == MessageReceived(c, n, m)
           g == c.m_segmentId
           v == c.v_num
<1> USE OptionFacts
<1>1. /\ c \in Client /\ g \in 0 .. SegCount + 1 /\ v \in 0 .. SegCount + 1
      /\ c.frame_num \in Nat
  BY DEF Between, Sound, Client
<1>2. /\ Sums(c, f) /\ Series(c) /\ v <= g /\ c.seg_num = v
      /\ Stage(c) /\ Prepared(c) /\ Timer(c) /\ Counting(c) /\ Sound(c, f, v)
  BY DEF Between, Sound, Queued
<1>3. f[v] \in Nat /\ f[g] \in Nat
  BY <1>1, <1>2 DEF Sums
<1>4. v < g
  <2>1. f[v] + c.frame_num + 1 <= f[g]
    BY DEF Received
  <2>2. v <= g
    BY <1>2
  <2> HIDE DEF b, q, t, d
  <2>3. v # g
    <3> SUFFICES ASSUME v = g PROVE FALSE
      OBVIOUS
    <3>1. f[g] + c.frame_num + 1 <= f[g]
      BY <2>1
    <3> QED
      BY <3>1, <1>1, <1>3
  <2>4. v \in Int /\ g \in Int
    BY <1>1
  <2> HIDE DEF v, g
  <2> QED
    BY <2>2, <2>3, <2>4
<1>5. v \in Cells /\ v \in Nat /\ v + 1 \in 0 .. SegCount + 1 /\ v + 1 \in 0 .. g /\ v \in 0 .. g
  BY <1>1, <1>4 DEF Cells
<1>6. c.frame_num < c.video_series[v] /\ c.video_series[v] \in Nat
  BY <1>1, <1>2, <1>4, <1>5, SeriesNat DEF Counting
<1>7. \E e : Taken(q, t, f, e)
  BY <1>2, ReceiveFrameFacts DEF b, q, t
<1>8. PICK e1 : Taken(q, t, f, e1)
  BY <1>7
<1>9. /\ q.frame_num = c.frame_num + 1 /\ q.tmp_num = c.tmp_num
      /\ q.v_num = v /\ q.seg_num = v /\ q.outbox = <<>>
      /\ q.m_state = c.m_state /\ q.play_num = c.play_num
      /\ q.T_start = c.T_start /\ q.m_segmentId = g
  BY <1>1, <1>2 DEF Client
<1>10. d = LET k == CountFrame(t)
               closed == [k EXCEPT !.tmp_num = 0]
           IN  IF k.m_state = "DONE" \/ k.v_num = 0 \/ k.tmp_num # k.video_series[k.v_num - 1]
               THEN k
               ELSE [(IF k.seg_num <= init_buffer + req_num
                      THEN RequestSegment(closed, m) ELSE closed)
                       EXCEPT !.m_dashClient = TRUE]
  BY DEF MessageReceived
<1> HIDE DEF b, q, t, d
<1>11. /\ Sound(t, e1, v) /\ Stage(t) /\ Timer(t)
       /\ ~t.m_dashClient => t.m_segmentId <= 1 /\ t.m_state = "NOT_STARTED"
       /\ t.m_state # "NOT_STARTED" => t.T_start
       /\ t.m_segmentId > req_num => t.T_start
       /\ c.T_start => t.T_start
       /\ t.play_num # c.play_num => c.T_start /\ t.m_state # "NOT_STARTED"
       /\ c.m_state = "DONE" => t.m_state = "DONE"
  BY <1>8, <1>9 DEF Taken
<1>12. /\ t.frame_num = c.frame_num + 1 /\ t.tmp_num = c.tmp_num
       /\ t.v_num = v /\ t.seg_num = v
       /\ g <= t.m_segmentId
       /\ \A x \in 0 .. g : e1[x] = f[x]
  BY <1>8, <1>9 DEF Taken, Grows, SameDownload
<1>13. /\ t \in Client /\ t.m_segmentId \in 0 .. SegCount + 1
       /\ t.play_num \in 0 .. SegCount + 1 /\ t.outbox \in Seq(Request)
       /\ Sums(t, e1) /\ Series(t) /\ Connected(t)
  BY <1>11 DEF Sound, Client
<1>14. Len(t.outbox) <= 1 /\ e1[t.m_segmentId] = f[g] + Owed(t.outbox)
  <2>1. Len(<<>>) = 0 /\ Owed(<<>>) = 0
    BY DEF Owed
  <2>2. Owed(t.outbox) \in Nat
    BY <1>13, OwedNat
  <2>3. Len(t.outbox) <= 0 + 1 /\ e1[t.m_segmentId] = f[g] + Owed(t.outbox) - 0
    BY <2>1, <1>8, <1>9 DEF Taken, Grows
  <2> QED
    BY <2>2, <2>3, <1>3
<1>15. v < t.m_segmentId
  <2>1. v \in Int /\ g \in Int /\ t.m_segmentId \in Int /\ g <= t.m_segmentId
    BY <1>1, <1>12, <1>13
  <2> HIDE DEF v, g
  <2> QED BY <2>1, <1>4
<1>16. t.video_series[v] = c.video_series[v]
  <2>1. f[v + 1] = f[v] + c.video_series[v]
    BY <1>2, <1>5 DEF Sums
  <2>2. e1[v + 1] = e1[v] + t.video_series[v] /\ e1[v] = f[v] /\ e1[v + 1] = f[v + 1]
    BY <1>5, <1>12, <1>13 DEF Sums
  <2>3. t.video_series[v] \in Nat
    BY <1>5, <1>13, SeriesNat
  <2> QED
    BY <2>1, <2>2, <2>3, <1>3, <1>6
<1>17. Received(t, e1) = Received(c, f) + 1
  <2>1. e1[v] = f[v]
    BY <1>5, <1>12
  <2>2. Received(t, e1) = f[v] + (c.frame_num + 1) /\ Received(c, f) = f[v] + c.frame_num
    BY <2>1, <1>12 DEF Received
  <2> QED
    BY <2>2, <1>1, <1>3
<1>18. t.m_segmentId > req_num + 1 => t.T_start
  BY <1>11, <1>13
<1>19. CASE t.frame_num # t.video_series[v]
  <2>1. CountFrame(t) = t
    BY <1>12, <1>19 DEF CountFrame
  <2>2. t.m_state # "DONE" => t.tmp_num = 0
    BY <1>2, <1>11, <1>12 DEF Counting
  <2>3. v # 0 => t.video_series[v - 1] # 0
    <3>1. v # 0 => v - 1 \in Cells /\ v - 1 < t.m_segmentId
      BY SMTT(30), <1>5, <1>13, <1>15 DEF Cells
    <3> QED
      BY <3>1, <1>13, SeriesNat DEF Series
  <2>4. d = t
    BY <2>1, <2>2, <2>3, <1>10, <1>12
  <2>5. t.frame_num < t.video_series[t.v_num]
    BY <1>1, <1>6, <1>12, <1>16, <1>19
  <2>6. Between(t, e1)
    BY <2>2, <2>5, <1>11, <1>12, <1>18 DEF Between, Prepared, Counting
  <2>7. Handled(c, t, f, e1)
    <3>1. Len(t.outbox) \in Nat
      BY <1>13
    <3>2. Len(t.outbox) <= 2
      BY <3>1, <1>14
    <3> QED
      BY <2>6, <3>2, <1>11, <1>14 DEF Handled
  <2> QED
    BY <2>4, <2>7, <1>17 DEF d
<1>20. CASE t.frame_num = t.video_series[v]
  <2> DEFINE k == CountFrame(t)
  <2>1. /\ Sound(k, e1, v)
        /\ Received(k, e1) = Received(t, e1)
        /\ k.tmp_num = IF v + 1 # SegCount THEN t.frame_num ELSE t.tmp_num
        /\ k.frame_num = 0 /\ k.v_num = v + 1 /\ k.seg_num = v + 1
        /\ k.video_series = t.video_series /\ k.m_segmentId = t.m_segmentId
        /\ k.outbox = t.outbox /\ k.m_connected = t.m_connected
        /\ k.m_state = t.m_state /\ k.play_num = t.play_num /\ k.plays = t.plays
        /\ k.m_dashClient = t.m_dashClient /\ k.T_start = t.T_start
    <3>1. /\ Sound(t, e1, t.v_num) /\ t.v_num < t.m_segmentId
          /\ t.frame_num = t.video_series[t.v_num] /\ t.v_num = v
      BY <1>11, <1>12, <1>15, <1>20
    <3> HIDE DEF v
    <3> QED
      BY <3>1, CountFrameFacts
  <2> HIDE DEF k
  <2>2. Stage(k) /\ Timer(k) /\ k \in Client /\ Sums(k, e1) /\ Series(k) /\ Queued(k, e1)
        /\ Indices(k) /\ Connected(k) /\ Made(k, v)
    BY <2>1, <1>11 DEF Stage, Timer, Sound
  <2>3. k.v_num < k.m_segmentId => k.frame_num < k.video_series[k.v_num]
    <3>1. v + 1 < k.m_segmentId => v + 1 \in Cells
      BY <2>1, <1>5, <1>13 DEF Cells
    <3> QED
      BY <3>1, <2>1, <2>2 DEF Series
  <2>4. Earned(v + 1, k.play_num) =
          Earned(v, k.play_num) + (IF v < init_buffer + req_num THEN 1 ELSE 0)
        /\ Earned(v, k.play_num) \in Nat
    <3>1. v \in Nat /\ k.play_num \in Nat
      BY <2>1, <1>5, <1>13
    <3> HIDE DEF v
    <3> QED
      BY <3>1, EarnedStep, EarnedFacts
  <2>5. k.v_num - 1 = v /\ k.v_num # 0
    BY <2>1, <1>5
  <2>6. Len(k.outbox) \in Nat /\ Len(k.outbox) <= 1
    BY <2>1, <1>13, <1>14
  <2>7. ASSUME ~(v < init_buffer + req_num)
        PROVE  Made(k, v + 1)
    BY <2>2, <2>4, <2>7 DEF Made
  <2>8. CASE k.m_state = "DONE" \/ k.tmp_num # k.video_series[v]
    <3>1. d = k
      BY <2>5, <2>8, <1>10 DEF k
    <3>2. ~(v < init_buffer + req_num)
      <4>1. CASE k.m_state = "DONE"
        <5>1. k.v_num = SegCount + 1
          BY <4>1, <2>1, <2>2, DoneAll
        <5> QED
          BY <5>1, <2>1, <1>5
      <4>2. CASE k.tmp_num # k.video_series[v]
        <5>1. v + 1 = SegCount
          BY <4>2, <2>1, <1>20
        <5> QED
          BY <5>1, <1>5
      <4> QED
        BY <4>1, <4>2, <2>8
    <3>3. Sound(k, e1, k.v_num)
      BY <3>2, <2>1, <2>2, <2>7 DEF Sound
    <3>4. k.m_state # "DONE" => k.tmp_num = 0
      <4>1. k.m_state # "DONE" => k.tmp_num = c.tmp_num /\ c.m_state # "DONE"
        BY <2>1, <2>8, <1>11, <1>12, <1>20
      <4> QED
        BY <4>1, <1>2 DEF Counting
    <3>5. Prepared(k)
      BY <2>1, <1>11, <1>18 DEF Prepared
    <3>6. Between(k, e1)
      BY <3>3, <3>4, <3>5, <2>2, <2>3 DEF Between, Counting
    <3>7. Len(k.outbox) <= 2
      BY <2>6
    <3>8. Handled(c, k, f, e1)
      BY <3>6, <3>7, <2>1, <1>11, <1>14 DEF Handled
    <3> QED
      BY <3>1, <3>8, <2>1, <1>17 DEF d
  <2>9. CASE k.m_state # "DONE" /\ k.tmp_num = k.video_series[v]
    <3> DEFINE closed == [k EXCEPT !.tmp_num = 0]
    <3>1. closed \in Client
      BY <2>2 DEF Client
    <3>2. /\ closed.tmp_num = 0 /\ closed.frame_num = 0
          /\ closed.v_num = v + 1 /\ closed.seg_num = v + 1
          /\ closed.video_series = k.video_series /\ closed.m_segmentId = k.m_segmentId
          /\ closed.outbox = k.outbox /\ closed.m_connected = k.m_connected
          /\ closed.m_state = k.m_state /\ closed.play_num = k.play_num
          /\ closed.plays = k.plays /\ closed.m_dashClient = k.m_dashClient
          /\ closed.T_start = k.T_start /\ closed.index = k.index
          /\ closed.m_queue = k.m_queue
      BY <2>1, <2>2 DEF Client
    <3>3. d = [(IF v + 1 <= init_buffer + req_num
                THEN RequestSegment(closed, m) ELSE closed) EXCEPT !.m_dashClient = TRUE]
      BY <2>1, <2>5, <2>9, <1>10 DEF k
    <3> HIDE DEF closed
    <3>4. /\ Sums(closed, e1) /\ Series(closed) /\ Queued(closed, e1)
          /\ Indices(closed) /\ Connected(closed) /\ Stage(closed) /\ Timer(closed)
          /\ Received(closed, e1) = Received(k, e1)
      BY <3>2, <2>1, <2>2
         DEF Sums, Series, Queued, Indices, Connected, Stage, Timer, Received
    <3>5. k.m_segmentId > 0 /\ closed.m_connected
      <4>1. k.m_segmentId > 0
        BY <2>1, <1>5, <1>13, <1>15
      <4> QED
        BY <4>1, <3>2, <2>2, <2>9 DEF Connected
    <3>6. CASE v + 1 <= init_buffer + req_num
      <4> DEFINE a == RequestSegment(closed, m)
      <4>1. closed.index # "out" => closed.m_segmentId + 1 = Earned(v + 1, closed.play_num)
        BY <3>2, <3>5, <3>6, <2>2, <2>4, <1>5 DEF Made
      <4>2. PICK e : /\ a \in Client
                     /\ Sums(a, e) /\ Series(a) /\ Indices(a) /\ Made(a, v + 1)
                     /\ Grows(closed, a, e1, e)
                     /\ a.m_connected = closed.m_connected /\ a.m_state = closed.m_state
                     /\ a.m_queue = closed.m_queue /\ a.play_num = closed.play_num
                     /\ a.plays = closed.plays /\ a.T_start = closed.T_start
        <5>1. v + 1 \in Nat /\ Len(closed.outbox) <= 1
          BY <3>2, <2>6, <1>5
        <5> QED
          BY <5>1, <4>1, <3>1, <3>4, <3>5, RequestFacts
      <4>3. d = [a EXCEPT !.m_dashClient = TRUE]
        BY <3>3, <3>6
      <4> HIDE DEF a
      <4>4. d \in Client
        BY <4>2, <4>3 DEF Client
      <4>5. /\ SameDownload(a, d) /\ d.outbox = a.outbox /\ d.index = a.index
            /\ d.m_connected = a.m_connected /\ d.m_state = a.m_state
            /\ d.m_queue = a.m_queue /\ d.play_num = a.play_num
            /\ d.plays = a.plays /\ d.m_dashClient = TRUE
            /\ d.T_start = a.T_start /\ d.m_segmentId = a.m_segmentId
            /\ d.video_series = a.video_series
        BY <4>2, <4>3 DEF Client, SameDownload
      <4>6. Sums(d, e) /\ Series(d) /\ Indices(d) /\ Made(d, v + 1)
        BY <4>2, <4>5 DEF Sums, Series, Indices, Made
      <4>7. /\ d.frame_num = 0 /\ d.v_num = v + 1 /\ d.seg_num = v + 1 /\ d.tmp_num = 0
            /\ d.m_connected = k.m_connected /\ d.m_state = k.m_state
            /\ d.m_queue = k.m_queue /\ d.play_num = k.play_num
            /\ d.plays = k.plays /\ d.T_start = k.T_start
            /\ k.m_segmentId <= d.m_segmentId /\ d.m_segmentId <= k.m_segmentId + 1
            /\ Len(d.outbox) <= Len(k.outbox) + 1
            /\ e[d.m_segmentId] = e1[k.m_segmentId] + Owed(d.outbox) - Owed(k.outbox)
            /\ \A x \in 0 .. k.m_segmentId : e[x] = e1[x]
        BY <4>2, <4>5, <3>2 DEF Grows, SameDownload
      <4>8. /\ d.m_segmentId \in 0 .. SegCount + 1 /\ k.m_segmentId \in 0 .. SegCount + 1
            /\ k.m_segmentId \in 0 .. k.m_segmentId
            /\ k.play_num \in 0 .. k.m_segmentId /\ v + 1 \in 0 .. k.m_segmentId
            /\ d.outbox \in Seq(Request) /\ k.outbox \in Seq(Request)
        <5>1. /\ d.m_segmentId \in 0 .. SegCount + 1 /\ k.m_segmentId \in 0 .. SegCount + 1
              /\ d.outbox \in Seq(Request) /\ k.outbox \in Seq(Request)
              /\ k.play_num \in 0 .. SegCount + 1
          BY <4>4, <2>2 DEF Client
        <5>2. k.play_num <= k.m_segmentId /\ v + 1 <= k.m_segmentId
          BY <2>1, <2>2 DEF Queued
        <5> QED
          BY <5>1, <5>2, <1>5
      <4>9. Received(d, e) = Received(k, e1)
        BY <4>7, <4>8, <2>1 DEF Received
      <4>10. Queued(d, e)
        <5>1. e[k.play_num] = e1[k.play_num] /\ e[k.m_segmentId] = e1[k.m_segmentId]
          BY <4>7, <4>8
        <5>2. e[k.m_segmentId] <= e[d.m_segmentId]
          BY <4>6, <4>7, <4>8 DEF Sums
        <5>3. k.m_queue = Received(k, e1) - e1[k.play_num]
              /\ Received(k, e1) <= e1[k.m_segmentId]
          BY <2>2 DEF Queued
        <5>4. e1[k.m_segmentId] \in Nat /\ e[d.m_segmentId] \in Nat /\ e1[v + 1] \in Nat
          BY <4>6, <4>8, <1>5, <2>2 DEF Sums
        <5>5. Received(k, e1) = e1[v + 1] + 0
          BY <2>1 DEF Received
        <5>6. Received(d, e) <= e[d.m_segmentId]
          BY <5>1, <5>2, <5>3, <5>4, <5>5, <4>9
        <5>7. d.v_num <= d.m_segmentId /\ d.play_num <= d.m_segmentId
          <6>1. \A x, y, z \in Nat : x <= y /\ y <= z => x <= z
            OBVIOUS
          <6>2. v + 1 \in Nat /\ k.play_num \in Nat /\ k.m_segmentId \in Nat
                /\ d.m_segmentId \in Nat
                /\ v + 1 <= k.m_segmentId /\ k.play_num <= k.m_segmentId
            BY <4>8
          <6> QED
            BY <6>1, <6>2, <4>7
        <5> QED
          BY <5>1, <5>3, <5>6, <5>7, <4>7, <4>9 DEF Queued
      <4>11. Connected(d) /\ Stage(d) /\ Timer(d)
        <5>1. d.m_segmentId > 0
          BY <4>7, <4>8, <3>5
        <5> QED
          BY <5>1, <4>7, <3>5, <2>2 DEF Connected, Stage, Timer
      <4>12. Sound(d, e, d.v_num)
        BY <4>4, <4>6, <4>7, <4>10, <4>11 DEF Sound
      <4>13. Prepared(d)
        <5>1. d.m_segmentId > req_num + 1 => k.m_segmentId > req_num
          BY <4>7, <4>8
        <5> QED
          BY <5>1, <4>5, <4>7, <2>1, <1>11 DEF Prepared
      <4>14. Counting(d)
        <5>1. v + 1 < d.m_segmentId => v + 1 \in Cells
          BY <4>8, <1>5 DEF Cells
        <5> QED
          BY <5>1, <4>6, <4>7 DEF Counting, Series
      <4>15. Len(d.outbox) <= 2
        <5>1. Len(d.outbox) \in Nat
          BY <4>8
        <5> QED
          BY <5>1, <4>7, <2>6
      <4>16. e[d.m_segmentId] = f[g] + Owed(d.outbox)
        <5>1. Owed(d.outbox) \in Nat /\ Owed(k.outbox) \in Nat
          BY <4>8, OwedNat
        <5>2. e1[k.m_segmentId] = f[g] + Owed(k.outbox)
          BY <2>1, <1>14
        <5> QED
          BY <5>1, <5>2, <4>7, <1>3
      <4>17. Between(d, e)
        BY <4>11, <4>12, <4>13, <4>14 DEF Between
      <4>18. Handled(c, d, f, e)
        BY <4>7, <4>15, <4>16, <4>17, <2>1, <1>11 DEF Handled
      <4> QED
        BY <4>9, <4>18, <2>1, <1>17 DEF d
    <3>7. CASE ~(v + 1 <= init_buffer + req_num)
      <4>1. d = [closed EXCEPT !.m_dashClient = TRUE]
        BY <3>3, <3>7
      <4>2. d \in Client
        BY <4>1, <3>1 DEF Client
      <4>3. /\ SameDownload(closed, d) /\ d.outbox = k.outbox /\ d.index = k.index
            /\ d.m_connected = k.m_connected /\ d.m_state = k.m_state
            /\ d.m_queue = k.m_queue /\ d.play_num = k.play_num
            /\ d.plays = k.plays /\ d.m_dashClient = TRUE
            /\ d.T_start = k.T_start /\ d.m_segmentId = k.m_segmentId
            /\ d.video_series = k.video_series
        BY <4>1, <3>1, <3>2 DEF Client, SameDownload
      <4>4. d.frame_num = 0 /\ d.v_num = v + 1 /\ d.seg_num = v + 1 /\ d.tmp_num = 0
        BY <4>3, <3>2 DEF SameDownload
      <4>5. /\ Sums(d, e1) /\ Series(d) /\ Queued(d, e1)
            /\ Indices(d) /\ Connected(d) /\ Stage(d) /\ Timer(d)
            /\ Received(d, e1) = Received(k, e1)
        BY <4>3, <4>4, <2>1, <2>2
           DEF Sums, Series, Queued, Indices, Connected, Stage, Timer, Received
      <4>6. Made(d, v + 1)
        <5>1. ~(v < init_buffer + req_num)
          BY <3>7, <1>5
        <5> QED
          BY <5>1, <4>3, <2>7 DEF Made
      <4>7. Sound(d, e1, d.v_num)
        BY <4>2, <4>4, <4>5, <4>6 DEF Sound
      <4>8. Prepared(d) /\ Counting(d)
        BY <4>3, <4>4, <2>1, <2>3, <1>11, <1>18 DEF Prepared, Counting
      <4>9. Between(d, e1)
        BY <4>5, <4>7, <4>8 DEF Between
      <4>10. Len(d.outbox) <= 2
        BY <4>3, <2>6
      <4>11. Handled(c, d, f, e1)
        BY <4>3, <4>9, <4>10, <2>1, <1>11, <1>14 DEF Handled
      <4> QED
        BY <4>5, <4>11, <2>1, <1>17 DEF d
    <3> QED
      BY <3>6, <3>7
  <2> QED
    BY <2>8, <2>9
<1> QED
  BY <1>19, <1>20

-----------------------------------------------------------------------------
(* From the client's record to the system.                                 *)

\* A read that is to come brings its first request's frames.
LEMMA AsksAppend ==
  ASSUME NEW u \in Seq(Seq(Request)), NEW h, Asks(h, u),
         NEW q \in Seq(Request), q # <<>>
  PROVE  /\ Append(u, q) \in Seq(Seq(Request))
         /\ \E k : Asks(k, Append(u, q)) /\ k[1] = h[1] + q[1].num
<1> DEFINE w == Append(u, q)
           k == [i \in 1 .. Len(u) + 2 |-> IF i <= Len(u) + 1 THEN h[i] + q[1].num ELSE 0]
<1>1. /\ w \in Seq(Seq(Request)) /\ Len(w) = Len(u) + 1 /\ Len(u) \in Nat
      /\ \A i \in 1 .. Len(u) : w[i] = u[i]
      /\ w[Len(u) + 1] = q
  OBVIOUS
<1>2. q[1].num \in Nat
  <2>1. 1 \in 1 .. Len(q)
    OBVIOUS
  <2> QED
    BY <2>1, RequestNum
<1>3. /\ h \in [1 .. Len(u) + 1 -> Nat] /\ h[Len(u) + 1] = 0
      /\ \A i \in 1 .. Len(u) : u[i] # <<>> /\ h[i] = h[i + 1] + u[i][1].num
  BY DEF Asks
<1> HIDE DEF w
<1> DEFINE l == Len(u)
           a == q[1].num
<1>4. k \in [1 .. l + 2 -> Nat]
  <2>1. \A i \in 1 .. l + 2 : i <= l + 1 => i \in 1 .. l + 1
    BY <1>1
  <2>2. ASSUME NEW i \in 1 .. l + 1
        PROVE  h[i] + a \in Nat
    <3>1. h[i] \in Nat
      BY <1>3
    <3> HIDE DEF a
    <3> QED
      BY <3>1, <1>2 DEF a
  <2> QED
    BY <2>1, <2>2
<1>5. k[l + 2] = 0 /\ k[l + 1] = a
  BY <1>1, <1>2, <1>3
<1>6. ASSUME NEW i \in 1 .. l + 1
      PROVE  w[i] # <<>> /\ k[i] = k[i + 1] + w[i][1].num
  <2>1. CASE i = l + 1
    BY <2>1, <1>1, <1>2, <1>5
  <2>2. CASE i # l + 1
    <3>1. i \in 1 .. l /\ i + 1 \in 1 .. l + 1
      BY <2>2, <1>1
    <3>2. w[i] = u[i] /\ u[i] # <<>> /\ h[i] = h[i + 1] + u[i][1].num
      BY <3>1, <1>1, <1>3
    <3>3. k[i] = h[i] + a /\ k[i + 1] = h[i + 1] + a /\ h[i + 1] \in Nat
      <4>1. i \in 1 .. l + 2 /\ i + 1 \in 1 .. l + 2 /\ i <= l + 1 /\ i + 1 <= l + 1
        BY <3>1, <1>1
      <4>2. h[i + 1] \in Nat
        BY <3>1, <1>3
      <4> HIDE DEF a
      <4> QED
        BY <4>1, <4>2 DEF a
    <3>4. u[i][1].num \in Nat
      <4>1. u[i] \in Seq(Request)
        BY <3>1
      <4>2. 1 \in 1 .. Len(u[i])
        BY <4>1, <3>2
      <4> QED
        BY <4>1, <4>2, RequestNum
    <3> HIDE DEF k, a
    <3> QED
      BY <3>2, <3>3, <3>4, <1>2 DEF a
  <2> QED
    BY <2>1, <2>2
<1>7. k[1] = h[1] + a
  BY <1>1
<1>8. Asks(k, w)
  <2>1. Len(w) = l + 1 /\ (l + 1) + 1 = l + 2
    BY <1>1
  <2> HIDE DEF k, l
  <2> QED
    BY <2>1, <1>4, <1>5, <1>6 DEF Asks
<1> QED
  BY <1>1, <1>7, <1>8 DEF w

\* The server takes one read; what is left brings so much less.
LEMMA AsksTail ==
  ASSUME NEW u \in Seq(Seq(Request)), NEW h, Asks(h, u), u # <<>>
  PROVE  /\ Tail(u) \in Seq(Seq(Request))
         /\ Head(u) \in Seq(Request) /\ Head(u) # <<>> /\ Head(Head(u)) \in Request
         /\ \E k : Asks(k, Tail(u)) /\ h[1] = k[1] + Head(Head(u)).num
<1> DEFINE w == Tail(u)
           k == [i \in 1 .. Len(u) |-> h[i + 1]]
           l == Len(u)
<1>1. /\ w \in Seq(Seq(Request)) /\ l \in Nat /\ l >= 1 /\ Len(w) = l - 1
      /\ \A i \in 1 .. l - 1 : w[i] = u[i + 1]
      /\ Head(u) = u[1]
  OBVIOUS
<1>2. /\ h \in [1 .. l + 1 -> Nat] /\ h[l + 1] = 0
      /\ \A i \in 1 .. l : u[i] # <<>> /\ h[i] = h[i + 1] + u[i][1].num
  BY DEF Asks
<1> HIDE DEF w
<1>3. k \in [1 .. l -> Nat] /\ k[l] = 0
  <2>1. \A i \in 1 .. l : i + 1 \in 1 .. l + 1
    BY <1>1
  <2> QED
    BY <2>1, <1>1, <1>2
<1>4. ASSUME NEW i \in 1 .. l - 1
      PROVE  w[i] # <<>> /\ k[i] = k[i + 1] + w[i][1].num
  <2>1. i + 1 \in 1 .. l /\ i \in 1 .. l
    BY <1>1
  <2>2. w[i] = u[i + 1] /\ u[i + 1] # <<>> /\ h[i + 1] = h[(i + 1) + 1] + u[i + 1][1].num
    BY <2>1, <1>1, <1>2
  <2>3. k[i] = h[i + 1] /\ k[i + 1] = h[(i + 1) + 1]
    BY <2>1
  <2> QED
    BY <2>2, <2>3
<1>5. Asks(k, w)
  <2>1. Len(w) + 1 = l
    BY <1>1
  <2>2. \A i \in 1 .. Len(w) : w[i] # <<>> /\ k[i] = k[i + 1] + w[i][1].num
    BY <1>1, <1>4
  <2> HIDE DEF k, l
  <2> QED
    BY <2>1, <2>2, <1>3 DEF Asks
<1>6. /\ Head(u) \in Seq(Request) /\ Head(u) # <<>>
      /\ h[1] = h[2] + Head(u)[1].num
  BY <1>1, <1>2
<1>7. Head(Head(u)) \in Request /\ Head(Head(u)) = Head(u)[1]
  BY <1>6
<1>8. k[1] = h[2]
  BY <1>1
<1> QED
  BY <1>1, <1>5, <1>6, <1>7, <1>8 DEF w

\* The requests of one handler, handed over in one of the two ways, bring no more
\* frames than they ask for.
LEMMA AsksHandedOver ==
  ASSUME NEW u \in Seq(Seq(Request)), NEW h, Asks(h, u),
         NEW q \in Seq(Request), Len(q) <= 2, NEW w,
         \/ w = u \o [i \in 1 .. Len(q) |-> <<q[i]>>]
         \/ Len(q) > 1 /\ w = Append(u, q)
  PROVE  /\ w \in Seq(Seq(Request))
         /\ \E k : Asks(k, w) /\ k[1] <= h[1] + Owed(q)
<1>1. h[1] \in Nat
  <2>1. 1 \in 1 .. Len(u) + 1
    OBVIOUS
  <2> QED
    BY <2>1 DEF Asks
<1>2. Len(q) \in Nat /\ \A i \in 1 .. Len(q) : q[i].num \in Nat /\ q[i] \in Request
  BY RequestNum
<1> DEFINE each == [i \in 1 .. Len(q) |-> <<q[i]>>]
<1>3. CASE Len(q) > 1 /\ w = Append(u, q)
  <2>1. w \in Seq(Seq(Request)) /\ \E k : Asks(k, w) /\ k[1] = h[1] + q[1].num
    BY <1>3, AsksAppend
  <2>2. q[1].num \in Nat /\ q[1].num <= Owed(q)
    BY <1>2, <1>3 DEF Owed
  <2>3. Owed(q) \in Nat
    BY OwedNat
  <2> QED
    BY <2>1, <2>2, <2>3, <1>1
<1>4. CASE w = u \o each /\ Len(q) = 0
  <2>1. each = <<>>
    BY <1>4
  <2>2. w = u
    BY <2>1, <1>4
  <2>3. Owed(q) = 0
    BY <1>4 DEF Owed
  <2> QED
    BY <2>2, <2>3, <1>1
<1>5. CASE w = u \o each /\ Len(q) = 1
  <2>1. <<q[1]>> \in Seq(Request) /\ <<q[1]>> # <<>> /\ <<q[1]>>[1] = q[1]
    BY <1>2, <1>5
  <2>2. w = Append(u, <<q[1]>>)
    <3>1. each = << <<q[1]>> >>
      BY <1>5
    <3> HIDE DEF each
    <3> QED
      BY <3>1, <2>1, <1>5
  <2>3. w \in Seq(Seq(Request)) /\ \E k : Asks(k, w) /\ k[1] = h[1] + q[1].num
    BY <2>1, <2>2, AsksAppend
  <2>4. Owed(q) = q[1].num
    BY <1>2, <1>5 DEF Owed
  <2>5. PICK k : Asks(k, w) /\ k[1] = h[1] + q[1].num
    BY <2>3
  <2>6. h[1] + q[1].num \in Nat
    BY <1>1, <1>2, <1>5
  <2>7. k[1] <= h[1] + Owed(q)
    BY <2>4, <2>5, <2>6
  <2> QED
    BY <2>3, <2>5, <2>7
<1>6. CASE w = u \o each /\ Len(q) = 2
  <2>1. /\ <<q[1]>> \in Seq(Request) /\ <<q[1]>> # <<>> /\ <<q[1]>>[1] = q[1]
        /\ <<q[2]>> \in Seq(Request) /\ <<q[2]>> # <<>> /\ <<q[2]>>[1] = q[2]
        /\ q[1].num \in Nat /\ q[2].num \in Nat
    BY <1>2, <1>6
  <2> DEFINE x == Append(u, <<q[1]>>)
  <2>2. w = Append(x, <<q[2]>>)
    <3>1. each = << <<q[1]>>, <<q[2]>> >>
      BY <1>6
    <3> HIDE DEF each
    <3> QED
      BY <3>1, <2>1, <1>6
  <2>3. x \in Seq(Seq(Request)) /\ \E k : Asks(k, x) /\ k[1] = h[1] + q[1].num
    <3> DEFINE r == <<q[1]>>
    <3>1. r \in Seq(Request) /\ r # <<>> /\ r[1] = q[1]
      BY <2>1
    <3> HIDE DEF r
    <3>2. Append(u, r) \in Seq(Seq(Request))
          /\ \E k : Asks(k, Append(u, r)) /\ k[1] = h[1] + r[1].num
      BY <3>1, AsksAppend
    <3> QED
      BY <3>1, <3>2 DEF r
  <2>4. PICK k : Asks(k, x) /\ k[1] = h[1] + q[1].num
    BY <2>3
  <2> HIDE DEF x
  <2>5. w \in Seq(Seq(Request)) /\ \E j : Asks(j, w) /\ j[1] = k[1] + q[2].num
    <3> DEFINE r == <<q[2]>>
    <3>1. r \in Seq(Request) /\ r # <<>> /\ r[1] = q[2]
      BY <2>1
    <3> HIDE DEF r
    <3>2. Append(x, r) \in Seq(Seq(Request))
          /\ \E j : Asks(j, Append(x, r)) /\ j[1] = k[1] + r[1].num
      BY <3>1, <2>3, <2>4, AsksAppend
    <3> QED
      BY <3>1, <3>2, <2>2 DEF r
  <2>6. Owed(q) = q[1].num + q[2].num
    BY <1>2, <1>6 DEF Owed
  <2> QED
    BY <2>1, <2>4, <2>5, <2>6, <1>1
<1>7. Len(q) = 0 \/ Len(q) = 1 \/ Len(q) = 2
  <2>1. \A x \in Nat : x <= 2 => x = 0 \/ x = 1 \/ x = 2
    OBVIOUS
  <2> QED
    BY <2>1, <1>2
<1> QED
  BY <1>3, <1>4, <1>5, <1>6, <1>7

\* The options do not change, so that what is said of the client after a step is
\* what the next state's invariant says.
LEMMA BetweenNext ==
  ASSUME NEW f, options' = options, Between(client', f)
  PROVE  Between(client, f)'
  BY DEF Between, Sound, Sums, Series, Indices, Connected, Queued, Made, Received, OptionsFit,
         Stage, Prepared, Timer, Counting, Earned, init_buffer, req_num, PlayerPulls

\* Requests handed over leave the record as sound as it is.
LEMMA BetweenOutbox ==
  ASSUME NEW c, NEW f, Between(c, f)
  PROVE  LET d == [c EXCEPT !.outbox = <<>>] IN
         /\ Between(d, f)
         /\ Received(d, f) = Received(c, f)
         /\ d.m_segmentId = c.m_segmentId /\ d.outbox = <<>>
         /\ d.T_start = c.T_start /\ d.play_num = c.play_num
<1> DEFINE d == [c EXCEPT !.outbox = <<>>]
<1>1. c \in Client /\ Sound(c, f, c.v_num)
  BY DEF Between, Sound
<1>2. d \in Client
  <2>1. <<>> \in Seq(Request)
    OBVIOUS
  <2> QED
    BY <2>1, <1>1 DEF Client
<1>3. /\ SameDownload(c, d) /\ d.outbox = <<>> /\ d.index = c.index
      /\ d.m_connected = c.m_connected /\ d.m_state = c.m_state
      /\ d.m_queue = c.m_queue /\ d.play_num = c.play_num
      /\ d.plays = c.plays /\ d.m_dashClient = c.m_dashClient
      /\ d.T_start = c.T_start /\ d.m_segmentId = c.m_segmentId
      /\ d.video_series = c.video_series
  BY <1>1 DEF Client, SameDownload
<1> HIDE DEF d
<1>4. Sound(d, f, d.v_num)
  BY <1>1, <1>2, <1>3, SoundSame DEF SameDownload
<1>5. Stage(d) /\ Prepared(d) /\ Timer(d) /\ Counting(d)
  BY <1>3 DEF Between, Stage, Prepared, Timer, Counting, SameDownload
<1> QED
  BY <1>3, <1>4, <1>5 DEF Between, Received, SameDownload, d

\* A handler of the client that ends in record d keeps the invariant.
LEMMA ClientDoneIInv ==
  ASSUME IInv, options' = options,
         NEW d, NEW f, NEW e, NEW h, Asks(h, uplink),
         Handled(client, d, f, e), ClientDone(d),
         f[client.m_segmentId] \in Nat,
         queue' \in Seq(Cells), wire' \in Seq(Cells), Len(wire') <= TxBuffer,
         Received(d, e) + Len(wire') + Len(queue') + h[1] <= f[client.m_segmentId]
  PROVE  IInv' /\ StartFirst
<1> DEFINE x == [d EXCEPT !.outbox = <<>>]
<1>1. Between(d, e) /\ d \in Client
  BY DEF Handled, Between, Sound
<1>2. /\ Between(x, e) /\ Received(x, e) = Received(d, e)
      /\ x.m_segmentId = d.m_segmentId /\ x.outbox = <<>>
      /\ x.T_start = d.T_start /\ x.play_num = d.play_num
  BY <1>1, BetweenOutbox
<1>3. client' = x
  BY DEF ClientDone
<1> HIDE DEF x
<1>4. Between(client, e)'
  BY <1>2, <1>3, BetweenNext
<1>5. d.outbox \in Seq(Request) /\ Len(d.outbox) <= 2
  BY <1>1 DEF Client, Handled
<1>6. uplink' \in Seq(Seq(Request))
      /\ \E k : Asks(k, uplink') /\ k[1] <= h[1] + Owed(d.outbox)
  <2>1. uplink \in Seq(Seq(Request))
    BY DEF IInv
  <2>2. \/ uplink' = uplink \o [i \in 1 .. Len(d.outbox) |-> <<d.outbox[i]>>]
        \/ Len(d.outbox) > 1 /\ uplink' = Append(uplink, d.outbox)
    BY DEF ClientDone
  <2> QED
    BY <2>1, <2>2, <1>5, AsksHandedOver
<1>7. PICK k : Asks(k, uplink') /\ k[1] <= h[1] + Owed(d.outbox)
  BY <1>6
<1>8. k[1] \in Nat /\ h[1] \in Nat /\ Owed(d.outbox) \in Nat
  <2>1. uplink \in Seq(Seq(Request))
    BY DEF IInv
  <2>2. 1 \in 1 .. Len(uplink) + 1 /\ 1 \in 1 .. Len(uplink') + 1
    BY <2>1, <1>6
  <2> QED
    BY <2>2, <1>5, <1>7, OwedNat DEF Asks
<1>9. e[client'.m_segmentId] = f[client.m_segmentId] + Owed(d.outbox)
  BY <1>2, <1>3 DEF Handled
<1>10. Received(client', e) \in Nat /\ Received(client', e) = Received(d, e)
  <2>1. client' \in Client /\ Sums(client', e)
    BY <1>2, <1>3 DEF Between, Sound
  <2>2. e[client'.v_num] \in Nat /\ client'.frame_num \in Nat
    BY <2>1, SegCountAssumption DEF Client, Sums
  <2> QED
    BY <2>2, <1>2, <1>3 DEF Received
<1>11. Received(client', e) + Len(wire') + Len(queue') + k[1] <= e[client'.m_segmentId]
  <2>1. Len(wire') \in Nat /\ Len(queue') \in Nat
    OBVIOUS
  <2> QED
    BY <2>1, <1>7, <1>8, <1>9, <1>10
<1>12. IInv'
  <2>1. options' \in Options /\ client'.outbox = <<>>
    BY <1>2, <1>3 DEF IInv
  <2>2. Asks(k, uplink)' /\ (Received(client, e) + Len(wire) + Len(queue) + k[1]
                               <= e[client.m_segmentId])'
    BY <1>7, <1>11 DEF Asks, Received
  <2> QED
    BY <2>1, <2>2, <1>4, <1>6 DEF IInv
<1>13. d.m_state # "NOT_STARTED" => d.play_num > 0
  <2>1. Stage(d) /\ d.m_state \in States
    BY <1>1 DEF Between, Client
  <2> QED
    BY <2>1, SegCountAssumption DEF Stage, States
<1>14. StartFirst
  BY <1>2, <1>3, <1>13 DEF StartFirst, Handled
<1> QED
  BY <1>12, <1>14

\* What IInv says of the client and of its table, in the form the steps use.
LEMMA IInvFacts ==
  ASSUME IInv
  PROVE  /\ options \in Options /\ client.outbox = <<>> /\ client \in Client
         /\ uplink \in Seq(Seq(Request)) /\ queue \in Seq(Cells) /\ wire \in Seq(Cells)
         /\ Len(queue) \in Nat /\ Len(wire) \in Nat /\ Len(wire) <= TxBuffer
         /\ \E f, h :
              /\ Between(client, f) /\ Asks(h, uplink)
              /\ f[client.m_segmentId] \in Nat /\ Received(client, f) \in Nat
              /\ h[1] \in Nat
              /\ Received(client, f) + Len(wire) + Len(queue) + h[1] <= f[client.m_segmentId]
<1>1. PICK f, h : /\ Between(client, f) /\ Asks(h, uplink)
                  /\ Received(client, f) + Len(wire) + Len(queue) + h[1]
                       <= f[client.m_segmentId]
  BY DEF IInv
<1>2. client \in Client /\ Sums(client, f)
  BY <1>1 DEF Between, Sound
<1>3. f[client.m_segmentId] \in Nat /\ f[client.v_num] \in Nat /\ client.frame_num \in Nat
  BY <1>2, SegCountAssumption DEF Client, Sums
<1>4. Received(client, f) \in Nat
  BY <1>3 DEF Received
<1>5. h[1] \in Nat
  <2>1. uplink \in Seq(Seq(Request))
    BY DEF IInv
  <2>2. 1 \in 1 .. Len(uplink) + 1
    BY <2>1
  <2> QED
    BY <2>2, <1>1 DEF Asks
<1>6. Len(queue) \in Nat /\ Len(wire) \in Nat
  BY DEF IInv
<1> QED
  BY <1>1, <1>2, <1>3, <1>4, <1>5, <1>6 DEF IInv

\* The connection is made: the request of the first segment is earned by it.
LEMMA ConnectionSucceededFacts ==
  ASSUME IInv, ConnectionSucceeded, NEW f, Between(client, f),
         f[client.m_segmentId] \in Nat, Received(client, f) \in Nat
  PROVE  \E n, e :
           LET d == RequestSegment([client EXCEPT !.m_connected = TRUE], n)
           IN  /\ n \in PacketNums /\ ClientDone(d) /\ Handled(client, d, f, e)
               /\ Received(d, e) = Received(client, f)
<1>1. Between(client, f) /\ f[client.m_segmentId] \in Nat /\ Received(client, f) \in Nat
  OBVIOUS
<1>2. options \in Options /\ client.outbox = <<>> /\ client \in Client
      /\ queue \in Seq(Cells) /\ wire \in Seq(Cells) /\ Len(wire) <= TxBuffer
  BY IInvFacts
<1>3. client.m_segmentId = 0 /\ options' = options /\ queue' = queue /\ wire' = wire
  BY DEF ConnectionSucceeded
<1> DEFINE c == [client EXCEPT !.m_connected = TRUE]
<1>4. PICK n \in PacketNums : ClientDone(RequestSegment(c, n))
  BY DEF ConnectionSucceeded
<1> DEFINE d == RequestSegment(c, n)
<1> USE OptionFacts
<1>5. c \in Client
  BY <1>2 DEF Client
<1>6. /\ SameDownload(client, c) /\ c.outbox = <<>> /\ c.index = client.index
      /\ c.m_connected = TRUE /\ c.m_state = client.m_state
      /\ c.m_queue = client.m_queue /\ c.play_num = client.play_num
      /\ c.plays = client.plays /\ c.m_dashClient = client.m_dashClient
      /\ c.T_start = client.T_start /\ c.m_segmentId = 0
      /\ c.video_series = client.video_series
  BY <1>2, <1>3 DEF Client, SameDownload
<1> HIDE DEF c
<1>7. /\ Sums(client, f) /\ Series(client) /\ Indices(client) /\ Queued(client, f)
      /\ Stage(client) /\ Prepared(client) /\ Timer(client) /\ Counting(client)
  BY <1>1 DEF Between, Sound
<1>8. client.v_num = 0 /\ client.play_num = 0
  <2>1. client.v_num \in 0 .. SegCount + 1 /\ client.play_num \in 0 .. SegCount + 1
    BY <1>2 DEF Client
  <2>2. client.v_num <= 0 /\ client.play_num <= 0
    BY <1>3, <1>7 DEF Queued
  <2> QED
    BY <2>1, <2>2
<1>9. client.m_state = "NOT_STARTED"
  <2>1. client.m_state \in States
    BY <1>2 DEF Client
  <2>2. 0 \notin 2 .. SegCount /\ 0 # SegCount + 1
    BY <1>2
  <2> QED
    BY <2>1, <2>2, <1>7, <1>8 DEF Stage, States
<1>10. Earned(0, 0) = 1
  <2>1. {v \in 2 .. 0 : PlayerPulls(v)} = {}
    OBVIOUS
  <2>2. Cardinality({}) = 0
    BY FS_EmptySet
  <2>3. Cardinality({v \in 2 .. 0 : PlayerPulls(v)}) = 0
    BY <2>1, <2>2
  <2>4. Earned(0, 0) = 1 + 0 + 0
    <3>1. (IF 0 < init_buffer + req_num THEN 0 ELSE init_buffer + req_num) = 0
      BY <1>2
    <3> QED
      BY <2>3, <3>1 DEF Earned
  <2> QED
    BY <2>4
<1>11. Sums(c, f) /\ Series(c) /\ Indices(c)
  BY <1>3, <1>6, <1>7 DEF Sums, Series, Indices
<1>12. PICK e : /\ d \in Client
                /\ Sums(d, e) /\ Series(d) /\ Indices(d) /\ Made(d, 0)
                /\ Grows(c, d, f, e)
                /\ d.m_connected = c.m_connected /\ d.m_state = c.m_state
                /\ d.m_queue = c.m_queue /\ d.play_num = c.play_num
                /\ d.plays = c.plays /\ d.T_start = c.T_start
  <2>1. c.m_segmentId + 1 = Earned(0, c.play_num) /\ Len(c.outbox) <= 1 /\ c.m_connected
    BY <1>6, <1>8, <1>10
  <2>2. 0 \in Nat
    OBVIOUS
  <2> QED
    BY <2>1, <2>2, <1>2, <1>5, <1>11, RequestFacts
<1>13. d.m_segmentId = 1
  <2>1. 0 \in Cells
    BY <1>2 DEF Cells
  <2> QED
    BY <2>1, <1>5, <1>6 DEF RequestSegment, Client
<1> HIDE DEF d
<1>14. /\ d.frame_num = client.frame_num /\ d.tmp_num = client.tmp_num
       /\ d.v_num = 0 /\ d.seg_num = client.seg_num
       /\ d.m_dashClient = client.m_dashClient
       /\ Len(d.outbox) <= Len(c.outbox) + 1
       /\ e[1] = f[0] + Owed(d.outbox) - Owed(c.outbox)
       /\ e[0] = f[0]
  <2>1. 0 \in 0 .. c.m_segmentId
    BY <1>6
  <2> QED
    BY <2>1, <1>6, <1>8, <1>12, <1>13 DEF Grows, SameDownload
<1>15. d.outbox \in Seq(Request) /\ Owed(d.outbox) \in Nat /\ Len(d.outbox) \in Nat
       /\ Owed(<<>>) = 0 /\ Len(<<>>) = 0
  <2>1. d.outbox \in Seq(Request)
    BY <1>12 DEF Client
  <2>2. Owed(<<>>) = 0
    BY DEF Owed
  <2> QED
    BY <2>1, <2>2, OwedNat
<1>16. f[0] = 0 /\ e[0] = 0 /\ e[1] = Owed(d.outbox)
  <2>1. f[0] = 0
    BY <1>7 DEF Sums
  <2> QED
    BY <2>1, <1>6, <1>14, <1>15
<1>17. client.frame_num = 0 /\ Received(client, f) = 0
  <2>1. client.frame_num \in Nat
    BY <1>2 DEF Client
  <2>2. Received(client, f) = 0 + client.frame_num /\ Received(client, f) <= 0
    BY <1>3, <1>7, <1>8, <1>16 DEF Queued, Received
  <2> QED
    BY <2>1, <2>2
<1>18. Received(d, e) = 0
  BY <1>14, <1>16, <1>17 DEF Received
<1>19. Queued(d, e)
  <2>1. client.m_queue = Received(client, f) - f[0] /\ client.seg_num = 0
    BY <1>7, <1>8 DEF Queued
  <2>2. d.m_queue = 0 /\ d.seg_num = 0 /\ d.play_num = 0
    BY <2>1, <1>6, <1>8, <1>12, <1>14, <1>16, <1>17
  <2> QED
    BY <2>2, <1>13, <1>14, <1>15, <1>16, <1>18 DEF Queued
<1>20. Connected(d) /\ Stage(d) /\ Timer(d)
  <2>1. Connected(d)
    <3>1. d.m_connected = TRUE /\ d.m_state # "DONE"
      BY <1>6, <1>9, <1>12
    <3>2. d.m_segmentId > 0
      BY <1>13
    <3> QED
      BY <3>1, <3>2 DEF Connected
  <2>2. Stage(d)
    BY <1>6, <1>8, <1>9, <1>12 DEF Stage
  <2>3. Timer(d)
    BY <1>6, <1>7, <1>9, <1>12 DEF Timer
  <2> QED
    BY <2>1, <2>2, <2>3
<1>21. Prepared(d)
  BY <1>2, <1>6, <1>9, <1>12, <1>13 DEF Prepared
<1>22. Counting(d)
  <2>1. 0 \in Cells
    BY <1>2 DEF Cells
  <2>2. d.video_series[0] > 0
    BY <2>1, <1>12, <1>13 DEF Series
  <2> QED
    BY <2>2, <1>6, <1>7, <1>12, <1>14, <1>17 DEF Counting
<1>23. Between(d, e)
  BY <1>12, <1>14, <1>19, <1>20, <1>21, <1>22 DEF Between, Sound
<1>24. Handled(client, d, f, e)
  <2>1. Len(d.outbox) <= 2
    BY <1>6, <1>14, <1>15
  <2>2. e[d.m_segmentId] = f[client.m_segmentId] + Owed(d.outbox)
    BY <1>3, <1>13, <1>15, <1>16
  <2> QED
    BY <2>1, <2>2, <1>6, <1>12, <1>23 DEF Handled
<1> QED
  BY <1>4, <1>17, <1>18, <1>24 DEF d, c

\* With the first request made the invariant holds again.
LEMMA ConnectionSucceededIInv == IInv /\ ConnectionSucceeded => IInv' /\ StartFirst
<1> SUFFICES ASSUME IInv, ConnectionSucceeded
             PROVE  IInv' /\ StartFirst
  OBVIOUS
<1>1. PICK f, h :
        /\ Between(client, f) /\ Asks(h, uplink)
        /\ f[client.m_segmentId] \in Nat /\ Received(client, f) \in Nat
        /\ h[1] \in Nat
        /\ Received(client, f) + Len(wire) + Len(queue) + h[1] <= f[client.m_segmentId]
  BY IInvFacts
<1>2. options \in Options /\ queue \in Seq(Cells) /\ wire \in Seq(Cells)
      /\ Len(wire) <= TxBuffer
  BY IInvFacts
<1>3. options' = options /\ queue' = queue /\ wire' = wire
  BY DEF ConnectionSucceeded
<1> DEFINE d(n) == RequestSegment([client EXCEPT !.m_connected = TRUE], n)
<1>4. PICK n, e :
        /\ n \in PacketNums /\ ClientDone(d(n)) /\ Handled(client, d(n), f, e)
        /\ Received(d(n), e) = Received(client, f)
  BY <1>1, ConnectionSucceededFacts
<1> HIDE DEF d
<1>5. Received(d(n), e) + Len(wire') + Len(queue') + h[1] <= f[client.m_segmentId]
  BY <1>1, <1>3, <1>4
<1> QED
  BY <1>1, <1>2, <1>3, <1>4, <1>5, ClientDoneIInv

\* A frame is received.
LEMMA ClientHandleReadIInv == IInv /\ ClientHandleRead => IInv' /\ StartFirst
<1> SUFFICES ASSUME IInv, ClientHandleRead
             PROVE  IInv' /\ StartFirst
  OBVIOUS
<1>1. PICK f, h :
        /\ Between(client, f) /\ Asks(h, uplink)
        /\ f[client.m_segmentId] \in Nat /\ Received(client, f) \in Nat
        /\ h[1] \in Nat
        /\ Received(client, f) + Len(wire) + Len(queue) + h[1] <= f[client.m_segmentId]
  BY IInvFacts
<1>2. options \in Options /\ client.outbox = <<>> /\ queue \in Seq(Cells)
      /\ wire \in Seq(Cells) /\ Len(wire) <= TxBuffer
      /\ Len(queue) \in Nat /\ Len(wire) \in Nat
  BY IInvFacts
<1>3. wire # <<>> /\ wire' = Tail(wire) /\ options' = options /\ queue' = queue
  BY DEF ClientHandleRead
<1>4. wire' \in Seq(Cells) /\ Len(wire') = Len(wire) - 1 /\ Len(wire) >= 1
  BY <1>2, <1>3
<1>5. PICK n \in PacketNums, m \in PacketNums : ClientDone(MessageReceived(client, n, m))
  BY DEF ClientHandleRead
<1> DEFINE d == MessageReceived(client, n, m)
<1>6. Received(client, f) + 1 <= f[client.m_segmentId]
  BY <1>1, <1>2, <1>4
<1>7. \E e : Handled(client, d, f, e) /\ Received(d, e) = Received(client, f) + 1
  BY <1>1, <1>2, <1>6, MessageReceivedFacts
<1> HIDE DEF d
<1>8. PICK e : Handled(client, d, f, e) /\ Received(d, e) = Received(client, f) + 1
  BY <1>7
<1>9. Received(d, e) + Len(wire') + Len(queue') + h[1] <= f[client.m_segmentId]
  BY <1>1, <1>2, <1>3, <1>4, <1>8
<1>10. Len(wire') <= TxBuffer
  BY <1>2, <1>4, TxBufferAssumption
<1> QED
  BY <1>1, <1>2, <1>3, <1>4, <1>5, <1>8, <1>9, <1>10, ClientDoneIInv DEF d

\* The play timer of MpegPlayer fires.
LEMMA PlayFrameEventFacts ==
  ASSUME IInv, PlayFrameEvent, NEW f, Between(client, f),
         f[client.m_segmentId] \in Nat, Received(client, f) \in Nat
  PROVE  \E n, e :
           LET d == PlayFrame([client EXCEPT !.plays = @ - 1], n)
           IN  /\ n \in PacketNums /\ ClientDone(d) /\ Handled(client, d, f, e)
               /\ Received(d, e) = Received(client, f)
<1>1. Between(client, f) /\ f[client.m_segmentId] \in Nat /\ Received(client, f) \in Nat
  OBVIOUS
<1>2. options \in Options /\ client.outbox = <<>> /\ client \in Client
      /\ queue \in Seq(Cells) /\ wire \in Seq(Cells) /\ Len(wire) <= TxBuffer
  BY IInvFacts
<1>3. client.plays > 0 /\ options' = options /\ queue' = queue /\ wire' = wire
  BY DEF PlayFrameEvent
<1> DEFINE c == [client EXCEPT !.plays = @ - 1]
           v == client.v_num
           g == client.m_segmentId
<1>4. PICK n \in PacketNums : ClientDone(PlayFrame(c, n))
  BY DEF PlayFrameEvent
<1> DEFINE d == PlayFrame(c, n)
<1> USE OptionFacts
<1>5. /\ Sound(client, f, v) /\ Stage(client) /\ Prepared(client) /\ Timer(client)
      /\ Counting(client) /\ Sums(client, f) /\ Series(client) /\ Queued(client, f)
  BY <1>1 DEF Between, Sound
<1>6. client.plays = 1 /\ client.m_state \in {"PLAYING", "DONE"}
  <2>1. client.plays \in Nat /\ client.m_state \in States
    BY <1>2 DEF Client
  <2> QED
    BY <2>1, <1>3, <1>5 DEF Timer, States
<1>7. c \in Client
  <2>1. c = [client EXCEPT !.plays = 0]
    BY <1>6, <1>2
  <2>2. [client EXCEPT !.plays = 0] \in Client
    BY <1>2 DEF Client
  <2> QED
    BY <2>1, <2>2
<1>8. /\ SameDownload(client, c) /\ c.outbox = <<>> /\ c.index = client.index
      /\ c.m_connected = client.m_connected /\ c.m_state = client.m_state
      /\ c.m_queue = client.m_queue /\ c.play_num = client.play_num
      /\ c.plays = 0 /\ c.m_dashClient = client.m_dashClient
      /\ c.T_start = client.T_start /\ c.m_segmentId = g
      /\ c.video_series = client.video_series
  BY <1>2, <1>6 DEF Client, SameDownload
<1> HIDE DEF c
<1>9. Sound(c, f, v)
  BY <1>5, <1>7, <1>8, SoundSame
<1>10. client.T_start /\ client.m_dashClient
  BY <1>5, <1>6 DEF Prepared
<1>11. Ready(c)
  BY <1>5, <1>6, <1>8, <1>10 DEF Ready, Stage
<1>12. PICK e : Played(c, d, f, e, v)
  <2>1. v \in Nat /\ Len(c.outbox) <= 1
    BY <1>2, <1>8 DEF Client
  <2> QED
    BY <2>1, <1>2, <1>9, <1>11, PlayFrameFacts
<1> HIDE DEF d
<1>13. /\ Sound(d, e, v) /\ Stage(d) /\ d.T_start = client.T_start
       /\ d.frame_num = client.frame_num /\ d.tmp_num = client.tmp_num
       /\ d.v_num = v /\ d.m_dashClient = client.m_dashClient
       /\ d.m_state # "NOT_STARTED"
       /\ client.m_state = "DONE" => d.m_state = "DONE"
       /\ g <= d.m_segmentId
       /\ Len(d.outbox) <= Len(<<>>) + 1
       /\ e[d.m_segmentId] = f[g] + Owed(d.outbox) - Owed(<<>>)
       /\ \A x \in 0 .. g : e[x] = f[x]
  BY <1>8, <1>12 DEF Played, Grows, SameDownload
<1>14. /\ d \in Client /\ Sums(d, e) /\ Series(d) /\ d.outbox \in Seq(Request)
       /\ d.m_state \in States /\ d.plays \in Nat /\ d.m_segmentId \in 0 .. SegCount + 1
  BY <1>13 DEF Sound, Client
<1>15. Timer(d)
  <2>1. /\ d.m_state = "PLAYING" => d.plays = 0 + 1
        /\ d.m_state = "PAUSED" => d.plays = 0
        /\ d.m_state = "DONE" => d.plays = 0 \/ d.plays = 0 + 1
    BY <1>8, <1>12 DEF Played
  <2> QED
    BY <2>1, <1>13, <1>14 DEF Timer, States
<1>16. Prepared(d)
  BY <1>10, <1>13 DEF Prepared
<1>17. v \in 0 .. SegCount + 1 /\ g \in 0 .. SegCount + 1 /\ v <= g /\ client.frame_num \in Nat
  BY <1>2, <1>5 DEF Client, Queued
<1>18. Counting(d)
  <2>1. d.m_state # "DONE" => d.tmp_num = 0
    BY <1>5, <1>13 DEF Counting
  <2>2. ASSUME v < d.m_segmentId
        PROVE  client.frame_num < d.video_series[v]
    <3>1. v \in Cells
      <4>1. \A x, y \in 0 .. SegCount + 1 : x < y => x \in 0 .. SegCount
        BY SegCountAssumption
      <4> QED
        BY <4>1, <2>2, <1>14, <1>17 DEF Cells
    <3>2. CASE v < g
      <4>1. f[v + 1] = f[v] + client.video_series[v] /\ e[v + 1] = e[v] + d.video_series[v]
            /\ f[v] \in Nat
        BY <3>1, <1>5, <1>14, <1>17 DEF Sums
      <4>2. e[v] = f[v] /\ e[v + 1] = f[v + 1]
        <5>1. v \in 0 .. g /\ v + 1 \in 0 .. g
          BY <3>2, <1>17
        <5> QED
          BY <5>1, <1>13
      <4>3. client.video_series[v] \in Nat /\ d.video_series[v] \in Nat
        BY <3>1, <1>2, <1>14, SeriesNat
      <4>4. client.frame_num < client.video_series[v]
        BY <3>2, <1>5 DEF Counting
      <4> QED
        BY <4>1, <4>2, <4>3, <4>4
    <3>3. CASE v = g
      <4>1. f[g] + client.frame_num <= f[g] /\ f[g] \in Nat
        BY <3>3, <1>1, <1>5 DEF Queued, Received
      <4>2. client.frame_num = 0
        BY <4>1, <1>17
      <4>3. d.video_series[v] > 0
        BY <2>2, <3>1, <1>14 DEF Series
      <4> QED
        BY <4>2, <4>3
    <3> QED
      BY <3>2, <3>3, <1>17
  <2> QED
    BY <2>1, <2>2, <1>13 DEF Counting
<1>19. Between(d, e)
  BY <1>13, <1>15, <1>16, <1>18 DEF Between
<1>20. Handled(client, d, f, e)
  <2>1. Owed(<<>>) = 0 /\ Len(<<>>) = 0
    BY DEF Owed
  <2>2. Owed(d.outbox) \in Nat /\ Len(d.outbox) \in Nat
    BY <1>14, OwedNat
  <2>3. Len(d.outbox) <= 2 /\ e[d.m_segmentId] = f[g] + Owed(d.outbox)
    BY <2>1, <2>2, <1>1, <1>13
  <2> QED
    BY <2>3, <1>10, <1>13, <1>19 DEF Handled
<1>21. Received(d, e) = Received(client, f)
  <2>1. v \in 0 .. g
    BY <1>17
  <2> QED
    BY <2>1, <1>13 DEF Received
<1> QED
  BY <1>4, <1>20, <1>21 DEF d, c

\* A play keeps the invariant.
LEMMA PlayFrameEventIInv == IInv /\ PlayFrameEvent => IInv' /\ StartFirst
<1> SUFFICES ASSUME IInv, PlayFrameEvent
             PROVE  IInv' /\ StartFirst
  OBVIOUS
<1>1. PICK f, h :
        /\ Between(client, f) /\ Asks(h, uplink)
        /\ f[client.m_segmentId] \in Nat /\ Received(client, f) \in Nat
        /\ h[1] \in Nat
        /\ Received(client, f) + Len(wire) + Len(queue) + h[1] <= f[client.m_segmentId]
  BY IInvFacts
<1>2. options \in Options /\ queue \in Seq(Cells) /\ wire \in Seq(Cells)
      /\ Len(wire) <= TxBuffer
  BY IInvFacts
<1>3. options' = options /\ queue' = queue /\ wire' = wire
  BY DEF PlayFrameEvent
<1> DEFINE d(n) == PlayFrame([client EXCEPT !.plays = @ - 1], n)
<1>4. PICK n, e :
        /\ n \in PacketNums /\ ClientDone(d(n)) /\ Handled(client, d(n), f, e)
        /\ Received(d(n), e) = Received(client, f)
  BY <1>1, PlayFrameEventFacts
<1> HIDE DEF d
<1>5. Received(d(n), e) + Len(wire') + Len(queue') + h[1] <= f[client.m_segmentId]
  BY <1>1, <1>3, <1>4
<1> QED
  BY <1>1, <1>2, <1>3, <1>4, <1>5, ClientDoneIInv

\* DataSend moves frames from the queue to the wire, as many as fit.
LEMMA DataSendFacts ==
  ASSUME NEW frames \in Seq(Cells), wire \in Seq(Cells), Len(wire) <= TxBuffer,
         DataSend(frames)
  PROVE  /\ wire' \in Seq(Cells) /\ queue' \in Seq(Cells)
         /\ Len(wire') <= TxBuffer
         /\ Len(wire') + Len(queue') = Len(wire) + Len(frames)
<1> DEFINE room == TxBuffer - Len(wire)
           sent == IF Len(frames) < room THEN Len(frames) ELSE room
<1>1. TxBuffer \in Nat /\ Len(wire) \in Nat /\ Len(frames) \in Nat
  BY TxBufferAssumption
<1>2. sent \in 0 .. Len(frames) /\ Len(wire) + sent <= TxBuffer
  BY <1>1
<1>3. wire' = wire \o SubSeq(frames, 1, sent) /\ queue' = SubSeq(frames, sent + 1, Len(frames))
  BY DEF DataSend
<1> HIDE DEF sent, room
<1>4. SubSeq(frames, 1, sent) \in Seq(Cells) /\ Len(SubSeq(frames, 1, sent)) = sent
  BY <1>1, <1>2
<1>5. /\ SubSeq(frames, sent + 1, Len(frames)) \in Seq(Cells)
      /\ Len(SubSeq(frames, sent + 1, Len(frames))) = Len(frames) - sent
  BY <1>1, <1>2
<1>6. wire' \in Seq(Cells) /\ Len(wire') = Len(wire) + sent
  BY <1>3, <1>4
<1>7. queue' \in Seq(Cells) /\ Len(queue') = Len(frames) - sent
  BY <1>3, <1>5
<1>8. Len(wire') <= TxBuffer
  BY <1>2, <1>6
<1>9. \A x, y, z \in Int : (x + z) + (y - z) = x + y
  OBVIOUS
<1>10. Len(wire') + Len(queue') = Len(wire) + Len(frames)
  BY <1>1, <1>2, <1>6, <1>7, <1>9
<1> QED
  BY <1>6, <1>7, <1>8, <1>10

\* A step of the server leaves the client, and brings what a read has asked for.
LEMMA ServerStep ==
  ASSUME IInv, UNCHANGED <<options, client>>,
         uplink' \in Seq(Seq(Request)), queue' \in Seq(Cells), wire' \in Seq(Cells),
         Len(wire') <= TxBuffer,
         NEW f, NEW h, Between(client, f), Asks(h, uplink'),
         Received(client, f) + Len(wire') + Len(queue') + h[1] <= f[client.m_segmentId]
  PROVE  IInv' /\ StartFirst
<1>1. Between(client, f)'
  <2>1. Between(client', f)
    OBVIOUS
  <2> QED
    BY <2>1, BetweenNext
<1>2. Asks(h, uplink)' /\ (Received(client, f) + Len(wire) + Len(queue) + h[1]
                             <= f[client.m_segmentId])'
  BY DEF Asks, Received
<1> QED
  BY <1>1, <1>2 DEF IInv, StartFirst

\* DashServer handles a read: its first request's frames are queued.
LEMMA ServerHandleReadIInv == IInv /\ ServerHandleRead => IInv' /\ StartFirst
<1> SUFFICES ASSUME IInv, ServerHandleRead
             PROVE  IInv' /\ StartFirst
  OBVIOUS
<1>1. PICK f, h :
        /\ Between(client, f) /\ Asks(h, uplink)
        /\ f[client.m_segmentId] \in Nat /\ Received(client, f) \in Nat
        /\ h[1] \in Nat
        /\ Received(client, f) + Len(wire) + Len(queue) + h[1] <= f[client.m_segmentId]
  BY IInvFacts
<1>2. /\ uplink \in Seq(Seq(Request)) /\ queue \in Seq(Cells) /\ wire \in Seq(Cells)
      /\ Len(wire) <= TxBuffer /\ Len(queue) \in Nat /\ Len(wire) \in Nat
  BY IInvFacts
<1> DEFINE q == Head(Head(uplink))
           sent == [i \in 1 .. q.num |-> q.seg]
<1>3. /\ uplink # <<>> /\ uplink' = Tail(uplink) /\ UNCHANGED <<options, client>>
      /\ DataSend(queue \o sent)
  BY DEF ServerHandleRead
<1>4. uplink' \in Seq(Seq(Request)) /\ q \in Request
      /\ \E k : Asks(k, uplink') /\ h[1] = k[1] + q.num
  BY <1>1, <1>2, <1>3, AsksTail
<1>5. PICK k : Asks(k, uplink') /\ h[1] = k[1] + q.num
  BY <1>4
<1> HIDE DEF q
<1>6. q.num \in Nat /\ q.seg \in Cells
  BY <1>4, PacketNumsAssumption DEF Request
<1>7. sent \in Seq(Cells) /\ Len(sent) = q.num
  BY <1>6
<1> HIDE DEF sent
<1>8. queue \o sent \in Seq(Cells) /\ Len(queue \o sent) = Len(queue) + q.num
  <2>1. \A x, y \in Seq(Cells) : x \o y \in Seq(Cells) /\ Len(x \o y) = Len(x) + Len(y)
    OBVIOUS
  <2>2. queue \in Seq(Cells) /\ sent \in Seq(Cells)
    BY <1>2, <1>7
  <2>3. queue \o sent \in Seq(Cells) /\ Len(queue \o sent) = Len(queue) + Len(sent)
    BY <2>1, <2>2
  <2> QED
    BY <2>3, <1>7
<1>9. /\ wire' \in Seq(Cells) /\ queue' \in Seq(Cells) /\ Len(wire') <= TxBuffer
      /\ Len(wire') + Len(queue') = Len(wire) + (Len(queue) + q.num)
  BY <1>2, <1>3, <1>8, DataSendFacts
<1>10. k[1] \in Nat
  <2>1. 1 \in 1 .. Len(uplink') + 1
    BY <1>4
  <2> QED
    BY <2>1, <1>5 DEF Asks
<1>11. Received(client, f) + Len(wire') + Len(queue') + k[1] <= f[client.m_segmentId]
  <2>1. Len(wire') \in Nat /\ Len(queue') \in Nat
    BY <1>9
  <2> DEFINE r == Received(client, f)
             w1 == Len(wire')
             l1 == Len(queue')
             w == Len(wire)
             l == Len(queue)
             total == f[client.m_segmentId]
  <2>2. /\ r \in Nat /\ w1 \in Nat /\ l1 \in Nat /\ w \in Nat /\ l \in Nat /\ total \in Nat
        /\ r + w + l + h[1] <= total /\ h[1] = k[1] + q.num /\ w1 + l1 = w + (l + q.num)
    BY <2>1, <1>1, <1>2, <1>5, <1>9
  <2> HIDE DEF r, w1, l1, w, l, total
  <2>3. r + w1 + l1 + k[1] <= total
    BY <2>2, <1>6, <1>10
  <2> QED
    BY <2>3 DEF r, w1, l1, total
<1> QED
  BY <1>1, <1>3, <1>4, <1>5, <1>9, <1>11, ServerStep

\* There is room in the socket again.
LEMMA ServerDataSendIInv == IInv /\ ServerDataSend => IInv' /\ StartFirst
<1> SUFFICES ASSUME IInv, ServerDataSend
             PROVE  IInv' /\ StartFirst
  OBVIOUS
<1>1. PICK f, h :
        /\ Between(client, f) /\ Asks(h, uplink)
        /\ f[client.m_segmentId] \in Nat /\ Received(client, f) \in Nat
        /\ h[1] \in Nat
        /\ Received(client, f) + Len(wire) + Len(queue) + h[1] <= f[client.m_segmentId]
  BY IInvFacts
<1>2. /\ uplink \in Seq(Seq(Request)) /\ queue \in Seq(Cells) /\ wire \in Seq(Cells)
      /\ Len(wire) <= TxBuffer /\ Len(queue) \in Nat /\ Len(wire) \in Nat
  BY IInvFacts
<1>3. uplink' = uplink /\ UNCHANGED <<options, client>> /\ DataSend(queue)
  BY DEF ServerDataSend
<1>4. /\ wire' \in Seq(Cells) /\ queue' \in Seq(Cells) /\ Len(wire') <= TxBuffer
      /\ Len(wire') + Len(queue') = Len(wire) + Len(queue)
  BY <1>2, <1>3, DataSendFacts
<1>5. Received(client, f) + Len(wire') + Len(queue') + h[1] <= f[client.m_segmentId]
  <2>1. Len(wire') \in Nat /\ Len(queue') \in Nat
    BY <1>4
  <2> QED
    BY <2>1, <1>1, <1>2, <1>4
<1> QED
  BY <1>1, <1>2, <1>3, <1>4, <1>5, ServerStep

\* Nothing is asked for and nothing is under way when the applications start.
LEMMA InitIInv == Init => IInv
<1> SUFFICES ASSUME Init
             PROVE  IInv
  OBVIOUS
<1> DEFINE f == [s \in 0 .. SegCount + 1 |-> 0]
           h == [i \in 1 .. 1 |-> 0]
<1>1. options \in Options /\ client = InitClient /\ uplink = <<>> /\ queue = <<>> /\ wire = <<>>
  BY DEF Init
<1> USE OptionFacts
<1>2. client \in Client
  <2>1. <<>> \in Seq(Request) /\ 0 \in 0 .. SegCount + 1
    BY <1>1
  <2>2. [s \in Cells |-> 0] \in [Cells -> PacketNums \cup {0}]
    OBVIOUS
  <2> QED
    BY <2>1, <2>2, <1>1 DEF Client, InitClient, States
<1>3. /\ client.m_connected = FALSE /\ client.m_segmentId = 0 /\ client.frame_num = 0
      /\ client.tmp_num = 0 /\ client.v_num = 0 /\ client.seg_num = 0
      /\ client.outbox = <<>> /\ client.m_state = "NOT_STARTED" /\ client.m_queue = 0
      /\ client.play_num = 0 /\ client.plays = 0 /\ client.index = "in"
      /\ \A s \in Cells : client.video_series[s] = 0
  BY <1>1 DEF InitClient
<1>4. Sums(client, f) /\ Series(client)
  <2>1. f \in [0 .. SegCount + 1 -> Nat] /\ f[0] = 0
    BY <1>1
  <2>2. \A s \in Cells : f[s + 1] = f[s] + client.video_series[s]
    BY <1>1, <1>3 DEF Cells
  <2>3. \A a, b \in 0 .. SegCount + 1 : a <= b => f[a] <= f[b]
    OBVIOUS
  <2>4. Series(client)
    BY <1>1, <1>3 DEF Series, Cells
  <2> HIDE DEF f
  <2> QED
    BY <2>1, <2>2, <2>3, <2>4 DEF Sums
<1>5. f[0] = 0
  BY <1>1
<1> HIDE DEF f
<1>6. Received(client, f) = 0 /\ Queued(client, f)
  BY <1>3, <1>5 DEF Received, Queued
<1>7. Indices(client) /\ Connected(client) /\ Made(client, 0)
  <2>1. 0 <= SegCount /\ ~(client.m_segmentId > 0)
    BY <1>1, <1>3
  <2>2. Indices(client)
    BY <2>1, <1>3 DEF Indices
  <2>3. Connected(client)
    BY <2>1, <1>3 DEF Connected
  <2>4. Made(client, 0)
    BY <2>1 DEF Made
  <2> QED
    BY <2>2, <2>3, <2>4
<1>8. Stage(client) /\ Prepared(client) /\ Timer(client) /\ Counting(client)
  BY <1>1, <1>3 DEF Stage, Prepared, Timer, Counting
<1>9. Between(client, f)
  BY <1>2, <1>3, <1>4, <1>6, <1>7, <1>8 DEF Between, Sound
<1>10. Asks(h, uplink) /\ h[1] = 0
  <2>1. Len(uplink) = 0
    BY <1>1
  <2>2. h \in [1 .. Len(uplink) + 1 -> Nat] /\ h[Len(uplink) + 1] = 0 /\ h[1] = 0
    BY <2>1
  <2>3. \A i \in 1 .. Len(uplink) : FALSE
    BY <2>1
  <2> HIDE DEF h
  <2> QED
    BY <2>2, <2>3 DEF Asks
<1> HIDE DEF h
<1>11. Received(client, f) + Len(wire) + Len(queue) + h[1] <= f[client.m_segmentId]
  BY <1>1, <1>3, <1>5, <1>6, <1>10
<1>12. uplink \in Seq(Seq(Request)) /\ queue \in Seq(Cells) /\ wire \in Seq(Cells)
       /\ Len(wire) <= TxBuffer
  BY <1>1, TxBufferAssumption
<1> QED
  BY <1>1, <1>3, <1>9, <1>10, <1>11, <1>12 DEF IInv

\* Every step keeps the invariant, and plays nothing before T_start is up.
LEMMA NextIInv == IInv /\ [Next]_vars => IInv' /\ StartFirst
<1> SUFFICES ASSUME IInv, [Next]_vars
             PROVE  IInv' /\ StartFirst
  OBVIOUS
<1>1. CASE ConnectionSucceeded
  BY <1>1, ConnectionSucceededIInv
<1>2. CASE ClientHandleRead
  BY <1>2, ClientHandleReadIInv
<1>3. CASE PlayFrameEvent
  BY <1>3, PlayFrameEventIInv
<1>4. CASE ServerHandleRead
  BY <1>4, ServerHandleReadIInv
<1>5. CASE ServerDataSend
  BY <1>5, ServerDataSendIInv
<1>6. CASE UNCHANGED vars
  <2>1. /\ options' = options /\ client' = client /\ uplink' = uplink
        /\ queue' = queue /\ wire' = wire
    BY <1>6 DEF vars
  <2>2. PICK f, h :
          /\ Between(client, f) /\ Asks(h, uplink)
          /\ Received(client, f) + Len(wire) + Len(queue) + h[1] <= f[client.m_segmentId]
    BY DEF IInv
  <2>3. /\ uplink \in Seq(Seq(Request)) /\ queue \in Seq(Cells) /\ wire \in Seq(Cells)
        /\ Len(wire) <= TxBuffer
    BY DEF IInv
  <2> QED
    BY <2>1, <2>2, <2>3, ServerStep
<1> QED
  BY <1>1, <1>2, <1>3, <1>4, <1>5, <1>6 DEF Next

\* The table shows that no segment is played before it is received to its end.
LEMMA PlayedIsReceived ==
  ASSUME options \in Options, NEW c, NEW f, Between(c, f)
  PROVE  c.play_num <= c.v_num
<1> USE OptionFacts
<1> DEFINE g == c.m_segmentId
           v == c.v_num
           p == c.play_num
<1>1. /\ c \in Client /\ g \in 0 .. SegCount + 1 /\ v \in 0 .. SegCount + 1
      /\ p \in 0 .. SegCount + 1 /\ c.frame_num \in Nat /\ c.m_queue \in Nat
  BY DEF Between, Sound, Client
<1>2. /\ Sums(c, f) /\ Series(c) /\ Queued(c, f) /\ v <= g /\ p <= g
  BY DEF Between, Sound, Queued
<1>3. SUFFICES ASSUME v < p PROVE FALSE
  BY <1>1
<1>4. v < g /\ v \in Cells /\ v + 1 \in 0 .. SegCount + 1 /\ v + 1 <= p
  BY <1>1, <1>2, <1>3 DEF Cells
<1>5. c.frame_num < c.video_series[v] /\ c.video_series[v] \in Nat
  BY <1>1, <1>4, SeriesNat DEF Between, Counting
<1>6. /\ f[v + 1] = f[v] + c.video_series[v] /\ f[v + 1] <= f[p]
      /\ f[v] \in Nat /\ f[p] \in Nat /\ f[v + 1] \in Nat
  BY <1>1, <1>2, <1>4 DEF Sums
<1>7. c.m_queue = (f[v] + c.frame_num) - f[p]
  BY <1>2 DEF Queued, Received
<1> HIDE DEF v, p, g
<1> QED
  BY <1>1, <1>5, <1>6, <1>7

\* The table of the invariant is the one that PacketsOf makes.
LEMMA PacketsOfSum ==
  ASSUME client \in Client, NEW f, Sums(client, f),
         NEW a \in 0 .. SegCount + 1, NEW b \in 0 .. SegCount + 1
  PROVE  PacketsOf(a, b) = f[b] - f[a]
<1> DEFINE N == SegCount + 1
           h == [s \in 1 .. N |-> client.video_series[s - 1]]
           Solves(g) == g = [s \in 0 .. N |->
                               IF s = 0 THEN 0 ELSE g[s - 1] + client.video_series[s - 1]]
           before == CHOOSE g : Solves(g)
<1>1. N \in Nat /\ \A s \in 1 .. N : s - 1 \in Cells
  BY SegCountAssumption DEF Cells
<1>2. \A s \in 1 .. N : h[s] = client.video_series[s - 1] /\ h[s] \in Int
  BY <1>1, SeriesNat
<1>3. PartialSums(f, h, N)
  <2>1. f \in [0 .. N -> Int] /\ f[0] = 0
    BY DEF Sums
  <2>2. ASSUME NEW s \in 1 .. N PROVE f[s] = f[s - 1] + h[s]
    <3>1. s - 1 \in Cells /\ s - 1 + 1 = s
      BY <1>1
    <3>2. f[s] = f[s - 1] + client.video_series[s - 1]
      BY <3>1 DEF Sums
    <3> QED BY <3>2, <1>2
  <2> HIDE DEF N, h
  <2> QED BY <2>1, <2>2 DEF PartialSums
<1>4. Solves(f)
  <2>1. f = [s \in 0 .. N |-> IF s = 0 THEN 0 ELSE f[s - 1] + h[s]]
    <3> HIDE DEF N, h
    <3> QED BY <1>1, <1>3, PartialSumsSolve
  <2>2. ASSUME NEW s \in 0 .. N
        PROVE  (IF s = 0 THEN 0 ELSE f[s - 1] + h[s])
                 = (IF s = 0 THEN 0 ELSE f[s - 1] + client.video_series[s - 1])
    BY <1>1, <1>2
  <2> QED BY <2>1, <2>2
<1>5. Solves(before)
  BY <1>4
<1>6. PacketsOf(a, b) = before[b] - before[a]
  BY DEF PacketsOf
<1> HIDE DEF before
<1>7. before = [s \in 0 .. N |-> IF s = 0 THEN 0 ELSE before[s - 1] + h[s]]
  <2>1. ASSUME NEW s \in 0 .. N
        PROVE  (IF s = 0 THEN 0 ELSE before[s - 1] + h[s])
                 = (IF s = 0 THEN 0 ELSE before[s - 1] + client.video_series[s - 1])
    BY <1>1, <1>2
  <2> QED BY <2>1, <1>5
<1> HIDE DEF h, N
<1>8. PartialSums(before, h, N)
  BY <1>1, <1>2, <1>7, PartialSumsSolution
<1>9. ASSUME NEW n \in 0 .. N PROVE before[n] = f[n]
  <2>1. n \in Nat /\ n <= N
    BY <1>1
  <2> QED BY <2>1, <1>1, <1>3, <1>8, PartialSumsUnique
<1>10. a \in 0 .. N /\ b \in 0 .. N
  BY DEF N
<1> QED BY <1>6, <1>9, <1>10

\* What the invariant says in the words of the runs.
LEMMA IInvImplies ==
  IInv => /\ TypeOK /\ RequestsEarned /\ NoOverrunIfFit
          /\ OneTimer /\ PlayerKnowsClient /\ QueueHoldsSegments
<1> SUFFICES ASSUME IInv
             PROVE  /\ TypeOK /\ RequestsEarned /\ NoOverrunIfFit
                    /\ OneTimer /\ PlayerKnowsClient /\ QueueHoldsSegments
  OBVIOUS
<1>1. PICK f : Between(client, f)
  BY DEF IInv
<1>2. /\ client \in Client /\ Indices(client) /\ Made(client, client.v_num)
      /\ Timer(client) /\ Prepared(client)
  BY <1>1 DEF Between, Sound
<1>3. TypeOK
  BY <1>2 DEF IInv, TypeOK
<1>4. RequestsEarned /\ NoOverrunIfFit
  BY <1>2 DEF Made, Indices, RequestsEarned, NoOverrunIfFit
<1>5. OneTimer /\ PlayerKnowsClient
  BY <1>2 DEF Timer, Prepared, OneTimer, PlayerKnowsClient
<1>6. QueueHoldsSegments
  <2>1. Sums(client, f) /\ Queued(client, f)
    BY <1>1 DEF Between, Sound
  <2>2. client.play_num \in 0 .. SegCount + 1 /\ client.v_num \in 0 .. SegCount + 1
    BY <1>2 DEF Client
  <2>3. PacketsOf(client.play_num, client.v_num) = f[client.v_num] - f[client.play_num]
    BY <1>2, <2>1, <2>2, PacketsOfSum
  <2>4. /\ f[client.v_num] \in Nat /\ f[client.play_num] \in Nat
        /\ client.frame_num \in Nat
    BY <1>2, <2>1, <2>2 DEF Sums, Client
  <2>5. client.m_queue = (f[client.v_num] + client.frame_num) - f[client.play_num]
    BY <2>1 DEF Queued, Received
  <2>6. client.play_num <= client.v_num
    BY <1>1, PlayedIsReceived DEF IInv
  <2> QED
    BY <2>3, <2>4, <2>5, <2>6 DEF QueueHoldsSegments
<1> QED
  BY <1>3, <1>4, <1>5, <1>6

-----------------------------------------------------------------------------

\* The invariant is one, for every value of the constants.
THEOREM Invariance == Spec => []IInv
<1>1. IInv /\ [Next]_vars => IInv'
  BY NextIInv
<1> QED
  BY <1>1, InitIInv, PTL DEF Spec

\* The player's queue never runs below empty, no index leaves the allocation.
THEOREM TypeCorrect == Spec => []TypeOK
<1>1. IInv => TypeOK
  BY IInvImplies
<1> QED
  BY <1>1, Invariance, PTL

\* As many requests are made as downloads and plays have earned.
THEOREM AsEarned == Spec => []RequestsEarned
<1>1. IInv => RequestsEarned
  BY IInvImplies
<1> QED
  BY <1>1, Invariance, PTL

\* Options whose requests add up to the video never make one too many.
THEOREM InRange == Spec => []NoOverrunIfFit
<1>1. IInv => NoOverrunIfFit
  BY IInvImplies
<1> QED
  BY <1>1, Invariance, PTL

\* A player that plays has one timer, one that waits has none.
THEOREM Timed == Spec => []OneTimer
<1>1. IInv => OneTimer
  BY IInvImplies
<1> QED
  BY <1>1, Invariance, PTL

\* The uninitialised pointer of the player is never read.
THEOREM Introduced == Spec => []PlayerKnowsClient
<1>1. IInv => PlayerKnowsClient
  BY IInvImplies
<1> QED
  BY <1>1, Invariance, PTL

\* The player's queue holds the segments received and not yet played and what
\* there is of the next one, to the frame.
THEOREM QueueExact == Spec => []QueueHoldsSegments
<1>1. IInv => QueueHoldsSegments
  BY IInvImplies
<1> QED
  BY <1>1, Invariance, PTL

\* The player plays no segment that is not received to its end, although it
\* counts frames and knows nothing of segments.
THEOREM PlaysReceived == Spec => [](client.play_num <= client.v_num)
<1>1. IInv => client.play_num <= client.v_num
  BY PlayedIsReceived DEF IInv
<1> QED
  BY <1>1, Invariance, PTL

\* The base layer plays its first segment after the enhancement layer has been
\* let start, in a later event.
THEOREM StartsFirst == Spec => [][StartFirst]_vars
<1>1. IInv /\ [Next]_vars => [StartFirst]_vars
  BY NextIInv
<1> QED
  BY <1>1, Invariance, PTL DEF Spec
-----------------------------------------------------------------------------
(* The order of the frames.  What TCP brings when it keeps requests apart   *)
(* is what the client counts: a read for every segment asked for and not    *)
(* yet answered, then the frames of those answered, first to last.          *)

\* A client's record in a handler: of what no request depends on, only that it
\* is there.
LooseClient(Q) ==
  [ m_connected : BOOLEAN, m_segmentId : Nat,
    video_series : [Cells -> PacketNums \cup {0}],
    frame_num : Nat, tmp_num : Nat, v_num : Nat, seg_num : Nat,
    outbox : Seq(Request), m_state : States, m_queue : Q, play_num : Nat, plays : Nat,
    m_dashClient : BOOLEAN, T_start : BOOLEAN, index : {"in", "behind", "out"} ]

\* What calls have asked for on the way from client c, whose outbox is empty, to
\* client d: the segments from m_segmentId on, as video_series has them.
Asked(c, d) ==
  /\ \E Q : d \in LooseClient(Q)
  /\ d.m_segmentId = c.m_segmentId + Len(d.outbox)
  /\ \A s \in Cells : s < c.m_segmentId => d.video_series[s] = c.video_series[s]
  /\ \A i \in 1 .. Len(d.outbox) :
       /\ c.m_segmentId + i - 1 \in Cells
       /\ d.outbox[i] = [seg |-> c.m_segmentId + i - 1,
                         num |-> d.video_series[c.m_segmentId + i - 1]]

\* The frames on their way are those of the segments that the client expects:
\* of a client c, the reads u still to come and the frames q.
Ordered(c, u, q) ==
  LET answered == c.m_segmentId - Len(u)
  IN  /\ answered \in Nat
      /\ \A i \in 1 .. Len(u) :
           /\ answered + i - 1 \in Cells
           /\ u[i] = <<[seg |-> answered + i - 1, num |-> c.video_series[answered + i - 1]]>>
      /\ \A f : Sums(c, f) =>
           /\ Received(c, f) + Len(q) = f[answered]
           /\ \A i \in 1 .. Len(q) :
                f[q[i]] < Received(c, f) + i /\ Received(c, f) + i <= f[q[i] + 1]

\* The invariant of the order.
InOrder == ~options.coalescing => Ordered(client, uplink, wire \o queue)

\* A client's record has the types of a loose one.
LEMMA ClientIsLoose == ASSUME NEW c \in Client PROVE c \in LooseClient(Nat)
  BY SegCountAssumption DEF Client, LooseClient

\* A call that leaves the accounts of requests alone asks for nothing.
LEMMA AskedSame ==
  ASSUME NEW c, NEW d, Asked(c, d), NEW Q, NEW e \in LooseClient(Q),
         e.m_segmentId = d.m_segmentId, e.video_series = d.video_series,
         e.outbox = d.outbox
  PROVE  Asked(c, e)
  BY DEF Asked

\* Nothing is asked for before the first call.
LEMMA AskedNothing ==
  ASSUME NEW c \in Client, c.outbox = <<>>
  PROVE  Asked(c, c)
<1>1. c \in LooseClient(Nat) /\ Len(c.outbox) = 0
  BY ClientIsLoose
<1>2. c.m_segmentId \in Nat
  BY <1>1 DEF LooseClient
<1> QED BY <1>1, <1>2 DEF Asked

\* RequestSegment asks for the next segment, if it asks for any.
LEMMA RequestAsked ==
  ASSUME NEW c \in Client, NEW d, Asked(c, d), NEW n \in PacketNums
  PROVE  Asked(c, RequestSegment(d, n))
<1> DEFINE k == d.m_segmentId
           g == c.m_segmentId
           r == [seg |-> k, num |-> n]
           series == [d.video_series EXCEPT ![k] = n]
           out == Append(d.outbox, r)
           x == IF k = SegCount THEN "behind" ELSE d.index
           l == k + 1
           e == [d EXCEPT !.index = x, !.video_series = series,
                          !.outbox = out, !.m_segmentId = l]
<1>1. PICK Q : d \in LooseClient(Q)
  BY DEF Asked
<1>2. /\ k \in Nat /\ d.video_series \in [Cells -> PacketNums \cup {0}]
      /\ d.outbox \in Seq(Request) /\ d.index \in {"in", "behind", "out"}
  BY <1>1 DEF LooseClient
<1>3. g \in Nat /\ k = g + Len(d.outbox) /\ Len(d.outbox) \in Nat
  BY <1>2, ClientIsLoose DEF Asked, LooseClient
<1>4. CASE ~d.m_connected
  <2>1. RequestSegment(d, n) = d
    BY <1>4 DEF RequestSegment
  <2> QED BY <2>1
<1>5. CASE d.m_connected /\ k \notin Cells
  <2>1. RequestSegment(d, n) = [d EXCEPT !.index = "out"]
    BY <1>5 DEF RequestSegment
  <2>2. /\ [d EXCEPT !.index = "out"] \in LooseClient(Q)
        /\ [d EXCEPT !.index = "out"].m_segmentId = d.m_segmentId
        /\ [d EXCEPT !.index = "out"].video_series = d.video_series
        /\ [d EXCEPT !.index = "out"].outbox = d.outbox
    BY <1>1 DEF LooseClient
  <2> HIDE DEF k, g
  <2> QED BY <2>1, <2>2, AskedSame
<1>6. CASE d.m_connected /\ k \in Cells
  <2>1. RequestSegment(d, n) = e
    BY <1>6 DEF RequestSegment
  <2>2. r \in Request /\ r = [seg |-> k, num |-> n]
    BY <1>6 DEF Request
  <2> HIDE DEF r
  <2>3. /\ out \in Seq(Request) /\ Len(out) = Len(d.outbox) + 1
        /\ out[Len(d.outbox) + 1] = r
        /\ \A i \in 1 .. Len(d.outbox) : out[i] = d.outbox[i]
    BY <1>2, <2>2
  <2>4. /\ series \in [Cells -> PacketNums \cup {0}] /\ series[k] = n
        /\ \A s \in Cells : s # k => series[s] = d.video_series[s]
    BY <1>2, <1>6
  <2>5. x \in {"in", "behind", "out"} /\ l \in Nat /\ l = k + 1
    BY <1>2
  <2> HIDE DEF out, series, x, l
  <2>6. /\ e \in LooseClient(Q) /\ e.m_segmentId = l
        /\ e.video_series = series /\ e.outbox = out
    BY <1>1, <1>2, <2>3, <2>4, <2>5 DEF LooseClient
  <2> HIDE DEF e, k, g
  <2>7. e.m_segmentId = g + Len(e.outbox)
    BY <1>3, <2>3, <2>5, <2>6
  <2>8. \A s \in Cells : s < g => e.video_series[s] = c.video_series[s]
    <3> SUFFICES ASSUME NEW s \in Cells, s < g
                 PROVE  e.video_series[s] = c.video_series[s]
      OBVIOUS
    <3>1. s # k
      BY <1>3, SegCountAssumption DEF Cells
    <3>2. d.video_series[s] = c.video_series[s]
      BY DEF Asked, g
    <3> QED BY <3>1, <3>2, <2>4, <2>6
  <2>9. ASSUME NEW i \in 1 .. Len(e.outbox)
        PROVE  /\ g + i - 1 \in Cells
               /\ e.outbox[i] = [seg |-> g + i - 1, num |-> e.video_series[g + i - 1]]
    <3>1. CASE i = Len(d.outbox) + 1
      <4>1. g + i - 1 = k
        BY <1>3, <3>1
      <4> QED BY <4>1, <3>1, <1>6, <2>2, <2>3, <2>4, <2>6
    <3>2. CASE i \in 1 .. Len(d.outbox)
      <4>1. g + i - 1 \in Cells /\ g + i - 1 # k
            /\ d.outbox[i] = [seg |-> g + i - 1, num |-> d.video_series[g + i - 1]]
        BY <1>3, <3>2 DEF Asked, g
      <4> QED BY <4>1, <3>2, <2>3, <2>4, <2>6
    <3> QED BY <3>1, <3>2, <2>3, <2>6, <1>3
  <2>10. \E P : e \in LooseClient(P)
    BY <2>6
  <2>11. Asked(c, e)
    BY <2>7, <2>8, <2>9, <2>10, Zenon DEF Asked, g
  <2> QED BY <2>1, <2>11 DEF e
<1> QED BY <1>4, <1>5, <1>6

\* Taking segments off the player's queue and stopping it ask for nothing.
LEMMA PopAsked ==
  ASSUME NEW c, NEW d, Asked(c, d)
  PROVE  Asked(c, PopFrames(d)) /\ Asked(c, StopApplication(d))
<1>1. PICK Q : d \in LooseClient(Q)
  BY DEF Asked
<1> DEFINE x == IF d.play_num = 0
                THEN d.m_queue - (d.video_series[0] + d.video_series[1])
                ELSE d.m_queue - d.video_series[d.play_num]
           p == IF d.play_num = 0 THEN 2 ELSE d.play_num + 1
           e == [d EXCEPT !.m_queue = x, !.play_num = p]
<1>2. PopFrames(d) = e
  BY DEF PopFrames
<1>3. p \in Nat
  BY <1>1 DEF LooseClient
<1> HIDE DEF x, p
<1>4. /\ e \in LooseClient({x}) /\ e.m_segmentId = d.m_segmentId
      /\ e.video_series = d.video_series /\ e.outbox = d.outbox
  BY <1>1, <1>3 DEF LooseClient
<1>5. Asked(c, e)
  <2> HIDE DEF e
  <2> QED BY <1>4, AskedSame
<1> DEFINE t == [d EXCEPT !.m_connected = FALSE, !.m_state = "DONE"]
<1>6. /\ t \in LooseClient(Q) /\ t.m_segmentId = d.m_segmentId
      /\ t.video_series = d.video_series /\ t.outbox = d.outbox
  BY <1>1 DEF LooseClient, States
<1>7. StopApplication(d) = t
  BY DEF StopApplication
<1>8. Asked(c, t)
  <2> HIDE DEF t
  <2> QED BY <1>6, AskedSame
<1> QED BY <1>2, <1>5, <1>7, <1>8

\* A play asks for a segment at most.
LEMMA PlayFrameAsked ==
  ASSUME NEW c \in Client, NEW d, Asked(c, d), NEW n \in PacketNums
  PROVE  Asked(c, PlayFrame(d, n))
<1> DEFINE popped == PopFrames(d)
           stopped == IF popped.play_num = SegCount + 1 /\ popped.m_dashClient
                      THEN StopApplication(popped) ELSE popped
           asked == IF PlayerPulls(popped.play_num) /\ popped.m_dashClient
                    THEN RequestSegment(stopped, n) ELSE stopped
<1>1. Asked(c, popped)
  BY PopAsked
<1>2. Asked(c, stopped)
  <2> HIDE DEF popped
  <2> QED BY <1>1, PopAsked
<1>3. Asked(c, asked)
  <2> HIDE DEF popped, stopped
  <2> QED BY <1>2, RequestAsked
<1>4. PlayFrame(d, n) \in {d, [d EXCEPT !.m_state = "PAUSED"],
                           [asked EXCEPT !.plays = @ + 1]}
  BY Zenon DEF PlayFrame
<1> HIDE DEF asked
<1>5. Asked(c, [d EXCEPT !.m_state = "PAUSED"])
  <2>1. PICK Q : d \in LooseClient(Q)
    BY DEF Asked
  <2> DEFINE t == [d EXCEPT !.m_state = "PAUSED"]
  <2>2. /\ t \in LooseClient(Q) /\ t.m_segmentId = d.m_segmentId
        /\ t.video_series = d.video_series /\ t.outbox = d.outbox
    BY <2>1 DEF LooseClient, States
  <2> HIDE DEF t
  <2>3. Asked(c, t)
    BY <2>2, AskedSame
  <2> QED BY <2>3 DEF t
<1>6. Asked(c, [asked EXCEPT !.plays = @ + 1])
  <2>1. PICK Q : asked \in LooseClient(Q)
    BY <1>3 DEF Asked
  <2> DEFINE k == asked.plays + 1
             t == [asked EXCEPT !.plays = k]
  <2>2. k \in Nat
    BY <2>1 DEF LooseClient
  <2> HIDE DEF k
  <2>3. /\ t \in LooseClient(Q) /\ t.m_segmentId = asked.m_segmentId
        /\ t.video_series = asked.video_series /\ t.outbox = asked.outbox
    BY <2>1, <2>2 DEF LooseClient
  <2> HIDE DEF t
  <2>4. Asked(c, t)
    BY <1>3, <2>3, AskedSame
  <2> QED BY <2>4 DEF t, k
<1> QED BY <1>4, <1>5, <1>6

\* The player asks for a segment at most when it gets a frame.
LEMMA ReceiveFrameAsked ==
  ASSUME NEW c \in Client, NEW d, Asked(c, d), NEW n \in PacketNums
  PROVE  Asked(c, ReceiveFrame(d, n))
<1> DEFINE q == d.m_queue + 1
           queued == [d EXCEPT !.m_queue = q]
           start == queued.T_start \/ d.video_series[req_num] > 0
           primed == [queued EXCEPT !.T_start = start]
           playing(p) == [p EXCEPT !.m_state = "PLAYING"]
<1>1. PICK Q : d \in LooseClient(Q)
  BY DEF Asked
<1> HIDE DEF q
<1>2. /\ queued \in LooseClient({q}) /\ queued.m_segmentId = d.m_segmentId
      /\ queued.video_series = d.video_series /\ queued.outbox = d.outbox
  BY <1>1 DEF LooseClient
<1>3. Asked(c, queued)
  <2> HIDE DEF queued
  <2> QED BY <1>2, AskedSame
<1>4. start \in BOOLEAN
  OBVIOUS
<1> HIDE DEF start, queued
<1>5. /\ primed \in LooseClient({q}) /\ primed.m_segmentId = queued.m_segmentId
      /\ primed.video_series = queued.video_series /\ primed.outbox = queued.outbox
  BY <1>2, <1>4 DEF LooseClient
<1>6. Asked(c, primed)
  <2> HIDE DEF primed
  <2> QED BY <1>3, <1>5, AskedSame
<1>7. ASSUME NEW p \in LooseClient({q}), Asked(c, p)
      PROVE  Asked(c, playing(p))
  <2>1. /\ playing(p) \in LooseClient({q}) /\ playing(p).m_segmentId = p.m_segmentId
        /\ playing(p).video_series = p.video_series /\ playing(p).outbox = p.outbox
    BY <1>7 DEF LooseClient, States
  <2> HIDE DEF playing
  <2> QED BY <1>7, <2>1, AskedSame
<1> HIDE DEF primed
<1>8. Asked(c, playing(queued)) /\ Asked(c, playing(primed))
  BY <1>2, <1>3, <1>5, <1>6, <1>7
<1> HIDE DEF playing
<1>9. Asked(c, PlayFrame(playing(queued), n)) /\ Asked(c, PlayFrame(playing(primed), n))
  BY <1>8, PlayFrameAsked
<1>10. ReceiveFrame(d, n) \in {queued, primed, PlayFrame(playing(queued), n),
                               PlayFrame(playing(primed), n)}
  BY Zenon DEF ReceiveFrame, playing, primed, queued, start, q
<1> QED BY <1>3, <1>6, <1>9, <1>10

\* The bookkeeping of the client asks for nothing, at the end of a segment too.
LEMMA CountFrameAsked ==
  ASSUME NEW c, NEW d, Asked(c, d), NEW k \in Nat, NEW b \in BOOLEAN
  PROVE  /\ Asked(c, [d EXCEPT !.frame_num = k]) /\ Asked(c, CountFrame(d))
         /\ Asked(c, [d EXCEPT !.tmp_num = k]) /\ Asked(c, [d EXCEPT !.m_dashClient = b])
<1>1. PICK Q : d \in LooseClient(Q)
  BY DEF Asked
<1>2. Asked(c, [d EXCEPT !.frame_num = k])
  <2> DEFINE t == [d EXCEPT !.frame_num = k]
  <2>1. /\ t \in LooseClient(Q) /\ t.m_segmentId = d.m_segmentId
        /\ t.video_series = d.video_series /\ t.outbox = d.outbox
    BY <1>1 DEF LooseClient
  <2> HIDE DEF t
  <2>2. Asked(c, t)
    BY <2>1, AskedSame
  <2> QED BY <2>2 DEF t
<1>3. Asked(c, [d EXCEPT !.tmp_num = k])
  <2> DEFINE t == [d EXCEPT !.tmp_num = k]
  <2>1. /\ t \in LooseClient(Q) /\ t.m_segmentId = d.m_segmentId
        /\ t.video_series = d.video_series /\ t.outbox = d.outbox
    BY <1>1 DEF LooseClient
  <2> HIDE DEF t
  <2>2. Asked(c, t)
    BY <2>1, AskedSame
  <2> QED BY <2>2 DEF t
<1>4. Asked(c, [d EXCEPT !.m_dashClient = b])
  <2> DEFINE t == [d EXCEPT !.m_dashClient = b]
  <2>1. /\ t \in LooseClient(Q) /\ t.m_segmentId = d.m_segmentId
        /\ t.video_series = d.video_series /\ t.outbox = d.outbox
    BY <1>1 DEF LooseClient
  <2> HIDE DEF t
  <2>2. Asked(c, t)
    BY <2>1, AskedSame
  <2> QED BY <2>2 DEF t
<1>5. Asked(c, CountFrame(d))
  <2> DEFINE tmp == IF d.v_num + 1 # SegCount THEN d.frame_num ELSE d.tmp_num
             v == d.v_num + 1
             s == d.seg_num + 1
             t == [d EXCEPT !.tmp_num = tmp, !.frame_num = 0, !.v_num = v, !.seg_num = s]
  <2>1. tmp \in Nat /\ v \in Nat /\ s \in Nat
    BY <1>1 DEF LooseClient
  <2>2. CountFrame(d) \in {d, t}
    BY DEF CountFrame
  <2> HIDE DEF tmp, v, s
  <2>3. /\ t \in LooseClient(Q) /\ t.m_segmentId = d.m_segmentId
        /\ t.video_series = d.video_series /\ t.outbox = d.outbox
    BY <1>1, <2>1 DEF LooseClient
  <2> HIDE DEF t
  <2>4. Asked(c, t)
    BY <2>3, AskedSame
  <2> QED BY <2>2, <2>4
<1> QED BY <1>2, <1>3, <1>4, <1>5

\* DashClient::MessageReceived asks for what its calls ask for.
LEMMA MessageReceivedAsked ==
  ASSUME NEW c \in Client, c.outbox = <<>>, NEW n \in PacketNums, NEW m \in PacketNums
  PROVE  Asked(c, MessageReceived(c, n, m))
<1> DEFINE k == c.frame_num + 1
           taken == ReceiveFrame([c EXCEPT !.frame_num = k], n)
           counted == CountFrame(taken)
           closed == [counted EXCEPT !.tmp_num = 0]
           asked == IF counted.seg_num <= init_buffer + req_num
                    THEN RequestSegment(closed, m) ELSE closed
<1>1. k \in Nat
  BY DEF Client
<1>2. Asked(c, taken)
  <2> HIDE DEF k
  <2> QED BY <1>1, AskedNothing, CountFrameAsked, ReceiveFrameAsked
<1>3. Asked(c, counted)
  <2> HIDE DEF taken
  <2> QED BY <1>2, CountFrameAsked
<1>4. Asked(c, closed)
  <2> HIDE DEF counted
  <2> QED BY <1>3, CountFrameAsked
<1>5. Asked(c, asked)
  <2> HIDE DEF counted, closed
  <2> QED BY <1>4, RequestAsked
<1>6. MessageReceived(c, n, m) \in {counted, [asked EXCEPT !.m_dashClient = TRUE]}
  BY Zenon DEF MessageReceived
<1> HIDE DEF counted, asked
<1>7. Asked(c, [asked EXCEPT !.m_dashClient = TRUE])
  BY <1>5, CountFrameAsked
<1> QED BY <1>3, <1>6, <1>7

\* The table of a client is a table of sums.
LEMMA SumsTable ==
  ASSUME NEW c \in Client, NEW f, Sums(c, f)
  PROVE  /\ SegCount + 1 \in Nat
         /\ \A s \in 1 .. SegCount + 1 : s - 1 \in Cells
         /\ PartialSums(f, [s \in 1 .. SegCount + 1 |-> c.video_series[s - 1]], SegCount + 1)
<1> DEFINE N == SegCount + 1
           h == [s \in 1 .. N |-> c.video_series[s - 1]]
<1>1. N \in Nat /\ \A s \in 1 .. N : s - 1 \in Cells
  BY SegCountAssumption DEF Cells
<1>2. f \in [0 .. N -> Int] /\ f[0] = 0
  BY DEF Sums
<1>3. ASSUME NEW s \in 1 .. N PROVE f[s] = f[s - 1] + h[s]
  <2>1. s - 1 \in Cells /\ s - 1 + 1 = s
    BY <1>1
  <2> QED BY <2>1 DEF Sums
<1>4. PartialSums(f, h, N)
  <2> HIDE DEF N, h
  <2> QED BY <1>2, <1>3 DEF PartialSums
<1> QED BY <1>1, <1>4

\* Tables agree as far as the series do.
LEMMA SumsAgree ==
  ASSUME NEW c \in Client, NEW d \in Client, NEW f, NEW e, Sums(c, f), Sums(d, e),
         NEW n \in 0 .. SegCount + 1,
         \A s \in Cells : s < n => d.video_series[s] = c.video_series[s]
  PROVE  f[n] = e[n]
<1> DEFINE N == SegCount + 1
           h == [s \in 1 .. N |-> c.video_series[s - 1]]
           l == [s \in 1 .. N |-> d.video_series[s - 1]]
<1>1. /\ N \in Nat /\ PartialSums(f, h, N) /\ PartialSums(e, l, N)
      /\ \A s \in 1 .. N : s - 1 \in Cells
  BY SumsTable
<1>2. n \in Nat /\ n <= N
  BY <1>1
<1>3. ASSUME NEW s \in 1 .. n PROVE h[s] = l[s]
  <2>1. s \in 1 .. N /\ s - 1 < n
    <3> HIDE DEF N
    <3> QED BY <1>1, <1>2
  <2> QED BY <2>1, <1>1
<1> HIDE DEF N, h, l
<1> QED BY <1>1, <1>2, <1>3, PartialSumsUnique

\* The order does not depend on what the client is about to send.
LEMMA OrderedOutbox ==
  ASSUME NEW d \in Client, NEW u, NEW q, Ordered(d, u, q)
  PROVE  Ordered([d EXCEPT !.outbox = <<>>], u, q)
<1> DEFINE e == [d EXCEPT !.outbox = <<>>]
<1>1. /\ e.m_segmentId = d.m_segmentId /\ e.video_series = d.video_series
      /\ e.v_num = d.v_num /\ e.frame_num = d.frame_num
  BY DEF Client
<1> HIDE DEF e
<1>2. \A f : /\ Sums(e, f) <=> Sums(d, f)
             /\ Received(e, f) = Received(d, f)
  BY <1>1, Zenon DEF Sums, Received
<1>3. Ordered(e, u, q)
  BY <1>1, <1>2 DEF Ordered
<1> QED BY <1>3 DEF e

\* A function from 1 .. n is a sequence of length n.
LEMMA FunctionIsSeq ==
  ASSUME NEW S, NEW n \in Nat, NEW w \in [1 .. n -> S]
  PROVE  w \in Seq(S) /\ Len(w) = n
  OBVIOUS

\* A handler of the client keeps the order: its requests follow those under way,
\* and the frame it takes is the first of those that come.
LEMMA OrderedClient ==
  ASSUME NEW c \in Client, NEW d \in Client, Asked(c, d),
         NEW f, NEW e, Sums(c, f), Sums(d, e), Received(c, f) \in Nat,
         NEW u \in Seq(Seq(Request)), NEW q \in Seq(Cells), NEW p \in Seq(Cells),
         Ordered(c, u, q),
         \/ p = q /\ Received(d, e) = Received(c, f)
         \/ q # <<>> /\ p = Tail(q) /\ Received(d, e) = Received(c, f) + 1
  PROVE  Ordered(d, u \o [i \in 1 .. Len(d.outbox) |-> <<d.outbox[i]>>], p)
<1> DEFINE g == c.m_segmentId
           a == g - Len(u)
           o == Len(d.outbox)
           w == [i \in 1 .. o |-> <<d.outbox[i]>>]
           v == u \o w
<1>1. /\ g \in 0 .. SegCount + 1 /\ d.m_segmentId \in 0 .. SegCount + 1
      /\ d.v_num \in 0 .. SegCount + 1 /\ d.outbox \in Seq(Request)
      /\ SegCount \in Nat
  BY SegCountAssumption DEF Client
<1>2. o \in Nat /\ Len(u) \in Nat /\ d.m_segmentId = g + o
  BY <1>1 DEF Asked
<1>3. w \in Seq(Seq(Request)) /\ Len(w) = o
  <2>1. \A i \in 1 .. o : d.outbox[i] \in Request
    BY <1>1
  <2>2. \A i \in 1 .. o : <<d.outbox[i]>> \in Seq(Request)
    BY <2>1
  <2> HIDE DEF o
  <2>3. w \in [1 .. o -> Seq(Request)]
    BY <2>2
  <2> HIDE DEF w
  <2> QED BY <1>2, <2>3, FunctionIsSeq
<1>4. /\ Len(v) = Len(u) + o
      /\ \A i \in 1 .. Len(u) : v[i] = u[i]
      /\ \A i \in 1 .. o : v[Len(u) + i] = <<d.outbox[i]>>
  <2>1. \A i \in 1 .. o : w[i] = <<d.outbox[i]>>
    OBVIOUS
  <2> DEFINE S == Seq(Request)
  <2>2. u \in Seq(S) /\ w \in Seq(S) /\ Len(w) = o
    BY <1>3
  <2>3. /\ Len(v) = Len(u) + Len(w)
        /\ \A i \in 1 .. Len(u) + Len(w) :
             v[i] = IF i <= Len(u) THEN u[i] ELSE w[i - Len(u)]
    <3> HIDE DEF w, o, S
    <3> QED BY <2>2, ConcatProperties
  <2> HIDE DEF v, w, o
  <2>4. ASSUME NEW i \in 1 .. o PROVE v[Len(u) + i] = <<d.outbox[i]>>
    <3>1. Len(u) + i \in 1 .. Len(u) + Len(w) /\ ~(Len(u) + i <= Len(u))
          /\ Len(u) + i - Len(u) = i
      BY <1>2, <2>2
    <3> DEFINE j == Len(u) + i
    <3>2. j \in 1 .. Len(u) + Len(w) /\ ~(j <= Len(u)) /\ j - Len(u) = i
      BY <3>1
    <3> HIDE DEF j
    <3>3. v[j] = w[i]
      BY <3>2, <2>3
    <3> QED BY <3>3, <2>1 DEF j
  <2>5. \A i \in 1 .. Len(u) : v[i] = u[i]
    BY <1>2, <2>2, <2>3
  <2> QED BY <2>2, <2>3, <2>4, <2>5
<1>5. /\ a \in Nat /\ a <= g
      /\ \A i \in 1 .. Len(u) :
           /\ a + i - 1 \in Cells
           /\ u[i] = <<[seg |-> a + i - 1, num |-> c.video_series[a + i - 1]]>>
  <2>1. a = c.m_segmentId - Len(u)
    OBVIOUS
  <2>2. /\ a \in Nat
        /\ \A i \in 1 .. Len(u) :
             /\ a + i - 1 \in Cells
             /\ u[i] = <<[seg |-> a + i - 1, num |-> c.video_series[a + i - 1]]>>
    <3> HIDE DEF a, g
    <3> QED BY <2>1, Zenon DEF Ordered
  <2>3. a <= g
    BY <1>1, <1>2
  <2> HIDE DEF a, g
  <2> QED BY <2>2, <2>3
<1>10. a = g - Len(u) /\ g \in Nat /\ a \in Nat
  BY <1>1, <1>5
<1>6. d.m_segmentId - Len(v) = a
  BY <1>1, <1>2, <1>4
<1>7. ASSUME NEW i \in 1 .. Len(v)
      PROVE  /\ a + i - 1 \in Cells
             /\ v[i] = <<[seg |-> a + i - 1, num |-> d.video_series[a + i - 1]]>>
  <2>1. CASE i \in 1 .. Len(u)
    <3>1. a + i - 1 \in Cells /\ a + i - 1 < g
      <4>1. a + i - 1 \in Cells
        BY <2>1, <1>5
      <4> HIDE DEF a, g
      <4>2. a + i - 1 < g
        BY <2>1, <1>2, <1>10
      <4> QED BY <4>1, <4>2
    <3>2. d.video_series[a + i - 1] = c.video_series[a + i - 1]
      BY <3>1 DEF Asked
    <3> QED BY <2>1, <3>1, <3>2, <1>4, <1>5
  <2>2. CASE i > Len(u)
    <3> DEFINE j == i - Len(u)
    <3>1. j \in 1 .. o /\ i = Len(u) + j /\ g + j - 1 = a + i - 1
      <4>1. i \in 1 .. Len(u) + o /\ Len(u) \in Nat /\ o \in Nat
        BY <1>2, <1>4
      <4> HIDE DEF a, g, o, v
      <4> QED BY <4>1, <2>2, <1>10
    <3> HIDE DEF j
    <3>2. /\ g + j - 1 \in Cells
          /\ d.outbox[j] = [seg |-> g + j - 1, num |-> d.video_series[g + j - 1]]
      BY <3>1 DEF Asked
    <3>3. v[i] = <<d.outbox[j]>>
      BY <3>1, <1>4
    <3> HIDE DEF v, g, a
    <3> QED BY <3>1, <3>2, <3>3
  <2>3. i \in 1 .. Len(u) \/ i > Len(u)
    BY <1>2, <1>4
  <2> QED BY <2>1, <2>2, <2>3
<1> HIDE DEF v, w, o
<1>8. ASSUME NEW b, Sums(d, b)
      PROVE  /\ Received(d, b) + Len(p) = b[a]
             /\ \A i \in 1 .. Len(p) :
                  b[p[i]] < Received(d, b) + i /\ Received(d, b) + i <= b[p[i] + 1]
  <2>1. Received(d, b) = Received(d, e)
    <3>1. e[d.v_num] = b[d.v_num]
      BY <1>1, <1>8, SumsAgree
    <3> QED BY <3>1 DEF Received
  <2>2. ASSUME NEW x \in Nat, x <= g PROVE b[x] = f[x]
    <3>1. x \in 0 .. SegCount + 1
      BY <2>2, <1>1
    <3>2. \A s \in Cells : s < x => d.video_series[s] = c.video_series[s]
      <4> SUFFICES ASSUME NEW s \in Cells, s < x
                   PROVE  d.video_series[s] = c.video_series[s]
        OBVIOUS
      <4>1. s < g
        BY <2>2, <1>1, SegCountAssumption DEF Cells
      <4> QED BY <4>1 DEF Asked
    <3> QED BY <3>1, <3>2, <1>8, SumsAgree
  <2> DEFINE r == Received(c, f)
             t == Received(d, b)
  <2>3. /\ r + Len(q) = f[a]
        /\ \A j \in 1 .. Len(q) : f[q[j]] < r + j /\ r + j <= f[q[j] + 1]
    BY DEF Ordered
  <2>4. ASSUME NEW j \in 1 .. Len(q)
        PROVE  /\ b[q[j]] < r + j /\ r + j <= b[q[j] + 1]
    <3>1. q[j] \in Cells /\ Len(q) \in Nat
      OBVIOUS
    <3>2. q[j] \in 0 .. SegCount + 1 /\ a \in 0 .. SegCount + 1 /\ q[j] \in Nat
          /\ q[j] + 1 \in Nat
      <4> DEFINE x == q[j]
      <4>1. x \in 0 .. SegCount
        BY <3>1 DEF Cells
      <4> HIDE DEF x, a, g
      <4>2. /\ x \in 0 .. SegCount + 1 /\ a \in 0 .. SegCount + 1 /\ x \in Nat
            /\ x + 1 \in Nat
        <5>1. g <= SegCount + 1
          BY <1>1 DEF g
        <5> QED BY <4>1, <5>1, <1>1, <1>5, <1>10
      <4> QED BY <4>2 DEF x
    <3>3. f[a] \in Nat /\ f[q[j]] \in Nat /\ (a <= q[j] => f[a] <= f[q[j]])
      BY <3>2 DEF Sums
    <3> HIDE DEF a, g, r
    <3>4. f[q[j]] < f[a]
      <4>1. r \in Nat
        BY DEF r
      <4> QED BY <4>1, <2>3, <3>1, <3>3
    <3>5. ~(a <= q[j])
      BY <3>3, <3>4
    <3>6. q[j] + 1 <= g /\ q[j] <= g
      BY <3>2, <3>5, <1>1, <1>5
    <3>7. b[q[j]] = f[q[j]] /\ b[q[j] + 1] = f[q[j] + 1]
      BY <3>2, <3>6, <2>2
    <3> QED BY <3>7, <2>3
  <2>5. b[a] = f[a]
    BY <1>5, <2>2
  <2> HIDE DEF a, g, r, t
  <2>6. r \in Nat
    BY DEF r
  <2>7. CASE p = q /\ Received(d, e) = Received(c, f)
    <3>1. t = r
      BY <2>1, <2>7 DEF r, t
    <3> QED BY <2>3, <2>4, <2>5, <2>7, <3>1 DEF t
  <2>8. CASE q # <<>> /\ p = Tail(q) /\ Received(d, e) = Received(c, f) + 1
    <3>1. t = r + 1
      BY <2>1, <2>8 DEF r, t
    <3>2. /\ Len(q) \in Nat /\ Len(q) = Len(p) + 1 /\ Len(p) \in Nat
          /\ \A i \in 1 .. Len(p) : p[i] = q[i + 1]
      BY <2>8
    <3>3. t + Len(p) = b[a]
      BY <2>3, <2>5, <2>6, <3>1, <3>2
    <3>4. ASSUME NEW i \in 1 .. Len(p) PROVE b[p[i]] < t + i /\ t + i <= b[p[i] + 1]
      <4>1. i + 1 \in 1 .. Len(q) /\ p[i] = q[i + 1] /\ t + i = r + (i + 1)
        BY <2>6, <3>1, <3>2
      <4> QED BY <4>1, <2>4
    <3> QED BY <3>3, <3>4 DEF t
  <2> QED BY <2>7, <2>8
<1>9. Ordered(d, v, p)
  <2> HIDE DEF a, g
  <2> QED BY <1>5, <1>6, <1>7, <1>8 DEF Ordered
<1> QED BY <1>9 DEF v, w, o

\* The frames of a segment, as SendSegment queues them.
LEMMA FramesAreSeq ==
  ASSUME NEW n \in Nat, NEW s \in Cells
  PROVE  [i \in 1 .. n |-> s] \in Seq(Cells) /\ Len([i \in 1 .. n |-> s]) = n
  OBVIOUS

\* The server's answer to a read brings the frames that were asked for next.
LEMMA OrderedServer ==
  ASSUME NEW c \in Client, NEW f, Sums(c, f),
         Received(c, f) \in Nat,
         NEW u \in Seq(Seq(Request)), u # <<>>, NEW q \in Seq(Cells), Ordered(c, u, q)
  PROVE  LET r == Head(Head(u))
         IN  /\ r.num \in Nat /\ r.seg \in Cells
             /\ [i \in 1 .. r.num |-> r.seg] \in Seq(Cells)
             /\ Ordered(c, Tail(u), q \o [i \in 1 .. r.num |-> r.seg])
<1> DEFINE g == c.m_segmentId
           a == g - Len(u)
           r == Head(Head(u))
           w == [i \in 1 .. r.num |-> r.seg]
           t == Tail(u)
           p == q \o w
           k == Received(c, f)
<1>1. /\ g \in Nat /\ g <= SegCount + 1 /\ SegCount \in Nat
      /\ Len(u) \in Nat /\ Len(u) >= 1
  BY SegCountAssumption DEF Client
<1>2. /\ a \in Nat
      /\ \A i \in 1 .. Len(u) :
           /\ a + i - 1 \in Cells
           /\ u[i] = <<[seg |-> a + i - 1, num |-> c.video_series[a + i - 1]]>>
  BY DEF Ordered
<1>3. a = g - Len(u) /\ a < SegCount + 1
  BY <1>1, <1>2
<1> HIDE DEF a, g
<1>4. a \in Cells /\ r = [seg |-> a, num |-> c.video_series[a]]
  <2>1. a + 1 - 1 = a /\ 1 \in 1 .. Len(u)
    BY <1>1, <1>2
  <2>2. a \in Cells /\ u[1] = <<[seg |-> a, num |-> c.video_series[a]]>>
    BY <1>2, <2>1
  <2> QED BY <2>2
<1>5. c.video_series[a] \in Nat
  BY <1>4, SeriesNat
<1> DEFINE n == c.video_series[a]
<1>6. r.num = n /\ r.seg = a /\ n \in Nat
  BY <1>4, <1>5
<1> HIDE DEF r, n
<1>7. w \in Seq(Cells) /\ Len(w) = n /\ \A i \in 1 .. n : w[i] = a
  <2>1. r.num \in Nat /\ r.seg \in Cells
    BY <1>4, <1>6
  <2>2. w \in Seq(Cells) /\ Len(w) = r.num
    BY <2>1, FramesAreSeq
  <2>3. \A i \in 1 .. r.num : w[i] = r.seg
    OBVIOUS
  <2> HIDE DEF w
  <2> QED BY <2>2, <2>3, <1>6
<1> HIDE DEF w
<1>8. /\ p \in Seq(Cells) /\ Len(p) = Len(q) + n
      /\ \A i \in 1 .. Len(q) + n : p[i] = IF i <= Len(q) THEN q[i] ELSE w[i - Len(q)]
  <2>1. /\ p \in Seq(Cells) /\ Len(p) = Len(q) + Len(w)
        /\ \A i \in 1 .. Len(q) + Len(w) :
             p[i] = IF i <= Len(q) THEN q[i] ELSE w[i - Len(q)]
    BY <1>7, ConcatProperties
  <2> QED BY <2>1, <1>7
<1> HIDE DEF p
<1>9. /\ Len(t) = Len(u) - 1 /\ \A i \in 1 .. Len(t) : t[i] = u[i + 1]
  BY <1>1
<1> HIDE DEF t
<1>10. g - Len(t) = a + 1 /\ a + 1 \in Nat
  BY <1>1, <1>2, <1>3, <1>9
<1>11. ASSUME NEW i \in 1 .. Len(t)
       PROVE  /\ (a + 1) + i - 1 \in Cells
              /\ t[i] = <<[seg |-> (a + 1) + i - 1, num |-> c.video_series[(a + 1) + i - 1]]>>
  <2>1. i + 1 \in 1 .. Len(u) /\ (a + 1) + i - 1 = a + (i + 1) - 1
    BY <1>1, <1>2, <1>9
  <2> QED BY <2>1, <1>2, <1>9
<1>12. ASSUME NEW b, Sums(c, b)
       PROVE  /\ Received(c, b) + Len(p) = b[a + 1]
              /\ \A i \in 1 .. Len(p) :
                   b[p[i]] < Received(c, b) + i /\ Received(c, b) + i <= b[p[i] + 1]
  <2>1. Received(c, b) = k
    <3>1. c.v_num \in 0 .. SegCount + 1
      BY DEF Client
    <3>2. b[c.v_num] = f[c.v_num]
      BY <3>1, <1>12, SumsAgree
    <3> QED BY <3>2 DEF Received
  <2>2. /\ k + Len(q) = b[a]
        /\ \A i \in 1 .. Len(q) : b[q[i]] < k + i /\ k + i <= b[q[i] + 1]
    BY <1>12, <2>1 DEF Ordered, a, g
  <2>3. b[a + 1] = b[a] + n
    BY <1>4, <1>12 DEF Sums, n
  <2> HIDE DEF k
  <2>4. k \in Nat /\ Len(q) \in Nat
    BY DEF k
  <2>5. k + Len(p) = b[a + 1]
    BY <2>2, <2>3, <2>4, <1>6, <1>8
  <2>6. ASSUME NEW i \in 1 .. Len(p) PROVE b[p[i]] < k + i /\ k + i <= b[p[i] + 1]
    <3>1. CASE i <= Len(q)
      <4>1. i \in 1 .. Len(q) /\ p[i] = q[i]
        BY <3>1, <2>4, <1>6, <1>8
      <4> QED BY <4>1, <2>2
    <3>2. CASE ~(i <= Len(q))
      <4>1. i - Len(q) \in 1 .. n
        BY <3>2, <2>4, <1>6, <1>8
      <4>2. p[i] = a
        BY <3>2, <4>1, <1>7, <1>8
      <4>3. b[a] < k + i /\ k + i <= b[a + 1]
        BY <3>2, <2>2, <2>4, <2>5, <1>6, <1>8
      <4> QED BY <4>2, <4>3
    <3> QED BY <3>1, <3>2
  <2> QED BY <2>1, <2>5, <2>6
<1>13. Ordered(c, t, p)
  BY <1>10, <1>11, <1>12 DEF Ordered, g
<1> QED BY <1>4, <1>6, <1>7, <1>13 DEF t, p, w, r

\* DataSend moves frames from the queue to the socket and keeps their order.
LEMMA DataSendKeeps ==
  ASSUME NEW frames \in Seq(Cells), wire \in Seq(Cells), Len(wire) <= TxBuffer,
         DataSend(frames)
  PROVE  wire' \o queue' = wire \o frames
<1> DEFINE room == TxBuffer - Len(wire)
           sent == IF Len(frames) < room THEN Len(frames) ELSE room
           x == SubSeq(frames, 1, sent)
           y == SubSeq(frames, sent + 1, Len(frames))
<1>1. TxBuffer \in Nat /\ Len(wire) \in Nat /\ Len(frames) \in Nat
  BY TxBufferAssumption
<1>2. sent \in 0 .. Len(frames)
  BY <1>1
<1>3. wire' = wire \o x /\ queue' = y
  BY DEF DataSend
<1> HIDE DEF sent, room
<1>4. x \in Seq(Cells) /\ y \in Seq(Cells)
  BY <1>1, <1>2
<1>5. x \o y = frames
  <2>1. 1 \in 1 .. Len(frames) + 1 /\ sent \in 1 - 1 .. Len(frames)
        /\ Len(frames) \in sent .. Len(frames)
    BY <1>1, <1>2
  <2>2. x \o y = SubSeq(frames, 1, Len(frames))
    BY <2>1, ConcatAdjacentSubSeq
  <2> QED BY <2>2, SubSeqFull
<1> HIDE DEF x, y
<1>6. (wire \o x) \o y = wire \o (x \o y)
  BY <1>4, ConcatAssociative
<1> QED BY <1>3, <1>5, <1>6

\* Nothing is under way when the applications start.
LEMMA InitInOrder == Init => InOrder
<1> SUFFICES ASSUME Init PROVE Ordered(client, uplink, wire \o queue)
  BY DEF InOrder
<1>1. /\ client.m_segmentId = 0 /\ client.v_num = 0 /\ client.frame_num = 0
      /\ uplink = <<>> /\ wire \o queue = <<>>
  BY DEF Init, InitClient
<1>2. ASSUME NEW f, Sums(client, f) PROVE Received(client, f) + 0 = f[0]
  BY <1>1, <1>2 DEF Received, Sums
<1> QED BY <1>1, <1>2 DEF Ordered

\* The end of a client's handler, at the level of the invariant.
LEMMA ClientInOrder ==
  ASSUME IInv, InOrder, options' = options, queue' = queue,
         NEW d \in Client, Asked(client, d), ClientDone(d),
         NEW f, NEW e, Sums(client, f), Sums(d, e), Received(client, f) \in Nat,
         \/ wire' = wire /\ Received(d, e) = Received(client, f)
         \/ /\ wire # <<>> /\ wire' = Tail(wire)
            /\ Received(d, e) = Received(client, f) + 1
  PROVE  InOrder'
<1> SUFFICES ASSUME ~options.coalescing
             PROVE  Ordered(client', uplink', wire' \o queue')
  BY DEF InOrder, Ordered, Received, Sums
<1> DEFINE w == [i \in 1 .. Len(d.outbox) |-> <<d.outbox[i]>>]
           q == wire \o queue
           p == wire' \o queue
<1>1. /\ uplink' = uplink \o w /\ client' = [d EXCEPT !.outbox = <<>>]
  BY DEF ClientDone
<1>2. /\ client \in Client /\ uplink \in Seq(Seq(Request))
      /\ wire \in Seq(Cells) /\ queue \in Seq(Cells)
  BY IInvFacts
<1>3. q \in Seq(Cells)
  BY <1>2, ConcatProperties
<1>4. /\ p \in Seq(Cells)
      /\ \/ p = q /\ Received(d, e) = Received(client, f)
         \/ q # <<>> /\ p = Tail(q) /\ Received(d, e) = Received(client, f) + 1
  <2>1. CASE wire' = wire /\ Received(d, e) = Received(client, f)
    <3>1. p = q
      BY <2>1
    <3> HIDE DEF p, q
    <3> QED BY <2>1, <3>1, <1>3
  <2>2. CASE /\ wire # <<>> /\ wire' = Tail(wire)
             /\ Received(d, e) = Received(client, f) + 1
    <3>1. p \in Seq(Cells) /\ q # <<>> /\ p = Tail(q)
      BY <2>2, <1>2
    <3> HIDE DEF p, q
    <3> QED BY <2>2, <3>1
  <2> QED BY <2>1, <2>2
<1>5. Ordered(client, uplink, q)
  BY DEF InOrder
<1> HIDE DEF p, q
<1>6. Ordered(d, uplink \o w, p)
  BY <1>2, <1>3, <1>4, <1>5, OrderedClient
<1> HIDE DEF w
<1>7. Ordered(client', uplink', p)
  BY <1>1, <1>6, OrderedOutbox
<1> QED BY <1>7 DEF p

\* The request of the first segment is the first to be under way.
LEMMA ConnectionSucceededInOrder ==
  IInv /\ InOrder /\ ConnectionSucceeded => InOrder'
<1> SUFFICES ASSUME IInv, InOrder, ConnectionSucceeded PROVE InOrder'
  OBVIOUS
<1>1. PICK f : Between(client, f) /\ f[client.m_segmentId] \in Nat /\ Received(client, f) \in Nat
  BY IInvFacts
<1> DEFINE c == [client EXCEPT !.m_connected = TRUE]
           d(n) == RequestSegment(c, n)
<1>2. PICK n, e :
        /\ n \in PacketNums /\ ClientDone(d(n)) /\ Handled(client, d(n), f, e)
        /\ Received(d(n), e) = Received(client, f)
  BY <1>1, ConnectionSucceededFacts
<1>3. client \in Client /\ client.outbox = <<>>
  BY IInvFacts
<1>4. Asked(client, d(n))
  <2>1. Asked(client, client) /\ client \in LooseClient(Nat)
    BY <1>3, AskedNothing, ClientIsLoose
  <2>2. /\ c \in LooseClient(Nat) /\ c.m_segmentId = client.m_segmentId
        /\ c.video_series = client.video_series /\ c.outbox = client.outbox
    BY <2>1 DEF LooseClient
  <2> HIDE DEF c
  <2>3. Asked(client, c)
    BY <2>1, <2>2, AskedSame
  <2>4. n \in PacketNums
    BY <1>2
  <2>5. Asked(client, RequestSegment(c, n))
    BY <2>3, <2>4, <1>3, RequestAsked
  <2> QED BY <2>5 DEF d
<1> HIDE DEF d
<1>5. Sums(client, f) /\ d(n) \in Client /\ Sums(d(n), e)
  BY <1>1, <1>2 DEF Between, Sound, Handled
<1>6. options' = options /\ queue' = queue /\ wire' = wire
  BY DEF ConnectionSucceeded
<1> QED BY <1>1, <1>2, <1>4, <1>5, <1>6, ClientInOrder

\* A play asks for the next segment, behind those under way.
LEMMA PlayFrameEventInOrder ==
  IInv /\ InOrder /\ PlayFrameEvent => InOrder'
<1> SUFFICES ASSUME IInv, InOrder, PlayFrameEvent PROVE InOrder'
  OBVIOUS
<1>1. PICK f : Between(client, f) /\ f[client.m_segmentId] \in Nat /\ Received(client, f) \in Nat
  BY IInvFacts
<1> DEFINE k == client.plays - 1
           c == [client EXCEPT !.plays = k]
           d(n) == PlayFrame(c, n)
<1>2. PICK n, e :
        /\ n \in PacketNums /\ ClientDone(d(n)) /\ Handled(client, d(n), f, e)
        /\ Received(d(n), e) = Received(client, f)
  BY <1>1, PlayFrameEventFacts
<1>3. client \in Client /\ client.outbox = <<>>
  BY IInvFacts
<1>4. Asked(client, d(n))
  <2>1. Asked(client, client) /\ client \in LooseClient(Nat)
    BY <1>3, AskedNothing, ClientIsLoose
  <2>2. k \in Nat
    BY <1>3 DEF PlayFrameEvent, Client
  <2> HIDE DEF k
  <2>3. /\ c \in LooseClient(Nat) /\ c.m_segmentId = client.m_segmentId
        /\ c.video_series = client.video_series /\ c.outbox = client.outbox
    BY <2>1, <2>2 DEF LooseClient
  <2> HIDE DEF c
  <2>4. Asked(client, c)
    BY <2>1, <2>3, AskedSame
  <2>5. n \in PacketNums
    BY <1>2
  <2>6. Asked(client, PlayFrame(c, n))
    BY <2>4, <2>5, <1>3, PlayFrameAsked
  <2> QED BY <2>6 DEF d
<1> HIDE DEF d
<1>5. Sums(client, f) /\ d(n) \in Client /\ Sums(d(n), e)
  BY <1>1, <1>2 DEF Between, Sound, Handled
<1>6. options' = options /\ queue' = queue /\ wire' = wire
  BY DEF PlayFrameEvent
<1> QED BY <1>1, <1>2, <1>4, <1>5, <1>6, ClientInOrder

\* The client takes the first of the frames that come.
LEMMA ClientHandleReadInOrder ==
  IInv /\ InOrder /\ ClientHandleRead => InOrder'
<1> SUFFICES ASSUME IInv, InOrder, ClientHandleRead PROVE InOrder'
  OBVIOUS
<1>1. PICK f, h :
        /\ Between(client, f) /\ Asks(h, uplink)
        /\ f[client.m_segmentId] \in Nat /\ Received(client, f) \in Nat
        /\ h[1] \in Nat
        /\ Received(client, f) + Len(wire) + Len(queue) + h[1] <= f[client.m_segmentId]
  BY IInvFacts
<1>2. /\ client \in Client /\ client.outbox = <<>> /\ options \in Options
      /\ wire \in Seq(Cells) /\ Len(wire) \in Nat /\ Len(queue) \in Nat
  BY IInvFacts
<1>3. wire # <<>> /\ wire' = Tail(wire) /\ options' = options /\ queue' = queue
  BY DEF ClientHandleRead
<1>4. PICK n \in PacketNums, m \in PacketNums : ClientDone(MessageReceived(client, n, m))
  BY DEF ClientHandleRead
<1> DEFINE d == MessageReceived(client, n, m)
<1>5. Received(client, f) + 1 <= f[client.m_segmentId]
  <2>1. Len(wire) >= 1
    BY <1>2, <1>3
  <2> QED BY <2>1, <1>1, <1>2
<1>6. \E e : Handled(client, d, f, e) /\ Received(d, e) = Received(client, f) + 1
  BY <1>1, <1>2, <1>5, MessageReceivedFacts
<1>7. Asked(client, d)
  BY <1>2, MessageReceivedAsked
<1> HIDE DEF d
<1>8. PICK e : Handled(client, d, f, e) /\ Received(d, e) = Received(client, f) + 1
  BY <1>6
<1>9. Sums(client, f) /\ d \in Client /\ Sums(d, e)
  BY <1>1, <1>8 DEF Between, Sound, Handled
<1> QED BY <1>1, <1>3, <1>4, <1>7, <1>8, <1>9, ClientInOrder DEF d

\* The server queues the frames of the next segment behind those under way.
LEMMA ServerInOrder ==
  IInv /\ InOrder /\ (ServerHandleRead \/ ServerDataSend) => InOrder'
<1> SUFFICES ASSUME IInv, InOrder, ServerHandleRead \/ ServerDataSend,
                    ~options.coalescing
             PROVE  Ordered(client, uplink', wire' \o queue')
  BY DEF InOrder, ServerHandleRead, ServerDataSend, Ordered, Received, Sums
<1>1. PICK f : Between(client, f) /\ Received(client, f) \in Nat
  BY IInvFacts
<1>2. /\ client \in Client /\ uplink \in Seq(Seq(Request))
      /\ wire \in Seq(Cells) /\ Len(wire) <= TxBuffer /\ queue \in Seq(Cells)
  BY IInvFacts
<1>3. Sums(client, f)
  BY <1>1 DEF Between, Sound
<1>4. Ordered(client, uplink, wire \o queue) /\ wire \o queue \in Seq(Cells)
  BY <1>2, ConcatProperties DEF InOrder
<1>5. CASE ServerHandleRead
  <2> DEFINE r == Head(Head(uplink))
             w == [i \in 1 .. r.num |-> r.seg]
  <2>1. uplink # <<>> /\ uplink' = Tail(uplink) /\ DataSend(queue \o w)
    BY <1>5 DEF ServerHandleRead
  <2>2. w \in Seq(Cells) /\ Ordered(client, Tail(uplink), (wire \o queue) \o w)
    BY <1>1, <1>2, <1>3, <1>4, <2>1, OrderedServer
  <2> HIDE DEF w
  <2>3. queue \o w \in Seq(Cells)
    BY <1>2, <2>2, ConcatProperties
  <2>4. wire' \o queue' = wire \o (queue \o w)
    BY <1>2, <2>1, <2>3, DataSendKeeps
  <2>5. wire \o (queue \o w) = (wire \o queue) \o w
    BY <1>2, <2>2, ConcatAssociative
  <2> QED BY <2>1, <2>2, <2>4, <2>5
<1>6. CASE ServerDataSend
  <2>1. uplink' = uplink /\ DataSend(queue)
    BY <1>6 DEF ServerDataSend
  <2>2. wire' \o queue' = wire \o queue
    BY <1>2, <2>1, DataSendKeeps
  <2> QED BY <1>4, <2>1, <2>2
<1> QED BY <1>5, <1>6

\* Every step keeps the order.
LEMMA NextInOrder == IInv /\ InOrder /\ [Next]_vars => InOrder'
<1> SUFFICES ASSUME IInv, InOrder, [Next]_vars PROVE InOrder'
  OBVIOUS
<1>1. CASE ConnectionSucceeded
  BY <1>1, ConnectionSucceededInOrder
<1>2. CASE ClientHandleRead
  BY <1>2, ClientHandleReadInOrder
<1>3. CASE PlayFrameEvent
  BY <1>3, PlayFrameEventInOrder
<1>4. CASE ServerHandleRead \/ ServerDataSend
  BY <1>4, ServerInOrder
<1>5. CASE UNCHANGED vars
  <2>1. /\ client' = client /\ uplink' = uplink /\ wire' = wire /\ queue' = queue
        /\ options' = options
    BY <1>5 DEF vars
  <2> QED BY <2>1 DEF InOrder, Ordered, Received, Sums
<1> QED
  BY <1>1, <1>2, <1>3, <1>4, <1>5 DEF Next

\* How many numbers up to k are above x and not above y.
LEMMA CountBetween ==
  ASSUME NEW k \in Nat, NEW x \in Int, NEW y \in Int
  PROVE  LET C == Cardinality({i \in 1 .. k : x < i /\ i <= y})
         IN  /\ y <= 0 \/ x >= k => C = 0
             /\ x <= 0 /\ 0 <= y /\ y <= k => C = y
             /\ 0 <= x /\ x <= y /\ y <= k => C = y - x
<1> DEFINE S == {i \in 1 .. k : x < i /\ i <= y}
<1>1. ASSUME y <= 0 \/ x >= k PROVE Cardinality(S) = 0
  <2>1. S = {}
    BY <1>1
  <2> QED BY <2>1, FS_EmptySet
<1>2. ASSUME x <= 0, 0 <= y, y <= k PROVE Cardinality(S) = y
  <2>1. S = 1 .. y
    BY <1>2
  <2>2. Cardinality(1 .. y) = y
    BY <1>2, FS_Interval
  <2> QED BY <2>1, <2>2
<1>3. ASSUME 0 <= x, x <= y, y <= k PROVE Cardinality(S) = y - x
  <2>1. S = x + 1 .. y
    BY <1>3
  <2>2. Cardinality(x + 1 .. y) = y - x
    <3> DEFINE z == x + 1
    <3>1. z \in Int /\ (IF z > y THEN 0 ELSE y - z + 1) = y - x
      BY <1>3
    <3> HIDE DEF z
    <3>2. Cardinality(z .. y) = y - x
      BY <3>1, FS_Interval
    <3> QED BY <3>2 DEF z
  <2> QED BY <2>1, <2>2
<1> QED BY <1>1, <1>2, <1>3

\* The table places every frame that comes: it is one of segment s exactly if
\* its number is one of those that the table has for s.
LEMMA FramePlace ==
  ASSUME NEW c \in Client, NEW f, Sums(c, f), NEW r \in Nat, NEW q \in Seq(Cells),
         \A i \in 1 .. Len(q) : f[q[i]] < r + i /\ r + i <= f[q[i] + 1],
         NEW s \in Cells, NEW i \in 1 .. Len(q)
  PROVE  q[i] = s <=> f[s] < r + i /\ r + i <= f[s + 1]
<1> DEFINE x == q[i]
<1>1. x \in Cells
  OBVIOUS
<1>2. f[x] < r + i /\ r + i <= f[x + 1]
  OBVIOUS
<1> HIDE DEF x
<1>3. SegCount \in Nat /\ s \in 0 .. SegCount /\ x \in 0 .. SegCount
  BY <1>1, SegCountAssumption DEF Cells
<1>4. /\ s \in 0 .. SegCount + 1 /\ s + 1 \in 0 .. SegCount + 1
      /\ x \in 0 .. SegCount + 1 /\ x + 1 \in 0 .. SegCount + 1
  BY <1>3
<1>5. /\ f[s] \in Nat /\ f[s + 1] \in Nat /\ f[x] \in Nat /\ f[x + 1] \in Nat
      /\ (x + 1 <= s => f[x + 1] <= f[s]) /\ (s + 1 <= x => f[s + 1] <= f[x])
  BY <1>4 DEF Sums
<1>6. r + i \in Nat
  OBVIOUS
<1>7. ASSUME f[s] < r + i, r + i <= f[s + 1] PROVE x = s
  <2>1. ~(x + 1 <= s)
    BY <1>2, <1>5, <1>6, <1>7
  <2>2. ~(s + 1 <= x)
    BY <1>2, <1>5, <1>6, <1>7
  <2> QED BY <2>1, <2>2, <1>3
<1> QED BY <1>2, <1>7 DEF x

\* In order, the frames that come are of later and later segments.
LEMMA FramesAscend ==
  ASSUME NEW c \in Client, NEW f, Sums(c, f), NEW r \in Nat, NEW q \in Seq(Cells),
         \A i \in 1 .. Len(q) : f[q[i]] < r + i /\ r + i <= f[q[i] + 1],
         NEW i \in 1 .. Len(q), NEW j \in 1 .. Len(q), i < j
  PROVE  q[i] <= q[j]
<1> DEFINE x == q[i]
           y == q[j]
<1>1. x \in Cells /\ y \in Cells
  OBVIOUS
<1>2. f[x] < r + i /\ r + j <= f[y + 1]
  OBVIOUS
<1> HIDE DEF x, y
<1>3. SegCount \in Nat /\ y \in 0 .. SegCount /\ x \in 0 .. SegCount
  BY <1>1, SegCountAssumption DEF Cells
<1>4. x \in 0 .. SegCount + 1 /\ y + 1 \in 0 .. SegCount + 1
  BY <1>3
<1>5. f[x] \in Nat /\ f[y + 1] \in Nat /\ (y + 1 <= x => f[y + 1] <= f[x])
  BY <1>4 DEF Sums
<1>6. ~(y + 1 <= x)
  BY <1>2, <1>5
<1>7. x <= y
  BY <1>3, <1>6
<1> QED BY <1>7 DEF x, y

\* The invariants say what FramesMatchCount says.
LEMMA InOrderMatches == IInv /\ InOrder => FramesMatchCount
<1> DEFINE coming == wire \o queue
           g == client.m_segmentId
           v == client.v_num
           a == g - Len(uplink)
           answered == IF uplink = <<>> THEN g ELSE Head(Head(uplink)).seg
           n(s) == IF s < v \/ s >= answered THEN 0
                   ELSE client.video_series[s] - (IF s = v THEN client.frame_num ELSE 0)
<1> SUFFICES ASSUME IInv, InOrder, ~options.coalescing
             PROVE  /\ \A i, j \in 1 .. Len(coming) : i < j => coming[i] <= coming[j]
                    /\ \A s \in Cells :
                         Cardinality({i \in 1 .. Len(coming) : coming[i] = s}) = n(s)
  BY DEF FramesMatchCount
<1>1. PICK f : Between(client, f) /\ Received(client, f) \in Nat
  BY IInvFacts
<1> DEFINE r == Received(client, f)
<1>2. /\ client \in Client /\ uplink \in Seq(Seq(Request)) /\ options \in Options
      /\ wire \in Seq(Cells) /\ queue \in Seq(Cells)
  BY IInvFacts
<1>3. Sums(client, f) /\ Queued(client, f) /\ Counting(client)
  BY <1>1 DEF Between, Sound
<1>4. coming \in Seq(Cells)
  BY <1>2, ConcatProperties
<1>5. /\ a \in Nat
      /\ \A i \in 1 .. Len(uplink) :
           uplink[i] = <<[seg |-> a + i - 1, num |-> client.video_series[a + i - 1]]>>
      /\ r + Len(coming) = f[a]
      /\ \A i \in 1 .. Len(coming) : f[coming[i]] < r + i /\ r + i <= f[coming[i] + 1]
  BY <1>3 DEF InOrder, Ordered
<1>6. /\ g \in 0 .. SegCount + 1 /\ v \in 0 .. SegCount + 1 /\ v <= g
      /\ client.frame_num \in Nat /\ SegCount \in Nat /\ Len(uplink) \in Nat
  BY <1>2, <1>3, SegCountAssumption DEF Client, Queued
<1>7. answered = a /\ a \in 0 .. SegCount + 1 /\ a <= g
  <2>1. a <= g /\ a \in 0 .. SegCount + 1
    BY <1>5, <1>6
  <2>2. CASE uplink = <<>>
    BY <2>1, <2>2, <1>6
  <2>3. CASE uplink # <<>>
    <3>1. 1 \in 1 .. Len(uplink) /\ Head(uplink) = uplink[1] /\ a + 1 - 1 = a
      BY <2>3, <1>2, <1>5
    <3>2. Head(uplink) = <<[seg |-> a, num |-> client.video_series[a]]>>
      BY <3>1, <1>5
    <3> HIDE DEF a, g
    <3> QED BY <2>1, <2>3, <3>2
  <2> QED BY <2>2, <2>3
<1>8. r = f[v] + client.frame_num /\ r \in Nat /\ f[v] \in Nat /\ f[a] \in Nat
  BY <1>1, <1>3, <1>6, <1>7 DEF Received, Sums
<1> HIDE DEF coming, answered, a, g, r
<1>9. ASSUME NEW i \in 1 .. Len(coming), NEW j \in 1 .. Len(coming), i < j
      PROVE  coming[i] <= coming[j]
  BY <1>2, <1>3, <1>4, <1>5, <1>8, <1>9, FramesAscend
<1>10. ASSUME NEW s \in Cells
       PROVE  Cardinality({i \in 1 .. Len(coming) : coming[i] = s}) = n(s)
  <2> DEFINE k == Len(coming)
             x == f[s] - r
             y == f[s + 1] - r
             S == {i \in 1 .. k : x < i /\ i <= y}
  <2>1. s \in 0 .. SegCount /\ s \in 0 .. SegCount + 1 /\ s + 1 \in 0 .. SegCount + 1
    BY <1>6 DEF Cells
  <2>2. f[s] \in Nat /\ f[s + 1] \in Nat /\ f[s + 1] = f[s] + client.video_series[s]
    BY <1>3, <2>1 DEF Sums
  <2>3. x \in Int /\ y \in Int /\ k \in Nat
    BY <1>4, <1>8, <2>2
  <2>4. {i \in 1 .. k : coming[i] = s} = S
    <3>1. ASSUME NEW i \in 1 .. k PROVE coming[i] = s <=> x < i /\ i <= y
      <4>1. coming[i] = s <=> f[s] < r + i /\ r + i <= f[s + 1]
        BY <1>2, <1>3, <1>4, <1>5, <1>8, FramePlace
      <4>2. i \in Nat
        BY <2>3
      <4> QED BY <4>1, <4>2, <2>2, <1>8
    <3> HIDE DEF x, y, k
    <3> QED BY <3>1
  <2> DEFINE C == Cardinality(S)
  <2>5. /\ y <= 0 \/ x >= k => C = 0
        /\ x <= 0 /\ 0 <= y /\ y <= k => C = y
        /\ 0 <= x /\ x <= y /\ y <= k => C = y - x
    <3> HIDE DEF x, y, k
    <3> QED BY <2>3, CountBetween
  <2> HIDE DEF C
  <2>6. CASE s < v
    <3>1. s + 1 <= v
      BY <2>1, <2>6, <1>6
    <3>2. f[s + 1] <= f[v]
      BY <3>1, <2>1, <1>3, <1>6 DEF Sums
    <3>3. y <= 0
      BY <3>2, <2>2, <1>6, <1>8
    <3> QED BY <3>3, <2>4, <2>5, <2>6 DEF C
  <2>7. CASE s >= a
    <3>1. f[a] <= f[s]
      BY <2>1, <2>7, <1>3, <1>7 DEF Sums
    <3>2. x >= k
      BY <3>1, <2>2, <2>3, <1>5, <1>8
    <3> QED BY <3>2, <2>4, <2>5, <2>7, <1>7 DEF C
  <2>8. CASE ~(s < v) /\ ~(s >= a)
    <3>1. s + 1 <= a
      BY <2>1, <2>8, <1>7
    <3>2. f[s + 1] <= f[a]
      BY <3>1, <2>1, <1>3, <1>7 DEF Sums
    <3>3. y <= k
      BY <3>2, <2>2, <2>3, <1>5, <1>8
    <3>4. CASE s = v
      <4>1. v < g
        BY <3>1, <3>4, <1>6, <1>7 DEF g
      <4>2. client.frame_num < client.video_series[v]
        BY <4>1, <1>3 DEF Counting, g
      <4>3. x <= 0 /\ 0 <= y /\ y = client.video_series[v] - client.frame_num
        <5>1. client.video_series[v] \in Nat
          BY <3>4, <1>2, SeriesNat
        <5>2. f[s] = f[v] /\ client.video_series[s] = client.video_series[v]
          BY <3>4
        <5>3. x = f[s] - r /\ y = f[s + 1] - r
          OBVIOUS
        <5> DEFINE t == f[s + 1]
                   w == f[v]
                   n1 == client.frame_num
                   n2 == client.video_series[v]
        <5>4. x = w - r /\ y = t - r /\ t = w + n2 /\ r = w + n1 /\ n1 < n2
          BY <5>2, <5>3, <4>2, <2>2, <1>8
        <5>5. w \in Nat /\ n1 \in Nat /\ n2 \in Nat
          BY <5>1, <1>6, <1>8
        <5> HIDE DEF x, y, t, w, n1, n2
        <5>6. x <= 0 /\ 0 <= y /\ y = n2 - n1
          BY <5>4, <5>5
        <5> QED BY <5>6 DEF n1, n2
      <4> QED BY <3>3, <3>4, <4>3, <2>4, <2>5, <2>8, <1>7 DEF C
    <3>5. CASE s # v
      <4>1. v + 1 <= s /\ v \in Cells /\ v + 1 \in 0 .. SegCount + 1
        BY <2>1, <2>8, <3>5, <1>6 DEF Cells
      <4>2. f[v + 1] <= f[s] /\ f[v + 1] = f[v] + client.video_series[v]
        BY <4>1, <2>1, <1>3 DEF Sums
      <4>3. v < g
        BY <3>1, <4>1, <2>1, <1>6, <1>7 DEF g
      <4>4. client.frame_num < client.video_series[v] /\ client.video_series[v] \in Nat
        BY <4>1, <4>3, <1>2, <1>3, SeriesNat DEF Counting, g
      <4>5. 0 <= x
        <5>1. f[v] + client.video_series[v] <= f[s] /\ r = f[v] + client.frame_num
          BY <4>2, <1>8
        <5> DEFINE w == f[v]
                   t == f[s]
                   n1 == client.frame_num
                   n2 == client.video_series[v]
        <5>2. x = t - r /\ w + n2 <= t /\ r = w + n1 /\ n1 < n2
          BY <5>1, <4>4
        <5>3. w \in Nat /\ t \in Nat /\ n1 \in Nat /\ n2 \in Nat
          BY <4>4, <2>2, <1>6, <1>8
        <5> HIDE DEF x, w, t, n1, n2
        <5> QED BY <5>2, <5>3
      <4>6. x <= y /\ y - x = client.video_series[s]
        <5>1. client.video_series[s] \in Nat
          BY <1>2, SeriesNat
        <5> QED BY <5>1, <2>2, <1>8
      <4>7. C = client.video_series[s]
        BY <3>3, <4>5, <4>6, <2>5
      <4>8. n(s) = client.video_series[s]
        <5>1. client.video_series[s] \in Nat
          BY <1>2, SeriesNat
        <5> QED BY <5>1, <3>5, <2>8, <1>7
      <4> QED BY <4>7, <4>8, <2>4 DEF C
    <3> QED BY <3>4, <3>5
  <2> QED BY <2>6, <2>7, <2>8
<1> QED BY <1>9, <1>10

\* The frames on their way are the rest of the segment that the client counts,
\* then the following ones, complete and in order.
THEOREM FramesInOrder == Spec => []FramesMatchCount
<1>1. Init => InOrder
  BY InitInOrder
<1>2. IInv /\ InOrder /\ [Next]_vars => InOrder'
  BY NextInOrder
<1>3. IInv /\ InOrder => FramesMatchCount
  BY InOrderMatches
<1> QED
  BY <1>1, <1>2, <1>3, Invariance, PTL DEF Spec

-----------------------------------------------------------------------------
(* A player that waits has something to wait for.                          *)

\* A player that has paused has less than the segment it wants, which is one
\* asked for, or nothing.
PausedShort(c) ==
  c.m_state = "PAUSED" =>
    \/ c.m_queue = 0
    \/ /\ c.play_num \in Cells /\ c.play_num < c.m_segmentId
       /\ c.m_queue < c.video_series[c.play_num]

\* A player that has not started does not have the segments it starts with.
StartsInTime(c) ==
  c.m_state = "NOT_STARTED" /\ init_buffer > 0 /\ init_buffer + req_num >= 2 =>
    c.v_num <= init_buffer + req_num

Waits == PausedShort(client) /\ StartsInTime(client)

\* A request changes no more than the series, and that where it was not set.
LEMMA RequestSame ==
  ASSUME NEW Q, NEW d \in LooseClient(Q), NEW n \in PacketNums
  PROVE  LET e == RequestSegment(d, n)
         IN  /\ e \in LooseClient(Q)
             /\ e.m_state = d.m_state /\ e.v_num = d.v_num
             /\ e.m_queue = d.m_queue /\ e.play_num = d.play_num
             /\ d.m_segmentId <= e.m_segmentId
             /\ \A s \in Cells : s # d.m_segmentId => e.video_series[s] = d.video_series[s]
<1> DEFINE k == d.m_segmentId
           series == [d.video_series EXCEPT ![k] = n]
           q == [seg |-> k, num |-> n]
           out == Append(d.outbox, q)
           x == IF k = SegCount THEN "behind" ELSE d.index
           l == k + 1
           e == [d EXCEPT !.index = x, !.video_series = series,
                          !.outbox = out, !.m_segmentId = l]
           t == [d EXCEPT !.index = "out"]
<1>1. k \in Nat /\ d.video_series \in [Cells -> PacketNums \cup {0}]
      /\ d.outbox \in Seq(Request) /\ d.index \in {"in", "behind", "out"}
  BY DEF LooseClient
<1>2. \/ RequestSegment(d, n) = d
      \/ RequestSegment(d, n) = t
      \/ k \in Cells /\ RequestSegment(d, n) = e
  <2>1. ~d.m_connected => RequestSegment(d, n) = d
    BY DEF RequestSegment
  <2>2. d.m_connected /\ k \notin Cells => RequestSegment(d, n) = t
    BY DEF RequestSegment
  <2>3. d.m_connected /\ k \in Cells => RequestSegment(d, n) = e
    BY DEF RequestSegment
  <2> HIDE DEF e, t, k
  <2> QED BY <2>1, <2>2, <2>3
<1>3. /\ t \in LooseClient(Q)
      /\ t.m_state = d.m_state /\ t.v_num = d.v_num /\ t.m_queue = d.m_queue
      /\ t.play_num = d.play_num /\ t.m_segmentId = k /\ t.video_series = d.video_series
  BY DEF LooseClient
<1>4. /\ k <= k /\ k <= l /\ l \in Nat /\ x \in {"in", "behind", "out"}
      /\ series \in [Cells -> PacketNums \cup {0}]
      /\ \A s \in Cells : s # k => series[s] = d.video_series[s]
  <2>1. k <= k /\ k <= l /\ l \in Nat /\ x \in {"in", "behind", "out"}
    BY <1>1
  <2> HIDE DEF k
  <2>2. /\ series \in [Cells -> PacketNums \cup {0}]
        /\ \A s \in Cells : s # k => series[s] = d.video_series[s]
    BY <1>1
  <2> QED BY <2>1, <2>2
<1>5. k \in Cells => out \in Seq(Request)
  <2>1. k \in Cells => q \in Request
    BY DEF Request
  <2> HIDE DEF q
  <2> QED BY <2>1, <1>1
<1> HIDE DEF out, x, l, series, k
<1>6. /\ k \in Cells => e \in LooseClient(Q)
      /\ e.m_state = d.m_state /\ e.v_num = d.v_num /\ e.m_queue = d.m_queue
      /\ e.play_num = d.play_num /\ e.m_segmentId = l /\ e.video_series = series
  BY <1>4, <1>5 DEF LooseClient
<1> HIDE DEF e, t
<1> QED BY <1>2, <1>3, <1>4, <1>6 DEF k

\* A request leaves a player that has paused short of frames.
LEMMA RequestPausedShort ==
  ASSUME NEW Q, NEW d \in LooseClient(Q), NEW n \in PacketNums, PausedShort(d)
  PROVE  PausedShort(RequestSegment(d, n))
<1> DEFINE e == RequestSegment(d, n)
<1>1. /\ e.m_state = d.m_state /\ e.m_queue = d.m_queue /\ e.play_num = d.play_num
      /\ d.m_segmentId <= e.m_segmentId
      /\ \A s \in Cells : s # d.m_segmentId => e.video_series[s] = d.video_series[s]
  BY RequestSame
<1>2. d.m_segmentId \in Nat
  BY DEF LooseClient
<1>3. e.m_segmentId \in Nat
  <2>1. e \in LooseClient(Q)
    BY RequestSame
  <2> HIDE DEF e
  <2> QED BY <2>1 DEF LooseClient
<1> HIDE DEF e
<1>4. ASSUME d.play_num \in Cells, d.play_num < d.m_segmentId
      PROVE  /\ d.play_num < e.m_segmentId
             /\ e.video_series[d.play_num] = d.video_series[d.play_num]
  <2>1. d.play_num \in Nat
    BY <1>4, SegCountAssumption DEF Cells
  <2> QED BY <2>1, <1>1, <1>2, <1>3, <1>4
<1>5. PausedShort(e)
  BY <1>1, <1>4 DEF PausedShort
<1> QED BY <1>5 DEF e

\* A play pauses only for want of frames.
LEMMA PlayFramePausedShort ==
  ASSUME NEW Q, NEW c \in LooseClient(Q), c.m_queue \in Nat, Series(c),
         c.m_state \in {"PLAYING", "DONE"}, c.m_state = "PLAYING" => c.play_num \in Cells,
         NEW n \in PacketNums
  PROVE  /\ PlayFrame(c, n).m_state # "NOT_STARTED"
         /\ PausedShort(PlayFrame(c, n))
<1> DEFINE popped == PopFrames(c)
           stopped == IF popped.play_num = SegCount + 1 /\ popped.m_dashClient
                      THEN StopApplication(popped) ELSE popped
           asked == IF PlayerPulls(popped.play_num) /\ popped.m_dashClient
                    THEN RequestSegment(stopped, n) ELSE stopped
           paused == [c EXCEPT !.m_state = "PAUSED"]
           k == asked.plays + 1
           going == [asked EXCEPT !.plays = k]
<1>1. PICK P : popped \in LooseClient(P) /\ popped.m_state = c.m_state
  <2> DEFINE x == IF c.play_num = 0
                  THEN c.m_queue - (c.video_series[0] + c.video_series[1])
                  ELSE c.m_queue - c.video_series[c.play_num]
             p == IF c.play_num = 0 THEN 2 ELSE c.play_num + 1
             e == [c EXCEPT !.m_queue = x, !.play_num = p]
  <2>1. popped = e
    BY DEF PopFrames
  <2>2. p \in Nat
    BY DEF LooseClient
  <2> HIDE DEF x, p, popped
  <2>3. e \in LooseClient({x}) /\ e.m_state = c.m_state
    BY <2>2 DEF LooseClient
  <2> HIDE DEF e
  <2> QED BY <2>1, <2>3
<1> HIDE DEF popped
<1>2. stopped \in LooseClient(P) /\ stopped.m_state \in {"PLAYING", "DONE"}
  <2> DEFINE t == [popped EXCEPT !.m_connected = FALSE, !.m_state = "DONE"]
  <2>1. t \in LooseClient(P) /\ t.m_state = "DONE"
    BY <1>1 DEF LooseClient, States
  <2>2. stopped \in {popped, t}
    BY DEF StopApplication
  <2> HIDE DEF stopped, t
  <2> QED BY <2>1, <2>2, <1>1
<1> HIDE DEF stopped
<1>3. asked \in LooseClient(P) /\ asked.m_state \in {"PLAYING", "DONE"}
  BY <1>2, RequestSame
<1> HIDE DEF asked, k
<1>5. going.m_state \in {"PLAYING", "DONE"}
  BY <1>3 DEF LooseClient
<1>6. PlayFrame(c, n) \in {c, paused, going}
  BY Zenon DEF PlayFrame, popped, stopped, asked, k
<1>7. CASE PlayFrame(c, n) \in {c, going}
  <2> HIDE DEF going
  <2> QED BY <1>5, <1>7 DEF PausedShort
<1>8. CASE ~(PlayFrame(c, n) \in {c, going})
  <2>1. /\ PlayFrame(c, n) = paused /\ c.m_state # "DONE"
        /\ c.m_queue = 0 \/ c.m_queue < c.video_series[c.play_num]
    BY <1>8, Zenon DEF PlayFrame, popped, stopped, asked, k
  <2>2. /\ paused.m_state = "PAUSED" /\ paused.m_queue = c.m_queue
        /\ paused.play_num = c.play_num /\ paused.m_segmentId = c.m_segmentId
        /\ paused.video_series = c.video_series
    BY DEF LooseClient
  <2> HIDE DEF paused
  <2>3. CASE c.m_queue = 0
    BY <2>1, <2>2, <2>3 DEF PausedShort
  <2>4. CASE c.m_queue < c.video_series[c.play_num]
    <3>1. c.play_num \in Cells
      BY <2>1
    <3>2. c.video_series[c.play_num] \in PacketNums \cup {0}
      BY <3>1 DEF LooseClient
    <3>3. c.video_series[c.play_num] > 0
      BY <3>2, <2>4, PacketCountNat
    <3>4. c.play_num < c.m_segmentId
      BY <3>1, <3>3 DEF Series
    <3> QED BY <2>1, <2>2, <2>4, <3>1, <3>4 DEF PausedShort
  <2> QED BY <2>1, <2>3, <2>4
<1> QED BY <1>7, <1>8

\* With the frame it gets the player goes on, or is still short; it does not wait
\* for its start when it has more than two segments and is past req_num.
LEMMA ReceiveFrameWaits ==
  ASSUME options \in Options, NEW b \in Client, Series(b), Stage(b), PausedShort(b),
         NEW n \in PacketNums
  PROVE  LET t == ReceiveFrame(b, n)
         IN  /\ PausedShort(t)
             /\ t.m_state = "NOT_STARTED" =>
                  /\ b.m_state = "NOT_STARTED" /\ t.v_num = b.v_num
                  /\ t.frame_num = b.frame_num /\ t.video_series = b.video_series
                  /\ ~ (/\ b.video_series[req_num + 1] > 0
                        /\ b.m_queue + 1 > b.video_series[0] + b.video_series[1])
<1> DEFINE k == b.m_queue + 1
           queued == [b EXCEPT !.m_queue = k]
           start == queued.T_start \/ b.video_series[req_num] > 0
           primed == [queued EXCEPT !.T_start = start]
           playing(p) == [p EXCEPT !.m_state = "PLAYING"]
           t == ReceiveFrame(b, n)
<1>1. b \in LooseClient(Nat) /\ b.m_queue \in Nat /\ k \in Nat
  BY ClientIsLoose DEF Client
<1>2. start \in BOOLEAN
  OBVIOUS
<1>3. /\ queued \in LooseClient(Nat) /\ queued.m_queue = k /\ queued.m_state = b.m_state
      /\ queued.play_num = b.play_num /\ queued.m_segmentId = b.m_segmentId
      /\ queued.video_series = b.video_series /\ queued.v_num = b.v_num
      /\ queued.frame_num = b.frame_num
  <2> HIDE DEF k
  <2> QED BY <1>1 DEF LooseClient
<1> HIDE DEF queued, start
<1>4. /\ primed \in LooseClient(Nat) /\ primed.m_queue = k /\ primed.m_state = b.m_state
      /\ primed.play_num = b.play_num /\ primed.m_segmentId = b.m_segmentId
      /\ primed.video_series = b.video_series /\ primed.v_num = b.v_num
      /\ primed.frame_num = b.frame_num
  BY <1>2, <1>3 DEF LooseClient
<1> HIDE DEF primed, k
<1>5. ASSUME NEW p \in LooseClient(Nat), p.m_queue = k, p.play_num = b.play_num,
             p.m_segmentId = b.m_segmentId, p.video_series = b.video_series,
             b.play_num \in Cells
      PROVE  /\ PlayFrame(playing(p), n).m_state # "NOT_STARTED"
             /\ PausedShort(PlayFrame(playing(p), n))
  <2>1. /\ playing(p) \in LooseClient(Nat) /\ playing(p).m_queue \in Nat
        /\ playing(p).m_state = "PLAYING" /\ playing(p).play_num \in Cells
        /\ playing(p).video_series = b.video_series
        /\ playing(p).m_segmentId = b.m_segmentId
    BY <1>1, <1>5 DEF LooseClient, States
  <2> HIDE DEF playing
  <2>2. Series(playing(p))
    BY <2>1 DEF Series
  <2> QED BY <2>1, <2>2, PlayFramePausedShort
<1> HIDE DEF playing
<1>6. CASE b.m_state = "PAUSED"
  <2>1. b.play_num \in Cells
    BY <1>6, SegCountAssumption DEF Stage, Cells
  <2>2. t = IF k >= b.video_series[b.play_num] THEN PlayFrame(playing(queued), n) ELSE queued
    BY <1>3, <1>6, Zenon DEF ReceiveFrame, queued, playing, k
  <2>3. CASE k >= b.video_series[b.play_num]
    BY <1>3, <1>5, <2>1, <2>2, <2>3
  <2>4. CASE ~(k >= b.video_series[b.play_num])
    <3>1. t = queued
      BY <2>2, <2>4
    <3>2. b.video_series[b.play_num] \in Nat
      BY <2>1, SeriesNat
    <3>3. k < b.video_series[b.play_num] /\ b.video_series[b.play_num] > 0
      BY <3>2, <2>4, <1>1
    <3>4. b.play_num < b.m_segmentId
      BY <2>1, <3>3 DEF Series
    <3>5. PausedShort(queued)
      BY <1>3, <2>1, <3>3, <3>4 DEF PausedShort
    <3> QED BY <3>1, <3>5, <1>3, <1>6
  <2> QED BY <2>3, <2>4
<1>7. CASE b.m_state = "NOT_STARTED"
  <2> DEFINE go == /\ b.video_series[req_num + 1] > 0
                   /\ k > b.video_series[0] + b.video_series[1]
  <2>1. b.play_num \in Cells
    BY <1>7, SegCountAssumption DEF Stage, Cells
  <2>2. t = IF go THEN PlayFrame(playing(primed), n) ELSE primed
    BY <1>3, <1>7, Zenon DEF ReceiveFrame, queued, primed, start, playing, k
  <2>3. CASE go
    BY <1>4, <1>5, <2>1, <2>2, <2>3
  <2>4. CASE ~go
    <3>1. t = primed /\ PausedShort(primed)
      BY <2>2, <2>4, <1>4, <1>7 DEF PausedShort
    <3> QED BY <3>1, <2>4, <1>4, <1>7 DEF k
  <2> QED BY <2>3, <2>4
<1>8. CASE b.m_state \notin {"PAUSED", "NOT_STARTED"}
  <2>1. t = queued
    BY <1>8, Zenon DEF ReceiveFrame, queued, k
  <2> QED BY <2>1, <1>3, <1>8 DEF PausedShort
<1> QED BY <1>6, <1>7, <1>8

\* Whether a player has paused short of frames is a matter of its state, its
\* queue, and the series of what has been asked for.
LEMMA PausedShortSame ==
  ASSUME NEW d, PausedShort(d),
         NEW e, e.m_state = d.m_state, e.m_queue = d.m_queue, e.play_num = d.play_num,
         e.m_segmentId = d.m_segmentId, e.video_series = d.video_series
  PROVE  PausedShort(e)
BY DEF PausedShort

\* To count a frame leaves the player where it is.
LEMMA CountFrameSame ==
  ASSUME NEW Q, NEW d \in LooseClient(Q)
  PROVE  LET e == CountFrame(d)
         IN  /\ e \in LooseClient(Q) /\ e.m_state = d.m_state
             /\ PausedShort(d) => PausedShort(e)
             /\ e.v_num = IF d.frame_num = d.video_series[d.v_num]
                          THEN d.v_num + 1 ELSE d.v_num
<1> DEFINE l == IF d.v_num + 1 # SegCount THEN d.frame_num ELSE d.tmp_num
           v == d.v_num + 1
           s == d.seg_num + 1
           e == [d EXCEPT !.tmp_num = l, !.frame_num = 0, !.v_num = v, !.seg_num = s]
<1>1. l \in Nat /\ v \in Nat /\ s \in Nat
  BY DEF LooseClient
<1>2. CountFrame(d) = IF d.frame_num = d.video_series[d.v_num] THEN e ELSE d
  BY Zenon DEF CountFrame
<1> HIDE DEF l, s
<1>3. /\ e \in LooseClient(Q) /\ e.m_state = d.m_state /\ e.m_queue = d.m_queue
      /\ e.play_num = d.play_num /\ e.m_segmentId = d.m_segmentId
      /\ e.video_series = d.video_series /\ e.v_num = v
  <2> HIDE DEF v
  <2> QED BY <1>1 DEF LooseClient
<1> HIDE DEF e
<1>4. PausedShort(d) => PausedShort(e)
  BY <1>3, PausedShortSame
<1> QED BY <1>2, <1>3, <1>4

\* And so does what MessageReceived notes once a segment is complete.
LEMMA NotedSame ==
  ASSUME NEW Q, NEW d \in LooseClient(Q), PausedShort(d),
         NEW e, e \in {[d EXCEPT !.tmp_num = 0], [d EXCEPT !.m_dashClient = TRUE]}
  PROVE  e \in LooseClient(Q) /\ e.m_state = d.m_state /\ e.v_num = d.v_num /\ PausedShort(e)
<1>1. /\ e \in LooseClient(Q) /\ e.m_state = d.m_state /\ e.m_queue = d.m_queue
      /\ e.play_num = d.play_num /\ e.m_segmentId = d.m_segmentId
      /\ e.video_series = d.video_series /\ e.v_num = d.v_num
  <2>1. CASE e = [d EXCEPT !.tmp_num = 0]
    BY <2>1 DEF LooseClient
  <2>2. CASE e = [d EXCEPT !.m_dashClient = TRUE]
    BY <2>2 DEF LooseClient
  <2> QED BY <2>1, <2>2
<1> QED BY <1>1, PausedShortSame

\* A player that has not started when the last frame of segment init_buffer +
\* req_num is there would have more than two segments, and start.
LEMMA StartedByThen ==
  ASSUME options \in Options, NEW c, NEW f, Between(c, f), c.m_state = "NOT_STARTED",
         Received(c, f) + 1 <= f[c.m_segmentId],
         c.v_num = init_buffer + req_num, init_buffer > 0, init_buffer + req_num >= 2,
         c.frame_num + 1 = c.video_series[c.v_num]
  PROVE  /\ c.video_series[req_num + 1] > 0
         /\ c.m_queue + 1 > c.video_series[0] + c.video_series[1]
<1> USE OptionFacts
<1> DEFINE v == c.v_num
           g == c.m_segmentId
<1>1. /\ c \in Client /\ g \in 0 .. SegCount + 1 /\ v \in 0 .. SegCount + 1
      /\ c.frame_num \in Nat /\ c.m_queue \in Nat
  BY DEF Between, Sound, Client
<1>2. /\ Sums(c, f) /\ Series(c) /\ Queued(c, f) /\ v <= g /\ c.play_num = 0
  BY DEF Between, Sound, Queued, Stage
<1>3. /\ 0 \in Cells /\ 1 \in Cells /\ 2 \in Cells /\ v \in Cells /\ req_num + 1 \in Cells
      /\ v >= 2 /\ v + 1 \in 0 .. SegCount + 1 /\ req_num + 1 <= v
  BY DEF Cells
<1>4. v < g
  <2>1. f[v] \in Nat /\ f[g] \in Nat
    BY <1>1, <1>2 DEF Sums
  <2>2. f[v] + c.frame_num + 1 <= f[g]
    BY DEF Received
  <2>3. v # g
    <3> SUFFICES ASSUME v = g PROVE FALSE
      OBVIOUS
    <3>1. f[g] + c.frame_num + 1 <= f[g]
      BY <2>2
    <3> HIDE DEF v, g
    <3> QED BY <3>1, <2>1, <1>1
  <2> QED BY <2>3, <1>1, <1>2
<1>5. c.video_series[req_num + 1] > 0 /\ c.video_series[2] > 0
  <2>1. req_num + 1 < g /\ 2 < g
    BY <1>1, <1>3, <1>4
  <2> QED BY <2>1, <1>2, <1>3 DEF Series
<1>6. /\ f[0] = 0 /\ f[1] = f[0] + c.video_series[0] /\ f[2] = f[1] + c.video_series[1]
      /\ f[3] = f[2] + c.video_series[2] /\ f[v + 1] = f[v] + c.video_series[v]
  <2>1. f[0 + 1] = f[0] + c.video_series[0] /\ f[1 + 1] = f[1] + c.video_series[1]
        /\ f[2 + 1] = f[2] + c.video_series[2]
    BY <1>2, <1>3 DEF Sums
  <2> QED BY <2>1, <1>2, <1>3 DEF Sums
<1>7. f[3] <= f[v + 1]
  <2>1. 3 \in 0 .. SegCount + 1 /\ 3 <= v + 1
    BY <1>3
  <2> QED BY <2>1, <1>2, <1>3 DEF Sums
<1>9. /\ f[v] \in Nat /\ f[v + 1] \in Nat
      /\ c.video_series[0] \in Nat /\ c.video_series[1] \in Nat /\ c.video_series[2] \in Nat
      /\ c.video_series[v] \in Nat
  <2>1. f[v] \in Nat /\ f[v + 1] \in Nat
    BY <1>1, <1>2, <1>3 DEF Sums
  <2> QED BY <2>1, <1>1, <1>3, SeriesNat
<1>8. c.m_queue = f[v] + c.frame_num
  <2>1. c.m_queue = Received(c, f) - f[0] /\ Received(c, f) = f[v] + c.frame_num
    BY <1>2 DEF Queued, Received
  <2> QED BY <2>1, <1>1, <1>6, <1>9
<1>10. c.m_queue + 1 = f[v + 1]
  BY <1>1, <1>6, <1>8, <1>9
<1> HIDE DEF v, g
<1> QED BY <1>5, <1>6, <1>7, <1>9, <1>10

\* A handler of a frame leaves the player playing, or short of frames.
LEMMA MessageReceivedWaits ==
  ASSUME options \in Options, NEW c, NEW f, Between(c, f), c.outbox = <<>>,
         Received(c, f) + 1 <= f[c.m_segmentId], PausedShort(c), StartsInTime(c),
         NEW n \in PacketNums, NEW m \in PacketNums
  PROVE  /\ PausedShort(MessageReceived(c, n, m))
         /\ StartsInTime(MessageReceived(c, n, m))
<1> USE OptionFacts
<1> DEFINE k == c.frame_num + 1
           b == [c EXCEPT !.frame_num = k]
           taken == ReceiveFrame(b, n)
           counted == CountFrame(taken)
           closed == [counted EXCEPT !.tmp_num = 0]
           asked == IF counted.seg_num <= init_buffer + req_num
                    THEN RequestSegment(closed, m) ELSE closed
           told == [asked EXCEPT !.m_dashClient = TRUE]
           d == MessageReceived(c, n, m)
<1>1. c \in Client /\ Series(c) /\ Stage(c) /\ k \in Nat
  BY DEF Between, Sound, Client
<1>2. /\ b \in Client /\ b.m_state = c.m_state /\ b.m_queue = c.m_queue
      /\ b.play_num = c.play_num /\ b.m_segmentId = c.m_segmentId
      /\ b.video_series = c.video_series /\ b.v_num = c.v_num /\ b.frame_num = k
      /\ b.outbox = c.outbox
  <2> HIDE DEF k
  <2> QED BY <1>1 DEF Client
<1> HIDE DEF b
<1>3. Series(b) /\ Stage(b) /\ PausedShort(b)
  BY <1>1, <1>2 DEF Series, Stage, PausedShort
<1>4. /\ PausedShort(taken)
      /\ taken.m_state = "NOT_STARTED" =>
           /\ c.m_state = "NOT_STARTED" /\ taken.v_num = c.v_num
           /\ taken.frame_num = k /\ taken.video_series = c.video_series
           /\ ~ (/\ c.video_series[req_num + 1] > 0
                 /\ c.m_queue + 1 > c.video_series[0] + c.video_series[1])
  BY <1>2, <1>3, ReceiveFrameWaits
<1>5. PICK Q : taken \in LooseClient(Q)
  <2>1. Asked(b, b)
    BY <1>2, AskedNothing
  <2>2. Asked(b, taken)
    BY <1>2, <2>1, ReceiveFrameAsked
  <2> QED BY <2>2 DEF Asked
<1> HIDE DEF taken
<1>6. /\ counted \in LooseClient(Q) /\ counted.m_state = taken.m_state /\ PausedShort(counted)
      /\ counted.v_num = IF taken.frame_num = taken.video_series[taken.v_num]
                         THEN taken.v_num + 1 ELSE taken.v_num
  BY <1>4, <1>5, CountFrameSame
<1> HIDE DEF counted
<1>7. /\ closed \in LooseClient(Q) /\ closed.m_state = taken.m_state
      /\ closed.v_num = counted.v_num /\ PausedShort(closed)
  BY <1>6, NotedSame
<1> HIDE DEF closed
<1>8. /\ asked \in LooseClient(Q) /\ asked.m_state = taken.m_state
      /\ asked.v_num = counted.v_num /\ PausedShort(asked)
  BY <1>7, RequestSame, RequestPausedShort
<1> HIDE DEF asked
<1>9. /\ told.m_state = taken.m_state /\ told.v_num = counted.v_num /\ PausedShort(told)
  BY <1>8, NotedSame
<1>10. d \in {counted, told}
  BY Zenon DEF MessageReceived, taken, counted, closed, asked, b, k
<1> HIDE DEF told, d
<1>11. PausedShort(d) /\ d.m_state = taken.m_state /\ d.v_num = counted.v_num
  BY <1>6, <1>9, <1>10
<1>12. StartsInTime(d)
  <2> SUFFICES ASSUME taken.m_state = "NOT_STARTED", init_buffer > 0,
                      init_buffer + req_num >= 2
               PROVE  counted.v_num <= init_buffer + req_num
    BY <1>11 DEF StartsInTime
  <2>1. c.v_num <= init_buffer + req_num /\ c.v_num \in Nat
    BY <1>1, <1>4 DEF StartsInTime, Client
  <2>2. counted.v_num = IF k = c.video_series[c.v_num] THEN c.v_num + 1 ELSE c.v_num
    BY <1>4, <1>6
  <2>3. ~(c.v_num = init_buffer + req_num /\ k = c.video_series[c.v_num])
    BY <1>4, StartedByThen
  <2> HIDE DEF k
  <2> QED BY <2>1, <2>2, <2>3
<1> QED BY <1>11, <1>12 DEF d

\* Every step leaves the player playing, or with something to wait for.
LEMMA NextWaits == IInv /\ Waits /\ [Next]_vars => Waits'
<1> SUFFICES ASSUME IInv, Waits, [Next]_vars PROVE Waits'
  OBVIOUS
<1>1. PICK f, h :
        /\ Between(client, f) /\ Asks(h, uplink)
        /\ f[client.m_segmentId] \in Nat /\ Received(client, f) \in Nat
        /\ h[1] \in Nat
        /\ Received(client, f) + Len(wire) + Len(queue) + h[1] <= f[client.m_segmentId]
  BY IInvFacts
<1>2. /\ client \in Client /\ client.outbox = <<>> /\ options \in Options
      /\ wire \in Seq(Cells) /\ Len(wire) \in Nat /\ Len(queue) \in Nat
  BY IInvFacts
<1>3. Series(client) /\ Stage(client) /\ Timer(client) /\ client \in LooseClient(Nat)
  BY <1>1, <1>2, ClientIsLoose DEF Between, Sound
<1> USE OptionFacts
<1>4. ASSUME NEW Q, NEW d \in LooseClient(Q), PausedShort(d), StartsInTime(d), ClientDone(d),
             options' = options
      PROVE  Waits'
  <2> DEFINE e == [d EXCEPT !.outbox = <<>>]
  <2>1. client' = e
    BY <1>4 DEF ClientDone
  <2>2. /\ e.m_state = d.m_state /\ e.v_num = d.v_num /\ e.m_queue = d.m_queue
        /\ e.play_num = d.play_num /\ e.m_segmentId = d.m_segmentId
        /\ e.video_series = d.video_series
    BY <1>4 DEF LooseClient
  <2> HIDE DEF e
  <2>3. PausedShort(e) /\ StartsInTime(e)
    BY <1>4, <2>2 DEF PausedShort, StartsInTime
  <2>4. PausedShort(client')
    BY <2>1, <2>3
  <2>5. StartsInTime(client)'
    BY <1>4, <2>1, <2>3 DEF StartsInTime, init_buffer, req_num
  <2> QED BY <2>4, <2>5 DEF Waits, PausedShort
<1>5. CASE ConnectionSucceeded
  <2> DEFINE c == [client EXCEPT !.m_connected = TRUE]
  <2>1. PICK n \in PacketNums : ClientDone(RequestSegment(c, n)) /\ options' = options
    BY <1>5 DEF ConnectionSucceeded
  <2>2. /\ c \in LooseClient(Nat) /\ c.m_state = client.m_state /\ c.v_num = client.v_num
        /\ c.m_queue = client.m_queue /\ c.play_num = client.play_num
        /\ c.m_segmentId = client.m_segmentId /\ c.video_series = client.video_series
    BY <1>3 DEF LooseClient
  <2> HIDE DEF c
  <2>3. PausedShort(c) /\ StartsInTime(c)
    BY <2>2 DEF Waits, PausedShort, StartsInTime
  <2> DEFINE d == RequestSegment(c, n)
  <2>4. d \in LooseClient(Nat) /\ PausedShort(d) /\ d.m_state = c.m_state /\ d.v_num = c.v_num
    BY <2>2, <2>3, RequestSame, RequestPausedShort
  <2> HIDE DEF d
  <2>5. StartsInTime(d)
    BY <2>3, <2>4 DEF StartsInTime
  <2> QED BY <2>1, <2>4, <2>5, <1>4 DEF d
<1>6. CASE ClientHandleRead
  <2>1. PICK n \in PacketNums, m \in PacketNums :
          ClientDone(MessageReceived(client, n, m)) /\ options' = options /\ wire # <<>>
    BY <1>6 DEF ClientHandleRead
  <2>2. Received(client, f) + 1 <= f[client.m_segmentId]
    <3>1. Len(wire) >= 1
      BY <1>2, <2>1
    <3> QED BY <3>1, <1>1, <1>2
  <2> DEFINE d == MessageReceived(client, n, m)
  <2>3. PausedShort(d) /\ StartsInTime(d)
    BY <1>1, <1>2, <2>2, MessageReceivedWaits DEF Waits
  <2>4. PICK Q : d \in LooseClient(Q)
    <3>1. Asked(client, d)
      BY <1>2, MessageReceivedAsked
    <3> HIDE DEF d
    <3> QED BY <3>1 DEF Asked
  <2> HIDE DEF d
  <2> QED BY <2>1, <2>3, <2>4, <1>4 DEF d
<1>7. CASE PlayFrameEvent
  <2> DEFINE k == client.plays - 1
             c == [client EXCEPT !.plays = k]
  <2>1. PICK n \in PacketNums : ClientDone(PlayFrame(c, n)) /\ options' = options
                                /\ client.plays > 0
    BY <1>7 DEF PlayFrameEvent
  <2>2. k \in Nat
    BY <1>2, <2>1 DEF Client
  <2> HIDE DEF k
  <2>3. /\ c \in LooseClient(Nat) /\ c.m_state = client.m_state /\ c.outbox = client.outbox
        /\ c.m_queue = client.m_queue /\ c.play_num = client.play_num
        /\ c.m_segmentId = client.m_segmentId /\ c.video_series = client.video_series
    BY <1>3, <2>2 DEF LooseClient
  <2> HIDE DEF c
  <2>4. /\ c.m_state \in {"PLAYING", "DONE"} /\ c.m_queue \in Nat /\ Series(c)
        /\ c.m_state = "PLAYING" => c.play_num \in Cells
    <3>1. client.m_state \in States
      BY <1>2 DEF Client
    <3>2. c.m_state \in {"PLAYING", "DONE"}
      BY <3>1, <2>1, <2>3, <1>3 DEF Timer, States
    <3>3. c.m_state = "PLAYING" => c.play_num \in Cells
      BY <1>3, <2>3 DEF Stage, Cells
    <3> QED BY <3>2, <3>3, <1>2, <1>3, <2>3 DEF Series, Client
  <2> DEFINE d == PlayFrame(c, n)
  <2>5. d.m_state # "NOT_STARTED" /\ PausedShort(d)
    BY <2>3, <2>4, PlayFramePausedShort
  <2>6. PICK Q : d \in LooseClient(Q)
    <3>1. Asked(client, client)
      BY <1>2, AskedNothing
    <3>2. Asked(client, c)
      BY <3>1, <2>3, AskedSame
    <3> QED BY <3>2, <1>2, PlayFrameAsked DEF Asked
  <2> HIDE DEF d
  <2>7. StartsInTime(d)
    BY <2>5 DEF StartsInTime
  <2> QED BY <2>1, <2>5, <2>6, <2>7, <1>4 DEF d
<1>8. CASE ServerHandleRead \/ ServerDataSend \/ UNCHANGED vars
  <2>1. client' = client /\ options' = options
    BY <1>8 DEF ServerHandleRead, ServerDataSend, vars
  <2> QED BY <2>1 DEF Waits, PausedShort, StartsInTime, init_buffer, req_num
<1> QED
  BY <1>5, <1>6, <1>7, <1>8 DEF Next

\* The applications start with no frame and nothing to play.
LEMMA InitWaits == Init => Waits
<1> SUFFICES ASSUME Init PROVE Waits
  OBVIOUS
<1>1. client.m_state = "NOT_STARTED" /\ client.v_num = 0 /\ options \in Options
  BY DEF Init, InitClient
<1>2. init_buffer + req_num \in Nat
  BY <1>1, OptionFacts
<1> QED BY <1>1, <1>2 DEF Waits, PausedShort, StartsInTime


\* The segments at which the player pulls are those of an interval.
LEMMA PullsInterval ==
  ASSUME options \in Options, init_buffer > 0, init_buffer + req_num >= 2
  PROVE  \E lo, hi \in Int :
           /\ 2 <= lo /\ lo <= init_buffer + req_num + 1 /\ hi <= SegCount
           /\ \A m \in Nat : {v \in 2 .. m : PlayerPulls(v)}
                               = lo .. (IF m < hi THEN m ELSE hi)
<1> USE OptionFacts
<1> DEFINE i == init_buffer
           r == req_num
<1>1. i \in Nat /\ r \in Nat /\ i > 0 /\ i + r >= 2
  OBVIOUS
<1>2. CASE i > r
  <2>1. \A m \in Nat : {v \in 2 .. m : PlayerPulls(v)}
                         = (i - r + 1) .. (IF m < SegCount - 4 THEN m ELSE SegCount - 4)
    BY <1>2 DEF PlayerPulls
  <2>2. i - r + 1 \in Int /\ SegCount - 4 \in Int /\ 2 <= i - r + 1 /\ i - r + 1 <= i + r + 1
        /\ SegCount - 4 <= SegCount
    BY <1>2
  <2> QED BY <2>1, <2>2
<1>3. CASE ~(i > r)
  <2> DEFINE lo == IF i < 2 THEN 2 ELSE i
             hi == IF SegCount - 4 < SegCount + 1 - r THEN SegCount - 4 ELSE SegCount + 1 - r
  <2>1. /\ lo \in Int /\ hi \in Int /\ 2 <= lo /\ lo <= i + r + 1 /\ hi <= SegCount
    BY <1>1, <1>3
  <2>2. ASSUME NEW v \in Int, 2 <= v PROVE PlayerPulls(v) <=> lo <= v /\ v <= hi
    BY <1>1, <1>3, <2>2 DEF PlayerPulls
  <2>3. 2 <= lo
    BY <2>1
  <2> HIDE DEF lo, hi
  <2>4. \A m \in Nat : {v \in 2 .. m : PlayerPulls(v)} = lo .. (IF m < hi THEN m ELSE hi)
    BY <2>1, <2>2
  <2> QED BY <2>1, <2>4
<1> QED BY <1>2, <1>3

\* Options that make all the requests do not make them all by pulling: with one
\* request by download the player pulls too seldom.
LEMMA SufficientStart ==
  ASSUME options \in Options, OptionsSuffice
  PROVE  init_buffer + req_num >= 2
<1> USE OptionFacts
<1> DEFINE P == {v \in 2 .. SegCount : PlayerPulls(v)}
<1>1. SUFFICES ASSUME init_buffer = 1, req_num = 0 PROVE FALSE
  BY DEF OptionsSuffice
<1>2. P = 2 .. SegCount - 4
  BY <1>1 DEF PlayerPulls
<1>3. Cardinality(P) = IF 2 > SegCount - 4 THEN 0 ELSE SegCount - 4 - 2 + 1
  <2>1. 2 \in Int /\ SegCount - 4 \in Int
    OBVIOUS
  <2>2. Cardinality(2 .. SegCount - 4) = IF 2 > SegCount - 4 THEN 0 ELSE SegCount - 4 - 2 + 1
    BY <2>1, FS_Interval
  <2> QED BY <2>2, <1>2
<1>4. Earned(SegCount, SegCount) = 1 + 1 + Cardinality(P)
  BY <1>1 DEF Earned
<1> HIDE DEF P
<1> QED BY <1>3, <1>4 DEF OptionsSuffice

\* Having downloaded and played m segments of the video, but not all, the client
\* has asked for another one.
LEMMA EarnedMore ==
  ASSUME options \in Options, OptionsSuffice, NEW m \in Nat, m < SegCount
  PROVE  Earned(m, m) > m
<1> USE OptionFacts
<1> DEFINE k == init_buffer + req_num
           P(n) == {v \in 2 .. n : PlayerPulls(v)}
<1>1. k \in Nat /\ k >= 2 /\ init_buffer > 0
  BY SufficientStart DEF OptionsSuffice
<1>2. PICK lo \in Int, hi \in Int :
        /\ 2 <= lo /\ lo <= k + 1 /\ hi <= SegCount
        /\ \A n \in Nat : P(n) = lo .. (IF n < hi THEN n ELSE hi)
  BY <1>1, PullsInterval
<1>3. /\ Earned(m, m) = 1 + (IF m < k THEN m ELSE k) + Cardinality(P(m))
      /\ Earned(SegCount, SegCount) = 1 + k + Cardinality(P(SegCount))
      /\ Cardinality(P(m)) \in Nat
  BY PullsFinite DEF Earned
<1>4. Earned(SegCount, SegCount) >= SegCount
  BY DEF OptionsSuffice
<1> HIDE DEF k
<1>5. CASE m <= k
  <2> HIDE DEF P
  <2> QED BY <1>1, <1>3, <1>5
<1>6. CASE m > k /\ m >= hi
  <2>1. P(m) = lo .. hi /\ P(SegCount) = lo .. hi
    <3> HIDE DEF P
    <3>1. P(m) = lo .. (IF m < hi THEN m ELSE hi)
      BY <1>2
    <3>2. P(SegCount) = lo .. (IF SegCount < hi THEN SegCount ELSE hi)
      BY <1>2
    <3> QED BY <3>1, <3>2, <1>2, <1>6
  <2>2. Cardinality(P(SegCount)) = Cardinality(P(m))
    BY <2>1
  <2> HIDE DEF P
  <2> QED BY <2>2, <1>1, <1>3, <1>4, <1>6
<1>7. CASE m > k /\ m < hi
  <2>1. P(m) = lo .. m
    BY <1>2, <1>7
  <2>2. Cardinality(lo .. m) = IF lo > m THEN 0 ELSE m - lo + 1
    BY FS_Interval
  <2>3. Cardinality(P(m)) = IF lo > m THEN 0 ELSE m - lo + 1
    BY <2>1, <2>2
  <2> HIDE DEF P
  <2> QED BY <2>3, <1>1, <1>2, <1>3, <1>7
<1> QED BY <1>1, <1>2, <1>5, <1>6, <1>7

\* A player that waits with nothing on its way has played and received all it
\* has asked for, and then has asked for more.
LEMMA WaitsForSomething == IInv /\ InOrder /\ Waits => SomethingComes
<1> SUFFICES ASSUME IInv, InOrder, Waits,
                    OptionsSuffice, ~options.coalescing, client.m_segmentId > 0,
                    client.m_state \in {"NOT_STARTED", "PAUSED"},
                    client.play_num < SegCount,
                    uplink = <<>>, queue = <<>>, wire = <<>>
             PROVE  FALSE
  BY DEF SomethingComes
<1> DEFINE g == client.m_segmentId
           v == client.v_num
           p == client.play_num
<1>1. PICK f : Between(client, f)
  BY DEF IInv
<1>2. /\ client \in Client /\ options \in Options /\ Sums(client, f) /\ Series(client)
      /\ Indices(client) /\ Queued(client, f) /\ Made(client, v) /\ Stage(client)
      /\ Counting(client)
  BY <1>1 DEF IInv, Between, Sound
<1>0. /\ SegCount \in Nat /\ init_buffer \in Nat /\ req_num \in Nat
       /\ init_buffer + req_num < SegCount
  BY <1>2, OptionFacts
<1>3. /\ g \in 0 .. SegCount + 1 /\ v \in 0 .. SegCount + 1 /\ p \in 0 .. SegCount + 1
      /\ client.frame_num \in Nat /\ client.m_queue \in Nat /\ v <= g
      /\ client.index \in {"in", "behind", "out"}
  BY <1>2, <1>0 DEF Client, Queued
<1>4. \A s \in 0 .. SegCount + 1 : f[s] \in Nat
  BY <1>2 DEF Sums
<1>5. f[v] + client.frame_num = f[g]
  <2>1. Ordered(client, <<>>, <<>>)
    <3>1. wire \o queue = <<>>
      OBVIOUS
    <3> QED BY <3>1 DEF InOrder
  <2>2. Received(client, f) + Len(<<>>) = f[g - Len(<<>>)]
    BY <1>2, <2>1 DEF Ordered
  <2>3. Len(<<>>) = 0
    OBVIOUS
  <2>4. g - 0 = g /\ f[v] + client.frame_num \in Nat
    BY <1>3, <1>4
  <2> QED BY <2>2, <2>3, <2>4 DEF Received
<1>6. \A s \in Cells : /\ s + 1 \in 0 .. SegCount + 1 /\ s \in 0 .. SegCount + 1
                       /\ f[s + 1] = f[s] + client.video_series[s]
                       /\ client.video_series[s] \in Nat
                       /\ s < g => client.video_series[s] > 0 /\ f[s + 1] <= f[g]
  <2> TAKE s \in Cells
  <2>1. s \in Int /\ s + 1 \in 0 .. SegCount + 1 /\ s \in 0 .. SegCount + 1
    BY <1>0 DEF Cells
  <2>2. f[s + 1] = f[s] + client.video_series[s] /\ client.video_series[s] \in Nat
    BY <1>2, SeriesNat DEF Sums
  <2>3. ASSUME s < g PROVE client.video_series[s] > 0 /\ f[s + 1] <= f[g]
    <3>1. client.video_series[s] > 0
      BY <1>2, <2>3 DEF Series
    <3>2. s + 1 <= g
      BY <1>3, <2>1, <2>3
    <3> QED BY <3>1, <3>2, <2>1, <1>2, <1>3, <1>0 DEF Sums
  <2> QED BY <2>1, <2>2, <2>3
<1>7. v = g
  <2> SUFFICES ASSUME v < g PROVE FALSE
    BY <1>3
  <2>1. client.frame_num < client.video_series[v] /\ v \in Cells
    BY <1>2, <1>3, <1>0 DEF Counting, Cells
  <2>2. /\ f[v + 1] = f[v] + client.video_series[v] /\ f[v + 1] <= f[g]
        /\ f[v] \in Nat /\ f[g] \in Nat /\ client.video_series[v] \in Nat
    BY <2>1, <1>3, <1>4, <1>6
  <2> HIDE DEF v, g
  <2> QED BY <2>1, <2>2, <1>3, <1>5
<1>8. client.m_queue = f[g] - f[p]
  BY <1>2, <1>5 DEF Queued, Received
<1>9. ASSUME g <= SegCount PROVE g = Earned(g, p)
  <2>1. client.index # "out"
    BY <1>2, <1>3, <1>9, <1>0 DEF Indices
  <2> QED BY <2>1, <1>2, <1>7 DEF Made
<1>10. CASE client.m_state = "NOT_STARTED"
  <2>1. p = 0 /\ g <= init_buffer + req_num
    BY <1>2, <1>7, <1>10, SufficientStart DEF Stage, Waits, StartsInTime, OptionsSuffice
  <2>2. g = Earned(g, 0)
    BY <2>1, <1>3, <1>9, <1>0
  <2>3. Cardinality({w \in 2 .. 0 : PlayerPulls(w)}) \in Nat
    BY PullsFinite
  <2>4. Earned(g, 0) = 1 + g + Cardinality({w \in 2 .. 0 : PlayerPulls(w)})
    BY <2>1, <1>3, <1>0 DEF Earned
  <2> DEFINE n == Cardinality({w \in 2 .. 0 : PlayerPulls(w)})
  <2> HIDE DEF n
  <2>5. g = 1 + g + n /\ n \in Nat
    BY <2>2, <2>3, <2>4 DEF n
  <2> HIDE DEF g
  <2> QED BY <2>5, <1>3
<1>11. CASE client.m_state = "PAUSED"
  <2>1. p >= 2 /\ p <= v /\ p < SegCount /\ p \in Cells
    BY <1>1, <1>2, <1>3, <1>11, <1>0, PlayedIsReceived DEF Stage, Cells
  <2>2. p = g
    <3> SUFFICES ASSUME p < g PROVE FALSE
      BY <2>1, <1>3, <1>7
    <3>1. /\ f[p + 1] = f[p] + client.video_series[p] /\ client.video_series[p] \in Nat
          /\ client.video_series[p] > 0 /\ f[p + 1] <= f[g] /\ f[p] \in Nat /\ f[g] \in Nat
      BY <2>1, <1>3, <1>4, <1>6
    <3>2. client.m_queue = 0 \/ client.m_queue < client.video_series[p]
      BY <1>11 DEF Waits, PausedShort
    <3> HIDE DEF p, g
    <3> QED BY <3>1, <3>2, <1>3, <1>8
  <2>3. g = Earned(g, g)
    BY <2>1, <2>2, <1>3, <1>9, <1>0
  <2>4. Earned(g, g) > g
    BY <2>1, <2>2, <1>2, <1>3, <1>0, EarnedMore
  <2> QED BY <2>3, <2>4, <1>3
<1> QED BY <1>10, <1>11

\* No player starves: one that waits has a request, or frames, to wait for, as
\* long as there are segments to play.
THEOREM NeverStarved == Spec => []SomethingComes
<1>1. Init => InOrder /\ Waits
  BY InitInOrder, InitWaits
<1>2. IInv /\ InOrder /\ Waits /\ [Next]_vars => InOrder' /\ Waits'
  BY NextInOrder, NextWaits
<1>3. IInv /\ InOrder /\ Waits => SomethingComes
  BY WaitsForSomething
<1> QED
  BY <1>1, <1>2, <1>3, Invariance, PTL DEF Spec
=============================================================================
