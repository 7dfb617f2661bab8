------------------------------ MODULE UdpQuality ------------------------------
(***************************************************************************)
(* How the two halves share the link: DashClient measures the throughput   *)
(* TP of every segment that comes by TCP, and DudpClient::Send chooses, from *)
(* the bandwidth that TP leaves, the quality of the next UDP segment and   *)
(* the time p_inter between the server's packets.                          *)
(*                                                                         *)
(* Numbers that are doubles in the code are fractions here, exact, with    *)
(* the sign in the numerator; bits and ticks are whatever makes them       *)
(* natural.  x / 0 is infinite, as it is for doubles.                      *)
(***************************************************************************)
EXTENDS Integers

CONSTANTS
  SegCount,     \* segments of the video
  Sizes,        \* bytes a segment may have, in any quality
  FrameCounts,  \* frames a TCP segment may have
  Gaps,         \* ticks there may be between its first frame and its last
  Payload,      \* bytes of a segment in one packet, 1288
  PacketBits,   \* bits of a UDP packet, 1346 * 8
  FrameBits,    \* bits of a TCP frame, 1354 * 8
  LinkRate,     \* bits per tick the link carries
  t_bw,         \* bits per tick the program takes it to carry
  Second        \* ticks of a second, the playing time of a segment

ASSUME SizesAssumption ==
  /\ SegCount \in Nat /\ Sizes \subseteq Nat
  /\ FrameCounts \subseteq Nat \ {0} /\ Gaps \subseteq Nat
ASSUME UnitsAssumption ==
  /\ Payload \in Nat \ {0} /\ PacketBits \in Nat \ {0} /\ FrameBits \in Nat \ {0}
  /\ LinkRate \in Nat \ {0} /\ t_bw \in Nat \ {0} /\ Second \in Nat \ {0}

VARIABLES
  TP,           \* the throughput measured last, bits / ticks
  m_segmentId,  \* the UDP segment to ask for next
  answer        \* what Send chose last, and the TP it had

vars == <<TP, m_segmentId, answer>>

\* TP is a global, zero until the first segment has come.
Init ==
  /\ TP = [bits |-> 0, ticks |-> 1]
  /\ m_segmentId = 0
  /\ answer = [quality |-> 0, packets |-> 1, TP |-> TP,
               p_inter |-> [num |-> 1, den |-> 1]]

-----------------------------------------------------------------------------
\* MessageReceived, at the last of n frames: TP counts all of them, over the
\* time from the first one, in which the link carries the others.  An only
\* frame is both the first and the last.
MeasureTP ==
  /\ \E n \in FrameCounts, gap \in Gaps :
       /\ (n - 1) * FrameBits <= LinkRate * gap
       /\ n = 1 => gap = 0
       /\ TP' = [bits |-> n * FrameBits, ticks |-> gap]
  /\ UNCHANGED <<m_segmentId, answer>>

\* each_time is a / b, with a = Ticks and b = Remaining: the time a packet takes
\* in seven tenths of what is left.  What is left may be nothing, or less.
Ticks == 10 * PacketBits * TP.ticks
Remaining == 7 * (t_bw * TP.ticks - TP.bits)

\* Bug: an empty segment takes no packet.
PacketsMayBeNone(size) == (size + Payload - 1) \div Payload

\* A packet at least, even for an empty segment.
Packets(size) ==
  IF size = 0 THEN 1 ELSE (size + Payload - 1) \div Payload

\* Bug: two seconds are taken to be there.
FitsTwice(n) ==
  Remaining # 0 /\ (Remaining > 0 => n * Ticks <= 2 * Second * Remaining)

\* 1 - n * each_time >= 0.
Fits(n) ==
  Remaining # 0 /\ (Remaining > 0 => n * Ticks <= Second * Remaining)

Greater(x, y) == IF x > y THEN x ELSE y

\* Bug: the smaller of the two is taken.
SpacingLeast(n) ==
  LET room == Second * Remaining - n * Ticks
  IN  IF Remaining > 0
      THEN [num |-> IF room > n * Ticks THEN n * Ticks ELSE room,
            den |-> Remaining * n]
      ELSE [num |-> -Ticks, den |-> -Remaining]

\* Bug: packets are spread over the second, whatever time they take.
SpacingEven(n) ==
  LET room == Second * Remaining - n * Ticks
  IN  IF Remaining > 0 THEN [num |-> room, den |-> Remaining * n]
      ELSE IF Remaining = 0 THEN [num |-> 1, den |-> 0]
      ELSE [num |-> -room, den |-> -Remaining * n]

\* p_inter: the greater of interval = (1 - n * each_time) / n and each_time,
\* over a common denominator.
Spacing(n) ==
  LET room == Second * Remaining - n * Ticks
  IN  IF Remaining > 0
      THEN [num |-> Greater(room, n * Ticks), den |-> Remaining * n]
      ELSE IF Remaining = 0 THEN [num |-> 1, den |-> 0]
      ELSE [num |-> -room, den |-> -Remaining * n]

\* Rows of the three size files, whose lines are added up: the bytes of a segment
\* in high, medium and low quality, which nothing orders.
Rows == Sizes \X Sizes \X Sizes

\* Send: the best of three qualities that fits, or the lowest.
Send ==
  /\ m_segmentId < SegCount
  /\ \E row \in Rows :
       LET quality == IF Fits(Packets(row[1])) THEN 1
                      ELSE IF Fits(Packets(row[2])) THEN 2 ELSE 3
           n == Packets(row[quality])
       IN  answer' = [quality |-> quality, packets |-> n, TP |-> TP,
                      p_inter |-> Spacing(n)]
  /\ m_segmentId' = m_segmentId + 1
  /\ UNCHANGED TP

Next == MeasureTP \/ Send

Spec == Init /\ [][Next]_vars

-----------------------------------------------------------------------------
(* Properties.                                                             *)

\* The type invariant: a packet is sent for every segment.
TypeOK ==
  /\ TP \in [bits : Nat, ticks : Nat]
  /\ m_segmentId \in 0 .. SegCount
  /\ answer \in [quality : 0 .. 3, packets : Nat \ {0}, TP : [bits : Nat, ticks : Nat],
                 p_inter : [num : Int, den : Int]]

\* Time passes between two packets of the server, whatever has been measured,
\* even more than the link carries, or a time of zero: UdpStream!TimePasses.
TimeBetweenPackets == answer.p_inter.num > 0 /\ answer.p_inter.den >= 0

\* Is the bandwidth measured less than there is?
Truthful == answer.TP.bits < t_bw * answer.TP.ticks

\* The two halves together stay within the bandwidth: TP and the rate of the
\* answer are no more than t_bw.
WithinBandwidth ==
  answer.quality # 0 /\ Truthful =>
    PacketBits * answer.TP.ticks * answer.p_inter.den
      <= answer.p_inter.num * (t_bw * answer.TP.ticks - answer.TP.bits)

\* An answer of high or medium quality is sent in the time a segment plays.
\* It need not be when TP is not truthful, although the highest quality is
\* chosen then.
AnswerInTime ==
  answer.quality \in {1, 2} /\ Truthful =>
    answer.packets * answer.p_inter.num <= Second * answer.p_inter.den
=============================================================================
