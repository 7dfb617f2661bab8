--------------------------- MODULE UdpQualityProofs ---------------------------
(***************************************************************************)
(* Proofs about UdpQuality, for every bandwidth, packet and frame size,    *)
(* every set of segment sizes and of gaps between frames.                  *)
(*                                                                         *)
(* A measurement only changes TP and an answer is a function of TP and of  *)
(* the sizes of one segment, so the invariants follow from what Send makes *)
(* of any TP.  Its fractions are compared by products of variables: each   *)
(* product is named and bounded in a step of its own.                      *)
(***************************************************************************)
EXTENDS UdpQuality, TLAPS

\* Products of natural numbers are natural, and those of positive ones positive.
LEMMA Products ==
  ASSUME NEW a \in Nat, NEW b \in Nat
  PROVE  a * b \in Nat /\ (a > 0 /\ b > 0 => a * b > 0)
OBVIOUS

\* A product with a natural number keeps the order.
LEMMA ProductOrder ==
  ASSUME NEW a \in Int, NEW b \in Int, NEW k \in Nat, a <= b
  PROVE  a * k <= b * k
<1>1. (b - a) * k >= 0
  OBVIOUS
<1>2. (b - a) * k = b * k - a * k
  OBVIOUS
<1>3. a * k \in Int /\ b * k \in Int
  OBVIOUS
<1> QED BY <1>1, <1>2, <1>3

\* A quotient of a number by one not greater than it.
LEMMA QuotientPositive ==
  ASSUME NEW a \in Nat, NEW b \in Nat \ {0}, a >= b
  PROVE  a \div b \in Nat \ {0}
OBVIOUS

\* DudpClient::Send asks for a packet at least, also for an empty segment.
LEMMA PacketsPositive ==
  ASSUME NEW size \in Nat
  PROVE  Packets(size) \in Nat \ {0}
<1>1. CASE size = 0
  BY <1>1 DEF Packets
<1>2. CASE size # 0
  <2>1. size + Payload - 1 \in Nat /\ size + Payload - 1 >= Payload
    BY <1>2, UnitsAssumption
  <2>2. (size + Payload - 1) \div Payload \in Nat \ {0}
    BY <2>1, UnitsAssumption, QuotientPositive
  <2> QED BY <1>2, <2>2 DEF Packets
<1> QED BY <1>1, <1>2

\* What the choice of Send works with, for any measurement: the bandwidth left
\* is the sevenfold, in tenths, of what TP leaves of t_bw.
LEMMA MeasureTypes ==
  ASSUME TP \in [bits : Nat, ticks : Nat]
  PROVE  /\ Ticks \in Nat
         /\ PacketBits * TP.ticks \in Nat /\ Ticks = 10 * (PacketBits * TP.ticks)
         /\ t_bw * TP.ticks - TP.bits \in Int
         /\ Remaining = 7 * (t_bw * TP.ticks - TP.bits) /\ Remaining \in Int
         /\ Remaining > 0 => Ticks > 0
<1>1. TP.bits \in Nat /\ TP.ticks \in Nat
  OBVIOUS
<1> DEFINE pt == PacketBits * TP.ticks
           wt == t_bw * TP.ticks
<1>2. pt \in Nat /\ wt \in Nat /\ (TP.ticks > 0 => pt > 0) /\ (TP.ticks = 0 => wt = 0)
  BY <1>1, UnitsAssumption, Products
<1>3. Ticks = 10 * pt
  BY <1>1, UnitsAssumption DEF Ticks
<1>4. Remaining = 7 * (wt - TP.bits)
  BY DEF Remaining
<1> HIDE DEF pt, wt
<1>5. Ticks \in Nat /\ Remaining \in Int /\ wt - TP.bits \in Int
  BY <1>1, <1>2, <1>3, <1>4
<1>6. Remaining > 0 => Ticks > 0
  <2> SUFFICES ASSUME Remaining > 0 PROVE Ticks > 0
    OBVIOUS
  <2>1. wt > TP.bits
    BY <1>1, <1>2, <1>4
  <2>2. TP.ticks > 0
    BY <1>1, <1>2, <2>1
  <2> QED BY <1>2, <1>3, <2>2
<1> QED BY <1>2, <1>3, <1>4, <1>5, <1>6 DEF pt, wt

\* The time between packets that Send computes for n of them: positive in each
\* of its three cases.
LEMMA SpacingPositive ==
  ASSUME TP \in [bits : Nat, ticks : Nat], NEW n \in Nat \ {0}
  PROVE  /\ Spacing(n) \in [num : Int, den : Int]
         /\ Spacing(n).num > 0 /\ Spacing(n).den >= 0
<1>1. Ticks \in Nat /\ Remaining \in Int /\ (Remaining > 0 => Ticks > 0)
  BY MeasureTypes
<1> DEFINE nt == n * Ticks
           sr == Second * Remaining
           rn == Remaining * n
<1>2. nt \in Nat /\ (Ticks > 0 => nt > 0)
  BY <1>1, Products
<1>3. sr \in Int /\ rn \in Int
  BY <1>1, UnitsAssumption
<1>4. Spacing(n) = IF Remaining > 0
                   THEN [num |-> Greater(sr - nt, nt), den |-> rn]
                   ELSE IF Remaining = 0 THEN [num |-> 1, den |-> 0]
                   ELSE [num |-> -(sr - nt), den |-> -Remaining * n]
  BY DEF Spacing
<1>5. CASE Remaining > 0
  <2>1. rn \in Nat
    BY <1>1, <1>5, Products
  <2> HIDE DEF nt, sr, rn
  <2>2. Greater(sr - nt, nt) \in Int /\ Greater(sr - nt, nt) > 0
    BY <1>1, <1>2, <1>3, <1>5 DEF Greater
  <2> HIDE DEF Greater
  <2> QED BY <1>3, <1>4, <1>5, <2>1, <2>2
<1>6. CASE Remaining = 0
  BY <1>4, <1>6
<1>7. CASE Remaining < 0
  <2> DEFINE d == -Remaining * n
  <2>1. Second * (-Remaining) \in Nat /\ Second * (-Remaining) > 0
    BY <1>1, <1>7, UnitsAssumption, Products
  <2>2. sr < 0
    <3>1. Second * (-Remaining) = -sr
      BY <1>1, UnitsAssumption
    <3> HIDE DEF sr
    <3> QED BY <1>3, <2>1, <3>1
  <2>3. d \in Nat
    <3>1. (-Remaining) * n \in Nat
      BY <1>1, <1>7, Products
    <3>2. (-Remaining) * n = -(Remaining * n)
      BY <1>1
    <3> QED BY <3>1, <3>2
  <2> HIDE DEF nt, sr, d
  <2>4. Spacing(n) = [num |-> -(sr - nt), den |-> d]
    BY <1>1, <1>4, <1>7 DEF d
  <2>5. -(sr - nt) \in Int /\ -(sr - nt) > 0
    BY <1>2, <1>3, <2>2
  <2> QED BY <2>3, <2>4, <2>5
<1> QED BY <1>1, <1>5, <1>6, <1>7

\* What is left after a truthful measurement is positive, and Spacing a true
\* fraction.
LEMMA SpacingTruthful ==
  ASSUME TP \in [bits : Nat, ticks : Nat], NEW n \in Nat \ {0},
         TP.bits < t_bw * TP.ticks
  PROVE  /\ Remaining > 0
         /\ Spacing(n).den = Remaining * n
         /\ Spacing(n).num = Greater(Second * Remaining - n * Ticks, n * Ticks)
<1>1. TP.bits \in Nat /\ t_bw * TP.ticks \in Nat
  BY UnitsAssumption, Products
<1>2. Remaining > 0
  BY <1>1, MeasureTypes
<1> QED BY <1>2 DEF Spacing

\* The rate of an answer of n packets and the throughput measured are within the
\* bandwidth: each packet has the whole time it takes in what is left.
LEMMA SpacingWithin ==
  ASSUME TP \in [bits : Nat, ticks : Nat], NEW n \in Nat \ {0},
         TP.bits < t_bw * TP.ticks
  PROVE  PacketBits * TP.ticks * Spacing(n).den
           <= Spacing(n).num * (t_bw * TP.ticks - TP.bits)
<1> DEFINE pt == PacketBits * TP.ticks
           left == t_bw * TP.ticks - TP.bits
           nt == n * Ticks
           np == n * pt
           most == Greater(Second * Remaining - nt, nt)
<1>1. /\ Ticks \in Nat /\ pt \in Nat /\ Ticks = 10 * pt
      /\ left \in Int /\ Remaining = 7 * left /\ Remaining \in Int
  BY MeasureTypes
<1>2. Remaining > 0 /\ Spacing(n).den = Remaining * n /\ Spacing(n).num = most
  BY SpacingTruthful
<1> HIDE DEF pt, left
<1>3. left \in Nat
  BY <1>1, <1>2
<1>4. np \in Nat /\ nt \in Nat /\ Second * Remaining \in Int
  BY <1>1, UnitsAssumption, Products
<1>5. nt = 10 * np
  BY <1>1
<1> HIDE DEF np, nt
<1>6. most >= nt /\ most \in Int
  BY <1>4 DEF Greater
<1> HIDE DEF most
<1>7. 7 * np <= most
  BY <1>4, <1>5, <1>6
<1>8. (7 * np) * left <= most * left
  <2>1. 7 * np \in Int
    BY <1>4
  <2> QED BY <1>3, <1>6, <1>7, <2>1, ProductOrder
<1>9. pt * (Remaining * n) = (7 * np) * left
  <2>1. Remaining * n = (7 * left) * n
    BY <1>1
  <2>2. pt * ((7 * left) * n) = (7 * (n * pt)) * left
    BY <1>1, <1>3
  <2> QED BY <2>1, <2>2 DEF np
<1>10. pt * Spacing(n).den <= Spacing(n).num * left
  BY <1>2, <1>8, <1>9
<1> QED BY <1>10 DEF pt, left

\* n packets that fit are sent within the playing time of a segment.
LEMMA SpacingInTime ==
  ASSUME TP \in [bits : Nat, ticks : Nat], NEW n \in Nat \ {0},
         TP.bits < t_bw * TP.ticks, Fits(n)
  PROVE  n * Spacing(n).num <= Second * Spacing(n).den
<1> DEFINE nt == n * Ticks
           sr == Second * Remaining
           most == Greater(sr - nt, nt)
<1>1. Ticks \in Nat /\ Remaining \in Int
  BY MeasureTypes
<1>2. Remaining > 0 /\ Spacing(n).den = Remaining * n /\ Spacing(n).num = most
  BY SpacingTruthful
<1>3. nt \in Nat /\ sr \in Int
  BY <1>1, UnitsAssumption, Products
<1>4. nt <= sr
  BY <1>2 DEF Fits
<1>5. Second * (Remaining * n) = sr * n
  BY <1>1, UnitsAssumption
<1> HIDE DEF nt, sr
<1>6. most <= sr /\ most \in Int
  BY <1>3, <1>4 DEF Greater
<1> HIDE DEF most
<1>7. most * n <= sr * n
  BY <1>3, <1>6, ProductOrder
<1>8. n * most = most * n
  BY <1>6
<1> QED BY <1>2, <1>5, <1>7, <1>8
-----------------------------------------------------------------------------
\* The answer has the properties of the runs, and what Send adds up is counted.
IInv == TypeOK /\ TimeBetweenPackets /\ WithinBandwidth /\ AnswerInTime

\* Before the first request there is no answer yet.
LEMMA InitIInv == Init => IInv
<1> SUFFICES ASSUME Init PROVE IInv
  OBVIOUS
<1>1. TypeOK
  BY SizesAssumption DEF Init, TypeOK
<1>2. TimeBetweenPackets /\ WithinBandwidth /\ AnswerInTime
  BY DEF Init, TimeBetweenPackets, WithinBandwidth, AnswerInTime
<1> QED BY <1>1, <1>2 DEF IInv

\* A measurement leaves the answer and what it was made with alone.
LEMMA MeasureIInv == IInv /\ MeasureTP => IInv'
<1> SUFFICES ASSUME IInv, MeasureTP PROVE IInv'
  OBVIOUS
<1>1. UNCHANGED <<m_segmentId, answer>>
  BY DEF MeasureTP
<1>2. TP' \in [bits : Nat, ticks : Nat]
  <2>1. PICK n \in FrameCounts, gap \in Gaps : TP' = [bits |-> n * FrameBits, ticks |-> gap]
    BY DEF MeasureTP
  <2>2. n * FrameBits \in Nat /\ gap \in Nat
    BY SizesAssumption, UnitsAssumption, Products
  <2> QED BY <2>1, <2>2
<1> QED
  BY <1>1, <1>2 DEF IInv, TypeOK, TimeBetweenPackets, WithinBandwidth, Truthful, AnswerInTime

\* DudpClient::Send answers by the TP of the moment: the lowest quality if
\* nothing fits, and otherwise one that does.
LEMMA SendIInv == IInv /\ Send => IInv'
<1> SUFFICES ASSUME IInv, Send PROVE IInv'
  OBVIOUS
<1>1. TP \in [bits : Nat, ticks : Nat] /\ m_segmentId \in 0 .. SegCount
  BY DEF IInv, TypeOK
<1>2. TP' = TP /\ m_segmentId' = m_segmentId + 1 /\ m_segmentId < SegCount
  BY DEF Send
<1>3. PICK q \in 1 .. 3, n \in Nat \ {0} :
        /\ answer' = [quality |-> q, packets |-> n, TP |-> TP, p_inter |-> Spacing(n)]
        /\ q \in {1, 2} => Fits(n)
  <2>1. PICK row \in Rows :
          LET quality == IF Fits(Packets(row[1])) THEN 1
                         ELSE IF Fits(Packets(row[2])) THEN 2 ELSE 3
              n == Packets(row[quality])
          IN  answer' = [quality |-> quality, packets |-> n, TP |-> TP,
                         p_inter |-> Spacing(n)]
    BY DEF Send
  <2> DEFINE quality == IF Fits(Packets(row[1])) THEN 1
                        ELSE IF Fits(Packets(row[2])) THEN 2 ELSE 3
             n == Packets(row[quality])
  <2>2. answer' = [quality |-> quality, packets |-> n, TP |-> TP, p_inter |-> Spacing(n)]
    BY <2>1
  <2>3. row[1] \in Nat /\ row[2] \in Nat /\ row[3] \in Nat
    BY SizesAssumption DEF Rows
  <2>4. quality \in 1 .. 3 /\ (quality = 1 => Fits(n)) /\ (quality = 2 => Fits(n))
    OBVIOUS
  <2>5. n \in Nat \ {0}
    <3>1. row[quality] \in Nat
      BY <2>3, <2>4
    <3> HIDE DEF quality
    <3> QED BY <3>1, PacketsPositive
  <2> HIDE DEF quality, n
  <2> QED BY <2>2, <2>4, <2>5
<1>4. Spacing(n) \in [num : Int, den : Int] /\ Spacing(n).num > 0 /\ Spacing(n).den >= 0
  BY <1>1, SpacingPositive
<1>5. answer'.quality = q /\ answer'.packets = n /\ answer'.TP = TP
      /\ answer'.p_inter = Spacing(n)
  BY <1>3
<1>6. TypeOK'
  <2>1. m_segmentId' \in 0 .. SegCount
    BY <1>1, <1>2, SizesAssumption
  <2>2. answer' \in [quality : 0 .. 3, packets : Nat \ {0},
                     TP : [bits : Nat, ticks : Nat], p_inter : [num : Int, den : Int]]
    BY <1>1, <1>3, <1>4
  <2> QED BY <1>1, <1>2, <2>1, <2>2 DEF TypeOK
<1>7. TimeBetweenPackets'
  BY <1>4, <1>5 DEF TimeBetweenPackets
<1>8. WithinBandwidth'
  BY <1>1, <1>5, SpacingWithin DEF WithinBandwidth, Truthful
<1>9. AnswerInTime'
  BY <1>1, <1>3, <1>5, SpacingInTime DEF AnswerInTime, Truthful
<1> QED BY <1>6, <1>7, <1>8, <1>9 DEF IInv

\* The inductive invariant holds throughout.
LEMMA Invariance == Spec => []IInv
<1>1. IInv /\ UNCHANGED vars => IInv'
  BY DEF vars, IInv, TypeOK, TimeBetweenPackets, WithinBandwidth, Truthful, AnswerInTime
<1>2. IInv /\ [Next]_vars => IInv'
  BY <1>1, MeasureIInv, SendIInv DEF Next
<1> QED BY InitIInv, <1>2, PTL DEF Spec

\* A packet at least is asked for of every segment, and no segment behind the
\* last one, whatever sizes the files hold and whatever is measured.
THEOREM TypeCorrect == Spec => []TypeOK
<1>1. IInv => TypeOK
  BY DEF IInv
<1> QED BY Invariance, <1>1, PTL

\* p_inter is never zero or negative, for no throughput at all: the server's
\* ticks take time, as UdpStream's TimePasses assumes of them.
THEOREM TicksTakeTime == Spec => []TimeBetweenPackets
<1>1. IInv => TimeBetweenPackets
  BY DEF IInv
<1> QED BY Invariance, <1>1, PTL

\* As long as less than the bandwidth was measured, the rate of the answer and
\* the throughput of the TCP half add up to the bandwidth at most.
THEOREM BandwidthShared == Spec => []WithinBandwidth
<1>1. IInv => WithinBandwidth
  BY DEF IInv
<1> QED BY Invariance, <1>1, PTL

\* As long as less than the bandwidth was measured, a high or medium quality is
\* chosen only if its packets are sent within the playing time of a segment.
THEOREM InTime == Spec => []AnswerInTime
<1>1. IInv => AnswerInTime
  BY DEF IInv
<1> QED BY Invariance, <1>1, PTL
===============================================================================
