\* Throughputs below, at and above the bandwidth, of segments of one frame and
\* of several; segments that fit in no quality, in some, and in all.
CONSTANTS
  SegCount = 3
  Sizes = {0, 1, 6, 9, 25}
  FrameCounts = {1, 2, 3, 4}
  Gaps = {0, 1, 2, 3, 4, 6}
  Payload = 2
  PacketBits = 3
  FrameBits = 3
  LinkRate = 4
  t_bw = 4
  Second = 12
SPECIFICATION Spec
INVARIANTS
  TypeOK
  TimeBetweenPackets
  WithinBandwidth
  AnswerInTime
\* The last segment has been asked for and no other one comes by TCP.
CHECK_DEADLOCK FALSE
