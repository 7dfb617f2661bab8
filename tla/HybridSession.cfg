\* One frame per segment by TCP.  Four packets by UDP: one to be queued, one
\* to play it, one to be queued behind it, and one that arrives too late.
CONSTANTS
  SegCount = 4
  TcpPacketNums = {1}
  UdpPacketNums = {4}
  Options <- LeastBuffer
  TxBuffer = 1
SPECIFICATION FairSpec
INVARIANTS
  EnhancementStartsAfter
PROPERTIES
  UdpSpec
  SessionEnds
\* The video ends, or waits for ever, with no event pending.
CHECK_DEADLOCK FALSE
