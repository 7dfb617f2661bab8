\* Two requests of one handler coalesced by TCP.
CONSTANTS
  SegCount = 7
  PacketNums = {1, 2}
  Options <- EvenCoalescing
  TxBuffer = 2
SPECIFICATION FairSpec
PROPERTY
  RequestsAnswered
\* The video ends, or waits for ever, with no event pending.
CHECK_DEADLOCK FALSE
