\* The default options ask for a segment the video does not have.
CONSTANTS
  SegCount = 8
  PacketNums = {1, 2}
  Options <- Default
  TxBuffer = 2
SPECIFICATION Spec
INVARIANT
  NoOverrun
\* The video ends, or waits for ever, with no event pending.
CHECK_DEADLOCK FALSE
