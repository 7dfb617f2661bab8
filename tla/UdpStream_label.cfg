\* The segment number of a loss report.
CONSTANTS
  SegCount = 3
  PacketNums = {4, 5, 9}
  Lossy = FALSE
SPECIFICATION Spec
PROPERTY LossNamesSegment
CHECK_DEADLOCK FALSE
