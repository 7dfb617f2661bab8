\* Any delays of requests and frames, two ticks in a second.
CONSTANTS
  SegCount = 6
  PacketNums = {1, 2}
  Options <- TwoOptions
  TxBuffer = 1
  Second = 2
  Window = 2
  Horizon = 6
SPECIFICATION TimedSpec
INVARIANTS
  TimesOK
  DueInTime
  EstimateIsFresh
PROPERTIES
  ResumesWhenComplete
\* The clock stops at the horizon.
CHECK_DEADLOCK FALSE
