\* Every interleaving of every set of options, with requests kept apart, and of
\* the default options with requests coalesced.
CONSTANTS
  SegCount = 7
  PacketNums = {1, 2}
  Options <- AllOptions
  TxBuffer = 2
SPECIFICATION FairSpec
INVARIANTS
  TypeOK
  NoOverrunIfFit
  QueueHoldsSegments
  FramesMatchCount
  RequestsEarned
  OneTimer
  PlayerKnowsClient
  SomethingComes
PROPERTIES
  AllPlayed
  EndsDone
\* The video ends, or waits for ever, with no event pending.
CHECK_DEADLOCK FALSE
