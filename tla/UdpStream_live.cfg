\* Progress, and what is left to wake the player, over a network that delivers
\* everything; up to four packets, so that stale ones can make up a segment.
CONSTANTS
  SegCount = 3
  PacketNums = {1, 2, 4}
  Lossy = FALSE
SPECIFICATION PlaySpec
INVARIANTS
  LossMarkHasRequest
PROPERTIES
  ServerQuiet
  QueuePlays
  PullFairSpec
CHECK_DEADLOCK FALSE
