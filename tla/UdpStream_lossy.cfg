\* Every interleaving with packet loss; up to five packets of a segment, so
\* that stale packets can make up a whole segment.
CONSTANTS
  SegCount = 3
  PacketNums = {1, 3, 5}
  Lossy = TRUE
SPECIFICATION Spec
INVARIANTS
  TypeOK
  NoFault
  RequestsPacePlayback
  LossesAccounted
  StampsInOrder
  NoPacketUnasked
PROPERTIES
  PullSpec
\* The stream may stop, finished or starved, with no event pending.
CHECK_DEADLOCK FALSE
