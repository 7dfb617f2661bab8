\* Two frames do not fit into the buffer together, nor into the socket: every
\* split of every stream of up to three segments.
CONSTANTS
  Header = 2
  FrameSize = 3
  MaxMessage = 6
  TxBuffer = 8
  PacketNums = {1, 2, 3}
  Requests = 3
SPECIFICATION FairSpec
INVARIANTS
  TypeOK
  WholeFramesInOrder
  NothingLeftBehind
PROPERTIES
  ChannelSpec
  ChannelFairSpec
\* The connection may be idle, with everything handed over.
CHECK_DEADLOCK FALSE
