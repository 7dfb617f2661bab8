\* com.py's check of the totals of the log.
CONSTANTS
  SegCount = 3
  PacketNums = {1, 3}
  Lossy = FALSE
SPECIFICATION Spec
INVARIANT PacketsAreTheSame
CHECK_DEADLOCK FALSE
