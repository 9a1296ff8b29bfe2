SPECIFICATION FairSpec
CONSTANTS
  Clients = {c1, c2}
  BufferSize = 1
CHECK_DEADLOCK FALSE
INVARIANTS TypeOK Flushed DrainedBeforeClose FailsClosed NoSenderBlocked LoggingNeverBlocks
PROPERTY ShutdownEnds
