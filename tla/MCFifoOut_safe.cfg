SPECIFICATION Spec
CONSTANTS
  Ring = 3
  FifoSize = 3
  MaxWrite = 2
  Ioctls = {"clear", "demux"}
  Threads = TRUE
  MaxPackets = 5
INVARIANT StallOnlyWithoutRoom
INVARIANT ClearStarts
PROPERTY ImplementsQueue
CHECK_DEADLOCK FALSE
