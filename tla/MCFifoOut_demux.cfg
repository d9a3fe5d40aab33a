SPECIFICATION Spec
CONSTANTS
  Ring = 3
  FifoSize = 3
  MaxWrite = 2
  Ioctls = {"clear", "demux"}
  Threads = FALSE
  MaxPackets = 5
INVARIANT DemuxStops
CHECK_DEADLOCK FALSE
