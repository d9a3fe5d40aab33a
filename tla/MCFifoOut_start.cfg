SPECIFICATION Spec
CONSTANTS
  Ring = 3
  FifoSize = 3
  MaxWrite = 2
  Ioctls = {"clear"}
  Threads = TRUE
  MaxPackets = 5
INVARIANT StartsFifo
CHECK_DEADLOCK FALSE
