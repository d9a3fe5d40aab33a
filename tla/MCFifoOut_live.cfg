SPECIFICATION FairSpec
CONSTANTS
  Ring = 4
  FifoSize = 3
  MaxWrite = 3
  Ioctls = {"clear"}
  Threads = TRUE
  MaxPackets = 4
PROPERTY PlaysOn
PROPERTY WriteEnds
CHECK_DEADLOCK FALSE
