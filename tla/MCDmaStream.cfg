SPECIFICATION FairSpec
CONSTANTS
  Buffers = 4
  PreBuffers = 2
  StatLag = 1
  Offsets = {0, 1}
  MaxDone = 7
  MaxFeeds = 2
  NoRun = NoRun
INVARIANT TailFollowsBody
INVARIANT FreshStart
INVARIANT EngineFollowsFeeds
PROPERTY ImplementsDelivery
PROPERTY NoBufferStuck
PROPERTY OverrunHeals
