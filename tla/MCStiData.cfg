SPECIFICATION DataFairSpec
CONSTANTS
  BlockSize = 2
  Lengths = {0, 1, 2, 4, 5}
  Handles = 3
  MaxXfers = 3
INVARIANT HandleRefers
PROPERTY HalfNotInUse
PROPERTY ReadyReturns
