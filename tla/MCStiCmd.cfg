SPECIFICATION FairSpec
CONSTANTS
  Lens = {1, 2}
  Habits <- MCHabits
  MaxCmds = 3
INVARIANT ResultIsOwn
PROPERTY CommandIntact
PROPERTY ImplementsCall
PROPERTY ReadyReturns
