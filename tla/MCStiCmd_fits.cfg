SPECIFICATION Spec
CONSTANTS
  Lens = {1, 2}
  Habits <- StrictHabits
  MaxCmds = 2
INVARIANT ResultFits
