SPECIFICATION Spec
CONSTANTS
  N = 1
  NBuses = 1
  HighInputs = {}
  Board = {"sec", "ca"}
  Failing = {}
INVARIANT MaskedWithoutHandler
