SPECIFICATION Spec
CONSTANTS
  N = 1
  NBuses = 1
  HighInputs = {}
  Board = {"fe2", "sec2", "ca"}
  Failing = {"registered2"}
CHECK_DEADLOCK FALSE
INVARIANT NothingToDo
