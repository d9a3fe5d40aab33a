SPECIFICATION Spec
CONSTANTS
  N = 1
  NBuses = 1
  HighInputs = {}
  Board = {"sec", "client"}
  Failing = {}
INVARIANT ModulesGivenBack
