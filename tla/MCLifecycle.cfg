SPECIFICATION Spec
CONSTANTS
  N = 2
  NBuses = 2
  HighInputs = {2}
  Board = {"sec", "fe2", "ca", "client"}
  Failing <- Fallible
INVARIANT HandlerHasDevice
INVARIANT NothingOutlivesItsBase
INVARIANT FailedHasNothing
INVARIANT AllElseGivenBack
INVARIANT RingUsersHaveBuffer
