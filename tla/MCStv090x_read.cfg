SPECIFICATION Spec
CONSTANTS
    Paths = {p1, p2}
    NoOne = NoOne
    Rounds = 1
INVARIANT AwakePathAlwaysRuns
CHECK_DEADLOCK FALSE
