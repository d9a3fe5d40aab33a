SPECIFICATION Spec
CONSTANTS
    Paths = {p1, p2}
    NoOne = NoOne
    Rounds = 2
SYMMETRY Symmetry
INVARIANT AwakePathRuns
INVARIANT AsleepIsStandby
INVARIANT TunerAlone
PROPERTY MclkKnown
CHECK_DEADLOCK FALSE
