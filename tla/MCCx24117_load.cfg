SPECIFICATION Spec
CONSTANTS
    Demods = {d1, d2}
    NoOne = NoOne
    Glitches = 2
    Polls = 1
    Retunes = 2
    InitRest = 1
    LoadRest = 1
INVARIANT CheckedIsLoaded
