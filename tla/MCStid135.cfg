SPECIFICATION FairSpec
CONSTANTS
    Frontends = {f1, f2}
    NoOne = NoOne
    Glitches = 1
    Polls = 1
    Bytes = 1
INVARIANT SectionOwned
INVARIANT CachedLockIsTrue
INVARIANT GlitchCostsOneReading
PROPERTY OperationEnds
PROPERTY ErrorHeals
