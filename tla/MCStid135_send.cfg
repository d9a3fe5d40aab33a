SPECIFICATION FairSpec
CONSTANTS
    Frontends = {f1, f2}
    NoOne = NoOne
    Glitches = 1
    Polls = 1
    Bytes = 1
PROPERTY SendEnds
