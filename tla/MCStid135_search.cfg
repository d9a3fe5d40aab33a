SPECIFICATION Spec
CONSTANTS
    Frontends = {f1}
    NoOne = NoOne
    Glitches = 0
    Polls = 1
    Bytes = 1
INVARIANT ResultIsOfThisSearch
