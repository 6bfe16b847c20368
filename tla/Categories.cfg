SPECIFICATION Spec
CONSTANTS
    a = a
    b = b
    c = c
    other = other
    Names <- MCNames
    Other = other
    NoKey = NoKey
    Postings = {p}
    Seed <- MCSeed
    MaxRequests = 4
INVARIANT TypeOK
INVARIANT NothingNamesTheRetired
INVARIANT LiveTreeIsWhole
PROPERTY ResolutionFollowsRequests
PROPERTY OneRetrySuffices
VIEW MCView
CHECK_DEADLOCK FALSE
