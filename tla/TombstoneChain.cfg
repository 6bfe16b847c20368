SPECIFICATION Spec
CONSTANTS
    a = a
    b = b
    c = c
    other = other
    Names <- MCNames3
    Other = other
    NoKey = NoKey
    Postings = {p}
    Seed <- MCSeed3
    MaxRequests = 4
INVARIANT NoTombstoneNamesATombstone
VIEW MCView
CHECK_DEADLOCK FALSE
CONSTRAINT MCEditsOnly
