\* Pulls of older days than the ledger covers.
CONSTANTS
    LastDay = 4
    EventsPerDay = 1
    Evening <- NoEvenings
    Syncers = {s}
    Rebuilders = {}
    MaxJobs = 2
SPECIFICATION Spec
INVARIANT AcceptedPullConnects
CHECK_DEADLOCK FALSE
