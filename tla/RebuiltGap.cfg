\* A rebuild after a pull that the gap check had refused.
CONSTANTS
    LastDay = 3
    EventsPerDay = 1
    Evening <- NoEvenings
    Syncers = {s}
    Rebuilders = {r}
    MaxJobs = 3
SPECIFICATION Spec
INVARIANT NoForwardHole
CHECK_DEADLOCK FALSE
