\* A run that fails, and a database that refuses the one write that would say so.
CONSTANTS
    Users = {u1}
    Requests = {q1}
    MaxRuns = 2
    PoolSize = 1
    MaxStops = 0
    MaxFaults = 1
SPECIFICATION Spec
INVARIANT RunningRunIsExecuted
CHECK_DEADLOCK FALSE
