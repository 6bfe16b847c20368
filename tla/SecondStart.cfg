\* A second start while a sync is in flight.
CONSTANTS
    Users = {u1}
    Requests = {q1, q2}
    MaxRuns = 2
    PoolSize = 1
    MaxStops = 0
    MaxFaults = 0
SPECIFICATION Spec
INVARIANT SecondStartIs409
CHECK_DEADLOCK FALSE
