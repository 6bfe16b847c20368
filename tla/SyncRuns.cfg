\* Two users, two request threads, a pool of one thread, one stop
\* (a kill, a shutdown, or a shutdown cut short), one failed write.  Nobody has
\* to start another sync: the process may idle.
CONSTANTS
    Users = {u1, u2}
    Requests = {q1, q2}
    MaxRuns = 3
    PoolSize = 1
    MaxStops = 1
    MaxFaults = 1
SPECIFICATION FairSpec
INVARIANT TypeOK
INVARIANT OwnedUnlessAWriteFailed
INVARIANT OneSyncPerUser
PROPERTY EndedRunsStayEnded
PROPERTY EveryRunEnds
CHECK_DEADLOCK FALSE
