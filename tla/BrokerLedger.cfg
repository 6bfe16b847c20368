\* A session that syncs and one that rebuilds, three jobs in three days of two
\* events: enough for a pull, a refused pull and a rebuild.  Nothing obliges a
\* session to start another job.
CONSTANTS
    LastDay = 3
    EventsPerDay = 2
    Evening <- MixedEvenings
    Syncers = {s}
    Rebuilders = {r}
    MaxJobs = 3
SPECIFICATION Spec
INVARIANT TypeOK
INVARIANT LedgerIsRecoverable
INVARIANT SyncsLeaveNoHole
PROPERTY NothingIsLost
CHECK_DEADLOCK FALSE
