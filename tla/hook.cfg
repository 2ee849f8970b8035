SPECIFICATION FairSpec
CONSTANTS
    c1 = c1
    c2 = c2
    k1 = k1
    fd1 = fd1
    None = None
    Callers = {c1, c2}
    Closers = {k1}
    Fds = {fd1}
    Plans <- MCPlans
CHECK_DEADLOCK FALSE
INVARIANTS
    TypeOK
    HoldIffRegistered
    TimeoutsAreOwn
    TimerGuardsWait
    NoOrphanWait
    FailsOnlyStale
PROPERTY WaitEnds
