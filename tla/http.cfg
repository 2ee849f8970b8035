SPECIFICATION FairSpec
CONSTANTS
    u1 = u1
    u2 = u2
    l1 = l1
    None = None
    Users = {u1, u2}
    Listeners = {l1}
    MaxStarts = 2
    MaxCalls = 5
    MaxRequests = 2
    MaxConns = 2
    m_maxRequest = 2
CHECK_DEADLOCK FALSE
INVARIANTS
    OwnResponse
    OneOwner
    SpinsOnlyAfterRestart
PROPERTIES
    StopEndsLoops
