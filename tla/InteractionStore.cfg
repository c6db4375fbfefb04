SPECIFICATION Spec
CONSTANTS
    c1 = c1
    c2 = c2
    r1 = r1
    r2 = r2
    Calls <- MCCalls
    Replicas <- MCReplicas
    Times <- MCTimes
    QueryTimes <- MCQueryTimes
    TimePerWeek = 2
    WeeksPerYear = 7
    TotalWeeks = 3
    WeeksPerBucket = 2
    MaxEventsPerWeek = 2
    MaxRetrieveLimit = 2
    MaxBatch = 2
    MaxAttempts = 3
SYMMETRY Symmetry
INVARIANTS
    AckedEventsKept
    StoredOncePerAttempt
    RetrieveReturnsNewest
CHECK_DEADLOCK FALSE
