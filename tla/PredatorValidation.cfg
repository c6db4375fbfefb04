SPECIFICATION Spec
CONSTANTS
    g1 = g1
    g2 = g2
    m1 = m1
    w1 = w1
    v1 = v1
    v2 = v2
    Base = Base
    NoFiles = NoFiles
    Groups <- MCGroups
    Models <- MCModels
    Served <- MCServed
    Batches <- MCBatches
    Created <- MCCreated
    Workers <- MCWorkers
    Validators <- MCValidators
    MaxStarts = 1
    MaxFaults = 1
    MaxHealthChecks = 1
    MaxLocks = 2
SYMMETRY Symmetry
INVARIANTS
    LockOfWorkerStands
    ValidWasTested
CHECK_DEADLOCK FALSE
