SPECIFICATION Spec
CONSTANTS
    a = a
    b = b
    w1 = w1
    u = u
    w2 = w2
    Base = Base
    NoFile = NoFile
    Workflows <- MCWorkflows
    Updates <- MCUpdates
    Workers <- MCWorkers
    Kinds <- MCKinds
    QueueCapacity = 1
    MaxRetries = 2
    MaxFaults = 1
INVARIANTS
    NoEditLost
    DocumentIsTrue
    FilesAgree
PROPERTIES
    EveryWorkflowEnds
CHECK_DEADLOCK FALSE
