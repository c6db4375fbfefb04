SPECIFICATION Spec
CONSTANTS
    p1 = p1
    p2 = p2
    Pods <- MCPods
    Modes <- MCModes
    PerPod = 1
    PoolSize = 2
    NumTasks = 2
    PageSize = 2
    MaxDepth = 2
    MaxRuns = 3
    MaxFaults = 1
SYMMETRY Symmetry
INVARIANTS
    RunIngestsItsTask
    InProgressHasRun
    OutcomeIsTrue
    TriggeredTwiceAfterFault
CHECK_DEADLOCK FALSE
