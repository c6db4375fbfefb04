SPECIFICATION Spec
CONSTANTS
    a = a
    b = b
    c = c
    p1 = p1
    p2 = p2
    FGs <- MCFGs
    Scylla <- MCScylla
    InMem <- MCInMem
    Dist <- MCDist
    Lifetime <- MCLifetime
    Pods <- MCPods
    Readers = {1}
    Writers <- MCWriters
    w1 = w1
    w2 = w2
    Former <- MCFormer
    Requests <- MCRequests
    Writes <- MCWrites
    MaxWrites = 2
    MaxEvents = 1
SYMMETRY Symmetry
INVARIANTS
    AnswersAreComplete
    SettledWriteIsServed
    ExpiredIsNotServed
PROPERTIES
    GroupsLostOnlyByRaceOrExpiry
CHECK_DEADLOCK FALSE
