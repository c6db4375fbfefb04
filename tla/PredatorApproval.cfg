SPECIFICATION ASpec
CONSTANTS
    g1 = g1
    g2 = g2
    m1 = m1
    m2 = m2
    w1 = w1
    w2 = w2
    Base = Base
    NoFiles = NoFiles
    Groups <- MCGroups
    Models <- MCModels
    Served <- MCServed
    Batches <- MCBatches
    Created <- MCCreated
    Workers <- MCWorkers
    MaxStarts = 3
    MaxFaults = 1
SYMMETRY Symmetry
INVARIANTS
    OneConfigPerModel
    ServedFilesMatch
    OutcomeIsTrue
PROPERTIES TerminalIsFinal
CHECK_DEADLOCK FALSE
