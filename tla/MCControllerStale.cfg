SPECIFICATION CtlSpec
CONSTANTS
    g = g
    a1 = a1
    a2 = a2
    a3 = a3
    a4 = a4
    b1 = b1
    b2 = b2
    b3 = b3
    c3 = c3
    c4 = c4
    d2 = d2
    d3 = d3
    none = none
    Blocks <- MCBlocks
    NoBlock = none
    Parent <- MCParent
    HeightOf <- MCHeightOf
    Switches <- TwoReorgs
    UndoDepths = {1}
    MaxHeaders = 6
    InvalidUndoHeight = 99
    FirstBest = g
    InIBD = {}
    HeaderHeight = 0
    DL_CONCURRENCY = 2
    HasDSProofRPC = FALSE
    HasZmq = FALSE
    MaxTasks = 3
    MaxFaults = 0
INVARIANTS
    ReorgWithinMaxReorgSurvives
