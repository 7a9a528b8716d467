SPECIFICATION Spec
CONSTANTS
    BDs = {b1}
    Reqs = {1, 2}
    Senders = {c1}
    BatchSizes = {2}
    MaxLosses = 1
    bdReqHi = 1
    bdReqLo = 0
    decayPerSec = 1
    maxBatch = 2
    extantLimit = 1
INVARIANTS
    TypeOK
    AnsweredOnce
    BatchIsWhole
    PendingWillEnd
    ContextsAreReleased
    CountersAreExact
    WaitersWillBeWoken
CHECK_DEADLOCK FALSE
