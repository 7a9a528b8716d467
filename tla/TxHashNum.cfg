SPECIFICATION Spec
CONSTANTS
    Readers = {r1, r2}
    BlockSizes = {1, 2}
    MaxHeight = 3
    MaxBlocks = 4
    NumCap = 2
    HeightCap = 1
INVARIANTS
    NumCacheIsRight
PROPERTIES
    PosAnswersAreRight
