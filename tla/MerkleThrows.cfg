SPECIFICATION Spec
CONSTANTS
    Readers = {r1}
    InitLens = {5}
    MaxLen = 6
    MaxUndos = 1
INVARIANTS
    ThrowsOnlyAfterReorg
