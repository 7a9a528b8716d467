SPECIFICATION Spec
CONSTANTS
    Readers = {r1, r2}
    MaxHeaders = 5
INVARIANTS
    SearchIsRight
    CacheIsRight
