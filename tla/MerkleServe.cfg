SPECIFICATION Spec
CONSTANTS
    Readers = {r1}
    InitLens = {0, 1, 3, 6}
    MaxLen = 8
    MaxUndos = 2
INVARIANTS
    LevelIsRight
PROPERTIES
    AnswersAreRight
