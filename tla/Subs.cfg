SPECIFICATION Spec
CONSTANTS
    Clients = {c1, c2}
    Keys = {"key"}
    Statuses = {s1, s2}
    maxSubs = 2
    MaxChanges = 2
SYMMETRY ClientSymmetry
INVARIANTS
    SubsTypeOK
    PendingWillBeTaken
    LastToldIsCurrent
