SPECIFICATION Spec
CONSTANTS
    Pullers = {p1, p2}
    Names <- MCNames
    Ids = {i1, i2}
    Chunks = 2
    Skipped = {1}
    MaxPulls = 3
    MaxCrashes = 1
CHECK_DEADLOCK FALSE
SYMMETRY PullersSymmetry
INVARIANTS
    ListedIsComplete
    PulledIsListed
PROPERTY UnreadableKept
