SPECIFICATION Spec
CONSTANTS
    a = a
    b = b
    c = c
    p1 = p1
    p2 = p2
    p3 = p3
    e1 = e1
    e2 = e2
    e3 = e3
    Packets = {p1, p2, p3}
    Hashes = {a, b, c}
    Elems = {e1, e2, e3}
    MapSize = 2
    RingSize = 1
    Wrap = 16
    Unit = 2
    None = None
    MaxTime = 5
SYMMETRY MCSymmetry
CHECK_DEADLOCK FALSE
INVARIANTS
    OwnMeasurement
    LostOnlyWhenFull
    NoLeak
