SPECIFICATION Spec
CONSTANTS
    c1 = c1
    c2 = c2
    t1 = t1
    t2 = t2
    Cpus = {c1, c2}
    Tids = {t1, t2}
    Groups = {"box", "system"}
    Target = {"box"}
    Calls = {"read", "execve", "exit"}
    None = None
    MaxForks = 3
    MaxMoves = 1
    MaxCalls = 2
SYMMETRY MCSymmetry
CHECK_DEADLOCK FALSE
INVARIANTS
    ChargedToOwn
    OwnLatency
