SPECIFICATION Spec
CONSTANTS
    CLI = {w1}
    Daemon = {d1}
    Containers = {a, b}
    Pids = {p1, p2}
    IPs = {2}
    Limits = {l0, l1}
    NoLimits = l0
    Ops = {"run", "start", "stop", "adjust", "rm"}
    MaxCalls = 3
    MaxCrashes = 1
    NoWorker = NoWorker
    NoContainer = NoContainer
    NoPid = NoPid
    NoIP = NoIP
    NoCgroup = NoCgroup
    NoBook = NoBook
    NoFile = NoFile
    Empty = Empty
    Torn = Torn
CHECK_DEADLOCK FALSE
SYMMETRY MCSymmetry
VIEW MCView
INVARIANTS
    ChildIsMine
    AddressHasHolder
    RunningHasWaiter
    RunConfined
    AddressExclusive
    LimitsInForce
