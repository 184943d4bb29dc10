SPECIFICATION FairSpec
CONSTANTS
    CLI = {w1}
    Daemon = {d1}
    Containers = {a}
    Pids = {p1}
    IPs = {2}
    Limits = {l0}
    NoLimits = l0
    Ops = {"run", "createAndRun", "start", "stop", "adjust", "rm"}
    MaxCalls = 3
    MaxCrashes = 1
    NoWorker = NoWorker
    NoContainer = NoContainer
    NoPid = NoPid
    NoIP = NoIP
    NoCgroup = NoCgroup
    NoBook = NoBook
    NoFile = NoFile
    Empty = Empty
    Torn = Torn
CHECK_DEADLOCK FALSE
INVARIANTS
    PipeHasWriter
PROPERTIES
    ChildLeavesPipe
    AddressReturned
