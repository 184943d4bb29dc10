SPECIFICATION FairSpec
CONSTANTS
    gocker = gocker
    box = box
    other = other
    Cpus = {u1}
    Modules = {"pf", "mem"}
    Place <- MCPlace
    Cgroups <- MCCgroups
    Root = gocker
    Children = {box}
    System = System
    Ancestor <- MCAncestor
    RootLevel = 1
    NoCgroup = NoCgroup
    Amounts <- MCAmounts
    MapSize = 1
    Posters = {h1}
    Posts <- MCPosts
    InitialRate = 0
    Idle = Idle
    MaxEvents = 2
    MaxPosts = 2
    MaxErrors = 1
CHECK_DEADLOCK FALSE
INVARIANTS
    NeverAhead
    OnlyWatched
PROPERTIES
    ImplementsFeed
    ScanCatchesUp
    CaughtUp
