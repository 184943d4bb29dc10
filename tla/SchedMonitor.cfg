SPECIFICATION Spec
CONSTANTS
    Tree <- MCTree
    Root = "gocker"
    Parent <- MCParent
    Cpus = {1, 2}
    Counting = {"switch"}
    Runtime = "runtime"
    None = "none"
    AllowSize = 3
    StatSize = 1
    RingSize = 1
    MaxEvents = 3
    MaxChanges = 2
CHECK_DEADLOCK FALSE
INVARIANTS
    ConstantAllowed
    Accounted
