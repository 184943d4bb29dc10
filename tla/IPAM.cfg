SPECIFICATION Spec
CONSTANTS
    c1 = c1
    c2 = c2
    p1 = p1
    p2 = p2
    Callers <- MCCallers
    Processes = {p1}
    ProcessOf <- OneProcess
    Containers = {a, b, d}
    LastHost = 4
    Requests = {3, 5}
    NoIP = NoIP
    NoFile = NoFile
    Garbled = Garbled
    NoCaller = NoCaller
    NoContainer = NoContainer
SYMMETRY MCSymmetry
INVARIANTS
    UniqueGrants
    GrantsRecorded
    FileReadable
    GrantsUsable
    LockHeldInside
PROPERTIES
    ImplementsPool
