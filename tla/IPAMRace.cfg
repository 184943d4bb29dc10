SPECIFICATION Spec
CONSTANTS
    c1 = c1
    c2 = c2
    p1 = p1
    p2 = p2
    Callers <- MCCallers
    Processes = {p1, p2}
    ProcessOf <- TwoProcesses
    Containers = {a, b}
    LastHost = 4
    Requests = {3}
    NoIP = NoIP
    NoFile = NoFile
    Garbled = Garbled
    NoCaller = NoCaller
    NoContainer = NoContainer
INVARIANT UniqueGrants
