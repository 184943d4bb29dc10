SPECIFICATION FairSpec
CONSTANTS
    Modes = {"exec", "execTty", "start", "startTty"}
    StdinKinds = {"hangup", "file"}
    Buf = 1
    MaxOut = 2
    MaxIn = 1
CHECK_DEADLOCK FALSE
INVARIANTS
    OutputDelivered
    NeverStuck
PROPERTIES
    SessionEnds
    CopiersEnd
    WorkRunsOut
