SPECIFICATION FairSpec
CONSTANTS
    Modes = {"start"}
    StdinKinds = {"hangup"}
    Buf = 1
    MaxOut = 1
    MaxIn = 1
CHECK_DEADLOCK FALSE
PROPERTY ExitIsRecorded
