CONSTANTS
    Client = {c1, c2}
    NumHost = 1
    SharedTick = TRUE
    MaxTS = 1
    MaxConn = 2
    Faults = {}
    MaxFault = 0
SPECIFICATION Spec
INVARIANT SuccessIsPrepared
CHECK_DEADLOCK FALSE
