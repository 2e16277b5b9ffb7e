CONSTANTS
    Client = {c1}
    NumHost = 1
    SharedTick = FALSE
    MaxTS = 1
    MaxConn = 1
    Faults = {"cut"}
    MaxFault = 1
SPECIFICATION Spec
INVARIANT CutMessageIsError
CHECK_DEADLOCK FALSE
