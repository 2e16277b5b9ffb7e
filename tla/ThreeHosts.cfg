CONSTANTS
    NumHost = 3
    Trans = {t1}
    SameTick = FALSE
    MaxTS = 7
    MaxCrash = 1
    MaxTorn = 0
    MaxFault = 0
SPECIFICATION Spec
INVARIANTS
    Atomicity
CHECK_DEADLOCK FALSE
