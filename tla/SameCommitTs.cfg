CONSTANTS
    NumHost = 2
    Trans = {t1}
    SameTick = TRUE
    MaxTS = 7
    MaxCrash = 0
    MaxTorn = 1
    MaxFault = 0
SPECIFICATION Spec
INVARIANTS
    SameCommitTs
CHECK_DEADLOCK FALSE
