CONSTANTS
    Trans = {t1, t2}
    Key = {k1, k2}
    Value = {v1}
    Writes = {"update"}
    Nil = Nil
    SameTick = TRUE
    MaxTS = 2
    MaxCrash = 0
SPECIFICATION FairStoreSpec
PROPERTIES
    RequestEnds
CHECK_DEADLOCK FALSE
