CONSTANTS
    Trans = {t1}
    Key = {k1}
    Value = {v1}
    Writes = {"update", "delete"}
    Nil = Nil
    SameTick = TRUE
    MaxTS = 3
    MaxCrash = 0
SPECIFICATION StoreSpec
INVARIANTS
    OwnWriteIsRead
CHECK_DEADLOCK FALSE
