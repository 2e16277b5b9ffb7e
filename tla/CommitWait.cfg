CONSTANTS
    Trans = {t1, t2}
    Key = {k1}
    Value = {v1}
    Writes = {"update", "delete"}
    Nil = Nil
    SameTick = TRUE
    MaxTS = 4
    MaxCrash = 0
SPECIFICATION StoreSpec
INVARIANTS
    CommitIsAwaited
CHECK_DEADLOCK FALSE
