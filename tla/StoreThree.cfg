CONSTANTS
    Trans = {t1, t2, t3}
    Key = {k1}
    Value = {v1}
    Writes = {"update", "delete"}
    Nil = Nil
    SameTick = TRUE
    MaxTS = 3
    MaxCrash = 0
SPECIFICATION StoreSpec
SYMMETRY Symmetry
INVARIANTS
    WritersExclude
    ChainOrder
    ReadsSnapshot
    RepeatableRead
CHECK_DEADLOCK FALSE
