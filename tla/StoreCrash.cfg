CONSTANTS
    Trans = {t1, t2}
    Key = {k1}
    Value = {v1, v2}
    Writes = {"update", "delete"}
    Nil = Nil
    SameTick = FALSE
    MaxTS = 8
    MaxCrash = 1
SPECIFICATION StoreSpec
SYMMETRY Symmetry
INVARIANTS
    StoreTypeOK
    LockedReadIsNewest
PROPERTIES
    VersionsKept
CHECK_DEADLOCK FALSE
