CONSTANTS
    PoolSize = 2
    NumTrans = 5
    Solo = {3}
    Twin = {1}
    MaxCrash = 1
SPECIFICATION FairSpec
INVARIANTS
    TypeOK
    PoolIsWhole
    PreparedHasTask
    OneTaskEach
    PoolInv
PROPERTIES
    OverloadIsForever
    ServesAgain
    PreparedEnds
CHECK_DEADLOCK FALSE
