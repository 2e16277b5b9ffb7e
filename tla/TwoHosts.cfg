CONSTANTS
    NumHost = 2
    Trans = {t1}
    SameTick = TRUE
    MaxTS = 4
    MaxCrash = 1
    MaxTorn = 1
    MaxFault = 1
SPECIFICATION FairSpec
INVARIANTS
    TypeOK
    ProtocolInv
    AdoptedIsLargest
    CommitAfterStart
    OkIsStamped
    OkNeverRolledBack
    NothingRefused
    EveryPreparedHasTask
    CommitTsIsMax
PROPERTIES
    VotesAndDecisionsKept
    ImplementsAtomicCommit
    PreparedIsDecided
    CommitEnds
    OkIsCommited
    NothingLeftOpen
CHECK_DEADLOCK FALSE
