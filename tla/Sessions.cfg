CONSTANTS
    Client = {c1}
    NumHost = 2
    SharedTick = FALSE
    MaxTS = 2
    MaxConn = 2
    Faults = {"crash", "break", "cut"}
    MaxFault = 1
SPECIFICATION FairSpec
INVARIANTS
    TypeOK
    OkMeansPrepared
    AnswersAreDone
    EndsAgree
PROPERTIES
    RequestAnswered
    AbandonedEnds
    NoForeignRollback
    ImplementsAtomicCommit
CHECK_DEADLOCK FALSE
