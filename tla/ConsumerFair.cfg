SPECIFICATION FairSpec
CONSTANTS
    Threads = 2
    MaxDials = 4
INVARIANTS
    TypeOK
    EveryLossReported
    ReconnectOnlyAfterLoss
PROPERTY Settles
CHECK_DEADLOCK FALSE
