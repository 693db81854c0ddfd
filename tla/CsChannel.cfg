SPECIFICATION FairSpec
CONSTANTS
    MaxCmds = 3
    MaxCallback = 1
    MaxSessions = 1
    MaxReqId = 6
INVARIANTS
    TypeOK
    OneBatchPerId
    SetTimerMeansFailedBatch
    RetryIndicatorHonest
PROPERTIES
    ImplementsRpcFifo
    EventuallyDelivered
