SPECIFICATION ReloadSpec
CONSTANTS
    MaxCmds = 2
    MaxCallback = 0
    MaxSessions = 0
    MaxReqId = 2
INVARIANT OneBatchPerId
