SPECIFICATION Spec
CONSTANTS
    Dir = "PUT"
    N = 3
    C = 2
    MaxErr = 1
    MaxFail = 1
    ShortReplies = FALSE
    ReadRetries = TRUE
INVARIANTS
    TypeOK
    OneConnPerChunk
    NoChunkLost
    CompleteIsWhole
