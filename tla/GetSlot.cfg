SPECIFICATION Spec
CONSTANTS
    Dir = "GET"
    N = 3
    C = 2
    MaxErr = 1
    MaxFail = 1
    ShortReplies = TRUE
    ReadRetries = FALSE
INVARIANTS
    OneConnPerChunk
    NoChunkLost
    CompleteIsWhole
