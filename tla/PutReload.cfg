SPECIFICATION ReloadSpec
CONSTANTS
    Dir = "PUT"
    N = 1
    C = 1
    MaxErr = 1
    MaxFail = 1
    ShortReplies = FALSE
    ReadRetries = FALSE
INVARIANTS
    FrozenIsReleasable
