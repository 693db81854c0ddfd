SPECIFICATION FairSpec
CONSTANTS
    Dir = "PUT"
    N = 2
    C = 2
    MaxErr = 1
    MaxFail = 1
    ShortReplies = FALSE
    ReadRetries = FALSE
INVARIANTS
    FrozenIsReleasable
PROPERTY EventuallySettled
