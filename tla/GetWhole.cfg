SPECIFICATION Spec
CONSTANTS
    Dir = "GET"
    N = 3
    C = 1
    MaxErr = 2
    MaxFail = 1
    ShortReplies = TRUE
    ReadRetries = FALSE
INVARIANT VerifiedIsWhole
