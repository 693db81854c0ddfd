SPECIFICATION FairSpec
CONSTANTS
    Dir = "GET"
    N = 2
    C = 1
    MaxErr = 0
    MaxFail = 2
    ShortReplies = FALSE
    ReadRetries = FALSE
PROPERTY EventuallySettled
