SPECIFICATION Spec
CONSTANTS
    Dir = "PUT"
    N = 2
    C = 2
    MaxErr = 1
    MaxFail = 0
    ShortReplies = FALSE
    ReadRetries = FALSE
PROPERTY OutageNotCounted
