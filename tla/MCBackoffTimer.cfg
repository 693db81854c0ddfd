SPECIFICATION Spec
CONSTANTS
    DSMOD = 64
    CAP = 8
    XFERTIMEOUT = 4
    Longest = 10
    MaxDs = 15
    Deltas <- MCDeltas
INVARIANTS
    TypeOK
    RetryBounded
    WaitCanBeCut
    NeverOversleeps
PROPERTY ImplementsRetryTimer
