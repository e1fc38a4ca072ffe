SPECIFICATION FairSpec
CONSTANTS
    N = 3
    MayBeLate = TRUE
    MaxRuns = 2
    MaxLosses = 1
CHECK_DEADLOCK FALSE
INVARIANT PairAgrees
PROPERTY Completes
