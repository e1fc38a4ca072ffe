SPECIFICATION FairSpec
CONSTANTS
    h1 = h1
    h2 = h2
    e1 = e1
    e2 = e2
    Hooks = {h1, h2}
    Events = {e1, e2}
    Wants <- MCWants
    NoJob = NoJob
    MaxAttempts = 3
    MaxCrashes = 2
    MaxFails = 2
    MaxSaveFails = 2
    MaxHangs = 1
CHECK_DEADLOCK FALSE
INVARIANTS DiskMatchesQueue OncePerIncarnation
PROPERTY EveryJobTried
