SPECIFICATION Spec
CONSTANTS
    h1 = h1
    h2 = h2
    e1 = e1
    e2 = e2
    Hooks = {h1, h2}
    Events = {e1, e2}
    Wants <- MCWants
    NoJob = NoJob
    MaxAttempts = 5
    MaxCrashes = 0
    MaxFails = 1
    MaxSaveFails = 0
    MaxHangs = 0
CHECK_DEADLOCK FALSE
INVARIANT DroppedOnlyAfterMax
