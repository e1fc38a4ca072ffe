SPECIFICATION Spec
CONSTANTS
    u1 = u1
    o1 = o1
    o2 = o2
    Reqs = {r1, r2, r3}
    k1 = k1
    k2 = k2
    a = a
    x = x
    y = y
    Bar = Bar
    Pieces <- MCPieces
    Path <- MCPath
    Body <- MCBody
    UserText <- MCUserText
    KeyText <- MCKeyText
    Calls <- MCCalls
    Keys = {k1, k2}
    Users = {root, u1}
    Root = root
    Tokens = {t0, t1, t2}
    RootToken = t0
    Orgs = {o1, o2}
    Nil = Nil
    Cost = 2
    Rate = 3
    Burst = 5
    IdemWindow = 0
    IdemCap = 0
    MaxTime = 1
    MaxRestarts = 1
    MaxFails = 1
SYMMETRY Symmetry
CHECK_DEADLOCK FALSE
INVARIANTS RetryReplays ReplayMatches ScopeHolds ShownTokenWorks LimiterExact
