SPECIFICATION FairSpec
CONSTANTS
    Orgs = {g1}
    Requests = {r1, r2}
    Objs = {o1, o2, o3, o4}
    Nil = Nil
    MaxGens = 2
    MaxDeletes = 1
    MaxRestores = 1
    MaxCrashes = 1
    MaxWriteFails = 2
CHECK_DEADLOCK FALSE
INVARIANTS Boots AckedDurable
PROPERTIES FilesKeepHistory Answered
