SPECIFICATION CTSpec
CONSTANTS
    Reporters = {r1, r2}
    MaxSize = 7
    MaxReported = 3
    MaxAdoptions = 1
    MaxPosts = 4
SYMMETRY Symmetry
CHECK_DEADLOCK FALSE
INVARIANTS ProofsExact AcceptedExtends GossipAlarmHasCause
