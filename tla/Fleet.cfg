SPECIFICATION FairSpec
CONSTANTS
    Nodes = {w1, w2}
    Quorum = 2
    Cap = 1
    MaxLen = 1
CHECK_DEADLOCK FALSE
INVARIANT AgreesWhenQuiet
PROPERTY FlagFollowsDamage
