SPECIFICATION KeysSpec
CONSTANTS
    L = 7
    Founders = {1, 2, 3}
    Seats = {1, 2, 3, 5}
    Thresholds = {2, 3}
    Secrets = {8, 12}
    Randoms = {3}
    Nonce <- MCNonce
    Blind <- MCBlind
    Challenges = {0, 1, 3}
    MaxRounds = 2
    MaxAstray = 1
    None = None
CHECK_DEADLOCK FALSE
INVARIANTS SignsIffJoins KeyKept FilesLoad
