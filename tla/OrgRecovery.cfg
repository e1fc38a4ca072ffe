SPECIFICATION OrgSpec
CONSTANTS
    None = None
    Forged = Forged
    Council = Council
    Certs = {c1, c2, c3}
    Ids = {a}
    MaxOps = 4
    MaxRecoveries = 2
SYMMETRY Symmetry
CHECK_DEADLOCK FALSE
INVARIANTS ChainVerifies NoResurrection DamageContained MinimalBlast FoldMeaning
PROPERTY AdoptsForward
