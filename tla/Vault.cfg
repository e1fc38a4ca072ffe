SPECIFICATION Spec
CONSTANTS
    Orgs = {g1, g2, g3}
    Council = Council
    Keks = {Council, Wrong}
    Nil = Nil
    MaxEvents = 2
    MaxEpoch = 3
SYMMETRY Symmetry
CHECK_DEADLOCK FALSE
INVARIANTS SharesReopen EventsKept OldKeyUseless
