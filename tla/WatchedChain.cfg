SPECIFICATION WatchedSpec
CONSTANTS
    None = None
    Forged = Forged
    Council = Council
    Owner = Owner
    Certs = {c1, c2}
    MaxLen = 3
    MaxKeys = 3
    MaxDamage = 2
    FullEvery = 3
SYMMETRY Symmetry
INVARIANTS FindsFirstDamage DamageFlagged AlarmHasCause QuietMeansIntact
