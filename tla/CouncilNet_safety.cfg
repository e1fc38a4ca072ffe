SPECIFICATION Spec
CONSTANTS
  Members = {m1, m2, m3}
  Initiators = {i1, i2}
  MinVotes = 2
  Checkpoints = {c1}
  Genesis = Genesis
  NoSession = NoSession
  NoMember = NoMember
  LossyEpochFile = FALSE
  MaxCrashes = 2
  MaxDrops = 1
SYMMETRY Symmetry
INVARIANTS NonceSingleUse PublishedIsSigned FailureHasCause
PROPERTIES EpochNeverRegresses ImplementsHandoffLog
CHECK_DEADLOCK FALSE
