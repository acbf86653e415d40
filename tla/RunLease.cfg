SPECIFICATION Spec
CONSTANTS
  Proc = {p1, p2}
  Ttl = 2
  NoLease = NoLease
  NoFence = NoFence
  NoProc = NoProc
  RestartKeepsHolder = FALSE
  MaxTime = 5
  MaxEpoch = 4
  MaxCrashes = 2
  MaxGranted = 4
SYMMETRY Symmetry
CONSTRAINT Bounded
INVARIANTS EpochIdentifiesFence OneValidFence
PROPERTIES SnapshotEpochsIncrease
CHECK_DEADLOCK FALSE
