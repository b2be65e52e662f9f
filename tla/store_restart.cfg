SPECIFICATION Spec
CONSTANTS
  k1 = k1
  Keys = {k1}
  OpKinds = {"put", "expired"}
  MaxLog = 2
  MaxFreezes = 2
  MaxInstalls = 1
  MaxCrashes = 1
  Watches = FALSE
  CompactMin = 2
  CompactMax = 2
  KeepSnapshots = 1
INVARIANTS ReadsMatchLog SnapshotsMatchLog CompactedLevelsPresent LogReachesSnapshot
PROPERTIES NeverBackwards ImplementsReplicatedMap
CHECK_DEADLOCK FALSE
