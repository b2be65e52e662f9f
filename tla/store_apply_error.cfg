SPECIFICATION FaultySpec
CONSTANTS
  k1 = k1
  Keys = {k1}
  OpKinds = {"put", "expired", "blank"}
  MaxLog = 2
  MaxFreezes = 2
  MaxInstalls = 1
  MaxCrashes = 1
  Watches = FALSE
  CompactMin = 2
  CompactMax = 2
  KeepSnapshots = 1
INVARIANT SnapshotsMatchLog
CHECK_DEADLOCK FALSE
