SPECIFICATION Spec
CONSTANTS
  k1 = k1
  k2 = k2
  Keys = {k1, k2}
  OpKinds = {"put", "delete", "update"}
  MaxLog = 3
  MaxFreezes = 3
  MaxInstalls = 0
  MaxCrashes = 0
  Watches = FALSE
  CompactMin = 2
  CompactMax = 2
  KeepSnapshots = 1
SYMMETRY KeySymmetry
INVARIANTS TypeOK ReadsMatchLog WriterViewExact SnapshotsMatchLog CompactedLevelsPresent GetAgreesWithRange LogReachesSnapshot
CHECK_DEADLOCK FALSE
