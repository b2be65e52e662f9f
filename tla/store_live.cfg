SPECIFICATION FairSpec
CONSTANTS
  k1 = k1
  Keys = {k1}
  OpKinds = {"put"}
  MaxLog = 2
  MaxFreezes = 2
  MaxInstalls = 1
  MaxCrashes = 0
  Watches = TRUE
  CompactMin = 2
  CompactMax = 2
  KeepSnapshots = 1
PROPERTIES EveryEntryApplied TasksFinish
CHECK_DEADLOCK FALSE
