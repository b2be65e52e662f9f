SPECIFICATION RSpec
CONSTANTS
  k1 = k1
  k2 = k2
  r1 = r1
  Keys = {k1}
  Readers = {r1}
  OpKinds = {"put", "delete"}
  MaxLog = 4
  MaxFreezes = 3
  MaxInstalls = 0
  MaxCrashes = 0
  Watches = FALSE
  CompactMin = 2
  CompactMax = 2
  KeepSnapshots = 1
INVARIANT RepeatableRead
CHECK_DEADLOCK FALSE
