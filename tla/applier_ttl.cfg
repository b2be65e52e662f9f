SPECIFICATION Spec
CONSTANTS
  d = d
  counters = counters
  Dirs = {d, counters}
  MaxU64 = 2
  Never = 99
  Predicates <- MCPredicates
  Commands <- TtlCommands
  Times = {1, 2, 3}
  ClockMayRegress = TRUE
  MaxLog = 3
  MaxInstalls = 1
  MaxCrashes = 1
INVARIANTS TypeOK ExpireIndexExact ExpiredRemovedInOrder ReplicasAgree WatchersFollowEntries ChangesChain
PROPERTY OnlyExpiredCleaned
CHECK_DEADLOCK FALSE
