SPECIFICATION Spec
CONSTANTS
  d = d
  counters = counters
  Dirs = {d, counters}
  MaxU64 = 2
  Never = 99
  Predicates <- MCPredicates
  Commands <- TxnCommands
  Times = {1, 3}
  ClockMayRegress = FALSE
  MaxLog = 3
  MaxInstalls = 0
  MaxCrashes = 1
INVARIANT ChangesChain
CHECK_DEADLOCK FALSE
