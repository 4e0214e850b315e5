CONSTANTS
  Calls = {s, w1, w2}
  Sleepers = {s}
  QueueMax = 1
  Unkillable = TRUE
  Hasty = FALSE
  SlowDisk = FALSE
  MaxTyped = 2
  MaxSleeps = 2
  MaxAgents = 2
  MaxBoots = 1
SPECIFICATION FairSpec
INVARIANTS GateMatches AsleepIsRecorded RecordAgrees
PROPERTIES TypedGetsOut WakeEnds
CHECK_DEADLOCK FALSE
