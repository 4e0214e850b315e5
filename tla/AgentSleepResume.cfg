CONSTANTS
  Calls = {s, w1, w2}
  Sleepers = {s}
  QueueMax = 1
  Unkillable = FALSE
  Hasty = FALSE
  SlowDisk = FALSE
  MaxTyped = 2
  MaxSleeps = 2
  MaxAgents = 3
  MaxBoots = 1
SPECIFICATION Spec
PROPERTIES ResumeRunsInShell
CHECK_DEADLOCK FALSE
