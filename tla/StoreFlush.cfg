CONSTANTS
  MaxChanges = 3
SPECIFICATION SavedSpec
INVARIANTS FlushedIsSaved
CHECK_DEADLOCK FALSE
