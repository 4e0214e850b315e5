CONSTANTS
  MaxBytes = 2
  Sizes = {1}
  BaseSeq = 2
  MaxSeq = 4
  Viewers = {v1}
  MaxBatch = 2
  AckHigh = 2
  AckLow = 0
  ReplayMax = 1
  ReplayFrame = 2
  Claims = {2, 3, 4}
  Forcings = {FALSE}
SPECIFICATION Spec
INVARIANTS PausedHasReason
CHECK_DEADLOCK FALSE
