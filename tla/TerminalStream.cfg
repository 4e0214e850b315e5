CONSTANTS
  MaxBytes = 2
  Sizes = {1}
  BaseSeq = 2
  MaxSeq = 4
  Viewers = {c1, c2}
  MaxBatch = 1
  AckHigh = 1
  AckLow = 0
  ReplayMax = 2
  ReplayFrame = 2
  Claims = {0, 1, 2, 3}
  Forcings = {FALSE}
  NoConnection = NoConnection
  MaxRetries = 1
  Users = {{"hide", "unmount", "drop"}, {"drop", "slow"}}
  MaxHappened = 2
  WireMax = 2
SPECIFICATION TSpec
INVARIANTS IdleMeansCurrent LeavesNoViewer PaintsFaithfully
CHECK_DEADLOCK FALSE
