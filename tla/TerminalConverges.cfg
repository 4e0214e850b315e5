CONSTANTS
  MaxBytes = 2
  Sizes = {1}
  BaseSeq = 2
  MaxSeq = 3
  Viewers = {c1, c2}
  MaxBatch = 2
  AckHigh = 2
  AckLow = 0
  ReplayMax = 2
  ReplayFrame = 2
  Claims = {0, 1, 2, 3}
  Forcings = {FALSE}
  NoConnection = NoConnection
  MaxRetries = 2
  Users = {{"hide", "drop", "timeout"}}
  MaxHappened = 2
  WireMax = 2
SPECIFICATION FairSpec
PROPERTIES Converges
CHECK_DEADLOCK FALSE
