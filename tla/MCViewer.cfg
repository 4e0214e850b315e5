CONSTANTS
  MaxBytes = 2
  Sizes = {1}
  BaseSeq = 2
  MaxSeq = 5
  Viewers = {v1}
  MaxBatch = 2
  AckHigh = 2
  AckLow = 0
  ReplayMax = 1
  ReplayFrame = 2
  Claims = {0, 2, 4, 5, 6}
  Forcings = {TRUE, FALSE}
  Letters = {"a"}
  Cols = 2
  MaxPending = 2
  MaxKeys = 2
  Frames = {2}
  MaxPrinted = 4
  MaxHeld = 1
  MaxRead = 4
  Panels = {b1}
  Shells = {1, 2, 3}
  MaxTabs = 1
  MaxAsked = 2
  MaxOwnerActs = 1
  Callers = {k1}
  RingTokens = 3
  RecordCap = 1
  MaxLines = 2
  MaxPieces = 1
  MaxTaken = 6
  MaxShells = 2
  Sessions = {1, 2}
  MaxOutput = 3
  MaxPressed = 5
  MaxWire = 4
  Capacity = 3
  Grain = 2
  AnchorCap = 2
  MaxPtyRead = 4
  MaxPutOut = 9
  Dialers = {1, 2}
  Nobody = 0
  MaxFrames = 2
SPECIFICATION MCSpec
INVARIANTS NoSilentDrop BatchLeaves StallHasWayOut EchoHonest SyncKeepsAll TabsWithinLimit ReachIsCurrent CommandsKeepTheirOwn  ReplayIsWhole InputIsWhole
PROPERTIES Ring
CHECK_DEADLOCK FALSE
