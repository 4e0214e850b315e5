CONSTANTS
  MaxBytes = 4
  Sizes = {1, 2, 5}
  BaseSeq = 2
  MaxSeq = 7
  TreeSessions = {1, 2, 3, 4}
  MaxTreeEdits = 4
  MaxChanges = 4
  StoreIds = {w1, w2}
  StoreSessions = {1, 2, 3}
  MaxRequests = 3
  Pages = {p, q}
  PanesPage = p
  Shown = w1
  Other = w2
  Sessions = {1, 2, 3, 4}
  MaxEdits = 2
  MaxId = 2
  Creators = {c}
  MaxBirths = 2
  MaxBoots = 2
  Prompts = {1, 2}
  MaxTyped = 1
  Viewers = {v1, v2, v3}
  TermSizes = {1, 2, 3}
  MaxNow = 9
  MaxActs = 3
  MaxHooks = 2
SPECIFICATION MCSpec
INVARIANTS DeltaIsWhole WidthIsFilled CleanMeansSaved PagesFollow NoneIsForgotten OneProgramPerId ComesBack FilesAreOwn EndsAreOwn RestEndsWaits SizeIsRightful StateIsShown
PROPERTIES LeavesFollow MembersAreKept
CHECK_DEADLOCK FALSE
