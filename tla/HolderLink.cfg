CONSTANTS
  Conns = {a, b}
  None = none
  Takers = {b}
  RingCap = 1
  MaxOut = 2
SPECIFICATION FairSpec
INVARIANTS LossIsNotDeath ManifestSurvivesClaims NothingLost QuietIsExact
PROPERTIES ClaimEnds
CHECK_DEADLOCK FALSE
