CONSTANTS
  Sys <- MCSys
  MaxCount = 4
SPECIFICATION TopSpec
CHECK_DEADLOCK FALSE
INVARIANTS
  RankingIsRight
