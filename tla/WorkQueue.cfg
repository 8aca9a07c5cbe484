CONSTANTS
  Workers = {w1, w2}
  Main = main
  Tasks = {t1, t2}
  Levels = 3
  MaxBoosts = 2
  NoTask = none
  NoThread = none
SPECIFICATION FairSpec
INVARIANTS
  OnePlace
  SizeAccounting
  PriorityMatchesLevel
  ScanFindsUnlessBoosted
  StrandedOnlyByLostWakeup
PROPERTIES
  PoolRefinement
  QueueCallsReturn
CHECK_DEADLOCK FALSE
