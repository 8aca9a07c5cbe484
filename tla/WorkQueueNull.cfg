CONSTANTS
  Workers = {w1, w2}
  Main = main
  Tasks = {t1, t2}
  Levels = 3
  MaxBoosts = 2
  NoTask = none
  NoThread = none
SPECIFICATION Spec
CHECK_DEADLOCK FALSE
INVARIANT NullIsReturned
