CONSTANTS
  NumFrames = 5
  NumAsids = 3
  MaxImage = 2
  HeapPages = 1
  FirstBrk = {0, 1}
SPECIFICATION Spec
INVARIANTS
  FramesExclusive
  ResourcesExact
  ScheduledOnce
PROPERTIES
  OthersUntouched
  NoOvertaking
CHECK_DEADLOCK FALSE
