CONSTANTS
  NumFrames = 5
  NumAsids = 3
  MaxImage = 2
  HeapPages = 1
  FirstBrk = {0}
SPECIFICATION Spec
INVARIANT GrantedIsMapped
CHECK_DEADLOCK FALSE
