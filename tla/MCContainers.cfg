CONSTANTS
  Parts = {"bits", "map", "vectors", "strings", "optionals", "pointers"}
  Names = {u, v}
  N = 5
  W = 2
  e1 = e1
  e2 = e2
  x = x
  y = y
  z = z
  u = u
  v = v
  Moved = Moved
  MovedFrom = MovedFrom
  Default = x
  Raw = Raw
  Nul = Nul
  Nothing = Nothing
  Holders <- MCHolders
  Values <- MCValues
  Variables <- MCVariables
  Pointees <- MCObjects
  Vectors <- MCVectors
  Elements <- MCElements
  DefaultCap = 2
  Growth = 2
  SizeBits = 4
  Shifts <- MCShifts
  Counts <- MCCounts
  MaxSize = 3
  NullPtr = NullPtr
SPECIFICATION MCSpec
INVARIANTS
  StorageExact
  ObjectsOwned
  HighBitsClear
PROPERTIES
  SetRefinement
  
  
CHECK_DEADLOCK FALSE
