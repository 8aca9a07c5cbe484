CONSTANTS
  Parts = {"heap", "stream", "calls", "decimal"}
  Header = 1
  Sizes <- MCSizes
  MaxHeap <- MCMaxHeap
  p = p
  q = q
  ch = "c"
  x = "x"
  NewLine = "newline"
  Bits = 8
  Radix = 10
  PageSize = 2
  Pages = 2
  Frames = 3
  Chars <- MCChars
  MaxRead = 3
  Slots = 1
  Processes <- MCProcesses
  First = p
  Letters <- MCLetters
  Texts <- MCTexts
  MaxBuf = 2
  MaxCalls = 3
  Nul = "nul"
  Foreign = "foreign"
SPECIFICATION MCSpec
INVARIANTS
  HeapExact
PROPERTIES
  AllocatorRefinement
  
  RuntimeReturns
CHECK_DEADLOCK FALSE
