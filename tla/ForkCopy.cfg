CONSTANTS
  NumFrames = 5
  NumAsids = 3
  MaxImage = 2
  HeapPages = 1
  FirstBrk = {0}
  PagesCopied = 4
SPECIFICATION CopySpec
PROPERTY ForkCopiesPages
CHECK_DEADLOCK FALSE
