CONSTANTS
  Parts = {"traps"}
  NumSlots = 6
  Asids = {0, 1}
  KernelAsid = 255
  NoProc = 254
  UserPages = {"text", "data"}
  KernelPages = {"pcb", "heap"}
  TextPage = "text"
  PcbPage = "pcb"
  HeapPage = "heap"
  StackFrames = 4
  MaxInstr = 2
  MaxGen = 2
  Empty = Empty
  good = good
  odd = odd
  short = short
  broken = broken
  large = large
  Files <- MCFiles
  Layout <- MCLayout
  PageSize = 2
  Chunk = 2
  Buffer = 3
  DataLimit = 4
  StackPages = 1
  NumFrames = 12
  MaxProcs = 2
SPECIFICATION MCSpec
INVARIANT ExecReplacesFrames
CHECK_DEADLOCK FALSE
