CONSTANTS
  Parts = {"core", "two", "one"}
  ByteBits = 1
  WordAnd <- MCAnd
  WordOr <- MCOr
  WordXor <- MCXor
  Capacity = 2
  NoValue = NoValue
  Regs <- MCRegs
  RA = 2
  Programs <- MCPrograms
  Image <- MCImage
  Starts <- MCStarts
  TrapEntry = 12
  Paged <- MCPaged
  TargetMod = 2
  RegionMod = 8
  MaxCycles = 8
  m1 = m1
  m2 = m2
  f1 = f1
  d1 = d1
  Machines <- Two
  Files <- MCFiles
  Dirs <- MCDirs
  Missing = Missing
  Size = 1
  NumFds = 3
  MaxFiles = 4
  MaxPos = 2
SYMMETRY MachineSymmetry
SPECIFICATION MCSpec
INVARIANTS
  CoreTypeOK
  CacheTransparent
PROPERTIES
  InstructionLaws
  FilesOwned
CHECK_DEADLOCK FALSE
