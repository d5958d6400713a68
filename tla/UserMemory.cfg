CONSTANTS
  MaxClass = 6
  Frames <- MCFrames
  Proc = {p1, p2}
  Fan = 2
  KernelIndex = 2
  ElfBase = 3
  ElfPages = 1
  StackStart = 6
  StackPages = 1
  HeapStart = 8
  MaxSbrk = 2
  HeldClass = {2}
  MaxTaken = 1
SPECIFICATION Spec
SYMMETRY MCSymmetry
INVARIANTS
  EachFrameOnce
  CellsAligned
  UserMemoryMapped
  OnlyExhaustionPanics
CHECK_DEADLOCK FALSE
