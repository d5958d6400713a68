SPECIFICATION Spec
CONSTANTS
  t1 = t1
  t2 = t2
  t3 = t3
  NumNodes = 6
  MaxCalls = 4
  InitFiles <- MCInitFiles
  Task <- MCTask
  ProcOf <- MCProcOf
  Paths <- MCPaths
INVARIANTS
  DescriptorsKept
  ReadsInOrder
  CwdIsDirectory
  OnlyRequestsPanic
  OpenResolves
SYMMETRY MCSymmetry
CHECK_DEADLOCK FALSE
