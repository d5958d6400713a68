SPECIFICATION Spec
CONSTANTS
  t1 = t1
  t2 = t2
  t3 = t3
  NumNodes = 6
  MaxCalls = 3
  InitFiles <- MCInitFiles
  Task <- MCTask
  ProcOf <- MCProcOf
  Paths <- MCPaths
INVARIANT PathAssertsHold
SYMMETRY MCSymmetry
CHECK_DEADLOCK FALSE
