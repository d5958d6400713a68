SPECIFICATION Spec
CONSTANTS
  Task = {0, 1, 2, 3}
  Idle = 0
  Mutex <- Obj
  Cond <- Obj
  MaxTask = 4
  MaxProc = 4
  NoTask = NoTask
  Builds = {FALSE}
INVARIANTS
  ExitedProcessReleasesMemory
