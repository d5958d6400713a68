SPECIFICATION FairSpec
CONSTANTS
  Task = {0, 1, 2, 3}
  Idle = 0
  Mutex <- Obj
  Cond <- Obj
  MaxTask = 4
  MaxProc = 3
  NoTask = NoTask
  Builds = {TRUE}
PROPERTIES
  WaitForThreadsFinishes
