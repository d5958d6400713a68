SPECIFICATION FairSpec
CONSTANTS
  Task = {0, 1, 2, 3, 4, 5}
  Idle = 0
  Mutex <- Obj
  Cond <- Obj
  MaxTask = 6
  MaxProc = 6
  NoTask = NoTask
  Builds = {TRUE, FALSE}
INVARIANTS
  NoPanic
  CompletedIsGone
  HandleIsLastReference
  LiveReadIsFresh
PROPERTIES
  ExecReturns
