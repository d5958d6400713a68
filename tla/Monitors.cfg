CONSTANTS
  Task = {idle, t1, t2, t3}
  Idle = idle
  NoTask = NoTask
  Mutex = {m1}
  Cond = {c1, c2}
  MaxCalls = 2
  Nesting = 1
SPECIFICATION FairSpec
INVARIANTS
  MutualExclusion
PROPERTIES
  ImplementsMonitor
  LockReturns
  NotifiedWaitReturns
