CONSTANTS
  Task = {idle, t1, t2, t3}
  Idle = idle
  NoTask = NoTask
SPECIFICATION FairSpec
INVARIANTS
  RunQueueIsReadySet
  NoPanic
PROPERTIES
  NoOvertaking
  ReadyTaskRuns
