SPECIFICATION Spec
CONSTANTS
  NumTasks = 2
  TaskCalls <- AllocTest
  SvcCalls <- NoSvc
PROPERTY
  TestCallsReturn
CHECK_DEADLOCK FALSE
