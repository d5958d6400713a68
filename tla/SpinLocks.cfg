SPECIFICATION Spec
CONSTANTS
  NumTasks = 3
  TaskCalls <- MaskedCalls
  SvcCalls <- AllSvc
INVARIANTS
  HeldMeansMasked
PROPERTY
  CallReturns
