SPECIFICATION Spec
CONSTANTS
  MaxClass = 4
  LogUnits = 4
  Large = 1
  Region = 4
  StackPages = 1
  Frames <- MCFrames
  LargePages <- MCLargePages
INVARIANTS
  ObjectsDisjoint
  HeapIsBacked
  FramesUsedOnce
PROPERTIES
  LiveObjectsStay
CHECK_DEADLOCK FALSE
