SPECIFICATION Spec
CONSTANTS
  MaxClass = 4
  LogUnits = 4
  Large = 1
  Region = 2
  StackPages = 1
  Frames <- MoreFrames
  LargePages <- MCLargePages
INVARIANT
  FreedFramesAligned
CHECK_DEADLOCK FALSE
