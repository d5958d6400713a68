CONSTANTS
  Task = {"idle", "t1", "t2"}
  Idle = "idle"
  NoTask = "none"
  Mutex = {"uart"}
  Cond = {"uart"}
  Char = {"a", "\r"}
  MaxChars = 3
  Sizes = {1, 2}
SPECIFICATION FairSpec
INVARIANTS
  NoFault
  UserSeesOwnRegisters
  FramesFit
  InputInOrder
PROPERTIES
  InputReachesReader
