CONSTANTS
  MemoryMaps <- MCMemoryMaps
  Policies = {"lowest", "highest", "scattered"}
  Kernels <- MCKernels
  InitFs <- MCInitFs
  DtbFile <- MCDtbFile
  Trees <- MCTrees
  DtbSources = {"options", "table", "none"}
  ModuleTests <- MCModuleTests
  KernelTests = 2
  MaxTests = 6
  WordBase = 64
  PageWords = 3
  Fan = 4
  Giga = 8
  MapBuffer = 11
  KernelBase = 131
  UartPage = 200
  Chunk = 3
SPECIFICATION Spec
INVARIANTS
  AvailableIsFree
  IdentityCoversMemory
  ImageLoaded
  DevicesFound
PROPERTIES
  BootReachesScheduler
CHECK_DEADLOCK FALSE
