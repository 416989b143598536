SPECIFICATION FairSpec
CONSTANTS
  TASK_COUNT = 3
  GLOBAL_HEAP_SIZE = 4
  MAX_ALLOCATIONS = 2
  COMM_HEAP_SIZE = 1
  HeaderSizes <- Sizes
  MallocSizes <- Sizes
  ReopenMayFail = FALSE
INVARIANTS
  TypeOK
  HeapDisjoint
  HeldIsAllocated
  NoLeak
  FreeHoldsNothing
  WaitsForActive
  OneWaiter
  NoWaitCycle
  SomeoneRunnable
PROPERTIES
  ResumeOnlyByChild
  MemoryKept
  ParentResumes
