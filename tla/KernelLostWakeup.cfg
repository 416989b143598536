SPECIFICATION Spec
CONSTANTS
  TASK_COUNT = 3
  GLOBAL_HEAP_SIZE = 4
  MAX_ALLOCATIONS = 1
  COMM_HEAP_SIZE = 1
  HeaderSizes <- Sizes
  MallocSizes <- Sizes
  ReopenMayFail = TRUE
INVARIANTS
  WaitsForActive
