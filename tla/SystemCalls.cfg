SPECIFICATION Spec
CONSTANTS
  TASK_COUNT = 3
  GLOBAL_HEAP_SIZE = 3
  MAX_ALLOCATIONS = 1
  COMM_HEAP_SIZE = 1
  HeaderSizes <- Sizes
  MallocSizes <- NoSizes
  ReopenMayFail = FALSE
  Commands <- ClientCommands
  MaxPackets = 3
INVARIANTS
  CallsAreExecuted
