SPECIFICATION Spec
CONSTANTS
  GLOBAL_HEAP_SIZE = 7
  Sizes <- ScanSizes
INVARIANTS
  TypeOK
  ScanFindsFirstFit
CHECK_DEADLOCK FALSE
