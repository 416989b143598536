SPECIFICATION Spec
CONSTANTS
  STR = 6
  ARG_AT = 8
  COMM_HEAP_SIZE = 16
  INT_SIZE = 2
  GLOBAL_HEAP_SIZE = 20
  Char <- Characters
  Directories <- Tree
  PlainFiles <- FilesOnCard
  Paths <- CardPaths
  Commands <- Lines
  Listings <- Listing
  MaxCommands = 5
CHECK_DEADLOCK FALSE
INVARIANTS
  TypeOK
  ExecAsSent
  ReportsFailure
  FollowsPath
PROPERTIES
  SegmentKept
