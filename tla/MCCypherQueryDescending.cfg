SPECIFICATION Spec
CONSTANTS
  N = 2
  Queries <- MCDescending
  Tables <- SmallTables
  HeapLimit = 1
  OperatorSize = 1
  MasterSize = 1
  MaxDisconnects = 0
  DiskFailures = FALSE
  ClientMayLeave = FALSE
INVARIANTS
  ReplyInOrder
CHECK_DEADLOCK FALSE
