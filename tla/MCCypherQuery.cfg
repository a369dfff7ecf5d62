SPECIFICATION FairSpec
CONSTANTS
  N = 2
  Queries <- MCQueries
  Tables <- SmallTables
  HeapLimit = 1
  OperatorSize = 1
  MasterSize = 1
  MaxDisconnects = 1
  DiskFailures = TRUE
  ClientMayLeave = TRUE
INVARIANTS
  ReplyInOrder
  RowsConserved
  AnswerComplete
PROPERTIES
  Answered
  CutOffWorkersFinish
CHECK_DEADLOCK FALSE
