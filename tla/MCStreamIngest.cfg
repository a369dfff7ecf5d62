SPECIFICATION FairSpec
CONSTANTS
  NPartitions = 2
  NWorkers = 2
  MaxEdges = 2
  MaxStreams = 2
INVARIANTS
  Conserved
  NoSleepOverWork
PROPERTIES
  NothingStoredAfterEnd
  EdgesStored
CHECK_DEADLOCK FALSE
