SPECIFICATION FairSpec
CONSTANTS
  Graphs = {g}
  Topics = {t}
  Sessions = {k1, k2}
  None = None
  MaxStreams = 3
INVARIANTS
  NoDeadEntries
  ExactUntilStopped
PROPERTIES
  StoppedConsumersEnd
CHECK_DEADLOCK FALSE
