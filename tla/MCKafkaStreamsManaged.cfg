SPECIFICATION Spec
CONSTANTS
  Graphs = {g}
  Topics = {t}
  Sessions = {k}
  None = None
  MaxStreams = 3
INVARIANTS
  ActiveStreamsRegistered
CHECK_DEADLOCK FALSE
