SPECIFICATION Spec
CONSTANTS
    Partition = {0, 1}
    partitionFileEdgeThreshold = 2
    Plans <- MCPlans
    Thread = {1, 2}
    MAX_BUFFER_SIZE = 2
    MASTER_BUFFER_SIZE = 1
INVARIANTS
    EdgeInOnePlace
    AllGiven
    AllSentAtRest
PROPERTY
    EndsUnlessBlocked
CHECK_DEADLOCK FALSE
