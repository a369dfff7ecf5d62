CONSTANTS
    Rounds = 1
    MaxFaults = 1
SPECIFICATION Spec
CHECK_DEADLOCK FALSE
INVARIANTS InStep NoMutualWait SuccessMeansDone
PROPERTIES SessionsEnd LossesEndBoth
