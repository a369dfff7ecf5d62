CONSTANTS
    Plans <- MCUpload
    Session = {"a", "b"}
    MAX_FE_SESSIONS = 1
    MaxGraph = 3
    Asked = {1, 2}
    nparts = 2
SPECIFICATION Spec
INVARIANT OperationalMeansUploaded
CHECK_DEADLOCK FALSE
