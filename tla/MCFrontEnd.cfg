CONSTANTS
    Plans <- MCPlans
    Session = {"a", "b"}
    MAX_FE_SESSIONS = 1
    MaxGraph = 3
    Asked = {1, 2}
    nparts = 2
SPECIFICATION FairSpec
INVARIANTS UploadedUnlessHarmed RowsGoTogether StopReachesTheStream
PROPERTIES RestartKeepsUploads JobsAnswered DepartedUISessionsEnd MutexComesBack
CHECK_DEADLOCK FALSE
