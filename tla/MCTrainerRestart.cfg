SPECIFICATION FairSpec
CONSTANTS
    Dates = {1, 2, 3}
    SplitMinimum = 3
    Policies = {"p0", "p1"}
    NoPolicy = "none"
    Requests <- RestartRequests
    RunnerResults = {"COMPLETE", "FAILED", "UNSUPPORTED", "RAISED"}
    MaxWorkers = 2
    MaxAttempts = 2
    MaxLaunches = 3
    MaxCrashes = 1
    MaxLosses = 1
INVARIANTS
    NoStaleFailure
PROPERTIES
    PartitionsFrozen
    LaunchEnds
CHECK_DEADLOCK FALSE
