SPECIFICATION Spec
CONSTANTS
    Dates = {1, 2, 3}
    SplitMinimum = 3
    Policies = {"p0", "p1"}
    NoPolicy = "none"
    Requests <- SteadyRequests
    RunnerResults = {"COMPLETE"}
    MaxWorkers = 2
    MaxAttempts = 2
    MaxLaunches = 3
    MaxCrashes = 1
    MaxLosses = 0
INVARIANTS
    CompletedWorkReused
CHECK_DEADLOCK FALSE
