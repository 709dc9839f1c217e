SPECIFICATION ResearchSpec
CONSTANTS
    Threads = {"t1", "t2"}
    minimum_interval = 2
    maximum_interval = 3
    RetryAfters <- MCRetryAfters
    max_attempts = 2
    base_backoff = 1
    maximum_backoff = 1
    Timeout = 1
    MaxPages = 2
    Versions = {"v1", "v2", "v3"}
    SizeOf <- MCSizeOf
    MaxUpsets = 4
    Callers = {"c1", "c2"}
    Requests = {"3days", "5days"}
    Pages = {"p1", "p2"}
    MaxGets = 4
    Eligible = {1, 2, 3}
    MaxAttempts = 2
    MaxLaunches = 3
    MaxRemovals = 1
    Dates = {1, 2, 3, 4, 5, 6, 7, 8, 9}
    SplitMinimum = 5
    Postmortems <- MCPostmortems
    MINIMUM_OCCURRENCES = 2
    MaxDays = 2
INVARIANTS
    SentWithinBudget
    DamageIsNoticed
    PagesNeverChange
    CompleteHasResult
    TickersAccounted
    SplitInOrder
    OutOfSampleUntouched
PROPERTIES
    RetryAfterHonoured
    LaunchReports
CHECK_DEADLOCK FALSE
