SPECIFICATION FairSpec
CONSTANTS
    Tickers = {"A", "B"}
    Listings = {{"A", "B"}}
    Dates <- MCDates
    Quarter <- MCQuarter
    Overviews = {"overview"}
    MAX_TRANSIENT_RETRIES = 1
    ProviderRetries = {0}
    max_workers = 2
    MaxBatches = 4
    MaxCrashes = 1
INVARIANTS
    PointInTime
    FailureLeavesNoTrace
PROPERTIES
    AnswersStable
    BatchEnds
CHECK_DEADLOCK FALSE
