SPECIFICATION Spec
CONSTANTS
    Dates <- TwoDates
    Codes = {c1, c2}
    REPLAY_PHASES <- MCPhases
    Requests <- ResearchRequests
    ForceAllowed = FALSE
    NoResumeAllowed = FALSE
    MaxLaunches = 3
    MaxCrashes = 1
    MaxLosses = 1
INVARIANTS
    CompleteDayIsBacked
PROPERTIES
    CompletedDaysRest
    ImplementsResumableRun
CHECK_DEADLOCK FALSE
