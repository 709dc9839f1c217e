SPECIFICATION FairSpec
CONSTANTS
    Dates <- OneDate
    Codes = {c1, c2}
    REPLAY_PHASES <- MCPhases
    Requests <- OperatorRequests
    ForceAllowed = TRUE
    NoResumeAllowed = TRUE
    MaxLaunches = 3
    MaxCrashes = 1
    MaxLosses = 0
INVARIANTS
    EvidenceOfOneCode
PROPERTIES
    LaunchEnds
CHECK_DEADLOCK FALSE
