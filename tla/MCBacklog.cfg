SPECIFICATION FairSpec
CONSTANTS
    Units <- MCUnits
    Dates <- MCDates
    Commits <- MCCommits
    Version <- MCVersion
    MaxJobs = 13
    MaxIncidents = 2
INVARIANTS
    CompleteUnitIsPublished
    PausedUnitIsRecoverable
    AbandonedByInterruption
PROPERTIES
    UnitsHaveOneOwner
    BacklogDrains
CHECK_DEADLOCK FALSE
