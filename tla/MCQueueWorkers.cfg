SPECIFICATION FairSpec
CONSTANTS
    Tasks = {t1, t2}
    Workers = {w1, w2, w3}
    NoTask = NoTask
    NoWorker = NoWorker
    MaxAttempts = 2
    MaxStarts = 3
    MaxReopens = 1
INVARIANTS
    RetryBudget
PROPERTIES
    ImplementsWorkLease
    PoolEnds
CHECK_DEADLOCK FALSE
