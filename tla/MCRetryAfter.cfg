SPECIFICATION ClientSpec
CONSTANTS
    Threads = {"t1"}
    minimum_interval = 0
    maximum_interval = 3
    RetryAfters <- MCDates
    max_attempts = 2
    base_backoff = 1
    maximum_backoff = 1
    Timeout = 1
    MaxPages = 1
PROPERTIES
    EveryRetryAfterHonoured
CHECK_DEADLOCK FALSE
