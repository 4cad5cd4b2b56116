\* The rate limit cmd/agent/main.go passes to Run: the field the environment
\* would set, 0 otherwise, and never the flag.
SPECIFICATION FairSpec
CONSTANTS
    Collectors = {runtime}
    Capacity = 2
    RateLimit <- MainRateLimit
    MayCancel = FALSE
    MaxBatches = 1
PROPERTY EveryBatchIsTried
CHECK_DEADLOCK FALSE
