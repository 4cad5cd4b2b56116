\* Two collectors, a channel of two, two requests at a time.
SPECIFICATION FairSpec
CONSTANTS
    Collectors = {runtime, gopsutil}
    Capacity = 2
    RateLimit = 2
    MayCancel = TRUE
    MaxBatches = 3
INVARIANTS TypeOK RateLimitRespected StartedInOrder
PROPERTIES EveryBatchIsTried CancelStopsCollectors
