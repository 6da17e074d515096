SPECIFICATION Spec
CONSTANTS
    MaxTime = 4
    Jobs = {1, 2}
    InitialJobs = {2}
    Occurrence <- MCOccurrence
    DayLength = 3
    Offset <- MCOffset
    PersistentRegistry = FALSE
    TaskIds = {1, 2}
    MaxConcurrency = 1
    HistoryLimit = 0
    MaxLatency <- NoLatencyLimit
    RetryPolicy <- MCRetryPolicy
    MayCancel = FALSE
    Until <- NoDeadline
    MidnightRecalibration = FALSE
    ApiCalls = {"refresh_job"}
    MaxGeneration = 2
INVARIANTS
    OneLiveEntry
CHECK_DEADLOCK FALSE
