SPECIFICATION FairSpec
CONSTANTS
    MaxTime = 4
    Jobs = {1, 2}
    InitialJobs = {1}
    Occurrence <- MCOccurrence
    DayLength = 3
    Offset <- MCOffset
    PersistentRegistry = FALSE
    TaskIds = {1, 2}
    MaxConcurrency = 1
    HistoryLimit = 0
    MaxLatency <- NoLatencyLimit
    RetryPolicy <- MCRetryPolicy
    MayCancel = FALSE
    Until <- NoDeadline
    MidnightRecalibration = TRUE
    ApiCalls = {"register", "stop", "cancel", "cancel_gather"}
    MaxGeneration = 0
INVARIANTS
    MissedMidnightsAreMadeUp
PROPERTIES
    StopReturns
    Recalibrated
CHECK_DEADLOCK FALSE
