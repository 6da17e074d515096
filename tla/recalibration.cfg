SPECIFICATION Spec
CONSTANTS
    MaxTime = 4
    Jobs = {1, 2}
    InitialJobs = {1, 2}
    Occurrence <- MCOccurrence
    DayLength = 3
    Offset <- MCOffset
    PersistentRegistry = FALSE
    TaskIds = {1, 2, 3}
    MaxConcurrency = 2
    HistoryLimit = 0
    MaxLatency <- NoLatencyLimit
    RetryPolicy <- MCRetryPolicy
    MayCancel = FALSE
    Until <- NoDeadline
    MidnightRecalibration = TRUE
    ApiCalls = {"remove", "refresh_job", "cancel"}
    MaxGeneration = 2
INVARIANTS
    TypeOK
    GenerationsBound
    NoJobLost
    GracefulReturn
PROPERTIES
    StaleStaysStale
CHECK_DEADLOCK FALSE
