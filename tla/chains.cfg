SPECIFICATION Spec
CONSTANTS
    MaxTime = 5
    Jobs = {1, 2}
    InitialJobs = {1}
    Occurrence <- MCOccurrence
    DayLength = 3
    Offset <- MCOffset
    PersistentRegistry = FALSE
    TaskIds = {1, 2}
    MaxConcurrency = 2
    HistoryLimit = 4
    MaxLatency <- TightLatency
    RetryPolicy <- MCRetryPolicy
    MayCancel = TRUE
    Until = 4
    MidnightRecalibration = FALSE
    ApiCalls = {"register", "remove", "clear", "stop", "cancel", "cancel_gather", "sync_registry", "peek_next"}
    MaxGeneration = 0
INVARIANTS
    SlotsConserved
    GracefulReturn
    SingleChain
    RetriesFollowFailures
    AttemptsBounded
CHECK_DEADLOCK FALSE
