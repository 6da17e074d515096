SPECIFICATION Spec
CONSTANTS
    Names = {"async", "sync"}
    SyncJobs = {"sync"}
    Executions = {x1}
    MaxRows = 1
    ApiWhile <- AroundClose
    WorkerThreads = TRUE
    Interruptions = {"cancel", "slow_write", "outlive"}
    DefaultInUse = TRUE
    MaxWrites = 1
    MaxBoots = 2
INVARIANTS
    RestoredIsSettled
PROPERTIES
    HistoryIsKept
CHECK_DEADLOCK FALSE
