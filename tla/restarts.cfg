SPECIFICATION FairSpec
CONSTANTS
    Names = {"async"}
    SyncJobs = {}
    Executions = {x1, x2}
    MaxRows = 2
    ApiWhile <- OutsideInit
    WorkerThreads = FALSE
    Interruptions = {}
    DefaultInUse = FALSE
    MaxWrites = 2
    MaxBoots = 2
INVARIANTS
    TypeOK
    RunningIsInFlight
    RegisteredAreDurable
PROPERTIES
    HistoryIsKept
    RunningSettles
CHECK_DEADLOCK FALSE
