SPECIFICATION ConditionsSpec
CONSTANTS
    Windows = {"minute", "hour"}
    MaxCalls <- MCMaxCalls
    Period <- MCPeriod
    MaxTime = 5
    DayLength = 4
    Jobs = {"a", "b", "c"}
    Node <- MCNode
    Required <- MCRequired
    TaskIds = {t1, t2}
SYMMETRY MCSymmetry
INVARIANTS
    WithinLimits
    VerdictIsMeaning

    
CHECK_DEADLOCK FALSE
