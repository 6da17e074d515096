SPECIFICATION Spec
CONSTANTS
    DayLength = 48
    None = None
    NoMinutes <- None
    NoEvent = NoEvent
    Minutes <- MCMinutes
    SearchDays = 3
    Targets <- DocumentedTargets
    MaxTime = 480
INVARIANTS
    ResolvesLater
CHECK_DEADLOCK FALSE
