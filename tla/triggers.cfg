SPECIFICATION Spec
CONSTANTS
    DayLength = 48
    None = None
    NoMinutes <- None
    NoEvent = NoEvent
    Minutes <- MCMinutes
    SearchDays = 3
    Targets <- MCTargets
    MaxTime = 480
INVARIANTS
    ClockIsNext
    SolarIsNext
    WakeIsNext
    PhraseIsAhead
PROPERTIES
    RecalibrationKeeps
CHECK_DEADLOCK FALSE
