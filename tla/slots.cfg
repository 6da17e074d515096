SPECIFICATION LoopSpec
CONSTANTS
    Users = {u1, u2, u3}
    MaxConcurrency = 2
    MaxLaunched = 3
INVARIANTS
    PermitsAgree
    HeldOrAvailable
PROPERTIES
    SlotsImplemented
    StopIsRespected
    UsersAreServed
CHECK_DEADLOCK FALSE
