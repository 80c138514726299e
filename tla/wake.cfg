SPECIFICATION PermittedFairSpec
CONSTANTS
    Requests = {r1, r2}
    Window = 2
    MaxPost = 1
    MaxTroubles = 2
    Null = Null
INVARIANTS
    StartRevalidated
PROPERTIES
    StartsApart
    LoginsWake
CHECK_DEADLOCK FALSE
