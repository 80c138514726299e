SPECIFICATION Spec
CONSTANTS
    Requests = {r1, r2}
    Window = 3
    MaxPost = 1
    MaxTroubles = 1
    Null = Null
PROPERTY
    WakesDeduplicated
CHECK_DEADLOCK FALSE
