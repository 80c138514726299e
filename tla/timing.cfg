SPECIFICATION Spec
CONSTANTS
    Poll = 2
    StaleAfter = 3
    Beat = 6
    FetchMax = 2
    BeatMax = 3
    ProbeMax = 1
    SerialMax = 4
    NftMax = 1
    Horizon = 16
INVARIANTS
    InformationBounded
    FreshWhileWell
    OutageEndsInTime
CHECK_DEADLOCK FALSE
