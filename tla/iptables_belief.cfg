SPECIFICATION Spec
CONSTANTS
    a1 = a1
    a2 = a2
    b1 = b1
    V4 <- MCOneV4
    V6 <- MCV6
    Faults = {"restore"}
    Ip6Found = {TRUE}
    MaxJumps = 1
    MaxRestarts = 0
INVARIANTS RequestedAreIntercepted
CHECK_DEADLOCK FALSE
