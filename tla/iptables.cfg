SPECIFICATION Spec
CONSTANTS
    a1 = a1
    a2 = a2
    b1 = b1
    V4 <- MCV4
    V6 <- MCV6
    Faults <- MCFaults
    Ip6Found = {TRUE}
    MaxJumps = 2
    MaxRestarts = 1
INVARIANTS TypeOK SuccessInstalls CleanExitReleases
PROPERTIES ImplementsInterception
CHECK_DEADLOCK FALSE
