SPECIFICATION FairSpec
CONSTANTS
    a1 = a1
    a2 = a2
    p1 = p1
    p2 = p2
    Admins <- MCAdmins
    Processes <- MCProcesses
    MaxTokens = 4
    MaxTroubles = 3
INVARIANTS TypeOK OneTokenOneCredential OverlappingIssuesLeaveOne
PROPERTIES RefusedForGood ServiceRestored
CHECK_DEADLOCK FALSE
