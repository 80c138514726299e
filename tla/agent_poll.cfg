SPECIFICATION Spec
CONSTANTS
    Servers = {s1, s2, s3}
    FirewallFaults = {"apply", "delete"}
    OnListenPort = {s3}
    SnapshotStates = {"running", "offline", "absent"}
    PanelSnapshots <- PollSnapshots
    NoSnapshot = NoSnapshot
    Conns = {}
    StaleAfter = 2
    MaxRestarts = 1
INVARIANTS
    BeliefMatchesKernel
    InterceptedAreAnswerable
    FreshInterceptionExact
PROPERTIES
    OutageKeepsMapping
    StaleNeverPromotes
    ImplementsInterception
CHECK_DEADLOCK FALSE
