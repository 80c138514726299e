SPECIFICATION Spec
CONSTANTS
    Servers = {s1}
    FirewallFaults = {}
    OnListenPort = {}
    SnapshotStates = {"running", "offline"}
    PanelSnapshots <- PollSnapshots
    NoSnapshot = NoSnapshot
    Conns = {}
    StaleAfter = 2
    MaxRestarts = 0
INVARIANT
    CleanExitLeavesNoRules
CHECK_DEADLOCK FALSE
