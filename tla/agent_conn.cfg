SPECIFICATION FairSpec
CONSTANTS
    Servers = {s1}
    FirewallFaults = {"list", "apply"}
    OnListenPort = {}
    SnapshotStates = {"running", "offline", "suspended", "absent"}
    PanelSnapshots <- LoginSnapshots
    NoSnapshot = NoSnapshot
    Conns = {c1}
    StaleAfter = 1
    MaxRestarts = 1
INVARIANTS
    BeliefIsIntercepted
    ToldStateIsConfigured
PROPERTIES
    LoginCloses
    OutageEnds
CHECK_DEADLOCK FALSE
