---------------------------- MODULE MCNodeAgent ----------------------------
(***************************************************************************)
(* Instances of NodeAgent for TLC.                                         *)
(***************************************************************************)
EXTENDS NodeAgent, FiniteSets

CONSTANTS
    SnapshotStates   \* the states the panel may give a server

\* The panel lists no server while the extension is disabled (is_excluded).
DisabledSnapshot ==
    [enabled |-> FALSE, state |-> [s \in Servers |-> "absent"], autostart |-> {}]

\* Nobody logs in: autostart is left out.
PollSnapshots ==
    {DisabledSnapshot} \cup
    {[enabled |-> TRUE, state |-> st, autostart |-> {}] :
        st \in [Servers -> SnapshotStates]}

\* An entry may allow autostart whatever its state.
LoginSnapshots ==
    {DisabledSnapshot} \cup
    {sn \in [enabled: {TRUE}, state: [Servers -> SnapshotStates],
             autostart: SUBSET Servers] : sn.autostart \subseteq Listed(sn)}
=============================================================================
