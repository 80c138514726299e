-------------------------- MODULE MCPanelSnapshot --------------------------
(***************************************************************************)
(* An instance of PanelSnapshot for TLC.                                   *)
(***************************************************************************)
EXTENDS PanelSnapshot, TLC

\* Updates of the switch differ in nothing but their name.
OwnerSymmetry == Permutations(Owners)

DefaultSettings ==
    [enabled |-> TRUE, all |-> FALSE, serverOut |-> FALSE, eggOut |-> FALSE]

\* Everything that settings do to one server, one thing at a time.
SettingsCases ==
    {DefaultSettings, [DefaultSettings EXCEPT !.all = TRUE],
     [DefaultSettings EXCEPT !.eggOut = TRUE]}
=============================================================================
