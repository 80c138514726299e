---------------------------- MODULE MCPanelWake ----------------------------
(***************************************************************************)
(* An instance of PanelWake for TLC.                                       *)
(***************************************************************************)
EXTENDS PanelWake

\* Behaviours that begin where everything permits a start: whatever is missing
\* or comes back later is one of the MaxTroubles.
PermittedInit == Init /\ holds = Facts
PermittedFairSpec == PermittedInit /\ [][Next]_vars /\ Fairness
=============================================================================
