------------------------- MODULE MCIptablesFirewall -------------------------
(***************************************************************************)
(* Instances of IptablesFirewall for TLC.                                  *)
(***************************************************************************)
EXTENDS IptablesFirewall

CONSTANTS a1, a2, b1

MCV4 == {a1, a2}
MCOneV4 == {a1}
MCV6 == {b1}

\* Every command but the deletion of a jump fails now and then.
MCFaults == Operations \ {"delete"}
=============================================================================
