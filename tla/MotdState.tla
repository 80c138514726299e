----------------------------- MODULE MotdState -----------------------------
(***************************************************************************)
(* The state vocabulary that the panel extension and the node agent share. *)
(* The two programs each declare it (EffectiveState in the extension,      *)
(* ServerState in the agent) and exchange it by its snake_case name, so a  *)
(* state is here that name.                                                *)
(***************************************************************************)

\* States an administrator or a panel job imposes on a server, whatever its
\* power state: the ones stale_state keeps.
AdminStates == {"suspended", "node_maintenance", "transferring", "installing",
                "install_failed", "restoring_backup", "backup_restore_failed"}

\* Power states Wings reports.
PowerStates == {"offline", "starting", "stopping", "running"}

States == AdminStates \cup PowerStates \cup {"node_unreachable"}

\* The states an administrator gives a presentation: "running" has none.
StateNames == {"offline", "starting", "stopping", "suspended",
               "node_maintenance", "transferring", "installing",
               "install_failed", "restoring_backup", "backup_restore_failed",
               "node_unreachable"}

\* Mutant: one administrative state is missing from the match.
StaleForgetsTransfer(st, stale) ==
    IF stale /\ st \notin AdminStates \ {"transferring"}
    THEN "node_unreachable" ELSE st

\* What the agent makes of the state st it cached: once the cache is stale
\* only a reason the panel alone can lift is still worth showing.
StaleState(st, stale) ==
    IF stale /\ st \notin AdminStates THEN "node_unreachable" ELSE st

\* Mutant: the shown state is the cached one.
ShowsRunning(st) == st

\* handle_connection shows a server that is intercepted although it runs as
\* one that starts.
ShownState(st) == IF st = "running" THEN "starting" ELSE st
=============================================================================
