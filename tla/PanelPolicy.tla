---------------------------- MODULE PanelPolicy ----------------------------
(***************************************************************************)
(* What the panel makes of one allocation of one server: the state it puts *)
(* in the snapshot, and its verdict on a request to wake the server.  Both *)
(* are functions of what the panel and Wings know at that moment, kept     *)
(* here as one record o:                                                   *)
(*   suspended, maintenance, transferring, status   columns of the server  *)
(*                                                  and of its node        *)
(*   reachable, wings        the node's utilization call and its entry     *)
(*   enabled, all, serverOut, eggOut                the settings           *)
(*   primary, autostart                             the allocation, switch *)
(***************************************************************************)
EXTENDS MotdState, Naturals, Sequences

Statuses == {"installing", "install_failed", "restoring_backup",
             "backup_restore_failed", "none"}
WingsStates == PowerStates \cup {"missing"}

Observations ==
    [suspended: BOOLEAN, maintenance: BOOLEAN, transferring: BOOLEAN,
     status: Statuses, reachable: BOOLEAN, wings: WingsStates,
     enabled: BOOLEAN, all: BOOLEAN, serverOut: BOOLEAN, eggOut: BOOLEAN,
     primary: BOOLEAN, autostart: BOOLEAN]

\* resolve_state: the first reason that applies.
ResolveState(o) ==
    IF o.suspended THEN "suspended"
    ELSE IF o.maintenance THEN "node_maintenance"
    ELSE IF o.transferring THEN "transferring"
    ELSE IF o.status # "none" THEN o.status
    ELSE IF ~o.reachable THEN "node_unreachable"
    ELSE IF o.wings = "missing" THEN "offline"
    ELSE o.wings

IsExcluded(o) == ~o.enabled \/ o.serverOut \/ o.eggOut

\* Mutant: the setting that manages all allocations is not looked at.
PrimaryOnly(o) == o.primary /\ ~IsExcluded(o)

\* Is the allocation in the snapshot?  Its port is in range: the route also
\* skips rows whose port is not, and the panel gives out no such allocation.
InSnapshot(o) == (o.all \/ o.primary) /\ ~IsExcluded(o)

\* Server::unavailable_reason, which the panel provides: a server that is
\* suspended, in transfer or in one of the statuses is not available.
UnavailableReason(o) == o.suspended \/ o.transferring \/ o.status # "none"

\* Mutant: any allocation may wake the server.
WakeAnyAllocation(o) ==
    IF ~o.enabled THEN "extension_disabled"
    ELSE IF IsExcluded(o) THEN "excluded"
    ELSE IF o.maintenance \/ UnavailableReason(o) THEN "server_unavailable"
    ELSE IF ~o.reachable THEN "error"
    ELSE IF o.wings \notin {"offline", "missing"} THEN "not_offline"
    ELSE IF ~o.autostart THEN "disabled_or_throttled"
    ELSE "started"

\* The wake endpoint's answer when nothing changes while it runs and no lock
\* is in the way.
WakeVerdict(o) ==
    IF ~o.enabled THEN "extension_disabled"
    ELSE IF ~(o.all \/ o.primary) THEN "allocation_not_authorized"
    ELSE IF IsExcluded(o) THEN "excluded"
    ELSE IF o.maintenance \/ UnavailableReason(o) THEN "server_unavailable"
    ELSE IF ~o.reachable THEN "error"
    ELSE IF o.wings \notin {"offline", "missing"} THEN "not_offline"
    ELSE IF ~o.autostart THEN "disabled_or_throttled"
    ELSE "started"

-----------------------------------------------------------------------------
(* What the documentation says of the states. *)

\* README.md:9 lists the states from the one that wins to the one that yields.
Priority == <<"suspended", "node_maintenance", "transferring", "installing",
              "install_failed", "restoring_backup", "backup_restore_failed",
              "node_unreachable", "starting", "stopping", "offline", "running">>

\* The states there is a reason to show, regardless of all the others; "none"
\* is none.
Reasons(o) ==
    {o.status,
     IF o.suspended THEN "suspended" ELSE "none",
     IF o.maintenance THEN "node_maintenance" ELSE "none",
     IF o.transferring THEN "transferring" ELSE "none",
     IF ~o.reachable THEN "node_unreachable"
     ELSE IF o.wings = "missing" THEN "offline" ELSE o.wings}
=============================================================================
