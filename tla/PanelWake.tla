----------------------------- MODULE PanelWake -----------------------------
(***************************************************************************)
(* The panel's wake endpoint, for one server: any number of requests for   *)
(* it run at once, each a sequence of database and Wings calls between     *)
(* which administrators, owners and other requests change what it has      *)
(* read.  The last_wake_at column is the only lock.                        *)
(***************************************************************************)
EXTENDS Naturals, FiniteSets

CONSTANTS
    Requests,     \* slots for requests in flight
    Window,       \* the 30 seconds of the lock, in ticks
    MaxPost,      \* the longest a power request is under way, in ticks
    MaxTroubles,  \* bound on changes of the facts, failures, cancellations
    Null

ASSUME WindowAssumption == Window \in Nat \ {0} /\ MaxPost \in Nat
ASSUME TroublesAssumption == MaxTroubles \in Nat
ASSUME NullAssumption == Null \notin Nat

\* What has to hold for a login to start the server.
Facts == {"agent",        \* the token is an agent's of this node, not revoked
          "enabled",      \* settings.enabled
          "included",     \* neither the server nor its egg is excluded
          "allocation",   \* the allocation is the server's, and managed
          "placed",       \* the server is on the agent's node
          "available",    \* the server has no unavailable_reason
          "in_service",   \* the node is not in maintenance
          "autostart"}    \* autostart_on_join of the server's settings row

VARIABLES
    holds,       \* the facts that hold
    power,       \* the server's state in Wings
    lockAge,     \* ticks since last_wake_at, Window when it no longer locks
    sinceStart,  \* ticks since Wings last got a start command
    req,         \* the requests
    troubles,    \* how much went wrong or was changed so far
    rolledBack   \* has a request taken its lock back

vars == <<holds, power, lockAge, sinceStart, req, troubles, rolledBack>>

Stages == {"idle", "auth", "settings", "row", "server", "node", "wings",
           "lock", "post", "posted", "rollback"}

Ages == 0..Window \cup {Null}

\* excluded: the cloned settings exclude the server; unmanaged: the allocation
\* was not managed when they were cloned; unavailable: what Server::by_uuid
\* returned has an unavailable_reason; wait: ticks in "post"; changed: the facts
\* that changed since the request came in.
Idle == [pc |-> "idle", excluded |-> FALSE, unmanaged |-> FALSE,
         unavailable |-> FALSE, wait |-> 0, changed |-> {}]

TypeOK ==
    /\ holds \in SUBSET Facts
    /\ power \in {"offline", "starting", "running", "stopping"}
    /\ lockAge \in Ages
    /\ sinceStart \in Ages
    /\ req \in [Requests -> [pc: Stages, excluded: BOOLEAN, unmanaged: BOOLEAN,
                             unavailable: BOOLEAN, wait: 0..MaxPost,
                             changed: SUBSET (Facts \cup {"power"})]]
    /\ troubles \in 0..MaxTroubles
    /\ rolledBack \in BOOLEAN

Init ==
    /\ holds \in {Facts} \cup {Facts \ {f} : f \in Facts}
    /\ power = "offline"
    /\ lockAge = Null
    /\ sinceStart = Null
    /\ req = [r \in Requests |-> Idle]
    /\ troubles = 0
    /\ rolledBack = FALSE

-----------------------------------------------------------------------------
(* The world around the handler. *)

Trouble == troubles < MaxTroubles /\ troubles' = troubles + 1

\* Every request in flight has now been overtaken by a change of what.
Overtaken(what) ==
    [r \in Requests |->
        IF req[r].pc = "idle" THEN req[r]
        ELSE [req[r] EXCEPT !.changed = @ \cup {what}]]

\* An administrator, an owner or another part of the panel changes a fact.
ChangeFact(f) ==
    /\ Trouble
    /\ holds' = IF f \in holds THEN holds \ {f} ELSE holds \cup {f}
    /\ req' = Overtaken(f)
    /\ UNCHANGED <<power, lockAge, sinceStart, rolledBack>>

\* The server's own life, and starts by anyone but the extension.
PowerChanges ==
    /\ \/ power = "starting" /\ power' = "running"
       \/ power = "running"  /\ power' = "stopping"
       \/ power = "stopping" /\ power' = "offline"
       \/ power = "offline"  /\ power' = "starting" /\ troubles < MaxTroubles
    /\ troubles' = IF power = "offline" THEN troubles + 1 ELSE troubles
    /\ req' = Overtaken("power")
    /\ UNCHANGED <<holds, lockAge, sinceStart, rolledBack>>

Older(a) == IF a = Null \/ a = Window THEN a ELSE a + 1

\* A second passes; no power request outlives MaxPost of them.
Tick ==
    /\ \A r \in Requests : req[r].pc = "post" => req[r].wait < MaxPost
    /\ lockAge \notin {Null, Window} \/ sinceStart \notin {Null, Window}
    /\ lockAge' = Older(lockAge)
    /\ sinceStart' = Older(sinceStart)
    /\ req' = [r \in Requests |->
                   IF req[r].pc = "post" THEN [req[r] EXCEPT !.wait = @ + 1]
                                         ELSE req[r]]
    /\ UNCHANGED <<holds, power, troubles, rolledBack>>

-----------------------------------------------------------------------------
(* route of wake, one action per call it awaits. *)

\* The request comes in, from an agent that saw the server offline.
Arrive(r) ==
    /\ req[r].pc = "idle"
    /\ req' = [req EXCEPT ![r] = [Idle EXCEPT !.pc = "auth"]]
    /\ UNCHANGED <<holds, power, lockAge, sinceStart, troubles, rolledBack>>

\* A step of the handler that reads: it goes on to the next stage, or answers.
Reads(r, pc, passes, next) ==
    /\ req[r].pc = pc
    /\ req' = [req EXCEPT ![r] = IF passes THEN next ELSE Idle]
    /\ UNCHANGED <<holds, power, lockAge, sinceStart, troubles, rolledBack>>

At(r, pc) == [req[r] EXCEPT !.pc = pc]

\* Without this fact the request is answered with an error or a reason.
Authenticate(r) == Reads(r, "auth", "agent" \in holds, At(r, "settings"))

\* The settings are cloned and used from then on.
CloneSettings(r) ==
    Reads(r, "settings", "enabled" \in holds,
          [At(r, "row") EXCEPT !.excluded = "included" \notin holds,
                               !.unmanaged = "allocation" \notin holds])

\* allocation_not_authorized, then excluded by the cloned settings.  Whether the
\* allocation is managed depends on the row as it is and on all_allocations of
\* the cloned settings: either may be what has changed in between.
ReadRow(r) ==
    \E managed \in {~req[r].unmanaged, "allocation" \in holds} :
        Reads(r, "row", "placed" \in holds /\ managed /\ ~req[r].excluded,
              At(r, "server"))

\* wrong_node.
ReadServer(r) ==
    Reads(r, "server", "placed" \in holds,
          [At(r, "node") EXCEPT !.unavailable = "available" \notin holds])

\* Mutant: the server's own unavailable_reason is not looked at.
ReadNodeOnly(r) == Reads(r, "node", "in_service" \in holds, At(r, "wings"))

\* server_unavailable, from the node as it is and the server as it was read.
ReadNode(r) ==
    Reads(r, "node", "in_service" \in holds /\ ~req[r].unavailable,
          At(r, "wings"))

\* not_offline.
AskWings(r) == Reads(r, "wings", power = "offline", At(r, "lock"))

\* Mutant: the age of last_wake_at is not tested.
TakeLockAnyway(r) ==
    /\ req[r].pc = "lock"
    /\ lockAge' = IF "autostart" \in holds THEN 0 ELSE lockAge
    /\ req' = [req EXCEPT ![r] = IF "autostart" \in holds THEN At(r, "post")
                                                         ELSE Idle]
    /\ UNCHANGED <<holds, power, sinceStart, troubles, rolledBack>>

\* Mutant: a lock never expires.
TakeLockOnce(r) ==
    /\ req[r].pc = "lock"
    /\ \/ /\ "autostart" \in holds
          /\ lockAge = Null
          /\ lockAge' = 0
          /\ req' = [req EXCEPT ![r] = At(r, "post")]
       \/ /\ "autostart" \notin holds \/ lockAge # Null
          /\ req' = [req EXCEPT ![r] = Idle]
          /\ UNCHANGED lockAge
    /\ UNCHANGED <<holds, power, sinceStart, troubles, rolledBack>>

\* The one UPDATE that tests the switch and the lock and takes it, or
\* disabled_or_throttled.
TakeLock(r) ==
    /\ req[r].pc = "lock"
    /\ \/ /\ "autostart" \in holds
          /\ lockAge \in {Null, Window}
          /\ lockAge' = 0
          /\ req' = [req EXCEPT ![r] = At(r, "post")]
       \/ /\ "autostart" \notin holds \/ lockAge \notin {Null, Window}
          /\ req' = [req EXCEPT ![r] = Idle]
          /\ UNCHANGED lockAge
    /\ UNCHANGED <<holds, power, sinceStart, troubles, rolledBack>>

\* The start command reaches Wings, which starts a server that is offline.
Deliver(r) ==
    /\ req[r].pc = "post"
    /\ power' = IF power = "offline" THEN "starting" ELSE power
    /\ sinceStart' = 0
    /\ req' = [(IF power = "offline" THEN Overtaken("power") ELSE req)
                   EXCEPT ![r].pc = "posted", ![r].wait = 0]
    /\ UNCHANGED <<holds, lockAge, troubles, rolledBack>>

\* Wings answers, and so does the handler: started.
Started(r) ==
    /\ req[r].pc = "posted"
    /\ req' = [req EXCEPT ![r] = Idle]
    /\ UNCHANGED <<holds, power, lockAge, sinceStart, troubles, rolledBack>>

\* The call returns an error: the command was not delivered, or its answer was
\* an error or never came.
PostErrs(r) ==
    /\ req[r].pc \in {"post", "posted"}
    /\ Trouble
    /\ req' = [req EXCEPT ![r].pc = "rollback", ![r].wait = 0]
    /\ UNCHANGED <<holds, power, lockAge, sinceStart, rolledBack>>

\* last_wake_at is set to NULL, whoever set it last.
Rollback(r) ==
    /\ req[r].pc = "rollback"
    /\ lockAge' = Null
    /\ rolledBack' = TRUE
    /\ req' = [req EXCEPT ![r] = Idle]
    /\ UNCHANGED <<holds, power, sinceStart, troubles>>

\* A call other than the power request fails, or the agent gives up after its
\* ten seconds and the handler is dropped where it is.
Abandon(r) ==
    /\ req[r].pc # "idle"
    /\ Trouble
    /\ req' = [req EXCEPT ![r] = Idle]
    /\ UNCHANGED <<holds, power, lockAge, sinceStart, rolledBack>>

-----------------------------------------------------------------------------

Handler(r) ==
    \/ Authenticate(r) \/ CloneSettings(r) \/ ReadRow(r) \/ ReadServer(r)
    \/ ReadNode(r) \/ AskWings(r) \/ TakeLock(r)
    \/ Deliver(r) \/ Started(r) \/ Rollback(r)

Next ==
    \/ \E f \in Facts : ChangeFact(f)
    \/ PowerChanges
    \/ Tick
    \/ \E r \in Requests :
        Arrive(r) \/ Handler(r) \/ PostErrs(r) \/ Abandon(r)

Spec == Init /\ [][Next]_vars

\* Time passes, databases and Wings answer, a server that starts or stops gets
\* there.
Fairness ==
    /\ WF_vars(Tick)
    /\ \A r \in Requests : WF_vars(Handler(r))
    /\ WF_vars(PowerChanges /\ power \in {"starting", "stopping"})

FairSpec == Spec /\ Fairness

-----------------------------------------------------------------------------
(* Properties. *)

\* A start command is under way only for a request that found every condition
\* satisfied: each one holds now, or changed after the request had come in.
\* The checks are eight separate reads, none of them under the lock, so this
\* is all that can be promised; a check dropped from the chain breaks it.
StartRevalidated ==
    \A r \in Requests : req[r].pc = "post" =>
        /\ Facts \subseteq holds \cup req[r].changed
        /\ power = "offline" \/ "power" \in req[r].changed

\* Until some request has taken its lock back, start commands reach Wings at
\* least the lock's window apart, less the time one may be on its way: a
\* request cancelled while it holds the lock does not let another in early.
StartsApart ==
    [][\A r \in Requests :
          req[r].pc = "post" /\ req'[r].pc = "posted" /\ ~rolledBack =>
              sinceStart = Null \/ sinceStart + MaxPost >= Window]_vars

\* The lock never shuts a player out for good: whatever was cancelled, failed
\* or was switched before, once everything permits the start, logins that keep
\* coming get the server out of its offline state.
LoginsWake ==
    /\ <>[](holds = Facts)
    /\ \A r \in Requests : WF_vars(Arrive(r))
    => []<>(power # "offline")

\* README.md:16, wakes are deduplicated with a lock of 30 seconds.
WakesDeduplicated ==
    [][\A r \in Requests :
          req[r].pc = "post" /\ req'[r].pc = "posted" =>
              sinceStart = Null \/ sinceStart + MaxPost >= Window]_vars
=============================================================================
