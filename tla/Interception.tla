---------------------------- MODULE Interception ----------------------------
(***************************************************************************)
(* What a firewall backend promises the poll loop, whatever commands it is *)
(* made of.  A reconcile is asked for, done or refused.  As long as the    *)
(* process lives the kernel's interception changes only between the        *)
(* request and its answer, and the manager's belief only in a success, to  *)
(* what the kernel does by then.  An atomic backend changes the kernel     *)
(* once, and not at all when it refuses.                                   *)
(***************************************************************************)
CONSTANTS
    Targets,   \* what the poll loop may ask for
    Atomic     \* is a reconcile all or nothing

VARIABLES
    alive,     \* the process runs, and nobody has asked it to stop
    stage,     \* of the reconcile under way: "idle", "asked", "done"
    believed,  \* current_allocations
    kernel     \* the allocations that are redirected

vars == <<alive, stage, believed, kernel>>

Init ==
    /\ alive = TRUE
    /\ stage = "idle"
    /\ believed = {}
    /\ kernel = {}

Ask ==
    /\ alive /\ stage = "idle"
    /\ stage' = "asked"
    /\ UNCHANGED <<alive, believed, kernel>>

\* A backend that is not atomic is seen at work.
Disturb ==
    /\ alive /\ stage = "asked" /\ ~Atomic
    /\ kernel' \in Targets
    /\ UNCHANGED <<alive, stage, believed>>

Apply ==
    /\ alive /\ stage = "asked"
    /\ kernel' \in Targets
    /\ stage' = "done"
    /\ UNCHANGED <<alive, believed>>

Refuse ==
    /\ alive /\ stage = "asked"
    /\ stage' = "idle"
    /\ UNCHANGED <<alive, believed, kernel>>

\* The success is answered; a backend may apply and answer in one step.
Succeed ==
    /\ alive
    /\ \/ stage = "done"  /\ UNCHANGED kernel
       \/ stage = "asked" /\ kernel' \in Targets
    /\ stage' = "idle"
    /\ believed' = kernel'
    /\ UNCHANGED alive

\* The process is stopped or killed, wherever the reconcile was.
End ==
    /\ alive
    /\ alive' = FALSE
    /\ stage' = "idle"
    /\ believed' \in {believed, {}}
    /\ UNCHANGED kernel

\* cleanup, and what is left of the process, or nothing at all.
Aftermath ==
    /\ ~alive
    /\ kernel' \in Targets
    /\ believed' \in {believed, {}}
    /\ UNCHANGED <<alive, stage>>

\* A new process knows nothing of what it finds.
Start ==
    /\ ~alive
    /\ alive' = TRUE
    /\ believed' = {}
    /\ UNCHANGED <<stage, kernel>>

Next ==
    \/ Ask \/ Disturb \/ Apply \/ Refuse \/ Succeed
    \/ End \/ Aftermath \/ Start

Spec == Init /\ [][Next]_vars
=============================================================================
