---------------------------- MODULE NftFirewall ----------------------------
(***************************************************************************)
(* The agent's FirewallManager on its nftables backend, and the kernel     *)
(* table it owns.  `nft -f -` is a child process: reconcile spawns it and  *)
(* awaits it, the kernel applies the whole script or nothing, and the      *)
(* child is not killed when the task that awaits it is dropped.            *)
(*                                                                         *)
(* NodeAgent extends this module and conjoins each operation with the      *)
(* state of the task that calls it.                                        *)
(***************************************************************************)

CONSTANTS
    Servers,         \* one element per allocation (ip, port) of the node
    FirewallFaults   \* the nft commands that may fail for no reason of ours

ASSUME FaultsAssumption == FirewallFaults \subseteq {"list", "apply", "delete"}

VARIABLES
    current,   \* FirewallManager.current_allocations
    table,     \* does `table inet calagopus_motd` exist in the kernel
    rules,     \* the allocations that table redirects to the agent
    script     \* the `nft -f -` child: its input and what became of it

fwVars == <<current, table, rules, script>>

NoScript == [status |-> "none", target |-> {}, replace |-> FALSE]

FirewallTypeOK ==
    /\ current \in SUBSET Servers
    /\ table \in BOOLEAN
    /\ rules \in SUBSET Servers
    /\ script \in [status: {"none", "pending", "done", "failed"},
                   target: SUBSET Servers, replace: BOOLEAN]

\* detect: a new manager believes that nothing is intercepted, whatever the
\* kernel holds.
FirewallInit ==
    /\ current = {}
    /\ table = FALSE
    /\ rules = {}
    /\ script = NoScript

\* reconcile returns at once when the request is the one it last applied.
Unchanged(target) ==
    /\ target = current
    /\ UNCHANGED fwVars

\* Mutant: the script never deletes the table first.
SpawnsWithoutDelete(target) ==
    /\ target # current
    /\ script' = [status |-> "pending", target |-> target, replace |-> FALSE]
    /\ UNCHANGED <<current, table, rules>>

\* Mutant: current_allocations is assigned before the script was applied.
BelievesAtOnce(target) ==
    /\ target # current
    /\ script' = [status |-> "pending", target |-> target, replace |-> table]
    /\ current' = target
    /\ UNCHANGED <<table, rules>>

\* reconcile asks `nft list table` whether to put a `delete table` line first
\* and spawns `nft -f -`.  Any failure of the listing reads as "no table".
SpawnScript(target) ==
    /\ target # current
    /\ \E replace \in BOOLEAN :
        /\ \/ replace = table
           \/ "list" \in FirewallFaults /\ ~replace
        /\ script' = [status |-> "pending", target |-> target,
                      replace |-> replace]
    /\ UNCHANGED <<current, table, rules>>

\* What the kernel does with the script: one transaction.  Without the
\* `delete table` line the rules are added to what the chain already holds;
\* with it, the script fails when there is no table to delete.
ScriptApplies ==
    /\ script.status = "pending"
    /\ script.replace => table
    /\ table' = TRUE
    /\ rules' = script.target \cup (IF script.replace THEN {} ELSE rules)

ScriptFails ==
    /\ script.status = "pending"
    /\ \/ script.replace /\ ~table
       \/ "apply" \in FirewallFaults
    /\ UNCHANGED <<table, rules>>

\* The child's exit is observed by the reconcile that awaits it.
ScriptSucceeded ==
    /\ script.status = "done"
    /\ current' = script.target
    /\ script' = NoScript
    /\ UNCHANGED <<table, rules>>

\* Mutant: current_allocations is assigned although the script failed.
ErroredButBelieved ==
    /\ script.status = "failed"
    /\ current' = script.target
    /\ script' = NoScript
    /\ UNCHANGED <<table, rules>>

ScriptErrored ==
    /\ script.status = "failed"
    /\ script' = NoScript
    /\ UNCHANGED <<current, table, rules>>

\* A dropped task leaves a running child behind; an ended one is forgotten.
Orphaned == IF script.status = "pending" THEN script ELSE NoScript

\* cleanup: `nft delete table`, its result discarded.
DeleteTable ==
    /\ \/ /\ table' = FALSE
          /\ rules' = {}
       \/ /\ "delete" \in FirewallFaults
          /\ UNCHANGED <<table, rules>>
    /\ current' = {}
=============================================================================
