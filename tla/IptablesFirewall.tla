-------------------------- MODULE IptablesFirewall --------------------------
(***************************************************************************)
(* The agent's FirewallManager on its iptables backend.  Where nft applies *)
(* one transaction, this backend runs up to four commands for each of the  *)
(* two families, awaiting one after another: any of them may fail, the     *)
(* task may be dropped at any of them, and a command whose task was        *)
(* dropped still runs.                                                     *)
(*                                                                         *)
(* The poll loop is reduced to what it asks for: reconcile is called again *)
(* and again with some set of allocations.                                 *)
(***************************************************************************)
EXTENDS Naturals

CONSTANTS
    V4, V6,       \* the allocations of each family
    Faults,       \* commands that may fail for no reason of ours
    Ip6Found,     \* what command_exists may say of ip6tables
    MaxJumps,     \* bound on duplicated jumps to the chain
    MaxRestarts   \* bound on restarts of the process

Operations == {"create",    \* -N CALAGOPUS_MOTD
               "flush",     \* -F CALAGOPUS_MOTD
               "check",     \* -C PREROUTING -j CALAGOPUS_MOTD
               "insert",    \* -I PREROUTING 1 -j CALAGOPUS_MOTD
               "restore",   \* iptables-restore --noflush
               "delete",    \* -D PREROUTING -j CALAGOPUS_MOTD
               "remove"}    \* -X CALAGOPUS_MOTD

ASSUME FamilyAssumption == V4 \cap V6 = {}
ASSUME FaultsAssumption == Faults \subseteq Operations
ASSUME Ip6Assumption == Ip6Found \subseteq BOOLEAN /\ Ip6Found # {}
ASSUME BoundAssumption == MaxJumps \in Nat \ {0} /\ MaxRestarts \in Nat

Allocations == V4 \cup V6
Families == {"v4", "v6"}
Of(fam) == IF fam = "v4" THEN V4 ELSE V6

VARIABLES
    proc,      \* the process
    restarts,  \* how often it was started again
    current,   \* FirewallManager.current_allocations
    target,    \* what reconcile was last asked for
    pc,        \* the command under way, or "idle"
    fam,       \* the family it is for
    kernel,    \* per family: the chain, the jumps to it, the rules in it
    orphans,   \* commands whose task is gone and that have not run yet
    settled    \* did the last attempt of this process to apply rules succeed

vars == <<proc, restarts, current, target, pc, fam, kernel, orphans, settled>>

Commands == [op: Operations, fam: Families, rules: SUBSET Allocations]

TypeOK ==
    /\ proc \in {"up", "cleanup", "exited", "crashed"}
    /\ restarts \in 0..MaxRestarts
    /\ current \in SUBSET Allocations
    /\ target \in SUBSET Allocations
    /\ pc \in Operations \cup {"idle"}
    /\ fam \in Families
    /\ kernel \in [Families -> [chain: BOOLEAN, jumps: 0..MaxJumps,
                                rules: SUBSET Allocations]]
    /\ orphans \in SUBSET Commands
    /\ settled \in BOOLEAN

Init ==
    /\ proc = "up"
    /\ restarts = 0
    /\ current = {}
    /\ target = {}
    /\ pc = "idle"
    /\ fam = "v4"
    /\ kernel = [f \in Families |-> [chain |-> FALSE, jumps |-> 0, rules |-> {}]]
    /\ orphans = {}
    /\ settled = TRUE

-----------------------------------------------------------------------------
(* The commands. *)

\* Can the command op work on the family's state k?
Works(op, k) ==
    CASE op = "create"            -> ~k.chain
      [] op \in {"flush", "insert"} -> k.chain
      [] op \in {"check", "delete"} -> k.jumps > 0
      [] op = "remove"            -> k.chain /\ k.jumps = 0 /\ k.rules = {}
      [] op = "restore"           -> TRUE

\* What it makes of it.  The restore declares the chain, empties it and adds
\* the rules, in one commit.
Effect(c, k) ==
    CASE c.op = "create"  -> [k EXCEPT !.chain = TRUE]
      [] c.op = "flush"   -> [k EXCEPT !.rules = {}]
      [] c.op = "check"   -> k
      [] c.op = "insert"  -> [k EXCEPT !.jumps = @ + 1]
      [] c.op = "restore" -> [k EXCEPT !.chain = TRUE, !.rules = c.rules]
      [] c.op = "delete"  -> [k EXCEPT !.jumps = @ - 1]
      [] c.op = "remove"  -> [k EXCEPT !.chain = FALSE]

Succeeds(c) ==
    /\ Works(c.op, kernel[c.fam])
    /\ kernel' = [kernel EXCEPT ![c.fam] = Effect(c, @)]

\* A check that fails for no reason leads to one more jump.
Fails(c) ==
    /\ \/ ~Works(c.op, kernel[c.fam])
       \/ c.op \in Faults /\ (c.op = "check" => kernel[c.fam].jumps < MaxJumps)
    /\ UNCHANGED kernel

Pending == [op |-> pc, fam |-> fam, rules |-> target \cap Of(fam)]

-----------------------------------------------------------------------------
(* reconcile. *)

\* The request is the one it last applied.
Unchanged ==
    /\ proc = "up" /\ pc = "idle"
    /\ target' = current
    /\ UNCHANGED <<proc, restarts, current, pc, fam, kernel, orphans, settled>>

Reconcile(allocations) ==
    /\ proc = "up" /\ pc = "idle"
    /\ allocations # current
    /\ target' = allocations
    /\ pc' = "create"
    /\ fam' = "v4"
    /\ UNCHANGED <<proc, restarts, current, kernel, orphans, settled>>

\* The command succeeds and the next one is op.
Onwards(op) ==
    /\ Succeeds(Pending)
    /\ pc' = op
    /\ UNCHANGED <<fam, settled>>

\* The command fails, and op is tried instead.
Instead(op) ==
    /\ Fails(Pending)
    /\ pc' = op
    /\ UNCHANGED <<fam, settled>>

\* The command fails and so does reconcile; its caller tries again later.
GivesUp ==
    /\ Fails(Pending)
    /\ pc' = "idle"
    /\ settled' = FALSE
    /\ UNCHANGED fam

Reconciling(op) ==
    /\ proc = "up" /\ pc = op
    /\ UNCHANGED <<proc, restarts, target, orphans>>

CreateChain ==
    Reconciling("create") /\ (Onwards("check") \/ Instead("flush"))
                          /\ UNCHANGED current

FlushChain ==
    Reconciling("flush") /\ (Onwards("check") \/ GivesUp) /\ UNCHANGED current

\* Mutant: an existing chain is taken to be hooked already.
ChecksNothing ==
    /\ Reconciling("check")
    /\ pc' = "restore"
    /\ UNCHANGED <<current, fam, kernel, settled>>

\* Mutant: the jump is inserted whatever the check says.
InsertsAlways ==
    Reconciling("check") /\ (Onwards("insert") \/ Instead("insert"))
                         /\ UNCHANGED current

CheckJump ==
    Reconciling("check") /\ (Onwards("restore") \/ Instead("insert"))
                         /\ UNCHANGED current

InsertJump ==
    Reconciling("insert") /\ (Onwards("restore") \/ GivesUp) /\ UNCHANGED current

\* Mutant: the belief is renewed after the first family already.
RestoresAndBelieves ==
    /\ Reconciling("restore")
    /\ \/ GivesUp /\ UNCHANGED current
       \/ /\ Succeeds(Pending)
          /\ fam' = "v6"
          /\ pc' = IF fam = "v4" THEN "create" ELSE "idle"
          /\ current' = target
          /\ settled' = (fam = "v6" \/ settled)

\* After the last family the belief is renewed.
Restore ==
    /\ Reconciling("restore")
    /\ \/ GivesUp /\ UNCHANGED current
       \/ /\ Succeeds(Pending)
          /\ \/ /\ fam = "v4" /\ TRUE \in Ip6Found
                /\ fam' = "v6"
                /\ pc' = "create"
                /\ UNCHANGED <<current, settled>>
             \/ /\ fam = "v6" \/ FALSE \in Ip6Found
                /\ pc' = "idle"
                /\ current' = target
                /\ settled' = TRUE
                /\ UNCHANGED fam

-----------------------------------------------------------------------------
(* cleanup, and the life of the process. *)

\* The task is dropped: its command was not started, or runs by itself.
Dropped ==
    orphans' \in {orphans, orphans \cup (IF pc = "idle" THEN {} ELSE {Pending})}

Shutdown ==
    /\ proc = "up"
    /\ proc' = "cleanup"
    /\ Dropped
    /\ pc' = "delete"
    /\ fam' = "v4"
    /\ UNCHANGED <<restarts, current, target, kernel, settled>>

Cleaning(op) ==
    /\ proc = "cleanup" /\ pc = op
    /\ UNCHANGED <<restarts, target, orphans, settled>>

\* Mutant: one jump is taken to be all there is.
DeletesOne ==
    /\ Cleaning("delete")
    /\ Succeeds(Pending) \/ Fails(Pending)
    /\ pc' = "flush"
    /\ UNCHANGED <<proc, current, fam>>

\* Jumps are deleted until a deletion fails.
DeleteJumps ==
    /\ Cleaning("delete")
    /\ \/ Succeeds(Pending) /\ UNCHANGED pc
       \/ Fails(Pending) /\ pc' = "flush"
    /\ UNCHANGED <<proc, current, fam>>

EmptyChain ==
    /\ Cleaning("flush")
    /\ Succeeds(Pending) \/ Fails(Pending)
    /\ pc' = "remove"
    /\ UNCHANGED <<proc, current, fam>>

RemoveChain ==
    /\ Cleaning("remove")
    /\ Succeeds(Pending) \/ Fails(Pending)
    /\ \/ /\ fam = "v4" /\ TRUE \in Ip6Found
          /\ fam' = "v6"
          /\ pc' = "delete"
          /\ UNCHANGED <<proc, current>>
       \/ /\ fam = "v6" \/ FALSE \in Ip6Found
          /\ proc' = "exited"
          /\ pc' = "idle"
          /\ current' = {}
          /\ UNCHANGED fam

Crash ==
    /\ proc \in {"up", "cleanup"}
    /\ proc' = "crashed"
    /\ Dropped
    /\ pc' = "idle"
    /\ current' = {}
    /\ UNCHANGED <<restarts, target, fam, kernel, settled>>

\* A command that nobody awaits runs; its exit status is lost.
RunOrphan ==
    \E c \in orphans :
        /\ Succeeds(c) \/ Fails(c)
        /\ orphans' = orphans \ {c}
        /\ UNCHANGED <<proc, restarts, current, target, pc, fam, settled>>

\* What was left of the previous process is gone; the kernel's chains are not.
Restart ==
    /\ proc \in {"exited", "crashed"}
    /\ restarts < MaxRestarts
    /\ restarts' = restarts + 1
    /\ proc' = "up"
    /\ settled' = FALSE
    /\ target' = {}
    /\ orphans' = {}
    /\ UNCHANGED <<current, pc, fam, kernel>>

Next ==
    \/ Unchanged
    \/ \E allocations \in SUBSET Allocations : Reconcile(allocations)
    \/ CreateChain \/ FlushChain \/ CheckJump \/ InsertJump \/ Restore
    \/ Shutdown \/ DeleteJumps \/ EmptyChain \/ RemoveChain
    \/ Crash \/ RunOrphan \/ Restart

Spec == Init /\ [][Next]_vars

-----------------------------------------------------------------------------
(* Properties. *)

Intercepted(f) == IF kernel[f].jumps > 0 THEN kernel[f].rules ELSE {}

\* The families reconcile is sure to reach.
Reached == IF Ip6Found = {TRUE} THEN Families ELSE {"v4"}

\* A reconcile that succeeds repairs whatever failed ones, dropped ones and
\* previous processes left behind: from chains and jumps in any state, the
\* kernel ends up redirecting exactly what the manager believes.
SuccessInstalls ==
    proc = "up" /\ pc = "idle" /\ settled =>
        \A f \in Reached : Intercepted(f) = current \cap Of(f)

\* Once cleanup is through nothing is redirected, and nothing is redirected
\* later either, although a command of the aborted reconcile may run before,
\* during or after it: the jump goes first, and what an orphan can still put
\* in place is a jump without rules or rules without a jump.  Deletions that
\* fail for no reason are excluded.
CleanExitReleases ==
    proc = "exited" /\ "delete" \notin Faults =>
        \A f \in Reached : Intercepted(f) = {}

\* The backend keeps the promise of a firewall that is not atomic: from flush
\* to restore, in each family in turn, less or other things are redirected than
\* anybody asked for, but only while a reconcile is under way, and a success is
\* believed exactly as the kernel has it.
Firewall == INSTANCE Interception WITH
    Targets  <- SUBSET Allocations,
    Atomic   <- FALSE,
    alive    <- proc = "up",
    stage    <- IF pc = "idle" \/ proc # "up" THEN "idle" ELSE "asked",
    believed <- current \cap UNION {Of(f) : f \in Reached},
    kernel   <- UNION {Intercepted(f) : f \in Reached}
ImplementsInterception == Firewall!Spec

-----------------------------------------------------------------------------
(* What the documentation says and the code does not do. *)

\* README.md:5, every connection to a server that does not run gets the reply
\* for its state: what reconcile was last asked for, and returned Ok for, is
\* redirected.
RequestedAreIntercepted ==
    proc = "up" /\ pc = "idle" /\ target = current =>
        \A f \in Reached : target \cap Of(f) \subseteq Intercepted(f)
=============================================================================
