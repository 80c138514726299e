----------------------------- MODULE NodeAgent -----------------------------
(***************************************************************************)
(* The node agent: its poll loop, the snapshot cache it fills, the         *)
(* firewall it reconciles, the connections the firewall redirects to it,   *)
(* and the life of its process.                                            *)
(*                                                                         *)
(* The poll loop and every connection are tasks of their own.  A poll      *)
(* iteration is split where it awaits something the others can observe:    *)
(* the snapshot, the probes, the nft child, the write of the cache.  A     *)
(* connection reads the cache once, after its handshake.                   *)
(***************************************************************************)
EXTENDS Naturals, MotdState, NftFirewall

CONSTANTS
    OnListenPort,     \* allocations on the agent's own port
    PanelSnapshots,   \* the snapshots the panel may answer
    NoSnapshot,       \* the cache before the first snapshot
    Conns,            \* slots for redirected connections
    StaleAfter,       \* stale_after_seconds, in ticks
    MaxRestarts       \* bound on restarts of the process

Snapshots == [enabled: BOOLEAN,
              state: [Servers -> States \cup {"absent"}],
              autostart: SUBSET Servers]

ASSUME SnapshotAssumption == /\ PanelSnapshots \subseteq Snapshots
                             /\ NoSnapshot \notin Snapshots
ASSUME StaleAssumption == StaleAfter \in Nat \ {0}
ASSUME RestartAssumption == MaxRestarts \in Nat

VARIABLES
    proc,      \* the process
    restarts,  \* how often it was started again
    poll,      \* where poll_loop is
    branch,    \* the arm of its match it is in
    snap,      \* the snapshot it works on
    cache,     \* SharedSnapshot's value
    age,       \* ticks since CachedSnapshot.received, capped at StaleAfter
    conn       \* the connections

pollVars == <<poll, branch, snap>>
vars == <<fwVars, proc, restarts, pollVars, cache, age, conn>>

Closed == [pc |-> "closed", server |-> "none", told |-> "none", stale |-> FALSE]

PollStages == {"tick", "probe", "reconcile", "apply", "publish", "heartbeat",
               "aborted"}
ConnStages == {"closed", "handshake", "status", "wake", "kick"}

TypeOK ==
    /\ FirewallTypeOK
    /\ proc \in {"up", "cleanup", "exited", "crashed"}
    /\ restarts \in 0..MaxRestarts
    /\ poll \in PollStages
    /\ branch \in {"fresh", "stale"}
    /\ snap \in Snapshots \cup {NoSnapshot}
    /\ cache \in Snapshots \cup {NoSnapshot}
    /\ age \in 0..StaleAfter
    /\ conn \in [Conns -> [pc: ConnStages, server: Servers \cup {"none"},
                           told: States \cup {"none"}, stale: BOOLEAN]]

-----------------------------------------------------------------------------
(* What the agent computes from a snapshot. *)

Listed(sn) == {s \in Servers : sn.state[s] # "absent"}

Running(sn) == {s \in Servers : sn.state[s] = "running"}

\* desired_allocations.
Desired(sn) ==
    {s \in Listed(sn) \ Running(sn) : sn.enabled /\ s \notin OnListenPort}

\* prepare_snapshot: a server said to run whose port is closed is starting.
Prepared(sn, ready) ==
    [sn EXCEPT !.state = [s \in Servers |->
        IF s \in Running(sn) \ ready THEN "starting" ELSE sn.state[s]]]

\* Mutant: a server whose port answers is taken to run again.
DowngradedOrPromoted(sn, ready) ==
    [sn EXCEPT !.state = [s \in Servers |->
                   IF s \in Running(sn) \ ready THEN "node_unreachable"
                   ELSE IF s \in ready \cap Listed(sn) THEN "running"
                   ELSE sn.state[s]],
               !.autostart = @ \ (Running(sn) \ ready)]

\* The same probe on a stale cache: the node is unreachable, and nobody's
\* login will start that server.
Downgraded(sn, ready) ==
    [sn EXCEPT !.state = [s \in Servers |->
                   IF s \in Running(sn) \ ready THEN "node_unreachable"
                                                ELSE sn.state[s]],
               !.autostart = @ \ (Running(sn) \ ready)]

Stale == age = StaleAfter

-----------------------------------------------------------------------------
(* The process. *)

Init ==
    /\ FirewallInit
    /\ proc = "up"
    /\ restarts = 0
    /\ poll = "tick" /\ branch = "fresh" /\ snap = NoSnapshot
    /\ cache = NoSnapshot
    /\ age = 0
    /\ conn = [c \in Conns |-> Closed]

\* All that the process holds in memory is gone.
MemoryLost ==
    /\ cache' = NoSnapshot
    /\ age' = 0
    /\ conn' = [c \in Conns |-> Closed]

PollAborted ==
    /\ poll' = "aborted"
    /\ branch' = "fresh"
    /\ snap' = NoSnapshot
    /\ script' = Orphaned

\* SIGTERM or Ctrl-C: the accept loop ends and poll_task is aborted.
Shutdown ==
    /\ proc = "up"
    /\ proc' = "cleanup"
    /\ PollAborted
    /\ UNCHANGED <<current, table, rules, restarts, cache, age, conn>>

\* The rest of run: firewall.cleanup, then the process ends.
Cleanup ==
    /\ proc = "cleanup"
    /\ DeleteTable
    /\ proc' = "exited"
    /\ MemoryLost
    /\ UNCHANGED <<script, restarts, pollVars>>

\* SIGKILL, a power cut of the container, or an error of accept, which leaves
\* run before the cleanup.
Crash ==
    /\ proc \in {"up", "cleanup"}
    /\ proc' = "crashed"
    /\ PollAborted
    /\ current' = {}
    /\ MemoryLost
    /\ UNCHANGED <<table, rules, restarts>>

\* The service manager, or an operator, starts the agent again.  What was left
\* of the previous one's processes is gone by then; the kernel's table is not.
Restart ==
    /\ proc \in {"exited", "crashed"}
    /\ restarts < MaxRestarts
    /\ restarts' = restarts + 1
    /\ proc' = "up"
    /\ poll' = "tick"
    /\ script' = NoScript
    /\ UNCHANGED <<current, table, rules, branch, snap, cache, age, conn>>

\* Time passes.
Tick ==
    /\ cache # NoSnapshot
    /\ ~Stale
    /\ age' = age + 1
    /\ UNCHANGED <<fwVars, proc, restarts, pollVars, cache, conn>>

-----------------------------------------------------------------------------
(* poll_loop. *)

\* The panel answers with a snapshot for this node.
FetchSnapshot(sn) ==
    /\ poll = "tick"
    /\ poll' = "probe"
    /\ branch' = "fresh"
    /\ snap' = sn
    /\ UNCHANGED <<fwVars, proc, restarts, cache, age, conn>>

\* It does not, and the cache is stale.  (A failed fetch that finds no cache
\* or one that is not stale yet changes nothing.)
FetchFails ==
    /\ poll = "tick"
    /\ cache # NoSnapshot
    /\ Stale
    /\ poll' = "probe"
    /\ branch' = "stale"
    /\ snap' = cache
    /\ UNCHANGED <<fwVars, proc, restarts, cache, age, conn>>

\* Every server said to run has its port tried; those in ready answered.
ProbePorts(ready) ==
    /\ poll = "probe"
    /\ snap' = IF branch = "fresh" THEN Prepared(snap, ready)
                                   ELSE Downgraded(snap, ready)
    /\ poll' = "reconcile"
    /\ UNCHANGED <<fwVars, proc, restarts, branch, cache, age, conn>>

ReconcileUnchanged ==
    /\ poll = "reconcile"
    /\ Unchanged(Desired(snap))
    /\ poll' = "publish"
    /\ UNCHANGED <<proc, restarts, branch, snap, cache, age, conn>>

ReconcileSpawn ==
    /\ poll = "reconcile"
    /\ SpawnScript(Desired(snap))
    /\ poll' = "apply"
    /\ UNCHANGED <<proc, restarts, branch, snap, cache, age, conn>>

\* The kernel runs the child's script, awaited or orphaned.  Nobody reads the
\* exit status of an orphan.
RunScript ==
    /\ \/ ScriptApplies /\ script' = [script EXCEPT !.status = "done"]
       \/ ScriptFails /\ script' = [script EXCEPT !.status = "failed"]
    /\ poll = "apply"
    /\ UNCHANGED <<current, proc, restarts, pollVars, cache, age, conn>>

RunOrphan ==
    /\ ScriptApplies \/ ScriptFails
    /\ script' = NoScript
    /\ poll # "apply"
    /\ UNCHANGED <<current, proc, restarts, pollVars, cache, age, conn>>

ReconcileSucceeds ==
    /\ poll = "apply"
    /\ ScriptSucceeded
    /\ poll' = "publish"
    /\ UNCHANGED <<proc, restarts, branch, snap, cache, age, conn>>

\* Mutant: a failed reconciliation does not give the iteration up.
ErrsAndGoesOn ==
    /\ poll = "apply"
    /\ ScriptErrored
    /\ poll' = "publish"
    /\ UNCHANGED <<branch, snap, proc, restarts, cache, age, conn>>

\* A fresh iteration is given up (`continue`); a stale one goes on.
ReconcileErrs ==
    /\ poll = "apply"
    /\ ScriptErrored
    /\ \/ /\ branch = "fresh"
          /\ poll' = "tick"
          /\ snap' = NoSnapshot
          /\ UNCHANGED branch
       \/ /\ branch = "stale"
          /\ poll' = "publish"
          /\ UNCHANGED <<branch, snap>>
    /\ UNCHANGED <<proc, restarts, cache, age, conn>>

\* Mutant: a stale cache is published as if it had just been received.
PublishRefreshesStale ==
    /\ poll = "publish"
    /\ cache' = snap
    /\ snap' = NoSnapshot
    /\ branch' = "fresh"
    /\ age' = 0
    /\ poll' \in {"heartbeat", "tick"}
    /\ UNCHANGED <<fwVars, proc, restarts, conn>>

\* Mutant: the instant a snapshot was received is never renewed.
PublishKeepsReceived ==
    /\ poll = "publish"
    /\ cache' = snap
    /\ snap' = NoSnapshot
    /\ branch' = "fresh"
    /\ poll' \in {"heartbeat", "tick"}
    /\ UNCHANGED <<fwVars, proc, restarts, age, conn>>

\* The cache is replaced; a stale one keeps the instant it was received.
Publish ==
    /\ poll = "publish"
    /\ cache' = snap
    /\ snap' = NoSnapshot
    /\ branch' = "fresh"
    /\ \/ branch = "fresh" /\ age' = 0 /\ poll' \in {"heartbeat", "tick"}
       \/ branch = "stale" /\ UNCHANGED age /\ poll' = "tick"
    /\ UNCHANGED <<fwVars, proc, restarts, conn>>

\* send_heartbeat returns, or times out.
Heartbeat ==
    /\ poll = "heartbeat"
    /\ poll' = "tick"
    /\ UNCHANGED <<fwVars, proc, restarts, branch, snap, cache, age, conn>>

-----------------------------------------------------------------------------
(* handle_connection. *)

\* The kernel redirects a connection for server s, and it is accepted.
Accept(c, s) ==
    /\ proc = "up"
    /\ conn[c].pc = "closed"
    /\ s \in rules
    /\ conn' = [conn EXCEPT ![c] = [pc |-> "handshake", server |-> s,
                                    told |-> "none", stale |-> FALSE]]
    /\ UNCHANGED <<fwVars, proc, restarts, pollVars, cache, age>>

\* Mutant: no timeout on the handshake.
HandshakeWaits(c) ==
    /\ conn[c].pc = "handshake"
    /\ UNCHANGED vars

\* The handshake times out, is malformed, or names another port.
DropHandshake(c) ==
    /\ conn[c].pc = "handshake"
    /\ conn' = [conn EXCEPT ![c] = Closed]
    /\ UNCHANGED <<fwVars, proc, restarts, pollVars, cache, age>>

\* Is there a cached entry for s?  Without one the connection is dropped.
Managed(s) ==
    /\ cache # NoSnapshot
    /\ s \in Listed(cache)

\* What the connection's client is going to be told of its server.
Presented(s) == ShownState(StaleState(cache.state[s], Stale))

Unmanaged(c) ==
    /\ conn[c].pc = "handshake"
    /\ ~Managed(conn[c].server)
    /\ conn' = [conn EXCEPT ![c] = Closed]
    /\ UNCHANGED <<fwVars, proc, restarts, pollVars, cache, age>>

\* Only a login to an offline server that opted in asks the panel to start it.
Wakes(s) ==
    /\ Presented(s) = "offline"
    /\ s \in cache.autostart
    /\ ~Stale

\* A valid handshake is answered from the cache as it is now.
Decide(c, next) ==
    LET s == conn[c].server
    IN  /\ conn[c].pc = "handshake"
        /\ Managed(s)
        /\ conn' = [conn EXCEPT ![c] =
               [server |-> s, told |-> Presented(s), stale |-> Stale,
                pc |-> IF next = "status" THEN "status"
                       ELSE IF Wakes(s) THEN "wake" ELSE "kick"]]
        /\ UNCHANGED <<fwVars, proc, restarts, pollVars, cache, age>>

\* serve_status ends: the client had its answer, or went away.
StatusServed(c) ==
    /\ conn[c].pc = "status"
    /\ conn' = [conn EXCEPT ![c] = Closed]
    /\ UNCHANGED <<fwVars, proc, restarts, pollVars, cache, age>>

\* The answers of the panel's wake endpoint, "rejected" standing for the
\* reasons the agent does not look at and "error" for no answer at all.
WakeReplies == {"started", "not_offline", "disabled_or_throttled",
                "rejected", "error"}

WakeReplied(c, reply) ==
    /\ conn[c].pc = "wake"
    /\ conn' = [conn EXCEPT ![c].pc = "kick",
                            ![c].told = IF reply \in {"rejected", "error"}
                                        THEN @ ELSE "starting"]
    /\ UNCHANGED <<fwVars, proc, restarts, pollVars, cache, age>>

\* disconnect_login.
Kick(c) ==
    /\ conn[c].pc = "kick"
    /\ conn' = [conn EXCEPT ![c] = Closed]
    /\ UNCHANGED <<fwVars, proc, restarts, pollVars, cache, age>>

-----------------------------------------------------------------------------

PollStep ==
    \/ \E ready \in SUBSET Servers : ProbePorts(ready)
    \/ ReconcileUnchanged
    \/ ReconcileSpawn
    \/ RunScript
    \/ ReconcileSucceeds
    \/ ReconcileErrs
    \/ Publish
    \/ Heartbeat

ConnStep(c) ==
    \/ DropHandshake(c)
    \/ Unmanaged(c)
    \/ \E next \in {"status", "login"} : Decide(c, next)
    \/ StatusServed(c)
    \/ \E reply \in WakeReplies : WakeReplied(c, reply)
    \/ Kick(c)

Next ==
    \/ Shutdown \/ Cleanup \/ Crash \/ Restart \/ Tick
    \/ \E sn \in PanelSnapshots : FetchSnapshot(sn)
    \/ FetchFails
    \/ PollStep
    \/ RunOrphan
    \/ \E c \in Conns :
        \/ \E s \in Servers : Accept(c, s)
        \/ ConnStep(c)

Spec == Init /\ [][Next]_vars

\* The runtime runs a task that is ready, nft ends, and the timeouts of the
\* handshake, of the probes and of the HTTP client expire.  Nothing makes a
\* client send its handshake or end its status request, nothing makes the
\* panel answer, and nobody has to stop the agent.
Fairness ==
    /\ WF_vars(PollStep)
    /\ WF_vars(Cleanup)
    /\ \A c \in Conns :
        /\ WF_vars(DropHandshake(c))
        /\ WF_vars(\E reply \in WakeReplies : WakeReplied(c, reply))
        /\ WF_vars(Kick(c))

FairSpec == Spec /\ Fairness

-----------------------------------------------------------------------------
(* Properties. *)

\* What the manager believes it installed is what the kernel redirects: the
\* early return of reconcile rests on it.  Not while a script is in flight,
\* and only from the first script on: an empty belief is detect's guess.
\* A listing that fails for no reason makes the next script add to the table
\* instead of replacing it, so the instances with that fault are excluded.
BeliefMatchesKernel ==
    proc = "up" /\ poll # "apply" /\ current # {} =>
        table /\ ("list" \notin FirewallFaults => rules = current)

\* Whatever fails, nothing the manager believes intercepted goes through to a
\* server: a failed nft call leaves the kernel as it was.
BeliefIsIntercepted ==
    proc = "up" /\ poll # "apply" => current \subseteq rules

\* A connection intercepted on behalf of the manager's current rules finds the
\* allocation in the cache with a state that is worth an interception, so
\* handle_connection does not drop it as unmanaged.  The one window left is
\* the one between reconcile and the write of the cache.
InterceptedAreAnswerable ==
    proc = "up" /\ poll # "publish" /\ current # {} =>
        cache # NoSnapshot /\ current \subseteq Desired(cache)

\* While the panel answers, the manager believes intercepted exactly what the
\* published snapshot asks for, and the kernel redirects exactly that: no
\* server published as running is intercepted and none of the others missed,
\* after any sequence of failed polls and outages.  Not while a script is in flight, and only in a
\* process that began on an empty kernel, as the first one does, or that
\* intercepts something: another one, with nothing to intercept, leaves what a
\* killed process left (PublishedRunningPasses, below).  The fault "list" is
\* excluded as in BeliefMatchesKernel.
FreshInterceptionExact ==
    proc = "up" /\ cache # NoSnapshot /\ ~Stale /\ poll # "publish" =>
        /\ current = Desired(cache)
        /\ \/ poll = "apply" \/ "list" \in FirewallFaults
           \/ restarts > 0 /\ current = {}
           \/ rules = Desired(cache)

\* An outage of the panel never takes an interception away (the mapping is
\* kept), however often the stale branch runs and whatever its probes find.
OutageKeepsMapping ==
    [][proc = "up" /\ proc' = "up" /\ branch = "stale" /\ current \subseteq rules
            => current \subseteq rules' /\ current \subseteq current']_vars

\* Once a stale iteration found a server's port closed, it stays intercepted
\* and is not woken until a fresh snapshot is published: the cached entry is
\* never promoted back by the agent itself.
StaleNeverPromotes ==
    [][proc' = "up" /\ cache # NoSnapshot /\ cache' # cache /\ Stale /\ Stale'
            => /\ Desired(cache) \subseteq Desired(cache')
               /\ cache'.autostart \subseteq cache.autostart]_vars

\* What a client is told is a state the administrator gave a presentation
\* (selected_state's fall back to "offline" is not taken), and "offline" is
\* never told of a cache that had gone stale, so no one waits for a wake the
\* panel cannot be asked for.
ToldStateIsConfigured ==
    \A c \in Conns :
        conn[c].pc \in {"status", "wake", "kick"} =>
            /\ conn[c].told \in StateNames
            /\ conn[c].stale => conn[c].told \in AdminStates \cup {"node_unreachable"}

\* A login that was redirected is always answered or dropped: neither the
\* handshake, nor the wake request, nor the kick waits for ever.
LoginCloses ==
    \A c \in Conns :
        conn[c].pc \in {"handshake", "wake", "kick"} ~> conn[c].pc \in {"closed", "status"}

\* An outage ends by itself once the panel answers again and nft works now and
\* then: no sequence of failed stale reconciliations leaves the agent showing
\* node_unreachable for ever.  The two assumptions are about the environment.
PanelReturns == SF_vars(\E sn \in PanelSnapshots : FetchSnapshot(sn))
NftRecovers == SF_vars(RunScript /\ branch = "fresh" /\ script'.status = "done")
OutageEnds ==
    PanelReturns /\ NftRecovers => (proc = "up" /\ Stale ~> proc # "up" \/ ~Stale)

\* Poll loop, child process and kernel together keep the promise of an atomic
\* firewall: the belief changes in the step that observes the child's exit, the
\* kernel in the one that runs the script, and between the two nothing may get
\* in, whoever stops, fails or restarts.  With the fault "list" a script adds
\* to what it should replace, and the promise is not kept.
Firewall == INSTANCE Interception WITH
    Targets  <- SUBSET Servers,
    Atomic   <- TRUE,
    alive    <- proc = "up",
    stage    <- IF poll # "apply" THEN "idle"
                ELSE IF script.status = "done" THEN "done" ELSE "asked",
    believed <- current,
    kernel   <- rules
ImplementsInterception == Firewall!Spec

-----------------------------------------------------------------------------
(* What the documentation says and the code does not do. *)

\* README.md:10, of a server that runs and whose port answers: only then is
\* the interception removed, and it passes directly.
PublishedRunningPasses ==
    proc = "up" /\ poll = "tick" /\ cache # NoSnapshot /\ ~Stale =>
        rules \cap Running(cache) = {}

\* README.md:55, the agent removes its own table before it exits.
CleanExitLeavesNoRules == proc = "exited" => rules = {}
=============================================================================
