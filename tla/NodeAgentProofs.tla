-------------------------- MODULE NodeAgentProofs --------------------------
(***************************************************************************)
(* Theorems about NodeAgent, for every set of allocations, of snapshots    *)
(* and of connections, every stale_after_seconds and every fault of nft.   *)
(***************************************************************************)
EXTENDS NodeAgent, TLAPS

-----------------------------------------------------------------------------
(* The inductive invariant. *)

Working == {"probe", "reconcile", "apply", "publish"}

\* Exactly a live process has a poll task; a dead one has no memory.
Lifecycle ==
    /\ proc = "up" <=> poll # "aborted"
    /\ proc \in {"exited", "crashed"} =>
        current = {} /\ cache = NoSnapshot /\ age = 0

\* The kernel has no rules without the table.
TableHoldsRules == ~table => rules = {}

\* A live process awaits its child; the child installs what was computed from
\* the iteration's snapshot.
ScriptOwned ==
    /\ proc = "up" /\ poll # "apply" => script = NoScript
    /\ poll = "apply" => script.target = Desired(snap)

\* The belief holds at every point of a reconcile, not only around it.
BeliefInv ==
    proc = "up" =>
        IF poll = "apply" /\ script.status = "done"
        THEN script.target \subseteq rules
        ELSE current \subseteq rules

\* With listings that do not fail for no reason it is exact, and in the first
\* process even when it is empty: nothing was left for that one.
ExactInv ==
    proc = "up" /\ "list" \notin FirewallFaults =>
        IF poll = "apply" /\ script.status = "done"
        THEN rules = script.target
        ELSE /\ current # {} \/ restarts = 0 => rules = current
             /\ poll = "apply" /\ script.status = "pending" =>
                    script.replace = table

\* An iteration past its fetch works on a snapshot: without this TypeOK is not
\* inductive, for the probes rewrite it.
HasSnapshot == poll \in Working => snap \in Snapshots

TypeInv == TypeOK /\ HasSnapshot

\* In the stale arm the cache has aged and nothing is released.
SnapInv ==
    /\ poll \in Working /\ branch = "stale" =>
        Stale /\ current \subseteq Desired(snap)
    /\ poll = "publish" => current \subseteq Desired(snap)
    /\ poll = "publish" /\ branch = "fresh" => current = Desired(snap)

\* The working copy of a stale iteration asks for no less interception, and
\* for no more wakes, than the cache it was cloned from.
StaleInv ==
    poll \in Working /\ branch = "stale" =>
        /\ cache # NoSnapshot
        /\ Desired(cache) \subseteq Desired(snap)
        /\ snap.autostart \subseteq cache.autostart

\* Between two writes of the cache the belief follows it.
CacheInv ==
    proc = "up" /\ poll # "publish" =>
        /\ current # {} => cache # NoSnapshot /\ current \subseteq Desired(cache)
        /\ cache # NoSnapshot /\ ~Stale => current = Desired(cache)

KernelInv == /\ Lifecycle
             /\ TableHoldsRules
             /\ ScriptOwned
             /\ BeliefInv
             /\ ExactInv

AnswerInv == SnapInv /\ StaleInv /\ CacheInv

IInv == TypeInv /\ KernelInv /\ AnswerInv
-----------------------------------------------------------------------------
(* What the operators on snapshots return. *)

LEMMA DesiredType ==
    ASSUME NEW sn
    PROVE  Desired(sn) \in SUBSET Servers
BY DEF Desired, Listed

LEMMA PreparedType ==
    ASSUME NEW sn \in Snapshots, NEW ready
    PROVE  Prepared(sn, ready) \in Snapshots
BY DEF Prepared, Running, Snapshots, States, PowerStates

LEMMA DowngradedType ==
    ASSUME NEW sn \in Snapshots, NEW ready
    PROVE  Downgraded(sn, ready) \in Snapshots
BY DEF Downgraded, Running, Snapshots, States

\* Probing a stale cache can only add servers to what is intercepted.
LEMMA DowngradedDesired ==
    ASSUME NEW sn \in Snapshots, NEW ready
    PROVE  Desired(sn) \subseteq Desired(Downgraded(sn, ready))
BY DEF Downgraded, Desired, Listed, Running, Snapshots

LEMMA DowngradedAutostart ==
    ASSUME NEW sn \in Snapshots, NEW ready
    PROVE  Downgraded(sn, ready).autostart \subseteq sn.autostart
BY DEF Downgraded, Snapshots

\* Connections change nothing but themselves.
LEMMA ConnFrame ==
    ASSUME NEW c \in Conns, (\E s \in Servers : Accept(c, s)) \/ ConnStep(c)
    PROVE  UNCHANGED <<fwVars, proc, restarts, pollVars, cache, age>>
BY DEF ConnStep, Accept, DropHandshake, Unmanaged, Decide, StatusServed,
       WakeReplied, Kick

LEMMA ShownType ==
    ASSUME NEW st \in States, NEW stale
    PROVE  /\ ShownState(StaleState(st, stale)) \in States
           /\ ShownState(StaleState(st, stale)) \in StateNames
           /\ stale => ShownState(StaleState(st, stale))
                            \in AdminStates \cup {"node_unreachable"}
BY DEF ShownState, StaleState, States, PowerStates, AdminStates, StateNames

-----------------------------------------------------------------------------
(* Type correctness. *)

LEMMA ConnTypeStep ==
    ASSUME TypeOK, NEW c \in Conns,
           (\E s \in Servers : Accept(c, s)) \/ ConnStep(c)
    PROVE  TypeOK'
<1> DEFINE ConnType == [pc: ConnStages, server: Servers \cup {"none"},
                        told: States \cup {"none"}, stale: BOOLEAN]
<1>1. UNCHANGED <<fwVars, proc, restarts, pollVars, cache, age>>
  BY ConnFrame
<1>2. conn' \in [Conns -> ConnType]
  <2>0. conn \in [Conns -> ConnType] /\ Closed \in ConnType
    BY DEF TypeOK, Closed, ConnStages
  <2>1. CASE \E s \in Servers : Accept(c, s)
    BY <2>0, <2>1 DEF Accept, Closed, ConnStages
  <2>2. CASE DropHandshake(c) \/ Unmanaged(c) \/ StatusServed(c) \/ Kick(c)
    BY <2>0, <2>2 DEF DropHandshake, Unmanaged, StatusServed, Kick
  <2>3. CASE \E next \in {"status", "login"} : Decide(c, next)
    <3>1. PICK next \in {"status", "login"} : Decide(c, next)
      BY <2>3
    <3> DEFINE s == conn[c].server
    <3>2. cache \in Snapshots /\ s \in Servers /\ cache.state[s] \in States
      BY <3>1 DEF Decide, Managed, Listed, TypeOK, Snapshots
    <3>3. Presented(s) \in States /\ Stale \in BOOLEAN
      BY <3>2, ShownType DEF Presented, Stale
    <3> QED
      BY <2>0, <3>1, <3>2, <3>3 DEF Decide, ConnStages
  <2>4. CASE \E reply \in WakeReplies : WakeReplied(c, reply)
    <3>1. PICK reply \in WakeReplies : WakeReplied(c, reply)
      BY <2>4
    <3> DEFINE told == IF reply \in {"rejected", "error"} THEN conn[c].told
                                                          ELSE "starting"
    <3>2. conn' = [conn EXCEPT ![c] = [conn[c] EXCEPT !.pc = "kick",
                                                       !.told = told]]
      BY <2>0, <3>1 DEF WakeReplied
    <3>3. told \in States \cup {"none"}
      BY <2>0 DEF States, PowerStates
    <3>4. [conn[c] EXCEPT !.pc = "kick", !.told = told] \in ConnType
      BY <2>0, <3>3 DEF ConnStages
    <3> QED
      BY <2>0, <3>2, <3>4
  <2> QED
    BY <2>1, <2>2, <2>3, <2>4 DEF ConnStep
<1> QED
  BY <1>1, <1>2 DEF TypeOK, FirewallTypeOK, fwVars, pollVars

LEMMA TypeStep == TypeInv /\ [Next]_vars => TypeInv'
<1> SUFFICES ASSUME TypeInv, [Next]_vars
             PROVE  TypeInv'
  OBVIOUS
<1> USE SnapshotAssumption, StaleAssumption, RestartAssumption
<1> USE DEF TypeInv, HasSnapshot, Working, TypeOK, FirewallTypeOK, PollStages
<1>1. CASE Shutdown
  BY <1>1 DEF Shutdown, PollAborted, Orphaned, NoScript
<1>2. CASE Cleanup
  <2>1. current' \in SUBSET Servers /\ table' \in BOOLEAN /\ rules' \in SUBSET Servers
    BY <1>2 DEF Cleanup, DeleteTable
  <2>2. MemoryLost /\ proc' = "exited" /\ UNCHANGED <<script, restarts, poll, branch, snap>>
    BY <1>2 DEF Cleanup, pollVars
  <2> QED
    BY <2>1, <2>2 DEF MemoryLost, Closed, ConnStages
<1>3. CASE Crash
  BY <1>3 DEF Crash, PollAborted, Orphaned, NoScript, MemoryLost, Closed,
              ConnStages
<1>4. CASE Restart
  BY <1>4 DEF Restart, NoScript
<1>5. CASE Tick
  BY <1>5 DEF Tick, Stale, fwVars, pollVars
<1>6. ASSUME NEW sn \in PanelSnapshots, FetchSnapshot(sn)
      PROVE  TypeInv'
  BY <1>6 DEF FetchSnapshot, fwVars
<1>7. CASE FetchFails
  BY <1>7 DEF FetchFails, fwVars
<1>8. CASE PollStep
  <2>1. ASSUME NEW ready \in SUBSET Servers, ProbePorts(ready)
        PROVE  TypeInv'
    <3>1. snap \in Snapshots
      BY <2>1 DEF ProbePorts
    <3>2. snap' \in Snapshots
      BY <2>1, <3>1, PreparedType, DowngradedType DEF ProbePorts
    <3> QED
      BY <2>1, <3>2 DEF ProbePorts, fwVars
  <2>2. CASE ReconcileUnchanged
    BY <2>2 DEF ReconcileUnchanged, Unchanged, fwVars
  <2>3. CASE ReconcileSpawn
    BY <2>3, DesiredType DEF ReconcileSpawn, SpawnScript
  <2>4. CASE RunScript
    BY <2>4 DEF RunScript, ScriptApplies, ScriptFails, pollVars
  <2>5. CASE ReconcileSucceeds
    BY <2>5 DEF ReconcileSucceeds, ScriptSucceeded, NoScript
  <2>6. CASE ReconcileErrs
    BY <2>6 DEF ReconcileErrs, ScriptErrored, NoScript
  <2>7. CASE Publish
    BY <2>7 DEF Publish, fwVars
  <2>8. CASE Heartbeat
    BY <2>8 DEF Heartbeat, fwVars
  <2> QED
    BY <1>8, <2>1, <2>2, <2>3, <2>4, <2>5, <2>6, <2>7, <2>8 DEF PollStep
<1>9. CASE RunOrphan
  BY <1>9 DEF RunOrphan, ScriptApplies, ScriptFails, NoScript, pollVars
<1>10. ASSUME NEW c \in Conns,
              (\E s \in Servers : Accept(c, s)) \/ ConnStep(c)
       PROVE  TypeInv'
  BY <1>10, ConnTypeStep, ConnFrame DEF pollVars
<1>11. CASE UNCHANGED vars
  BY <1>11 DEF vars, fwVars, pollVars
<1> QED
  BY <1>1, <1>2, <1>3, <1>4, <1>5, <1>6, <1>7, <1>8, <1>9, <1>10, <1>11
     DEF Next

LEMMA TypeInit == Init => TypeInv
<1> SUFFICES ASSUME Init
             PROVE  TypeInv
  OBVIOUS
<1>1. FirewallTypeOK
  BY DEF Init, FirewallInit, FirewallTypeOK, NoScript
<1>2. restarts \in 0..MaxRestarts /\ age \in 0..StaleAfter
  BY StaleAssumption, RestartAssumption DEF Init
<1>3. conn \in [Conns -> [pc: ConnStages, server: Servers \cup {"none"},
                          told: States \cup {"none"}, stale: BOOLEAN]]
  BY DEF Init, Closed, ConnStages
<1> QED
  BY <1>1, <1>2, <1>3
     DEF Init, TypeInv, TypeOK, HasSnapshot, Working, PollStages

\* The variables of the poll loop, of the manager, of the cache and of the
\* process keep their types in every reachable state.
THEOREM TypeCorrect == Spec => []TypeOK
<1>1. Init => TypeInv
  BY TypeInit
<1>2. TypeInv /\ [Next]_vars => TypeInv'
  BY TypeStep
<1>3. TypeInv => TypeOK
  BY DEF TypeInv
<1> QED
  BY <1>1, <1>2, <1>3, PTL DEF Spec

-----------------------------------------------------------------------------
(* The manager's belief against the kernel. *)

LEMMA KernelStep == TypeInv /\ KernelInv /\ [Next]_vars => KernelInv'
<1> SUFFICES ASSUME TypeInv, KernelInv, [Next]_vars
             PROVE  KernelInv'
  OBVIOUS
<1> USE DEF KernelInv, Lifecycle, TableHoldsRules, ScriptOwned, BeliefInv,
            ExactInv
<1>0. /\ proc \in {"up", "cleanup", "exited", "crashed"} /\ table \in BOOLEAN
      /\ restarts \in Nat
  BY RestartAssumption DEF TypeInv, TypeOK, FirewallTypeOK
<1>1. CASE Shutdown
  BY <1>0, <1>1 DEF Shutdown, PollAborted
<1>2. CASE Cleanup
  BY <1>0, <1>2 DEF Cleanup, DeleteTable, MemoryLost, pollVars
<1>3. CASE Crash
  BY <1>0, <1>3 DEF Crash, PollAborted, MemoryLost
<1>4. CASE Restart
  BY <1>0, <1>4 DEF Restart
<1>5. CASE Tick
  <2>1. cache # NoSnapshot /\ cache' = cache
    BY <1>5 DEF Tick
  <2> QED
    BY <1>0, <1>5, <2>1 DEF Tick, fwVars, pollVars
<1>6. ASSUME NEW sn \in PanelSnapshots, FetchSnapshot(sn)
      PROVE  KernelInv'
  BY <1>0, <1>6 DEF FetchSnapshot, fwVars
<1>7. CASE FetchFails
  BY <1>0, <1>7 DEF FetchFails, fwVars
<1>8. CASE PollStep
  <2>1. ASSUME NEW ready \in SUBSET Servers, ProbePorts(ready)
        PROVE  KernelInv'
    BY <1>0, <2>1 DEF ProbePorts, fwVars
  <2>2. CASE ReconcileUnchanged
    BY <1>0, <2>2 DEF ReconcileUnchanged, Unchanged, fwVars
  <2>3. CASE ReconcileSpawn
    BY <1>0, <2>3 DEF ReconcileSpawn, SpawnScript, NoScript
  <2>4. CASE RunScript
    <3>1. proc = "up" /\ poll = "apply" /\ poll' = "apply" /\ proc' = "up"
      BY <1>0, <2>4 DEF RunScript, pollVars
    <3>2. CASE ScriptApplies /\ script' = [script EXCEPT !.status = "done"]
      <4>1. script'.status = "done" /\ script'.target = script.target
        BY <3>2 DEF TypeInv, TypeOK, FirewallTypeOK
      <4>2. "list" \notin FirewallFaults => rules' = script.target
        BY <3>1, <3>2 DEF ScriptApplies
      <4> QED
        BY <1>0, <2>4, <3>1, <3>2, <4>1, <4>2
           DEF RunScript, ScriptApplies, pollVars
    <3>3. CASE ScriptFails /\ script' = [script EXCEPT !.status = "failed"]
      <4>1. script'.status = "failed" /\ script'.target = script.target
        BY <3>3 DEF TypeInv, TypeOK, FirewallTypeOK
      <4> QED
        BY <1>0, <2>4, <3>1, <3>3, <4>1 DEF RunScript, ScriptFails, pollVars
    <3> QED
      BY <2>4, <3>2, <3>3 DEF RunScript
  <2>5. CASE ReconcileSucceeds
    BY <1>0, <2>5 DEF ReconcileSucceeds, ScriptSucceeded
  <2>6. CASE ReconcileErrs
    BY <1>0, <2>6 DEF ReconcileErrs, ScriptErrored
  <2>7. CASE Publish
    BY <1>0, <2>7 DEF Publish, fwVars
  <2>8. CASE Heartbeat
    BY <1>0, <2>8 DEF Heartbeat, fwVars
  <2> QED
    BY <1>8, <2>1, <2>2, <2>3, <2>4, <2>5, <2>6, <2>7, <2>8 DEF PollStep
<1>9. CASE RunOrphan
  BY <1>0, <1>9 DEF RunOrphan, ScriptApplies, ScriptFails, NoScript, pollVars
<1>10. ASSUME NEW c \in Conns,
              (\E s \in Servers : Accept(c, s)) \/ ConnStep(c)
       PROVE  KernelInv'
  BY <1>10, ConnFrame DEF pollVars, fwVars
<1>11. CASE UNCHANGED vars
  BY <1>11 DEF vars, fwVars, pollVars
<1> QED
  BY <1>1, <1>2, <1>3, <1>4, <1>5, <1>6, <1>7, <1>8, <1>9, <1>10, <1>11
     DEF Next

-----------------------------------------------------------------------------
(* The cache against the manager's belief. *)

LEMMA AnswerStep ==
    TypeInv /\ KernelInv /\ AnswerInv /\ [Next]_vars => AnswerInv'
<1> SUFFICES ASSUME TypeInv, KernelInv, AnswerInv, [Next]_vars
             PROVE  AnswerInv'
  OBVIOUS
<1> USE DEF AnswerInv, SnapInv, StaleInv, CacheInv, Working
<1>0. Lifecycle /\ NoSnapshot \notin Snapshots
  BY SnapshotAssumption DEF KernelInv
<1>1. CASE Shutdown
  BY <1>1 DEF Shutdown, PollAborted
<1>2. CASE Cleanup
  BY <1>0, <1>2 DEF Cleanup, pollVars, Lifecycle
<1>3. CASE Crash
  BY <1>3 DEF Crash, PollAborted
<1>4. CASE Restart
  BY <1>0, <1>4 DEF Restart, Lifecycle
<1>5. CASE Tick
  <2>1. ~Stale /\ age # StaleAfter
    BY <1>5 DEF Tick, Stale
  <2> QED
    BY <1>5, <2>1 DEF Tick, fwVars, pollVars
<1>6. ASSUME NEW sn \in PanelSnapshots, FetchSnapshot(sn)
      PROVE  AnswerInv'
  BY <1>6 DEF FetchSnapshot, fwVars, Stale
<1>7. CASE FetchFails
  BY <1>0, <1>7 DEF FetchFails, fwVars, Stale, Lifecycle
<1>8. CASE PollStep
  <2>1. ASSUME NEW ready \in SUBSET Servers, ProbePorts(ready)
        PROVE  AnswerInv'
    <3>1. branch = "stale" => /\ Desired(snap) \subseteq Desired(snap')
                              /\ snap'.autostart \subseteq snap.autostart
      BY <2>1, DowngradedDesired, DowngradedAutostart
         DEF ProbePorts, TypeInv, HasSnapshot
    <3> QED
      BY <2>1, <3>1 DEF ProbePorts, fwVars, Stale
  <2>2. CASE ReconcileUnchanged
    BY <2>2 DEF ReconcileUnchanged, Unchanged, fwVars, Stale
  <2>3. CASE ReconcileSpawn
    BY <2>3 DEF ReconcileSpawn, SpawnScript, Stale
  <2>4. CASE RunScript
    BY <2>4 DEF RunScript, pollVars, Stale
  <2>5. CASE ReconcileSucceeds
    BY <2>5 DEF ReconcileSucceeds, ScriptSucceeded, KernelInv, ScriptOwned, Stale
  <2>6. CASE ReconcileErrs
    BY <2>6 DEF ReconcileErrs, ScriptErrored, Stale
  <2>7. CASE Publish
    <3>1. snap \in Snapshots /\ branch \in {"fresh", "stale"}
      BY <2>7 DEF Publish, TypeInv, HasSnapshot, TypeOK
    <3> QED
      BY <1>0, <2>7, <3>1 DEF Publish, fwVars, Stale
  <2>8. CASE Heartbeat
    BY <2>8 DEF Heartbeat, fwVars, Stale
  <2> QED
    BY <1>8, <2>1, <2>2, <2>3, <2>4, <2>5, <2>6, <2>7, <2>8 DEF PollStep
<1>9. CASE RunOrphan
  BY <1>9 DEF RunOrphan, pollVars, Stale
<1>10. ASSUME NEW c \in Conns,
              (\E s \in Servers : Accept(c, s)) \/ ConnStep(c)
       PROVE  AnswerInv'
  BY <1>10, ConnFrame DEF pollVars, fwVars, Stale
<1>11. CASE UNCHANGED vars
  BY <1>11 DEF vars, fwVars, pollVars, Stale
<1> QED
  BY <1>1, <1>2, <1>3, <1>4, <1>5, <1>6, <1>7, <1>8, <1>9, <1>10, <1>11
     DEF Next

-----------------------------------------------------------------------------
(* The theorems. *)

LEMMA KernelInit == Init => KernelInv
BY DEF Init, FirewallInit, NoScript, KernelInv, Lifecycle, TableHoldsRules,
       ScriptOwned, BeliefInv, ExactInv

LEMMA AnswerInit == Init => AnswerInv
BY DEF Init, FirewallInit, AnswerInv, SnapInv, StaleInv, CacheInv, Working

\* The inductive invariant the safety theorems below rest on.
THEOREM Invariance == Spec => []IInv
<1>1. Init => IInv
  BY TypeInit, KernelInit, AnswerInit DEF IInv
<1>2. IInv /\ [Next]_vars => IInv'
  BY TypeStep, KernelStep, AnswerStep DEF IInv
<1> QED
  BY <1>1, <1>2, PTL DEF Spec

\* What the manager believes it installed is what the kernel redirects.
THEOREM BeliefExact == Spec => []BeliefMatchesKernel
<1>1. IInv => BeliefMatchesKernel
  BY DEF IInv, KernelInv, TableHoldsRules, BeliefInv, ExactInv,
         BeliefMatchesKernel
<1> QED
  BY <1>1, Invariance, PTL

\* No failure of nft lets through what the manager believes intercepted.
THEOREM BeliefSound == Spec => []BeliefIsIntercepted
<1>1. IInv => BeliefIsIntercepted
  BY DEF IInv, KernelInv, BeliefInv, BeliefIsIntercepted
<1> QED
  BY <1>1, Invariance, PTL

\* Every allocation the manager intercepts has an entry in the cache that
\* handle_connection can answer from.
THEOREM Answerable == Spec => []InterceptedAreAnswerable
<1>1. IInv => InterceptedAreAnswerable
  BY DEF IInv, AnswerInv, CacheInv, InterceptedAreAnswerable
<1> QED
  BY <1>1, Invariance, PTL

\* Until the cache is stale the kernel redirects exactly what was published, in
\* the first process and in every later one that intercepts something.
THEOREM FreshExact == Spec => []FreshInterceptionExact
<1>1. IInv => FreshInterceptionExact
  <2> SUFFICES ASSUME IInv, proc = "up", cache # NoSnapshot, ~Stale,
                      poll # "publish"
               PROVE  /\ current = Desired(cache)
                      /\ \/ poll = "apply" \/ "list" \in FirewallFaults
                         \/ restarts > 0 /\ current = {}
                         \/ rules = Desired(cache)
    BY DEF FreshInterceptionExact
  <2>1. current = Desired(cache)
    BY DEF IInv, AnswerInv, CacheInv
  <2>2. ASSUME poll # "apply", "list" \notin FirewallFaults,
               restarts = 0 \/ current # {}
        PROVE  rules = current
    BY <2>2 DEF IInv, KernelInv, ExactInv
  <2>3. restarts = 0 \/ restarts > 0
    BY RestartAssumption DEF IInv, TypeInv, TypeOK
  <2> QED
    BY <2>1, <2>2, <2>3
<1> QED
  BY <1>1, Invariance, PTL

LEMMA OutageStep ==
    ASSUME IInv, [Next]_vars, proc = "up", proc' = "up", branch = "stale",
           current \subseteq rules
    PROVE  current \subseteq rules' /\ current \subseteq current'
<1>1. CASE Shutdown \/ Cleanup \/ Crash \/ Restart
  BY <1>1 DEF Shutdown, Cleanup, Crash, Restart
<1>2. CASE Tick \/ FetchFails \/ (\E sn \in PanelSnapshots : FetchSnapshot(sn))
  BY <1>2 DEF Tick, FetchFails, FetchSnapshot, fwVars
<1>3. CASE RunScript
  <2>1. current \subseteq script.target
    BY <1>3 DEF RunScript, IInv, KernelInv, ScriptOwned, AnswerInv, SnapInv,
                Working
  <2> QED
    BY <1>3, <2>1 DEF RunScript, ScriptApplies, ScriptFails
<1>4. CASE ReconcileSucceeds
  BY <1>4 DEF ReconcileSucceeds, ScriptSucceeded, IInv, KernelInv, ScriptOwned,
              AnswerInv, SnapInv, Working
<1>5. CASE \/ \E ready \in SUBSET Servers : ProbePorts(ready)
           \/ ReconcileUnchanged \/ ReconcileSpawn \/ ReconcileErrs
           \/ Publish \/ Heartbeat
  BY <1>5 DEF ProbePorts, ReconcileUnchanged, Unchanged, ReconcileSpawn,
              SpawnScript, ReconcileErrs, ScriptErrored, Publish, Heartbeat,
              fwVars
<1>6. CASE RunOrphan
  BY <1>6 DEF RunOrphan, ScriptApplies, ScriptFails, NoScript, IInv, KernelInv,
              ScriptOwned
<1>7. ASSUME NEW c \in Conns,
             (\E s \in Servers : Accept(c, s)) \/ ConnStep(c)
      PROVE  current \subseteq rules' /\ current \subseteq current'
  BY <1>7, ConnFrame DEF fwVars
<1>8. CASE UNCHANGED vars
  BY <1>8 DEF vars, fwVars
<1> QED
  BY <1>1, <1>2, <1>3, <1>4, <1>5, <1>6, <1>7, <1>8 DEF Next, PollStep

\* An outage of the panel never takes an interception away.
THEOREM OutageKeeps == Spec => OutageKeepsMapping
<1>1. IInv /\ [Next]_vars =>
        [proc = "up" /\ proc' = "up" /\ branch = "stale" /\ current \subseteq rules
            => current \subseteq rules' /\ current \subseteq current']_vars
  BY OutageStep
<1> QED
  BY <1>1, Invariance, PTL DEF Spec, OutageKeepsMapping

LEMMA PromoteStep ==
    ASSUME IInv, [Next]_vars, proc' = "up", cache # NoSnapshot, cache' # cache,
           Stale, Stale'
    PROVE  /\ Desired(cache) \subseteq Desired(cache')
           /\ cache'.autostart \subseteq cache.autostart
<1>1. CASE Publish
  <2>1. branch = "stale"
    BY <1>1, StaleAssumption DEF Publish, Stale
  <2> QED
    BY <1>1, <2>1 DEF Publish, IInv, AnswerInv, StaleInv, Working
<1>2. CASE \/ Shutdown \/ Cleanup \/ Crash \/ Restart \/ Tick \/ FetchFails
           \/ \E sn \in PanelSnapshots : FetchSnapshot(sn)
           \/ RunOrphan
  BY <1>2 DEF Shutdown, Cleanup, Crash, Restart, Tick, FetchFails,
              FetchSnapshot, RunOrphan
<1>3. CASE \/ \E ready \in SUBSET Servers : ProbePorts(ready)
           \/ ReconcileUnchanged \/ ReconcileSpawn \/ RunScript
           \/ ReconcileSucceeds \/ ReconcileErrs \/ Heartbeat
  BY <1>3 DEF ProbePorts, ReconcileUnchanged, ReconcileSpawn, RunScript,
              ReconcileSucceeds, ReconcileErrs, Heartbeat
<1>4. ASSUME NEW c \in Conns,
             (\E s \in Servers : Accept(c, s)) \/ ConnStep(c)
      PROVE  FALSE
  BY <1>4, ConnFrame
<1>5. CASE UNCHANGED vars
  BY <1>5 DEF vars
<1> QED
  BY <1>1, <1>2, <1>3, <1>4, <1>5 DEF Next, PollStep

\* The agent alone never promotes an entry of a stale cache.
THEOREM NeverPromotes == Spec => StaleNeverPromotes
<1>1. IInv /\ [Next]_vars =>
        [proc' = "up" /\ cache # NoSnapshot /\ cache' # cache /\ Stale /\ Stale'
            => /\ Desired(cache) \subseteq Desired(cache')
               /\ cache'.autostart \subseteq cache.autostart]_vars
  BY PromoteStep
<1> QED
  BY <1>1, Invariance, PTL DEF Spec, StaleNeverPromotes

-----------------------------------------------------------------------------
(* What clients are told. *)

\* A connection waits for a wake only if the cache was fresh when it read it.
ToldInv ==
    ToldStateIsConfigured /\ \A c \in Conns : conn[c].pc = "wake" => ~conn[c].stale

LEMMA ToldStep == TypeInv /\ ToldInv /\ [Next]_vars => ToldInv'
<1> SUFFICES ASSUME TypeInv, ToldInv, [Next]_vars
             PROVE  ToldInv'
  OBVIOUS
<1> DEFINE Told(r) == /\ r.pc \in {"status", "wake", "kick"} =>
                          /\ r.told \in StateNames
                          /\ r.stale => r.told \in AdminStates \cup {"node_unreachable"}
                      /\ r.pc = "wake" => ~r.stale
<1>0. /\ \A c \in Conns : Told(conn[c])
      /\ (\A c \in Conns : Told(conn'[c])) => ToldInv'
  BY DEF ToldInv, ToldStateIsConfigured
<1>1. CASE conn' = conn
  BY <1>0, <1>1
<1>2. CASE Cleanup \/ Crash
  BY <1>0, <1>2 DEF Cleanup, Crash, MemoryLost, Closed
<1>3. ASSUME NEW c \in Conns, \E s \in Servers : Accept(c, s)
      PROVE  ToldInv'
  BY <1>0, <1>3 DEF Accept, TypeInv, TypeOK
<1>4. ASSUME NEW c \in Conns, ConnStep(c)
      PROVE  ToldInv'
  <2>0. /\ DOMAIN conn = Conns
        /\ conn[c] \in [pc: ConnStages, server: Servers \cup {"none"},
                        told: States \cup {"none"}, stale: BOOLEAN]
    BY DEF TypeInv, TypeOK
  <2>1. CASE DropHandshake(c) \/ Unmanaged(c) \/ StatusServed(c) \/ Kick(c)
    BY <1>0, <2>0, <2>1
       DEF DropHandshake, Unmanaged, StatusServed, Kick, Closed, TypeInv, TypeOK
  <2>2. CASE \E next \in {"status", "login"} : Decide(c, next)
    <3>1. PICK next \in {"status", "login"} : Decide(c, next)
      BY <2>2
    <3> DEFINE s == conn[c].server
    <3>2. cache.state[s] \in States
      BY <3>1 DEF Decide, Managed, Listed, TypeInv, TypeOK, Snapshots
    <3>3. /\ Presented(s) \in StateNames
          /\ Stale => Presented(s) \in AdminStates \cup {"node_unreachable"}
      BY <3>2, ShownType DEF Presented
    <3>4. Wakes(s) => ~Stale
      BY DEF Wakes
    <3> QED
      BY <1>0, <2>0, <3>1, <3>3, <3>4 DEF Decide, TypeInv, TypeOK
  <2>3. CASE \E reply \in WakeReplies : WakeReplied(c, reply)
    <3>1. PICK reply \in WakeReplies : WakeReplied(c, reply)
      BY <2>3
    <3> DEFINE told == IF reply \in {"rejected", "error"} THEN conn[c].told
                                                          ELSE "starting"
    <3>2. /\ conn' = [conn EXCEPT ![c] = [conn[c] EXCEPT !.pc = "kick",
                                                          !.told = told]]
          /\ conn[c].pc = "wake"
      BY <2>0, <3>1 DEF WakeReplied
    <3>3. told \in StateNames /\ ~conn[c].stale
      BY <1>0, <3>2 DEF StateNames
    <3>4. Told([conn[c] EXCEPT !.pc = "kick", !.told = told])
      BY <2>0, <3>3
    <3> QED
      BY <1>0, <2>0, <3>2, <3>4
  <2> QED
    BY <1>4, <2>1, <2>2, <2>3 DEF ConnStep
<1>5. CASE \/ Shutdown \/ Restart \/ Tick \/ FetchFails \/ PollStep \/ RunOrphan
           \/ \E sn \in PanelSnapshots : FetchSnapshot(sn)
  <2>1. conn' = conn
    BY <1>5 DEF Shutdown, Restart, Tick, FetchFails, FetchSnapshot, RunOrphan,
                PollStep, ProbePorts, ReconcileUnchanged, ReconcileSpawn,
                RunScript, ReconcileSucceeds, ReconcileErrs, Publish, Heartbeat
  <2> QED
    BY <1>1, <2>1
<1>6. CASE UNCHANGED vars
  BY <1>1, <1>6 DEF vars
<1> QED
  BY <1>2, <1>3, <1>4, <1>5, <1>6 DEF Next

\* Every state a client is told has a presentation of its own, and a stale
\* cache tells only what the panel alone could lift, or node_unreachable.
THEOREM ToldConfigured == Spec => []ToldStateIsConfigured
<1>1. Init => TypeInv /\ ToldInv
  BY TypeInit DEF Init, Closed, ToldInv, ToldStateIsConfigured
<1>2. TypeInv /\ ToldInv /\ [Next]_vars => (TypeInv /\ ToldInv)'
  BY TypeStep, ToldStep
<1>3. ToldInv => ToldStateIsConfigured
  BY DEF ToldInv
<1> QED
  BY <1>1, <1>2, <1>3, PTL DEF Spec

-----------------------------------------------------------------------------
(* The firewall's promise. *)

\* Everything but the firewall's own steps and the end and the start of the
\* process stutters.
LEMMA FirewallFrame ==
    ASSUME UNCHANGED <<fwVars, proc>>,
           poll' = poll \/ "apply" \notin {poll, poll'}
    PROVE  UNCHANGED Firewall!vars
BY DEF Firewall!vars, fwVars

LEMMA PollRefines ==
    ASSUME IInv, "list" \notin FirewallFaults, PollStep
    PROVE  [Firewall!Next]_(Firewall!vars)
<1> USE DEF IInv, TypeInv, TypeOK, FirewallTypeOK, KernelInv, Lifecycle,
            ScriptOwned
<1>1. CASE \/ \E ready \in SUBSET Servers : ProbePorts(ready)
           \/ ReconcileUnchanged \/ Publish \/ Heartbeat
  <2>1. UNCHANGED <<fwVars, proc>> /\ "apply" \notin {poll, poll'}
    BY <1>1 DEF ProbePorts, ReconcileUnchanged, Unchanged, Publish, Heartbeat
  <2> QED
    BY <2>1, FirewallFrame
<1>2. CASE ReconcileSpawn
  <2>1. Firewall!Ask
    BY <1>2 DEF ReconcileSpawn, SpawnScript, Firewall!Ask
  <2> QED
    BY <2>1 DEF Firewall!Next
<1>3. CASE RunScript
  <2>1. poll = "apply" /\ poll' = "apply" /\ proc = "up" /\ proc' = "up"
          /\ current' = current /\ script.status = "pending"
    BY <1>3 DEF RunScript, ScriptApplies, ScriptFails, pollVars
  <2>2. CASE ScriptApplies /\ script' = [script EXCEPT !.status = "done"]
    <3>1. rules' \in SUBSET Servers /\ script'.status = "done"
      BY <2>2 DEF ScriptApplies
    <3>2. Firewall!Apply
      BY <2>1, <3>1 DEF Firewall!Apply
    <3> QED
      BY <3>2 DEF Firewall!Next
  <2>3. CASE ScriptFails /\ script' = [script EXCEPT !.status = "failed"]
    <3>1. UNCHANGED rules /\ script'.status = "failed"
      BY <2>3 DEF ScriptFails
    <3> QED
      BY <2>1, <3>1 DEF Firewall!vars
  <2> QED
    BY <1>3, <2>2, <2>3 DEF RunScript
<1>4. CASE ReconcileSucceeds
  <2>1. rules = script.target
    BY <1>4 DEF ReconcileSucceeds, ScriptSucceeded, ExactInv
  <2>2. Firewall!Succeed
    BY <1>4, <2>1 DEF ReconcileSucceeds, ScriptSucceeded, Firewall!Succeed
  <2> QED
    BY <2>2 DEF Firewall!Next
<1>5. CASE ReconcileErrs
  <2>1. Firewall!Refuse
    BY <1>5 DEF ReconcileErrs, ScriptErrored, Firewall!Refuse
  <2> QED
    BY <2>1 DEF Firewall!Next
<1> QED
  BY <1>1, <1>2, <1>3, <1>4, <1>5 DEF PollStep

LEMMA StepRefines ==
    ASSUME IInv, "list" \notin FirewallFaults, [Next]_vars
    PROVE  [Firewall!Next]_(Firewall!vars)
<1> USE DEF IInv, TypeInv, TypeOK, FirewallTypeOK, KernelInv, Lifecycle,
            ScriptOwned
<1>1. CASE Shutdown
  <2>1. Firewall!End
    BY <1>1 DEF Shutdown, PollAborted, Firewall!End
  <2> QED
    BY <2>1 DEF Firewall!Next
<1>2. CASE Crash
  <2>1. current' = {} /\ rules' = rules /\ proc' = "crashed" /\ poll' = "aborted"
    BY <1>2 DEF Crash, PollAborted
  <2>2. CASE proc = "up"
    <3>1. Firewall!End
      BY <2>1, <2>2 DEF Firewall!End
    <3> QED
      BY <3>1 DEF Firewall!Next
  <2>3. CASE proc # "up"
    <3>1. Firewall!Aftermath
      BY <2>1, <2>3 DEF Firewall!Aftermath
    <3> QED
      BY <3>1 DEF Firewall!Next
  <2> QED
    BY <2>2, <2>3
<1>3. CASE Cleanup
  <2>1. /\ proc = "cleanup" /\ proc' = "exited" /\ current' = {}
        /\ rules' \in SUBSET Servers /\ poll' = poll /\ script' = script
    BY <1>3 DEF Cleanup, DeleteTable, pollVars
  <2>2. Firewall!Aftermath
    BY <2>1 DEF Firewall!Aftermath
  <2> QED
    BY <2>2 DEF Firewall!Next
<1>4. CASE Restart
  <2>1. Firewall!Start
    BY <1>4 DEF Restart, Firewall!Start
  <2> QED
    BY <2>1 DEF Firewall!Next
<1>5. CASE \/ Tick \/ FetchFails \/ (\E sn \in PanelSnapshots : FetchSnapshot(sn))
  <2>1. UNCHANGED <<fwVars, proc>> /\ (poll' = poll \/ "apply" \notin {poll, poll'})
    BY <1>5 DEF Tick, FetchFails, FetchSnapshot, pollVars
  <2> QED
    BY <2>1, FirewallFrame
<1>6. CASE PollStep
  BY <1>6, PollRefines
<1>7. CASE RunOrphan
  <2>1. /\ script.status = "pending" /\ rules' \in SUBSET Servers
        /\ poll # "apply" /\ UNCHANGED <<current, proc, poll>>
    BY <1>7 DEF RunOrphan, ScriptApplies, ScriptFails, pollVars
  <2>2. proc # "up"
    BY <2>1 DEF NoScript
  <2>3. Firewall!Aftermath
    BY <2>1, <2>2 DEF Firewall!Aftermath
  <2> QED
    BY <2>3 DEF Firewall!Next
<1>8. ASSUME NEW c \in Conns,
             (\E s \in Servers : Accept(c, s)) \/ ConnStep(c)
      PROVE  [Firewall!Next]_(Firewall!vars)
  BY <1>8, ConnFrame, FirewallFrame DEF pollVars
<1>9. CASE UNCHANGED vars
  BY <1>9, FirewallFrame DEF vars, pollVars
<1> QED
  BY <1>1, <1>2, <1>3, <1>4, <1>5, <1>6, <1>7, <1>8, <1>9 DEF Next

\* The nftables backend keeps the promise of an atomic firewall, as long as a
\* listing that fails means that there is no table.
THEOREM Implements ==
    ASSUME "list" \notin FirewallFaults
    PROVE  Spec => ImplementsInterception
<1>1. Init => Firewall!Init
  BY DEF Init, FirewallInit, Firewall!Init
<1>2. IInv /\ [Next]_vars => [Firewall!Next]_(Firewall!vars)
  BY StepRefines
<1> QED
  BY <1>1, <1>2, Invariance, PTL DEF Spec, ImplementsInterception, Firewall!Spec

-----------------------------------------------------------------------------
(* What the documentation promises, and all that stands in its way. *)

\* Nobody stops the agent while nft runs one of its scripts.
QuietStops == [][Shutdown => script.status # "pending"]_vars

\* Nobody kills it, and its accept loop does not fail.
NeverKilled == [][~Crash]_vars

\* It starts on a kernel without rules of its own.
CleanStarts == [][Restart => rules = {}]_vars

\* Nothing has killed it yet.
Unkilled == proc # "crashed"

\* A process on its way out has no script left, and leaves no rules.
ExitInv ==
    /\ proc \in {"cleanup", "exited"} => script = NoScript
    /\ proc = "exited" => rules = {}

\* A process that began on an empty kernel has nothing there but what it
\* believes: not even when it believes in nothing.
AllIsBelieved ==
    proc = "up" => rules = IF poll = "apply" /\ script.status = "done"
                           THEN script.target ELSE current

\* The steps that leave the process and the kernel alone.
LEMMA QuietFrame ==
    ASSUME \/ Tick \/ FetchFails
           \/ \E sn \in PanelSnapshots : FetchSnapshot(sn)
           \/ \E ready \in SUBSET Servers : ProbePorts(ready)
           \/ ReconcileUnchanged \/ Publish \/ Heartbeat
           \/ \E c \in Conns : (\E s \in Servers : Accept(c, s)) \/ ConnStep(c)
           \/ UNCHANGED vars
    PROVE  /\ UNCHANGED <<fwVars, proc>>
           /\ poll' = poll \/ "apply" \notin {poll, poll'}
<1>1. CASE Tick \/ FetchFails \/ \E sn \in PanelSnapshots : FetchSnapshot(sn)
  BY <1>1 DEF Tick, FetchFails, FetchSnapshot, pollVars
<1>2. CASE \/ \E ready \in SUBSET Servers : ProbePorts(ready)
           \/ ReconcileUnchanged \/ Publish \/ Heartbeat
  BY <1>2 DEF ProbePorts, ReconcileUnchanged, Unchanged, Publish, Heartbeat
<1>3. ASSUME NEW c \in Conns, (\E s \in Servers : Accept(c, s)) \/ ConnStep(c)
      PROVE  UNCHANGED <<fwVars, proc, poll>>
  BY <1>3, ConnFrame DEF pollVars
<1>4. CASE UNCHANGED vars
  BY <1>4 DEF vars, pollVars
<1> QED
  BY <1>1, <1>2, <1>3, <1>4

\* With quiet stops there is nothing left that could put rules back.
LEMMA ExitStep ==
    ASSUME IInv, ExitInv, [Next]_vars, "delete" \notin FirewallFaults,
           Shutdown => script.status # "pending"
    PROVE  ExitInv'
<1>0. proc = "up" <=> poll # "aborted"
  BY DEF IInv, KernelInv, Lifecycle
<1>1. CASE Shutdown
  BY <1>1 DEF Shutdown, PollAborted, Orphaned, ExitInv
<1>2. CASE Cleanup
  BY <1>2 DEF Cleanup, DeleteTable, ExitInv
<1>3. CASE Crash \/ Restart
  BY <1>3 DEF Crash, Restart, ExitInv
<1>4. CASE ReconcileSpawn \/ RunScript \/ ReconcileSucceeds \/ ReconcileErrs
  BY <1>0, <1>4 DEF ReconcileSpawn, RunScript, ReconcileSucceeds, ReconcileErrs,
                    ExitInv
<1>5. CASE RunOrphan
  BY <1>5 DEF RunOrphan, ScriptApplies, ScriptFails, NoScript, ExitInv
<1>6. CASE UNCHANGED <<fwVars, proc>>
  BY <1>6 DEF fwVars, ExitInv
<1> QED
  BY <1>1, <1>2, <1>3, <1>4, <1>5, <1>6, QuietFrame DEF Next, PollStep

\* README.md:55 holds of every agent that is not stopped while nft runs one of
\* its scripts: it removes its table before it exits, and nothing comes back.
THEOREM ExitsClean ==
    ASSUME "delete" \notin FirewallFaults
    PROVE  Spec /\ QuietStops => []CleanExitLeavesNoRules
<1>1. Init => ExitInv
  BY DEF Init, FirewallInit, ExitInv
<1>2. IInv /\ ExitInv /\ [Next]_vars
          /\ [Shutdown => script.status # "pending"]_vars => ExitInv'
  <2> SUFFICES ASSUME IInv, ExitInv, [Next]_vars,
                      [Shutdown => script.status # "pending"]_vars
               PROVE  ExitInv'
    OBVIOUS
  <2>1. CASE UNCHANGED vars
    BY <2>1 DEF vars, fwVars, ExitInv
  <2>2. CASE Shutdown => script.status # "pending"
    BY <2>2, ExitStep
  <2> QED
    BY <2>1, <2>2
<1>3. ExitInv => CleanExitLeavesNoRules
  BY DEF ExitInv, CleanExitLeavesNoRules
<1> QED
  BY <1>1, <1>2, <1>3, Invariance, PTL DEF Spec, QuietStops

\* Once all is believed it stays so: what a script replaces is all there is.
LEMMA BelievedStep ==
    ASSUME IInv, IInv', AllIsBelieved, [Next]_vars, "list" \notin FirewallFaults,
           Restart => rules = {}
    PROVE  AllIsBelieved'
<1>0. /\ proc = "up" <=> poll # "aborted"
      /\ proc \in {"exited", "crashed"} => current = {}
      /\ ~table => rules = {}
      /\ proc = "up" /\ poll # "apply" => script = NoScript
      /\ proc = "up" /\ poll = "apply" /\ script.status = "pending" =>
             script.replace = table
  BY DEF IInv, KernelInv, Lifecycle, TableHoldsRules, ScriptOwned, ExactInv
<1>1. CASE Shutdown \/ Cleanup \/ Crash
  BY <1>1 DEF Shutdown, Cleanup, Crash, AllIsBelieved
<1>2. CASE Restart
  BY <1>0, <1>2 DEF Restart, AllIsBelieved
<1>3. CASE ReconcileSpawn
  BY <1>3 DEF ReconcileSpawn, SpawnScript, AllIsBelieved
<1>4. CASE RunScript
  <2>1. proc = "up" /\ proc' = "up" /\ poll = "apply" /\ poll' = "apply"
        /\ current' = current /\ script.status = "pending"
    BY <1>0, <1>4 DEF RunScript, ScriptApplies, ScriptFails, pollVars
  <2>2. CASE ScriptApplies /\ script' = [script EXCEPT !.status = "done"]
    <3>1. rules' = script.target
      BY <1>0, <2>1, <2>2 DEF ScriptApplies
    <3>2. script'.target = script.target
      BY <2>2 DEF IInv, TypeInv, TypeOK, FirewallTypeOK
    <3>3. script'.status = "done"
      BY <2>2 DEF IInv, TypeInv, TypeOK, FirewallTypeOK
    <3> QED
      BY <2>1, <3>1, <3>2, <3>3 DEF AllIsBelieved
  <2>3. CASE ScriptFails /\ script' = [script EXCEPT !.status = "failed"]
    <3>1. script'.status = "failed" /\ rules' = rules
      BY <2>3 DEF ScriptFails, IInv, TypeInv, TypeOK, FirewallTypeOK
    <3> QED
      BY <2>1, <3>1 DEF AllIsBelieved
  <2> QED
    BY <1>4, <2>2, <2>3 DEF RunScript
<1>5. CASE ReconcileSucceeds
  BY <1>5 DEF ReconcileSucceeds, ScriptSucceeded, AllIsBelieved
<1>6. CASE ReconcileErrs
  BY <1>6 DEF ReconcileErrs, ScriptErrored, AllIsBelieved
<1>7. CASE RunOrphan
  BY <1>0, <1>7 DEF RunOrphan, ScriptApplies, ScriptFails, NoScript, AllIsBelieved
<1>8. CASE UNCHANGED <<fwVars, proc>> /\ (poll' = poll \/ "apply" \notin {poll, poll'})
  BY <1>8 DEF fwVars, AllIsBelieved
<1> QED
  BY <1>1, <1>2, <1>3, <1>4, <1>5, <1>6, <1>7, <1>8, QuietFrame DEF Next, PollStep

\* README.md:10 holds of every agent whose processes all start on a kernel
\* without its rules: a server that a fresh snapshot says is running, and whose
\* port answered, is reached directly.
THEOREM RunningPasses ==
    ASSUME "list" \notin FirewallFaults
    PROVE  Spec /\ CleanStarts => []PublishedRunningPasses
<1>1. Init => AllIsBelieved
  BY DEF Init, FirewallInit, AllIsBelieved
<1>2. IInv /\ IInv' /\ AllIsBelieved /\ [Next]_vars /\ [Restart => rules = {}]_vars
          => AllIsBelieved'
  <2> SUFFICES ASSUME IInv, IInv', AllIsBelieved, [Next]_vars,
                      [Restart => rules = {}]_vars
               PROVE  AllIsBelieved'
    OBVIOUS
  <2>1. CASE UNCHANGED vars
    BY <2>1 DEF vars, fwVars, pollVars, AllIsBelieved
  <2>2. CASE Restart => rules = {}
    BY <2>2, BelievedStep
  <2> QED
    BY <2>1, <2>2
<1>3. IInv /\ AllIsBelieved => PublishedRunningPasses
  BY DEF IInv, AnswerInv, CacheInv, AllIsBelieved, PublishedRunningPasses, Desired
<1> QED
  BY <1>1, <1>2, <1>3, Invariance, PTL DEF Spec, CleanStarts

\* So an agent that is neither killed nor stopped in the middle of a script
\* keeps both promises, however often it is started again.
THEOREM PromisesKept ==
    ASSUME "list" \notin FirewallFaults, "delete" \notin FirewallFaults
    PROVE  Spec /\ QuietStops /\ NeverKilled =>
               [](CleanExitLeavesNoRules /\ PublishedRunningPasses)
<1>1. Init => Unkilled
  BY DEF Init, Unkilled
<1>2. Unkilled /\ [Next]_vars /\ [~Crash]_vars => Unkilled'
  <2> SUFFICES ASSUME Unkilled, [Next]_vars, [~Crash]_vars
               PROVE  proc' # "crashed"
    BY DEF Unkilled
  <2>1. CASE UNCHANGED proc
    BY <2>1 DEF Unkilled
  <2>2. CASE Shutdown \/ Cleanup \/ Restart
    BY <2>2 DEF Shutdown, Cleanup, Restart, Unkilled
  <2>3. CASE ReconcileSpawn \/ RunScript \/ ReconcileSucceeds \/ ReconcileErrs \/ RunOrphan
    BY <2>3 DEF ReconcileSpawn, RunScript, ReconcileSucceeds, ReconcileErrs, RunOrphan,
                    Unkilled
  <2>4. UNCHANGED vars => UNCHANGED proc
    BY DEF vars
  <2>5. ~Crash \/ UNCHANGED proc
    BY <2>4
  <2> QED
    BY <2>1, <2>2, <2>3, <2>4, <2>5, QuietFrame DEF Next, PollStep
<1>3. Unkilled /\ CleanExitLeavesNoRules => [Restart => rules = {}]_vars
  BY DEF Restart, CleanExitLeavesNoRules, Unkilled
<1>4. Spec /\ QuietStops => []CleanExitLeavesNoRules
  BY ExitsClean
<1>5. Spec /\ CleanStarts => []PublishedRunningPasses
  BY RunningPasses
<1>6. Spec /\ NeverKilled => []Unkilled
  BY <1>1, <1>2, PTL DEF Spec, NeverKilled
<1>7. []Unkilled /\ []CleanExitLeavesNoRules => CleanStarts
  BY <1>3, PTL DEF CleanStarts
<1> QED
  BY <1>4, <1>5, <1>6, <1>7, PTL
=============================================================================
