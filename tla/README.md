# A TLA+ model of the Minecraft MOTD extension and its node agent

This directory models the program in `src/`: a panel extension for Calagopus
(Rust, `src/extension/backend`) and an agent that runs on every Wings node
(Rust, `src/agent`). The agent keeps a firewall redirection in place for each
Minecraft server that is not running, answers the redirected connections with
the state of the server, and, when a player logs in to an offline server that
allows it, asks the panel to start it.

Everything here is translated from the source. Where this text says what a part
of the program *does*, the lines are named in `PROJECT.json` (`map`); where a
document of the repository says something else, the difference is a finding.

## 1. Inventory

### The agent (`src/agent/src`)

| Component | State it keeps | Operations | What is hard |
| --- | --- | --- | --- |
| Poll loop (`main.rs` `poll_loop`) | the snapshot it works on; when it last sent a heartbeat | fetch, probe the ports of running servers, reconcile, publish to the cache, heartbeat; a second arm for a panel that does not answer | four awaits per iteration, each may fail; `continue` skips the rest; the stale arm rewrites the cache it started from |
| Snapshot cache (`SharedSnapshot`) | the last published snapshot and the instant it was received | written by the poll loop, read by every connection | written after the firewall changed; becomes stale by time alone |
| Connections (`handle_connection`, `protocol.rs`) | one task per connection | handshake with timeout, lookup, status or login, wake, kick | read a cache that changes under them; some waits have a timeout, one has not |
| Firewall manager (`firewall.rs`) | `current_allocations`, what it believes it installed | `reconcile`, `cleanup`, each through child processes | belief and kernel are two pieces of state; children outlive a dropped task; iptables needs up to eight commands where nft needs one transaction |
| Kernel rules | table/chain, jump, rules | changed by the children | outlive the process |
| Process (`run`, service unit) | — | start, SIGTERM, cleanup, crash, restart | a restarted agent believes nothing is installed |
| Enrollment and configuration (`main.rs` `enroll`, `config.rs`) | the configuration file | first start, `enroll`, load, save | the token is consumed before the credential is on disk; the file is written in place |
| Codec (`protocol.rs`) | none | varints, strings, frames, handshake, the status exchange | lengths and continuation bits that a client chooses; five bytes carry more than 32 bits |
| Presentation (`presentation.rs`) | none | choice of a state's texts, formatting codes, line swap, gradient | a length that counts other characters than the index does |
| Addresses (`firewall.rs` rendering, `main.rs` `allocation_matches`) | none | which connections a rule takes, which entry answers them | the kernel and the agent each have their own wildcards and their own order |
| Original destination (`original_dst.rs`) | none | one `getsockopt` | — |

### The panel extension (`src/extension/backend/src`)

| Component | State it keeps | Operations | What is hard |
| --- | --- | --- | --- |
| Effective state and snapshot (`state.rs`, `routes/agent.rs` `snapshot`) | none | a state for each allocation from settings, database and Wings | twelve states with a priority; the agent's list of states it keeps when stale is written separately |
| Wake endpoint (`routes/agent.rs` `wake`) | `last_wake_at`, `autostart_on_join` per server | eight reads, one conditional UPDATE, one power request, a rollback | nothing of what it read is locked; the request may be cancelled at every await |
| Enrollment tokens and credentials (`routes/agent.rs` `enroll`, `routes/admin.rs`, `auth.rs`) | one token row and one agent row per node | issue, exchange, revoke, authenticate | issue is two statements without a transaction |
| Settings (`settings.rs`, `routes/admin.rs`) | the settings in memory and in the database | validate, replace, save, load | memory is replaced before the save that may fail |
| Per-server switch (`routes/server.rs`) | one row, the activity log | get, put | read, upsert and log entry without a transaction |
| Heartbeat (`routes/agent.rs`) | `last_seen`, `agent_version` | mark | written by the node's identifier some awaits after the credential was checked |

The frontend (`src/extension/frontend`) and the packaging (`src/packaging`,
`src/scripts`) keep no state that the properties below depend on; the restart
policy of the service unit is used in the models.

### How they interact

```
   administrator/owner           player
        |                          |  TCP, redirected by the kernel
        v                          v
   panel extension  <--HTTP--  node agent  --children-->  nft / iptables
        |   snapshot, wake,        ^                          |
        |   heartbeat, enroll      +------ kernel rules <-----+
        v
      Wings  (utilization, power)
```

* The agent pulls: snapshot every poll interval, heartbeat now and then, wake
  when a login asks for it. The panel never calls the agent.
* The poll loop and the connections share the cache (an `RwLock`); the poll
  loop and the shutdown path share the firewall manager (a `Mutex`).
* The wake endpoint shares rows with everybody else who writes to the panel's
  database, and the server's power state with Wings and its other users.

### What makes each part correct

* Firewall and cache: what the manager believes is what the kernel does; what
  is intercepted can be answered; a running server is not intercepted and every
  other one is, as soon as a snapshot was published; an outage releases
  nothing.
* Connections: each is answered with a state somebody configured a text for,
  and ends.
* Wake: a start is sent only if everything permits it, not twice within the
  lock's window, and eventually if players keep coming.
* Panel state: one verdict in the snapshot and at the wake endpoint, one idea of
  "stale" in both programs; and although a snapshot is put together from three
  moments, nothing it says was never true.
* Time: what is shown as fresh is not much older than `stale_after_seconds`, and
  an agent whose polls succeed does not call itself stale.
* Codec, texts and addresses: what is written is read back, what does not parse
  is refused, a connection is answered for the entry whose rule took it.
* Settings and switch: what was saved with success survives, and the activity
  log is a history as long as updates do not meet.
* Enrollment: a token makes one credential, a refused credential stays refused,
  and any failure can be repaired by a new token and a new enrollment.

`PROJECT.json` lists the hazards line by line, each with the properties that
would catch it.

## 2. The modules

| Module | Models | Properties are about |
| --- | --- | --- |
| `Interception` | what a firewall backend promises the poll loop: the abstract specification | (implemented by the next two) |
| `NftFirewall` | `FirewallManager` on nftables: belief, kernel table, the `nft -f -` child | (through `NodeAgent`) |
| `NodeAgent` | poll loop, cache, connections, process; extends `NftFirewall`, implements `Interception` | belief, interception, outages, connections |
| `IptablesFirewall` | `FirewallManager` on iptables/ip6tables, command by command, and its orphans; implements `Interception` | repair after failure, cleanup |
| `PollTiming` | the poll loop against the clock | age of what is shown, length of an outage |
| `Destinations` | which connections a rule takes, which entry the agent answers for | wildcards |
| `Protocol` | varints bit by bit, strings, frames, handshake, status exchange | reading what was written and nothing else |
| `Presentation` | validation of settings, choice of texts, formatting codes, line swap, gradient | completeness, texts kept whole |
| `MotdState` | the state names the two programs share, `stale_state`, the state shown for an intercepted running server | — |
| `PanelPolicy` | `resolve_state`, `is_excluded`, inclusion in the snapshot, the wake endpoint's checks, as functions | decisions written twice agree |
| `PanelSettings` | saving settings and switches, with losses and restarts of the panel | what survives, the activity log |
| `PanelSnapshot` | the snapshot and heartbeat endpoints, step by step; extends `PanelSettings` and `PanelPolicy` | what an entry may say, `last_seen` |
| `PanelWake` | the wake endpoint step by step, concurrent requests, the lock | revalidation, rate, liveness |
| `Enrollment` | tokens, credentials, the agent's program from its start to `run`, the configuration file | single use, refusal, repair |
| `NodeAgentProofs`, `IptablesProofs`, `PollTimingProofs`, `PanelSnapshotProofs`, `PanelWakeProofs`, `EnrollmentProofs` | theorems about the module of that name | — |
| `FunctionsProofs`, `CodecProofs` | theorems about the operators of `PanelPolicy`, `Presentation`, `Destinations`, and of `Protocol` | — |
| `MCFunctions` | the pure functions of `PanelPolicy`, `Protocol`, `Presentation` and `Destinations` over bounded inputs | the properties of those four |
| other `MC*` | instances for TLC | — |

### NodeAgent and NftFirewall

`Servers` are the node's allocations. A snapshot gives each of them a state or
"absent", says whether the extension is enabled and which ones may be woken.

| Code | Model |
| --- | --- |
| `interval.tick` + `fetch_snapshot` Ok | `FetchSnapshot(sn)`, for any `sn` the panel may send |
| `fetch_snapshot` Err, cache stale | `FetchFails` (with a cache that is not stale nothing changes) |
| `prepare_snapshot`, and the probes of the stale arm | `ProbePorts(ready)`, for any set of ports that answer |
| `reconcile`: early return; listing and spawning; exit status | `ReconcileUnchanged`; `ReconcileSpawn`; `ReconcileSucceeds`, `ReconcileErrs` |
| the `nft -f -` child in the kernel | `RunScript`, or `RunOrphan` when nobody awaits it any more |
| write of the `RwLock` | `Publish`; `received` is renewed in the fresh arm only |
| `send_heartbeat` | `Heartbeat`, which only takes time |
| accept; handshake timeout; lookup; reply | `Accept`, `DropHandshake`, `Unmanaged`, `Decide` |
| `serve_status`, `wake_server`, `disconnect_login` | `StatusServed`, `WakeReplied`, `Kick` |
| SIGTERM: `abort`, `cleanup`; SIGKILL or an error of accept; the service manager | `Shutdown`, `Cleanup`; `Crash`; `Restart` |

`FirewallFaults` says which nft commands may fail for no reason of ours. A
failing script changes nothing (it is one kernel transaction) and a failing
*listing* reads as "no table", because `apply_nftables` uses `is_ok()`.

Abstractions: an allocation stands for its own (address, port), `Destinations`
says what becomes of wildcards; bytes and texts are in `Protocol` and
`Presentation`, seconds in `PollTiming`; a wake reply is one of the reasons the
agent distinguishes, the others being "rejected"; the heartbeat only delays. The
children of a process that ended are gone when the next one starts (one cgroup,
or one container).

### Interception

The poll loop sees a firewall as `Ask`, then `Succeed` or `Refuse`. The abstract
specification says what may happen to the manager's belief and to the kernel
meanwhile: an atomic backend changes the kernel in one step and not at all when
it refuses, the other one may be seen at work; both change the belief in a
success only, to what the kernel does by then. When the process is gone
(`Aftermath`) the kernel is anybody's, and the next process believes nothing.
`NodeAgent!Firewall` and `IptablesFirewall!Firewall` are the two mappings. The
iptables mapping leaves ip6tables out where `command_exists` may not find it:
those rules are silently not installed, while the belief names them.

### IptablesFirewall

Here the poll loop is just somebody who calls `reconcile` with some set. `pc`
is the command under way; a command that works has `Effect` on the family's
chain, jumps and rules, one that does not leaves them alone. When the task is
dropped, its command has run or becomes one of `orphans`, which run at any later
time until the next start. `settled` remembers whether the last attempt to
apply rules succeeded. `Ip6Found` is what `command_exists` may answer for
ip6tables.

### PanelPolicy

`Observations` is everything the panel and Wings know about one allocation of
one server; `ResolveState`, `InSnapshot` and `WakeVerdict` are the chains of
early returns over it. `UnavailableReason` belongs to the panel, not to this
repository: it is modelled from its use. Here the reads of one snapshot are
taken at one moment; `PanelSnapshot` takes them apart.

### PanelSettings and PanelSnapshot

`settings_put` holds the settings' lock from `ReplaceSettings` to
`SaveSettings`, and `CloneSettings` of a snapshot waits for it; `LosePut` is a
save that fails or a request that is dropped. An update of the switch is
`ReadPrevious`, `Upsert`, `LogUpdate`, each of which may be the last. `Restart`
is the panel's: memory is read again from the database.

A snapshot is `Authenticate`, `CloneSettings`, `AskWings`, `ReadRows`, `Answer`;
one allocation stands for all, since entries are independent. `Witness` keeps
what held `sometime` and `throughout` during a request: history variables that
let `EntryAttested` compare the entry with the world it was read from.

### PollTiming

The same loop with a clock: `TimePasses` up to the limit of the step under way,
and the other actions take no time. `tokio::time::interval` makes up for missed
ticks at once (`BeginPoll` adds `Poll` to `due`, not to `now`). What `made` and
`shown` hold is the moment a snapshot tells of, `received` the moment the code
counts its age from.

### Protocol, Presentation, Destinations

Pure operators. A number is the set of its one bits, so that what `<<` loses is
lost; a frame is a length and as many bytes. A text is a sequence of kinds of
characters. Colours are one channel, and the code's f32 arithmetic is exact
here. An address is a family and a host, `any` being the wildcard.
`MCFunctions` makes a behaviour of each kind of input: `Next` builds sequences up
one element at a time and changes records one field at a time.

### PanelWake

One action per call the handler awaits. `holds` are the eight conditions;
anybody may change one at any time (`ChangeFact`). `changed` records, for each
request, which of them changed since it came in: that is what lets
`StartRevalidated` say precisely how stale a check may be. `lockAge` is the age
of `last_wake_at`, capped at the window. `PostErrs` covers both a power request
that never reached Wings and one whose answer was lost; `Abandon` is the
handler dropped by the agent's 10-second timeout. A request keeps what it read
of the settings: whether they exclude the server, and whether they managed the
allocation when they were cloned. `ReadRow` joins the latter with the row as it
is, and either may be the one that has changed.

### Enrollment

A token is the number of its issue and a credential the number of its exchange
(both 256 random bits in the code). `DeleteToken`/`InsertToken` are the two
statements of an issue; the primary key makes the second fail when another
request has inserted in between, and `InsertUnanswered` is the insertion whose
answer is lost: a live token that nobody was given. `ExchangeToken` is the transaction of
`enroll`. A process goes through `post`, `answer`, `write` (the file is
truncated), `load`, `up`; it may die anywhere, and a request it sent may be
handled later (`late`). The overrides from the environment and the numeric
limits of `validate` are left out.

Steps that nobody needed, and failures, cost one of `MaxTroubles`
(`NeededOr`): a second administrator who issues a token at the same time, an
enrollment on a node that works, an expiry, a revocation.

## 3. The runs

| Run | Asks | Bounds | Distinct states |
| --- | --- | --- | --- |
| `agent_poll` | do belief, kernel, cache and interception stay consistent through outages, failing nft calls, stop, crash and restart? is the nft backend an atomic `Interception`? | 3 allocations (one on the agent's own port), states running/offline/absent, age up to 2, 1 restart, faults of apply and delete | 287 178 |
| `agent_conn` | what is a connection told, does a login end, does an outage end, is what is believed intercepted? | 1 allocation, 1 connection, 4 states incl. suspended, autostart, faults of list and apply | 52 848 |
| `timing` | how old is what is shown, how long does an outage last? | polls every 2 ticks, stale after 3, all steps up to 1–4 ticks, 16 ticks | 3 075 717 |
| `functions` | do codec, texts, addresses and decisions do what they should? | all 25 600 observations; 6 bytes, 5 characters, 3 entries, 2 missing states | 359 148 |
| `snapshot` | what may an entry say, what survives, is the log a history? | 2 updates of the switch, 3 settings, 3 changes | 607 420 (up to symmetry) |
| `wake` | is a start revalidated, are starts a window apart, does a login start the server in the end? | 2 requests, window 2 ticks, a power request up to 1 tick, 2 troubles | 1 154 402 |
| `iptables` | does a success repair everything, does a clean exit release everything? is it an `Interception`? | 2 + 1 allocations, up to 2 jumps, 1 restart, every command but `-D` may fail | 175 169 |
| `enrollment` | tokens, credentials, the file, repair | 2 administrators, 2 processes, 4 tokens, 3 troubles | 46 456 |
| `crash_leftover`, `shutdown_race`, `wake_dedup`, `iptables_belief` | a statement of the documentation each | the smallest instances that show it | counterexamples |

Why the bounds are enough to be interesting:

* Allocations do not interact except through being in one set; two that differ
  in state exercise "some released, some kept" and the third is the one
  `desired_allocations` filters out. The theorems remove this bound.
* `StaleAfter = 2` separates "fresh", "ageing" and "stale"; one restart is
  enough for a new process to meet what an old one left (in `agent_poll`, after
  each of the ways to end).
* Two wake requests are the least that race for the lock; the window is longer
  than a power request, as 30 seconds are longer than the client's timeout.
  `wake` allows two troubles, e.g. one change of a fact and one cancellation,
  and begins where everything permits a start: what is missing is then one of
  the troubles. The theorems remove the bounds and begin anywhere.
* `timing` lets every step take any time up to its limit, with limits that order
  the terms of the bounds both ways (a heartbeat longer than a poll, probes of
  a stale snapshot longer than both); 16 ticks are several polls and a whole
  outage. The theorems hold for every configuration.
* Six bytes are one more than a varint has, and the patterns differ in the bits
  that matter (continuation, lowest, those beyond the 32nd when they come
  fifth); numbers are all runs of bits and some with gaps. Five characters hold
  a formatting code, two line breaks and a colour on either side. Three entries
  are a wildcard, an address of its own and one more.
* One allocation is enough for a snapshot, whose entries are independent; three
  changes by others can hit each of its reads, twice one of them.
* Two jumps are what one failed check adds; a third would only repeat the
  deletion loop of `cleanup`.
* Each trouble can cost one token, or two when issues overlap; with 3 troubles
  the 4 tokens are not exhausted before the node is in service, or
  `ServiceRestored` would fail. A token whose issue was not answered is one of
  those a trouble costs: a new one is needed then, as nobody has it.

`CHECK_DEADLOCK FALSE` is set where the system may really stop: a process that
ended and is not started again, an input that is built up, a horizon that is
reached.

Every property of a passing run has a mutant in its module (an operator whose
comment starts with "Mutant:", defined before the definition it could replace):
a plausible slip in that code which the property catches.

### The properties that hold

* `BeliefMatchesKernel`, `BeliefIsIntercepted`: the early return of `reconcile`
  is only sound if the belief is right. It is, from the first applied script
  on: exactly, if listings do not fail for no reason; and as a lower bound in
  any case.
* `InterceptedAreAnswerable`, `FreshInterceptionExact`: cache and firewall are
  written at different times and the loop may stop in between, but outside the
  one window between them they are a pair. As long as the cache is fresh, both
  what the manager believes and what the kernel redirects are exactly what was
  published. Of the kernel this holds in a process that began without rules of
  another, and in any that intercepts something; one that has nothing to
  intercept leaves what a killed agent left, which is `crash_leftover`.
* `OutageKeepsMapping`, `StaleNeverPromotes`: no step of an outage releases
  anything or allows a wake that was not allowed.
* `ToldStateIsConfigured`, `LoginCloses`, `OutageEnds`: see the module.
  `agent_conn` is where `Prepared`, ageing and the stale downgrade meet a
  reader. `LoginCloses` is about logins only: `serve_status` reads the status
  request without a timeout, so a client that names "status" and then says
  nothing keeps its connection.
* `ImplementsInterception`: whatever commands a backend is made of, the poll
  loop may rely on the promise of `Interception`.
* `InformationBounded`, `FreshWhileWell`, `OutageEndsInTime`: `received` is taken
  after probes and firewall, so what is shown as fresh may be older than
  `stale_after_seconds`, by one round (fetch, probes, firewall) and no more. A
  cache of a well agent gets as old as `max(poll, heartbeat timeout)` and a
  round: only a `stale_after_seconds` above that never shows a stale state while
  all is well, whereas `validate` asks for `poll_interval_seconds` alone. The
  probes of a stale snapshot are awaited one after another and delay the poll
  that would end the outage.
* `StaleAgreesWithPanel`, `WakeAgreesWithSnapshot`: two pairs of independently
  written decisions agree on every input.
* `VarintsExact`, `FramesInStep`, `HandshakeExact`: every number is read back,
  whatever bytes are accepted are the number they spell (bits beyond the 32nd
  are lost, as in the code), a stream is cut into packets the same way wherever
  it is interrupted, a length that is negative or above the limit is refused
  though the bytes follow, and no prefix of a handshake is one.
* `ValidatedIsPresentable`, `TextsKeepTheirParts`, `GradientSpansText`: settings
  the panel accepts have a text for each state the agent may show, formatting
  and swapping lose nothing, and a gradient stays within its colours although
  its length counts formatting codes and its index does not. With such codes it
  stops short of its last colour.
* `AnswersForItsRule`, `RunningPassesUnlessWildcard`: a redirected connection
  finds the entry whose rule took it. Where an entry on a wildcard address
  shares a port with another one it may not: a stopped server on `0.0.0.0` takes
  the connections of a running one on an address of its own, and the agent's
  lookup does not look at the family of a wildcard. Both properties say that
  this is the only exception.
* `EntryAttested`, `ManagedIsListed`: an entry is never worse than its three
  moments; a lasting reason is not hidden by a passing one. An allocation that
  is managed throughout, but first because it is primary and then because all
  are, may be missing from one snapshot.
* `ConfirmedSurvives`, `LogChains`, `MarksAreEarned`: claimed exactly as far as
  the code supports them. Settings whose save failed stay in memory; updates of
  the switch that meet may both log the same previous value; a request under way
  when its credential is revoked still leaves its mark.
* `StartRevalidated`: when a start is sent, each condition holds or has changed
  since the request came in. With eight unlocked reads nothing stronger is true.
* `StartsApart`: until somebody rolled back, two starts reach Wings at least
  the window minus the time of one power request apart.
* `LoginsWake`: no sequence of cancellations, failures and switches leaves the
  lock in a state that shuts players out for good.
* `SuccessInstalls`, `CleanExitReleases`: the iptables backend is not atomic,
  but convergent: a success repairs any wreck, and, thanks to the order of
  `cleanup`, no orphan can bring an interception back.
* `OneTokenOneCredential`, `RefusedForGood`, `OverlappingIssuesLeaveOne`,
  `ServiceRestored`: see section 1.

### Where documentation and code differ

| Run | The documentation | The code |
| --- | --- | --- |
| `crash_leftover` | README.md:10: once a server listens, the interception is removed and players pass | a restarted agent believes nothing is installed, so with nothing to intercept `reconcile` returns early and the killed agent's table stays |
| `shutdown_race` | README.md:55: the agent removes its own table before it exits | `poll_task.abort()` leaves the `nft -f -` child running; the first script has no `delete table` and may be applied after the cleanup |
| `wake_dedup` | README.md:16: starts are deduplicated by a 30-second lock | any error of the power request clears the lock, also when the command had reached Wings |
| `iptables_belief` | README.md:5: every connection to a server that is not running gets its state's reply | a reconcile that fails after `-F` leaves an empty chain and the old belief; the old request, repeated, is taken to be installed |

Each run shows a counterexample, and a theorem says under which condition on the
environment there is none:

| The promise | holds | Theorem |
| --- | --- | --- |
| README.md:55 | of every agent that is not stopped while a script runs, if no `delete table` fails for no reason | `NodeAgentProofs!ExitsClean` |
| README.md:10 | of every agent that starts on a kernel without its rules, if no listing fails for no reason | `NodeAgentProofs!RunningPasses` |
| both | of every agent that is neither killed nor stopped while a script runs, through any number of restarts | `NodeAgentProofs!PromisesKept` |
| README.md:5 (iptables) | until a reconcile gives up on a command | `IptablesProofs!RequestsKept` |
| README.md:16 | as long as no power request ends in an error | `PanelWakeProofs!Deduplicated` |

The conditions name steps of the environment (stops, kills, failing commands and
calls); that the code needs no other one is what the theorems show.

## 4. Fairness

* `NodeAgent`: weak fairness for the steps of the poll loop (the runtime
  schedules ready tasks; probes, nft and HTTP calls end or time out), for
  `Cleanup`, and per connection for `DropHandshake` (the 5-second timeout),
  `WakeReplied` (the HTTP client's 10-second timeout) and `Kick`. None for the
  client's status request, for the panel's answers, for crashes or stops.
  `OutageEnds` names its two assumptions about the environment in the formula:
  the panel answers again and again, and nft succeeds again and again (strong
  fairness, because both come and go).
* `PanelWake`: time passes, each handler's next call returns, Wings finishes a
  transition it started. `LoginsWake` is conditional, in the formula, on the
  conditions finally holding and on logins that continue; troubles are finite
  by `MaxTroubles`.
* `Enrollment`: requests are handled and programs run. What people do
  (`Operated`) is an assumption of `ServiceRestored`, in the formula: a token is
  issued when one is needed (nobody holds one that works), `enroll` is run when it is needed, a refused agent
  is stopped and the program is started again. They do one thing at a time
  unless it is a trouble.
* `IptablesFirewall`, `PanelSnapshot` and `PollTiming` have safety properties
  only. `PollTiming` needs no fairness: `TimePasses` cannot pass the limit of a
  step, so that "within" is a safety property. The limits are the timeouts in
  the code, but for `NftMax`: the agent waits for nft without one.

## 5. The proofs

`NodeAgentProofs` proves, for every set of allocations, of snapshots and of
connections, every `StaleAfter`, every bound on restarts and every set of
faults:

| Theorem | States |
| --- | --- |
| `TypeCorrect` | `Spec => []TypeOK` |
| `Invariance` | `Spec => []IInv` |
| `BeliefExact`, `BeliefSound` | `BeliefMatchesKernel`, `BeliefIsIntercepted` |
| `Answerable`, `FreshExact` | `InterceptedAreAnswerable`, `FreshInterceptionExact` |
| `OutageKeeps`, `NeverPromotes` | the action properties `OutageKeepsMapping`, `StaleNeverPromotes` |
| `ToldConfigured` | `ToldStateIsConfigured` |
| `Implements` | `ImplementsInterception`, if no listing fails for no reason |
| `ExitsClean` | `CleanExitLeavesNoRules`, if no deletion fails for no reason, under `QuietStops`: no step `Shutdown` finds a script pending |
| `RunningPasses` | `PublishedRunningPasses`, if no listing fails for no reason, under `CleanStarts`: each `Restart` finds a kernel without rules |
| `PromisesKept` | both, under `QuietStops` and `NeverKilled`: no step `Crash` |

They rest on the named assumptions of `NodeAgent` and `NftFirewall` only:
`PanelSnapshots` are snapshots and `NoSnapshot` is none, `StaleAfter` is a
positive number, the faults are among the three commands.

The inductive invariant is `IInv == TypeInv /\ KernelInv /\ AnswerInv`.

* `TypeInv` adds `HasSnapshot` to `TypeOK`: in the middle of an iteration
  `snap` is a snapshot. Without it `TypeOK` is not inductive, because a probe
  rewrites whatever `snap` is.
* `KernelInv` carries the belief *through* a reconcile. `BeliefMatchesKernel`
  says nothing while a script is in flight; `BeliefInv` and `ExactInv` say that
  until the script is done the old belief holds, and from then on the script's
  target does, which is what `ReconcileSucceeds` will assign. `ExactInv` needs
  that the script carries its `delete table` line exactly if there is a table,
  which is where the fault "list" is excluded. It speaks of the first process,
  whose kernel was empty, and of every belief that is not empty: a later process
  may believe nothing and find rules.
* `AnswerInv` relates cache, working copy and belief. `SnapInv` and `StaleInv`
  say that the copy of a stale iteration asks for no less interception than the
  cache it was cloned from, so that giving an iteration up, or going on after a
  failed reconcile, both leave a cache that covers the belief (`CacheInv`).

`TypeStep`, `KernelStep` and `AnswerStep` have one step per action of `Next`.
The two action properties follow from the invariant and one lemma each about
`[Next]_vars`. `ToldStateIsConfigured` has its own small invariant on top.

`Implements` maps each action to one of `Interception` or to a stutter: the poll
loop's steps through `PollRefines`, the rest through `StepRefines`. `ExactInv` is
what makes `ReconcileSucceeds` an abstract `Succeed` (the kernel holds what will
be believed), and `ScriptOwned` what makes every orphan run in the abstract
`Aftermath`.

The last three theorems are about behaviours in which something does not happen,
so their invariants hold step by step under that condition. `ExitInv`: a process
on its way out has no script left, so nothing can follow the table's deletion.
`AllIsBelieved`: the kernel holds what is believed even when nothing is, which is
the case that `BeliefMatchesKernel` has to leave out, as a killed process may
have left a table. `PromisesKept` puts them together: a process that was never
killed exits clean (`ExitsClean`), so the next one starts on an empty kernel,
which is what `RunningPasses` asks for.

`IptablesProofs` proves, for any allocations, faults, number of duplicated
jumps and of restarts, `SuccessRepairs` (`Spec => []SuccessInstalls`),
`CleanExit` (`Spec => []CleanExitReleases`), `Implements`
(`Spec => ImplementsInterception`), `RequestsKept` (`RequestedAreIntercepted`, if
no reconcile gives up) and `TypeCorrect`. The first two are not inductive: both
speak of the moment when a sequence of commands is through. The invariant
`IInv` says how far a sequence has got:

* `StageInv`, for reconcile: from the check on the chain is empty, from the
  restore on it is hooked as well, and while the second family is dealt with
  the first is as asked. That creating the chain leaves it empty needs
  `NoChainNoRules`; that no orphan disturbs the stages needs that a process
  starts without any.
* `CleanInv`, for cleanup: `OrphanInv` says that there is at most one orphan,
  and that one which inserts a jump meets an empty chain, because the code
  flushes first. So a family whose jumps are deleted is `Released`: it has no
  jump, or neither rules nor an orphan that restores them. This is why it
  matters that `cleanup` deletes the jumps before anything else.

`Implements` needs both, `SuccessInstalls` after the step for the abstract
`Succeed` and `StageInv` for the absence of orphans while the process is up, and
one more invariant: a process that ended believes nothing (`Forgotten`).
`RequestsKept` adds that a process believes nothing before its first success
(`NothingUnsettled`), which is what a reconcile that gives up breaks.

`TypeCorrect` needs `RoomInv`, because the guard that bounds the jumps is at the
check and the jump is inserted later: where an insertion is under way, by the
process or by what it left, there is room for it, and at most one orphan
inserts.

`EnrollmentProofs` proves, for any number of administrators, processes, tokens
and troubles:

* `SingleUse` (`OneTokenOneCredential`), from `TokenInv`: numbers that were
  given out are old (`IssuedAreOld`), and a token is in one place, the hands of
  one request, the row, or behind a credential (`OnePlace`).
* `OneIssueWins` (`OverlappingIssuesLeaveOne`), which is inductive once the
  types are known: whoever deletes the row holds a number to insert, and gives
  it up only by inserting it or by failing to.
* `NeverAcceptedAgain` (the action property `RefusedForGood`): a new credential
  has a new number, and nothing else makes the agent row accept.
* `TypeCorrect`. Only the number of tokens is bounded by a guard; that there are
  no more credentials than tokens follows from single use, by the pigeonhole
  principle (`AtMostAsMany`).

`PanelWakeProofs` proves, for any number of requests, any window and any time a
power request may take:

* `Revalidated` (`StartRevalidated`), from `AllChecked`: what each check has
  found stays found, in the world or among what has changed since. It is stated
  per stage, because a request carries only what lies behind it.
* `Apart` (`StartsApart`), from `LockInv`: until somebody rolled back, the lock is
  no older than any power request under way, and whenever one is under way the
  last start was long ago. Two power requests at once would need a time on the
  wire as long as the window.
* `Deduplicated` (`WakesDeduplicated`, if no power request ends in an error),
  since then nobody takes the lock back (`LockKept`).

`PanelSnapshotProofs` proves, for any settings, any number of updates at once and
any number of changes:

* `ConfirmedSettingsSurvive` (`ConfirmedSurvives`), inductive as it stands once
  the stages of an update are known;
* `ActivityLogChains` (`LogChains`), from `Alone`: as long as updates have not
  met, at most one is under way, and the switch is what it read or wrote;
* `MarksEarned` (`MarksAreEarned`), `EntriesAttested` (`EntryAttested`) and
  `ManagedListed` (`ManagedIsListed`), from `Witnessed` (`sometime` holds what
  holds now, `throughout` no more than that) and `Evidence` (what was read was
  witnessed when it was read).

`PollTimingProofs` proves `BoundedInformation`, `FreshnessKept` and `OutageEnd`,
the three properties of the run, and `LongEnoughNeverStale`, which says which
`stale_after_seconds` keep a well agent from showing stale states. The invariant
says of each stage how long ago the last poll ended, of the next tick that it is
at most one period after the last poll began, and of the information how old it
is when it is cached.

`FunctionsProofs` and `CodecProofs` prove what the pure operators return, for
every input and not only for those that the run `functions` enumerates. The
theorems about the run's properties then follow from `TypedInputs`, which says
that its behaviours build nothing else.

| Theorems | For every |
| --- | --- |
| `StaleAgrees`, `WakeAgrees` | observation |
| `Answered`, `RunningPasses` | snapshot of any length without duplicates, and destination |
| `DescriptionsTakeTurns`, and from it `Presentable` | settings the panel accepts, any number of descriptions, interval and moment |
| `SwapNormalized`, `TextsKept` | text of any length |
| `GradientStays`, and from it `GradientSpans` | text of any length, any two or more colours |
| `NumbersSpelled`, `NumbersExact` | sequence of bytes, and set of 32 bits |
| `PacketsInStep`, `StatusAnswered`, `LimitsKept`, and from them `FramesKeepStep` | packets up to `MaxPacket`, status texts up to `MaxString`, any cut, any limit below the length |
| `HandshakeRead`, and from it `HandshakesUnderstood` | version, address up to `MaxString`, any cut |

There is no induction over texts in these proofs, as the library's theorems for
it cannot be instantiated; it is replaced by least elements of sets of indices
(`Least`, `Induction`): the first position where two texts differ, the first
break of a line, the first byte that ends a number. Three arguments may be worth
knowing before reading them:

* `Number`, a sum over a set in an order that `CHOOSE` picks, is shown to be the
  sum in any order (`Weights`, `NumberFacts`): there is a function that satisfies
  its equation for each choice. From it follows that `ToBits` is its inverse,
  and with it that lengths are written and read back.
* A number, a string, a packet are each read from wherever in a buffer they are
  *held* (`Holds`), and fail to be read where the buffer is cut within them. So
  frames and handshakes are put together from their parts, at any offset.
* The gradient's index and its length are counts over the text that drift apart
  at formatting codes; `IndexFacts` says that the index grows with the position
  and never passes `GradientSteps`, and that without codes it reaches it.

The specifications have bounds in their guards (`MaxTokens`, `MaxJumps`,
`Horizon` and so on); the theorems hold for each value of them. `TypeOK` of
`NodeAgent`, `PanelWake` and `PanelSnapshot` is proved and no run checks it again.

Every invariant and every action property that a passing run checks has its
theorem. Only model-checked: liveness (`LoginCloses`, `OutageEnds`, `LoginsWake`,
`ServiceRestored`), which is out of the prover's reach.

## 6. What is not modelled

* JSON, TOML, PNG, UTF-8, placeholders in texts, the rendering of a colour, and
  the rounding of f32 in gradients (exact rationals here): wording and layout.
* The overrides of the configuration from the environment, and the numeric
  limits of `validate` other than those `PollTiming` assumes.
* `original_dst.rs`, a `getsockopt` wrapper: `Destinations` takes its answer as
  given.
* Time in nft: no timeout bounds it, so `NftMax` is an assumption. An nft that
  never ends stops the poll loop for good.
* `database.read()` may be answered by a replica that lags behind; here reads
  see the last write.
* Rows of a snapshot whose port is outside 1 to 65535, which the route skips:
  the panel gives out no such allocation, and an entry stands for one row.
* Stored settings that cannot be parsed, for which the defaults would be taken:
  a panel that restarts in `PanelSettings` is of the version that wrote them.
* The length of the favicon against the protocol's strings: the panel accepts
  an icon longer than a client's limit for a status text.
* The window of the iptables backend between flush and restore, in which nothing
  of a family is intercepted, at every reconcile: it is in the model (`Disturb`
  of `Interception`), and no property forbids it.
* The frontend, the build and the installer.

## 7. Plan

Done: all components with state of their own, the pure functions, the refinement
of `Interception` with its two theorems, theorems for every safety property that
a passing run checks, and for the promises of the documentation the conditions
under which they hold.

Next:

1. `StartLimiter`, an abstract specification of what the wake endpoint promises
   (starts apart, permitted by what was seen), which `PanelWake` implements.
2. `MotdSystem`: agent, panel and server in one specification, for "a player who
   keeps logging in gets on the server", on top of `Interception` and
   `StartLimiter`.
3. A replica that lags, for the wake endpoint's reads.
