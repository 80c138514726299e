----------------------------- MODULE PollTiming -----------------------------
(***************************************************************************)
(* The agent's poll loop against the clock: when it polls, how long its    *)
(* steps take, and from when the age of the cached snapshot is counted.    *)
(* NodeAgent says what each step does; here a step only takes time.  Time  *)
(* is counted in ticks from the start of the loop.                         *)
(***************************************************************************)
EXTENDS Naturals

CONSTANTS
    Poll,         \* poll_interval_seconds
    StaleAfter,   \* stale_after_seconds
    Beat,         \* time between heartbeats
    FetchMax,     \* the HTTP client's timeout, for a snapshot
    BeatMax,      \* and for a heartbeat
    ProbeMax,     \* the timeout of one probe
    SerialMax,    \* all probes of a stale snapshot, one after another
    NftMax,       \* the longest the firewall's commands take: an assumption,
                  \* the agent waits for them without a timeout
    Horizon       \* bound on time

\* AgentConfig::validate.
ASSUME ConfigAssumption ==
    Poll \in Nat \ {0} /\ StaleAfter \in Nat /\ StaleAfter >= Poll
ASSUME TimesAssumption ==
    /\ Beat \in Nat /\ FetchMax \in Nat /\ BeatMax \in Nat
    /\ ProbeMax \in Nat /\ SerialMax \in Nat /\ NftMax \in Nat
ASSUME HorizonAssumption == Horizon \in Nat

VARIABLES
    now,
    stage,     \* what poll_loop awaits
    began,     \* since when
    due,       \* when the interval ticks next
    beatDue,   \* when the next heartbeat is due
    made,      \* the moment the fetched snapshot tells of
    cached,    \* is there a cached snapshot
    received,  \* its age is counted from here
    shown,     \* the moment it tells of
    lastBad    \* when a fetch or a reconcile last failed; 0 stands for the start

vars == <<now, stage, began, due, beatDue, made, cached, received, shown,
          lastBad>>

Stages == {"tick", "fetch", "probe", "nft", "beat", "stale_probe", "stale_nft"}

Init ==
    /\ now = 0 /\ stage = "tick" /\ began = 0
    /\ due = 0 /\ beatDue = 0
    /\ made = 0 /\ cached = FALSE /\ received = 0 /\ shown = 0
    /\ lastBad = 0

-----------------------------------------------------------------------------

\* Mutant: the probes of a new snapshot are awaited one after another as well.
SerialLimit(s) ==
    CASE s = "fetch" -> FetchMax
      [] s = "beat"  -> BeatMax
      [] s \in {"probe", "stale_probe"} -> SerialMax
      [] s \in {"nft", "stale_nft"} -> NftMax

\* The longest that a step takes.
Limit(s) ==
    CASE s = "fetch" -> FetchMax
      [] s = "beat"  -> BeatMax
      [] s = "probe" -> ProbeMax
      [] s = "stale_probe" -> SerialMax
      [] s \in {"nft", "stale_nft"} -> NftMax

\* Time passes, but not past the end of a wait.
TimePasses ==
    /\ now < Horizon
    /\ IF stage = "tick" THEN now < due ELSE now < began + Limit(stage)
    /\ now' = now + 1
    /\ UNCHANGED <<stage, began, due, beatDue, made, cached, received, shown,
                   lastBad>>

Enter(from, to) ==
    /\ stage = from
    /\ stage' = to
    /\ began' = now
    /\ UNCHANGED now

\* The interval ticks.  A tick that was missed is made up for at once, and the
\* later ones stay where they were.
BeginPoll ==
    /\ now >= due
    /\ Enter("tick", "fetch")
    /\ due' = due + Poll
    /\ UNCHANGED <<beatDue, made, cached, received, shown, lastBad>>

\* The panel's answer tells of some moment since it was asked for.
FetchAnswered ==
    /\ Enter("fetch", "probe")
    /\ made' \in began..now
    /\ UNCHANGED <<due, beatDue, cached, received, shown, lastBad>>

ProbesEnd ==
    /\ Enter("probe", "nft")
    /\ UNCHANGED <<due, beatDue, made, cached, received, shown, lastBad>>

\* The reconcile fails, and the loop goes on with the next tick.
ReconcileFails ==
    /\ Enter("nft", "tick")
    /\ lastBad' = now
    /\ UNCHANGED <<due, beatDue, made, cached, received, shown>>

\* The snapshot is cached, as new from now on; then the heartbeat, if due.
Publish ==
    /\ Enter("nft", IF now >= beatDue THEN "beat" ELSE "tick")
    /\ cached' = TRUE
    /\ received' = now
    /\ shown' = made
    /\ UNCHANGED <<due, beatDue, made, lastBad>>

BeatAnswered ==
    /\ Enter("beat", "tick")
    /\ beatDue' = now + Beat
    /\ UNCHANGED <<due, made, cached, received, shown, lastBad>>

\* It stays due, and the next poll that succeeds waits for another one.
BeatFails ==
    /\ Enter("beat", "tick")
    /\ UNCHANGED <<due, beatDue, made, cached, received, shown, lastBad>>

Stale == now >= received + StaleAfter

\* No answer in time, or an error.
FetchFails ==
    /\ Enter("fetch", IF cached /\ Stale THEN "stale_probe" ELSE "tick")
    /\ lastBad' = now
    /\ UNCHANGED <<due, beatDue, made, cached, received, shown>>

StaleProbesEnd ==
    /\ Enter("stale_probe", "stale_nft")
    /\ UNCHANGED <<due, beatDue, made, cached, received, shown, lastBad>>

\* Mutant: the snapshot is written back as a new one.
StaleRenewed ==
    /\ Enter("stale_nft", "tick")
    /\ received' = now
    /\ UNCHANGED <<due, beatDue, made, cached, shown, lastBad>>

\* The snapshot is written back with its age, whatever came of the reconcile.
StaleWritten ==
    /\ Enter("stale_nft", "tick")
    /\ UNCHANGED <<due, beatDue, made, cached, received, shown, lastBad>>

-----------------------------------------------------------------------------

Next ==
    \/ TimePasses \/ BeginPoll
    \/ FetchAnswered \/ ProbesEnd \/ ReconcileFails \/ Publish
    \/ BeatAnswered \/ BeatFails
    \/ FetchFails \/ StaleProbesEnd \/ StaleWritten

Spec == Init /\ [][Next]_vars

-----------------------------------------------------------------------------
(* Properties. *)

Longer(a, b) == IF a >= b THEN a ELSE b

\* From the request for a snapshot to the cache.
Round == FetchMax + ProbeMax + NftMax

\* Did the last poll that ended end well?
Well == cached /\ lastBad <= received

\* What is shown as fresh was so a bounded time ago: the age counts from the
\* end of the iteration, so the promise of stale_after_seconds is exceeded by
\* as much as fetch, probes and firewall take, and never by more.
InformationBounded ==
    cached /\ ~Stale => now < shown + StaleAfter + Round

\* While polls succeed the cache is replaced before it is this old: a cache
\* whose StaleAfter is longer never goes stale, and one whose StaleAfter only
\* satisfies validate may.  A heartbeat that is not answered delays the poll.
FreshWhileWell ==
    Well => now <= received + Longer(Poll, BeatMax) + Round

\* After a failure the next poll has ended within this time, so an outage is
\* over for the agent this long after the panel is back: the probes of a stale
\* snapshot, one after another, delay it.
OutageEndsInTime ==
    ~Well => now <= lastBad + Longer(Poll, SerialMax + NftMax) + Round
=============================================================================
