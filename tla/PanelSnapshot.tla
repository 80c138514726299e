--------------------------- MODULE PanelSnapshot ---------------------------
(***************************************************************************)
(* The panel's snapshot and heartbeat endpoints, for one agent and one     *)
(* allocation of one server, while administrators and owners save settings *)
(* and the server lives on.  A snapshot is put together from the settings, *)
(* from Wings and from the database, each read at a moment of its own.     *)
(***************************************************************************)
EXTENDS PanelSettings, PanelPolicy

CONSTANT MaxChanges   \* bound on requests of others, changes and failures

ASSUME ChangesAssumption == MaxChanges \in Nat
ASSUME SettingsAssumption ==
    Settings \subseteq [enabled: BOOLEAN, all: BOOLEAN, serverOut: BOOLEAN,
                        eggOut: BOOLEAN]

VARIABLES
    facts,     \* what Wings and the database know of the server
    allowed,   \* is the agent's credential valid
    marked,    \* last_seen was written since the credential was last revoked
    snap,      \* the snapshot request
    beat,      \* the heartbeat request
    changes

vars == <<savedVars, facts, allowed, marked, snap, beat, changes>>

Facts == [suspended: BOOLEAN, maintenance: BOOLEAN, transferring: BOOLEAN,
          status: Statuses, reachable: BOOLEAN, wings: WingsStates,
          primary: BOOLEAN]

\* The observation that settings, Wings and the row of the server make up.
Observation(settings, wings, row) ==
    [suspended |-> row.suspended, maintenance |-> row.maintenance,
     transferring |-> row.transferring, status |-> row.status,
     reachable |-> wings.reachable, wings |-> wings.state,
     enabled |-> settings.enabled, all |-> settings.all,
     serverOut |-> settings.serverOut, eggOut |-> settings.eggOut,
     primary |-> row.primary, autostart |-> row.autostart]

WingsNow == [reachable |-> facts.reachable, state |-> facts.wings]
RowNow ==
    [suspended |-> facts.suspended, maintenance |-> facts.maintenance,
     transferring |-> facts.transferring, status |-> facts.status,
     primary |-> facts.primary, autostart |-> switch]
World == Observation(inUse, WingsNow, RowNow)

Unlisted == [listed |-> FALSE, state |-> "offline", autostart |-> FALSE]

\* Everything that holds now and that an entry may depend on.
Holding ==
    Reasons(World) \cup
    {IF inUse.all THEN "all" ELSE "none",
     IF facts.primary THEN "primary" ELSE "none",
     IF IsExcluded(World) THEN "excluded" ELSE "included",
     IF switch THEN "autostart" ELSE "manual",
     IF allowed THEN "allowed" ELSE "none"}

\* sometime, throughout: what held at some moment of the request, and what
\* held all the time.
IdleSnap ==
    [pc |-> "idle", settings |-> Defaults, entry |-> Unlisted,
     wings |-> [reachable |-> FALSE, state |-> "missing"],
     sometime |-> {}, throughout |-> {}]

Entries == [listed: BOOLEAN, state: States, autostart: BOOLEAN]

\* What may hold.
Things == States \cup {"all", "primary", "excluded", "included", "autostart",
                       "manual", "allowed", "none"}

IdleBeat == [pc |-> "idle", valid |-> FALSE]

TypeOK ==
    /\ SavedTypeOK
    /\ facts \in Facts
    /\ allowed \in BOOLEAN /\ marked \in BOOLEAN
    /\ snap \in [pc: {"idle", "auth", "settings", "wings", "rows", "seen"},
                 settings: Settings, entry: Entries,
                 wings: [reachable: BOOLEAN, state: WingsStates],
                 sometime: SUBSET Things, throughout: SUBSET Things]
    /\ beat \in [pc: {"idle", "auth", "seen"}, valid: BOOLEAN]
    /\ changes \in 0..MaxChanges

Init ==
    /\ SavedInit
    /\ facts = [suspended |-> FALSE, maintenance |-> FALSE,
                transferring |-> FALSE, status |-> "none", reachable |-> TRUE,
                wings |-> "offline", primary |-> TRUE]
    /\ allowed = TRUE /\ marked = FALSE
    /\ snap = IdleSnap /\ beat = IdleBeat
    /\ changes = 0

-----------------------------------------------------------------------------
(* Everybody else. *)

\* What the requests under way witness of a step.
Witness ==
    /\ snap' = IF snap.pc = "idle" THEN snap
               ELSE LET holds == Holding'
                    IN  [snap EXCEPT !.sometime = @ \cup holds,
                                     !.throughout = @ \cap holds]
    /\ beat' = IF beat.pc = "idle" THEN beat
               ELSE [beat EXCEPT !.valid = @ \/ allowed']

Change == changes < MaxChanges /\ changes' = changes + 1

\* Settings and switches are saved, more or less successfully.
Saved ==
    /\ \/ Saves /\ UNCHANGED changes
       \/ Requested /\ Change
       \/ Lost /\ Change
    /\ UNCHANGED <<facts, allowed, marked>>
    /\ Witness

\* The server's row, its node or Wings change.
FactChanges ==
    /\ Change
    /\ \/ \E field \in {"suspended", "maintenance", "transferring",
                        "reachable", "primary"} :
             facts' = [facts EXCEPT ![field] = ~@]
       \/ \E s \in Statuses \ {facts.status} :
             facts' = [facts EXCEPT !.status = s]
       \/ \E s \in WingsStates \ {facts.wings} :
             facts' = [facts EXCEPT !.wings = s]
    /\ UNCHANGED <<savedVars, allowed, marked>>
    /\ Witness

\* The credential is revoked, or the agent enrolled again.
CredentialChanges ==
    /\ Change
    /\ allowed' = ~allowed
    /\ marked' = FALSE
    /\ UNCHANGED <<savedVars, facts>>
    /\ Witness

-----------------------------------------------------------------------------
(* route of snapshot. *)

Unchanged == UNCHANGED <<savedVars, facts, allowed, changes>>

Arrive ==
    /\ snap.pc = "idle"
    /\ snap' = [IdleSnap EXCEPT !.pc = "auth", !.sometime = Holding,
                                !.throughout = Holding]
    /\ UNCHANGED <<marked, beat>> /\ Unchanged

Authenticate ==
    /\ snap.pc = "auth"
    /\ snap' = IF allowed THEN [snap EXCEPT !.pc = "settings"] ELSE IdleSnap
    /\ UNCHANGED <<marked, beat>> /\ Unchanged

\* The settings are read under their lock, which an update holds.
CloneSettings ==
    /\ snap.pc = "settings"
    /\ put = "idle"
    /\ snap' = [snap EXCEPT !.pc = "wings", !.settings = inUse]
    /\ UNCHANGED <<marked, beat>> /\ Unchanged

\* The node is looked up and its Wings asked; a failure is an answer as well.
AskWings ==
    /\ snap.pc = "wings"
    /\ snap' = [snap EXCEPT !.pc = "rows", !.wings = WingsNow]
    /\ UNCHANGED <<marked, beat>> /\ Unchanged

EntryOf(o) ==
    IF InSnapshot(o)
    THEN [listed |-> TRUE, state |-> ResolveState(o), autostart |-> o.autostart]
    ELSE Unlisted

\* Mutant: without an answer from Wings a server counts as offline.
ReadRowsAnyway ==
    /\ snap.pc = "rows"
    /\ snap' = [snap EXCEPT !.pc = "seen",
                            !.entry = EntryOf(Observation(snap.settings,
                                [snap.wings EXCEPT !.reachable = TRUE], RowNow))]
    /\ UNCHANGED <<marked, beat>> /\ Unchanged

\* One query reads all of the server's rows, and the entry is decided.
ReadRows ==
    /\ snap.pc = "rows"
    /\ snap' = [snap EXCEPT !.pc = "seen",
                            !.entry = EntryOf(Observation(snap.settings,
                                                          snap.wings, RowNow))]
    /\ UNCHANGED <<marked, beat>> /\ Unchanged

\* last_seen is updated, by the node alone, and the snapshot is answered.
Answer ==
    /\ snap.pc = "seen"
    /\ snap' = IdleSnap
    /\ marked' = TRUE
    /\ UNCHANGED beat /\ Unchanged

\* A call fails, or the agent gives up and the handler is dropped.
LoseSnapshot ==
    /\ snap.pc # "idle"
    /\ snap' = IdleSnap
    /\ UNCHANGED <<marked, beat>> /\ Unchanged

-----------------------------------------------------------------------------
(* route of heartbeat. *)

BeatArrives ==
    /\ beat.pc = "idle"
    /\ beat' = [pc |-> "auth", valid |-> allowed]
    /\ UNCHANGED <<marked, snap>> /\ Unchanged

\* Mutant: a revoked credential is looked up like any other.
BeatAuthenticatesAny ==
    /\ beat.pc = "auth"
    /\ beat' = [beat EXCEPT !.pc = "seen"]
    /\ UNCHANGED <<marked, snap>> /\ Unchanged

\* A version that is too long ends the request here as well.
BeatAuthenticates ==
    /\ beat.pc = "auth"
    /\ beat' \in {IdleBeat} \cup IF allowed THEN {[beat EXCEPT !.pc = "seen"]} ELSE {}
    /\ UNCHANGED <<marked, snap>> /\ Unchanged

\* Version and last_seen are updated.
BeatMarks ==
    /\ beat.pc = "seen"
    /\ beat' = IdleBeat
    /\ marked' = TRUE
    /\ UNCHANGED snap /\ Unchanged

LoseBeat ==
    /\ beat.pc = "seen"
    /\ beat' = IdleBeat
    /\ UNCHANGED <<marked, snap>> /\ Unchanged

-----------------------------------------------------------------------------

Next ==
    \/ Saved \/ FactChanges \/ CredentialChanges
    \/ Arrive \/ Authenticate \/ CloneSettings \/ AskWings \/ ReadRows
    \/ Answer \/ LoseSnapshot
    \/ BeatArrives \/ BeatAuthenticates \/ BeatMarks \/ LoseBeat

Spec == Init /\ [][Next]_vars

-----------------------------------------------------------------------------
(* Properties. *)

Outranking(st) ==
    {Priority[i] : i \in {j \in 1..Len(Priority) :
                             \E k \in (j + 1)..Len(Priority) : Priority[k] = st}}

\* An entry is put together from three moments, and may tell of a server as it
\* never was at any one of them.  But each thing it says was true at some
\* moment of the request, and nothing that outranks it was true all the time:
\* a lasting reason is never hidden by a passing one.
EntryAttested ==
    snap.pc = "seen" /\ snap.entry.listed =>
        /\ snap.entry.state \in snap.sometime
        /\ Outranking(snap.entry.state) \cap snap.throughout = {}
        /\ (IF snap.entry.autostart THEN "autostart" ELSE "manual")
               \in snap.sometime
        /\ "included" \in snap.sometime
        /\ {"all", "primary"} \cap snap.sometime # {}

\* An allocation that is managed all the time, for one and the same reason, is
\* not missing; where the primary allocation and the settings change at once,
\* it may be, for one snapshot.
ManagedIsListed ==
    snap.pc = "seen" /\ "included" \in snap.throughout
        /\ {"all", "primary"} \cap snap.throughout # {} => snap.entry.listed

\* Of an agent that is not allowed any more, only requests that were under way
\* while it was still leave their mark on last_seen.
MarksAreEarned ==
    [][marked' /\ ~marked =>
          \/ snap.pc = "seen" /\ "allowed" \in snap.sometime
          \/ beat.pc = "seen" /\ beat.valid]_vars
=============================================================================
