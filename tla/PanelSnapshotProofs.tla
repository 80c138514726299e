------------------------ MODULE PanelSnapshotProofs ------------------------
(***************************************************************************)
(* What is saved in the panel, and who leaves a mark in it, for any number *)
(* of updates under way, any settings and any number of changes.           *)
(***************************************************************************)
EXTENDS PanelSnapshot, TLAPS

USE DefaultsAssumption, ChangesAssumption

-----------------------------------------------------------------------------
(* The settings. *)

\* What nobody doubts is the same everywhere.
SettingsInv ==
    /\ put \in {"idle", "save"}
    /\ ConfirmedSurvives

LEMMA SettingsInitially == SavedInit => SettingsInv
  BY DEF SavedInit, SettingsInv, ConfirmedSurvives

LEMMA SettingsStep == SettingsInv /\ [SavedNext]_savedVars => SettingsInv'
<1> SUFFICES ASSUME SettingsInv, [SavedNext]_savedVars PROVE SettingsInv'
  OBVIOUS
<1> USE DEF SettingsInv, ConfirmedSurvives
<1>1. CASE SaveSettings
  BY <1>1 DEF SaveSettings
<1>2. CASE \E s \in Settings : ReplaceSettings(s)
  BY <1>2 DEF ReplaceSettings
<1>3. CASE LosePut
  BY <1>3 DEF LosePut
<1>4. CASE Restart
  BY <1>4 DEF Restart
<1>5. CASE UNCHANGED settingsVars
  BY <1>5 DEF settingsVars
<1>6. ASSUME NEW o \in Owners,
             \/ Upsert(o) \/ LogUpdate(o) \/ LoseUpdate(o)
             \/ \E to \in BOOLEAN : ReadPrevious(o, to)
      PROVE  UNCHANGED settingsVars
  BY <1>6 DEF Upsert, LogUpdate, LoseUpdate, ReadPrevious, settingsVars
<1>7. CASE UNCHANGED savedVars
  BY <1>7, <1>5 DEF savedVars
<1> QED
  BY <1>1, <1>2, <1>3, <1>4, <1>5, <1>6, <1>7
     DEF SavedNext, Saves, Requested, Lost

-----------------------------------------------------------------------------
(* The switch and its log. *)

UpdateType ==
    /\ update \in [Owners -> [pc: {"idle", "upsert", "log"},
                              from: BOOLEAN, to: BOOLEAN]]
    /\ switch \in BOOLEAN /\ logged \in BOOLEAN
    /\ clean \in BOOLEAN /\ chained \in BOOLEAN

Busy(o) == update[o].pc # "idle"

\* Without meetings there is one update at a time: before its write it has
\* read the value that is there, after it the log is one entry behind.
Alone ==
    clean =>
        /\ \A o, p \in Owners : Busy(o) /\ Busy(p) => o = p
        /\ \A o \in Owners : update[o].pc = "upsert" => update[o].from = switch
        /\ \A o \in Owners : update[o].pc = "log" =>
               update[o].from = logged /\ update[o].to = switch

LogInv == UpdateType /\ Alone /\ LogChains

LEMMA LogInitially == SavedInit => LogInv
<1> SUFFICES ASSUME SavedInit PROVE LogInv
  OBVIOUS
<1>1. UpdateType
  BY DEF SavedInit, UpdateType, Quiet
<1>2. Alone
  BY DEF SavedInit, Alone, Busy, Quiet
<1>3. LogChains
  BY DEF SavedInit, LogChains
<1> QED
  BY <1>1, <1>2, <1>3 DEF LogInv

LEMMA ReadKeepsLog ==
    ASSUME NEW o \in Owners, NEW to \in BOOLEAN, LogInv, ReadPrevious(o, to)
    PROVE  LogInv'
<1>1. UpdateType'
  BY DEF LogInv, UpdateType, ReadPrevious
<1>2. /\ clean' => clean /\ \A p \in Owners : update[p].pc = "idle"
      /\ update'[o] = [pc |-> "upsert", from |-> switch, to |-> to]
      /\ \A p \in Owners : p # o => update'[p] = update[p]
      /\ switch' = switch /\ logged' = logged /\ chained' = chained
  BY DEF LogInv, UpdateType, ReadPrevious
<1>3. Alone' /\ LogChains'
  BY <1>2 DEF LogInv, Alone, LogChains, Busy
<1> QED
  BY <1>1, <1>3 DEF LogInv

LEMMA UpsertKeepsLog ==
    ASSUME NEW o \in Owners, LogInv, Upsert(o)
    PROVE  LogInv'
<1>1. UpdateType'
  BY DEF LogInv, UpdateType, Upsert
<1>2. /\ update[o].pc = "upsert"
      /\ update'[o].pc = "log"
      /\ update'[o].from = update[o].from /\ update'[o].to = update[o].to
      /\ \A p \in Owners : p # o => update'[p] = update[p]
      /\ switch' = update[o].to
      /\ logged' = logged /\ chained' = chained /\ clean' = clean
  BY DEF LogInv, UpdateType, Upsert
<1>3. clean => \A p \in Owners : p # o => update[p].pc = "idle"
  BY <1>2 DEF LogInv, Alone, Busy
<1>4. Alone' /\ LogChains'
  BY <1>2, <1>3 DEF LogInv, Alone, LogChains, Busy
<1> QED
  BY <1>1, <1>4 DEF LogInv

LEMMA EntryKeepsLog ==
    ASSUME NEW o \in Owners, LogInv, LogUpdate(o)
    PROVE  LogInv'
<1>1. UpdateType'
  BY DEF LogInv, UpdateType, LogUpdate, Quiet
<1>2. /\ update[o].pc = "log"
      /\ update'[o].pc = "idle"
      /\ \A p \in Owners : p # o => update'[p] = update[p]
      /\ switch' = switch /\ logged' = update[o].to /\ clean' = clean
      /\ chained' = (chained /\ update[o].from = logged)
  BY DEF LogInv, UpdateType, LogUpdate, Quiet
<1>3. clean => \A p \in Owners : p # o => update[p].pc = "idle"
  BY <1>2 DEF LogInv, Alone, Busy
<1>4. Alone' /\ LogChains'
  BY <1>2, <1>3 DEF LogInv, Alone, LogChains, Busy
<1> QED
  BY <1>1, <1>4 DEF LogInv

LEMMA LossKeepsLog ==
    ASSUME NEW o \in Owners, LogInv, LoseUpdate(o)
    PROVE  LogInv'
<1>1. UpdateType'
  BY DEF LogInv, UpdateType, LoseUpdate, Quiet
<1>2. /\ update'[o].pc = "idle"
      /\ \A p \in Owners : p # o => update'[p] = update[p]
      /\ switch' = switch /\ logged' = logged /\ chained' = chained
      /\ clean' => clean /\ update[o].pc = "upsert"
  BY DEF LogInv, UpdateType, LoseUpdate, Quiet
<1>3. Alone' /\ LogChains'
  BY <1>2 DEF LogInv, Alone, LogChains, Busy
<1> QED
  BY <1>1, <1>3 DEF LogInv

LEMMA RestartKeepsLog == LogInv /\ Restart => LogInv'
<1> SUFFICES ASSUME LogInv, Restart PROVE LogInv'
  OBVIOUS
<1>1. UpdateType'
  BY DEF LogInv, UpdateType, Restart, Quiet
<1>2. /\ \A p \in Owners : update'[p].pc = "idle"
      /\ switch' = switch /\ logged' = logged /\ chained' = chained
      /\ clean' => clean /\ \A p \in Owners : update[p].pc # "log"
  BY DEF Restart, Quiet
<1>3. Alone' /\ LogChains'
  BY <1>2 DEF LogInv, Alone, LogChains, Busy
<1> QED
  BY <1>1, <1>3 DEF LogInv

LEMMA LogStep == LogInv /\ [SavedNext]_savedVars => LogInv'
<1> SUFFICES ASSUME LogInv, [SavedNext]_savedVars PROVE LogInv'
  OBVIOUS
<1>1. CASE UNCHANGED switchVars
  BY <1>1 DEF switchVars, LogInv, UpdateType, Alone, LogChains, Busy
<1>2. \/ UNCHANGED switchVars
      \/ \E o \in Owners, to \in BOOLEAN : ReadPrevious(o, to)
      \/ \E o \in Owners : Upsert(o) \/ LogUpdate(o) \/ LoseUpdate(o)
      \/ Restart
  BY DEF SavedNext, Saves, Requested, Lost, savedVars, ReplaceSettings,
         SaveSettings, LosePut
<1> QED
  BY <1>1, <1>2, ReadKeepsLog, UpsertKeepsLog, EntryKeepsLog, LossKeepsLog,
     RestartKeepsLog

-----------------------------------------------------------------------------
(* The composition with the snapshot and the heartbeat. *)

LEMMA StepsAreSaves == [Next]_vars => [SavedNext]_savedVars
  BY DEF Next, vars, Saved, SavedNext, FactChanges, CredentialChanges, Arrive,
         Authenticate, CloneSettings, AskWings, ReadRows, Answer, LoseSnapshot,
         BeatArrives, BeatAuthenticates, BeatMarks, LoseBeat, Unchanged

LEMMA SpecSaves == Spec => SavedSpec
<1>1. Init => SavedInit
  BY DEF Init
<1> QED
  BY <1>1, StepsAreSaves, PTL DEF Spec, SavedSpec

\* Settings whose update was confirmed stay in use and in the database through
\* restarts, whatever else is saved or read meanwhile.
THEOREM ConfirmedSettingsSurvive == Spec => []ConfirmedSurvives
<1>1. SavedSpec => []SettingsInv
  BY SettingsInitially, SettingsStep, PTL DEF SavedSpec
<1>2. SettingsInv => ConfirmedSurvives
  BY DEF SettingsInv
<1> QED
  BY <1>1, <1>2, SpecSaves, PTL

\* The activity log of the switch is a chain while updates do not meet, for any
\* number of owners.
THEOREM ActivityLogChains == Spec => []LogChains
<1>1. SavedSpec => []LogInv
  BY LogInitially, LogStep, PTL DEF SavedSpec
<1>2. LogInv => LogChains
  BY DEF LogInv
<1> QED
  BY <1>1, <1>2, SpecSaves, PTL

-----------------------------------------------------------------------------
(* Types. *)

LEMMA PolicyTypes ==
    ASSUME NEW o \in Observations
    PROVE  ResolveState(o) \in States /\ Reasons(o) \subseteq Things
  BY DEF Observations, ResolveState, Reasons, Statuses, WingsStates, States,
         AdminStates, PowerStates, Things

LEMMA ObservationType ==
    ASSUME NEW q \in Settings,
           NEW w \in [reachable: BOOLEAN, state: WingsStates],
           facts \in Facts, switch \in BOOLEAN
    PROVE  Observation(q, w, RowNow) \in Observations
  BY SettingsAssumption DEF Observation, RowNow, Observations, Facts

LEMMA HoldingType ==
    ASSUME TypeOK
    PROVE  Holding \subseteq Things
<1>1. World \in Observations
  BY ObservationType DEF World, WingsNow, TypeOK, SavedTypeOK, Facts
<1>2. Reasons(World) \subseteq Things
  BY <1>1, PolicyTypes
<1> QED
  BY <1>2 DEF Holding, Things

LEMMA SavedTypes == SavedTypeOK /\ [SavedNext]_savedVars => SavedTypeOK'
<1> SUFFICES ASSUME SavedTypeOK, [SavedNext]_savedVars PROVE SavedTypeOK'
  OBVIOUS
<1> USE DEF SavedTypeOK, settingsVars, switchVars
<1>1. CASE SaveSettings \/ LosePut
  BY <1>1 DEF SaveSettings, LosePut
<1>2. CASE \E s \in Settings : ReplaceSettings(s)
  BY <1>2 DEF ReplaceSettings
<1>3. CASE \E o \in Owners : Upsert(o)
  BY <1>3 DEF Upsert
<1>4. CASE \E o \in Owners : LogUpdate(o)
  BY <1>4 DEF LogUpdate, Quiet
<1>5. CASE \E o \in Owners : LoseUpdate(o)
  BY <1>5 DEF LoseUpdate, Quiet
<1>6. CASE \E o \in Owners, to \in BOOLEAN : ReadPrevious(o, to)
  BY <1>6 DEF ReadPrevious
<1>7. CASE Restart
  BY <1>7 DEF Restart, Quiet
<1>8. CASE UNCHANGED savedVars
  BY <1>8 DEF savedVars
<1> QED
  BY <1>1, <1>2, <1>3, <1>4, <1>5, <1>6, <1>7, <1>8
     DEF SavedNext, Saves, Requested, Lost

WorldType ==
    /\ SavedTypeOK /\ facts \in Facts
    /\ allowed \in BOOLEAN /\ marked \in BOOLEAN /\ changes \in 0..MaxChanges

LEMMA WorldTypes == TypeOK /\ [Next]_vars => WorldType'
<1> SUFFICES ASSUME TypeOK, [Next]_vars PROVE WorldType'
  OBVIOUS
<1>1. SavedTypeOK'
  BY SavedTypes, StepsAreSaves DEF TypeOK
<1>2. facts' \in Facts
  <2>1. CASE FactChanges
    <3>1. ASSUME NEW field \in {"suspended", "maintenance", "transferring",
                                "reachable", "primary"},
                 facts' = [facts EXCEPT ![field] = ~@]
          PROVE  facts' \in Facts
      BY <3>1 DEF TypeOK, Facts
    <3>2. ASSUME NEW s \in Statuses, facts' = [facts EXCEPT !.status = s]
          PROVE  facts' \in Facts
      BY <3>2 DEF TypeOK, Facts
    <3>3. ASSUME NEW s \in WingsStates, facts' = [facts EXCEPT !.wings = s]
          PROVE  facts' \in Facts
      BY <3>3 DEF TypeOK, Facts
    <3> QED
      BY <2>1, <3>1, <3>2, <3>3 DEF FactChanges
  <2>2. CASE UNCHANGED facts
    BY <2>2 DEF TypeOK
  <2> QED
    BY <2>1, <2>2 DEF Next, vars, Saved, CredentialChanges, Arrive,
         Authenticate, CloneSettings, AskWings, ReadRows, Answer, LoseSnapshot,
         BeatArrives, BeatAuthenticates, BeatMarks, LoseBeat, Unchanged
<1>3. allowed' \in BOOLEAN
  BY DEF TypeOK, Next, vars, Saved, FactChanges, CredentialChanges, Change,
         Arrive, Authenticate, CloneSettings, AskWings, ReadRows, Answer,
         LoseSnapshot, BeatArrives, BeatAuthenticates, BeatMarks, LoseBeat,
         Unchanged
<1>4. marked' \in BOOLEAN
  BY DEF TypeOK, Next, vars, Saved, FactChanges, CredentialChanges, Change,
         Arrive, Authenticate, CloneSettings, AskWings, ReadRows, Answer,
         LoseSnapshot, BeatArrives, BeatAuthenticates, BeatMarks, LoseBeat,
         Unchanged
<1>5. changes' \in 0..MaxChanges
  <2>1. CASE Change
    BY <2>1 DEF Change, TypeOK
  <2>2. CASE UNCHANGED changes
    BY <2>2 DEF TypeOK
  <2> QED
    BY <2>1, <2>2 DEF Next, vars, Saved, FactChanges, CredentialChanges,
         Arrive, Authenticate, CloneSettings, AskWings, ReadRows, Answer,
         LoseSnapshot, BeatArrives, BeatAuthenticates, BeatMarks, LoseBeat,
         Unchanged
<1> QED
  BY <1>1, <1>2, <1>3, <1>4, <1>5 DEF WorldType

LEMMA HoldingTypeNext ==
    ASSUME WorldType'
    PROVE  Holding' \subseteq Things
<1>1. World' \in Observations
  BY SettingsAssumption
     DEF World, Observation, RowNow, WingsNow, Observations, Facts, WorldType,
         SavedTypeOK
<1>2. Reasons(World)' \subseteq Things
  BY <1>1 DEF Observations, Reasons, Statuses, WingsStates, States,
              AdminStates, PowerStates, Things
<1> QED
  BY <1>2 DEF Holding, Things

LEMMA TypeStep == TypeOK /\ [Next]_vars => TypeOK'
<1> SUFFICES ASSUME TypeOK, [Next]_vars PROVE TypeOK'
  OBVIOUS
<1>1. WorldType'
  BY WorldTypes
<1>2. Holding \subseteq Things /\ Holding' \subseteq Things
  BY <1>1, HoldingType, HoldingTypeNext
<1>3. IdleSnap.settings \in Settings /\ Unlisted \in Entries
  BY DEF IdleSnap, Unlisted, Entries, States, PowerStates
<1> DEFINE SnapType == snap \in
        [pc: {"idle", "auth", "settings", "wings", "rows", "seen"},
         settings: Settings, entry: Entries,
         wings: [reachable: BOOLEAN, state: WingsStates],
         sometime: SUBSET Things, throughout: SUBSET Things]
<1> DEFINE BeatType == beat \in [pc: {"idle", "auth", "seen"}, valid: BOOLEAN]
<1>4. SnapType /\ BeatType
  BY DEF TypeOK
<1>5. IdleSnap \in [pc: {"idle"}, settings: Settings, entry: Entries,
                    wings: [reachable: BOOLEAN, state: WingsStates],
                    sometime: SUBSET Things, throughout: SUBSET Things]
  BY <1>3 DEF IdleSnap, WingsStates
<1>6. CASE Witness
  BY <1>1, <1>2, <1>4, <1>6 DEF Witness, WorldType, TypeOK
<1>7. CASE UNCHANGED <<snap, beat>>
  BY <1>1, <1>4, <1>7 DEF WorldType, TypeOK
<1>8. CASE Arrive
  BY <1>1, <1>2, <1>4, <1>5, <1>8 DEF Arrive, WorldType, TypeOK
<1>9. CASE Authenticate
  BY <1>1, <1>4, <1>5, <1>9 DEF Authenticate, WorldType, TypeOK
<1>10. CASE CloneSettings
  BY <1>1, <1>4, <1>10 DEF CloneSettings, WorldType, TypeOK, SavedTypeOK
<1>11. CASE AskWings
  BY <1>1, <1>4, <1>11 DEF AskWings, WingsNow, WorldType, TypeOK, Facts
<1>12. CASE ReadRows
  <2>1. ASSUME NEW o \in Observations PROVE EntryOf(o) \in Entries
    BY <1>3, PolicyTypes DEF EntryOf, Entries, Observations
  <2>2. EntryOf(Observation(snap.settings, snap.wings, RowNow)) \in Entries
    BY <1>4, <2>1, ObservationType DEF TypeOK, SavedTypeOK
  <2> QED
    BY <1>1, <1>4, <2>2, <1>12 DEF ReadRows, WorldType, TypeOK
<1>13. CASE Answer \/ LoseSnapshot
  BY <1>1, <1>4, <1>5, <1>13 DEF Answer, LoseSnapshot, WorldType, TypeOK
<1>14. CASE BeatArrives \/ BeatAuthenticates \/ BeatMarks \/ LoseBeat
  <2>1. UNCHANGED snap
    BY <1>14 DEF BeatArrives, BeatAuthenticates, BeatMarks, LoseBeat
  <2>2. BeatArrives => BeatType'
    BY DEF BeatArrives, TypeOK
  <2>3. beat' = IdleBeat => BeatType'
    BY DEF IdleBeat
  <2>4. beat' = [beat EXCEPT !.pc = "seen"] => BeatType'
    BY <1>4
  <2>5. BeatType'
    BY <1>14, <2>2, <2>3, <2>4 DEF BeatAuthenticates, BeatMarks, LoseBeat
  <2> QED
    BY <1>1, <1>4, <2>1, <2>5 DEF WorldType, TypeOK
<1>15. Witness \/ UNCHANGED <<snap, beat>> \/ Arrive \/ Authenticate
       \/ CloneSettings \/ AskWings \/ ReadRows \/ Answer \/ LoseSnapshot
       \/ BeatArrives \/ BeatAuthenticates \/ BeatMarks \/ LoseBeat
  BY DEF Next, vars, Saved, FactChanges, CredentialChanges
<1> HIDE DEF SnapType, BeatType
<1> QED
  BY <1>6, <1>7, <1>8, <1>9, <1>10, <1>11, <1>12, <1>13, <1>14, <1>15

\* Every variable keeps its type.
THEOREM TypeCorrect == Spec => []TypeOK
<1>1. Init => TypeOK
  <2> SUFFICES ASSUME Init PROVE TypeOK
    OBVIOUS
  <2>1. SavedTypeOK
    BY DEF Init, SavedInit, SavedTypeOK, Quiet
  <2>2. facts \in Facts
    BY DEF Init, Facts, Statuses, WingsStates, PowerStates
  <2>3. Unlisted \in Entries
    BY DEF Unlisted, Entries, States, PowerStates
  <2>4. snap \in [pc: {"idle"}, settings: Settings, entry: Entries,
                  wings: [reachable: BOOLEAN, state: WingsStates],
                  sometime: SUBSET Things, throughout: SUBSET Things]
    BY <2>3 DEF Init, IdleSnap, WingsStates
  <2>5. beat \in [pc: {"idle"}, valid: BOOLEAN]
    BY DEF Init, IdleBeat
  <2>6. changes \in 0..MaxChanges
    BY DEF Init
  <2>7. allowed \in BOOLEAN /\ marked \in BOOLEAN
    BY DEF Init
  <2> QED
    BY <2>1, <2>2, <2>4, <2>5, <2>6, <2>7 DEF TypeOK
<1> QED
  BY <1>1, TypeStep, PTL DEF Spec

-----------------------------------------------------------------------------
(* Marks. *)

\* A request that got past its authentication came while it was allowed.
MarkInv ==
    /\ snap.pc \in {"settings", "wings", "rows", "seen"} =>
           "allowed" \in snap.sometime
    /\ snap.pc = "auth" /\ allowed => "allowed" \in snap.sometime
    /\ beat.pc = "seen" => beat.valid
    /\ beat.pc = "auth" /\ allowed => beat.valid

LEMMA AllowedHolds == allowed => "allowed" \in Holding
  BY DEF Holding

LEMMA WitnessKeepsMarks == TypeOK /\ MarkInv /\ Witness => MarkInv'
<1> SUFFICES ASSUME TypeOK, MarkInv, Witness PROVE MarkInv'
  OBVIOUS
<1>1. allowed' => "allowed" \in Holding'
  BY DEF Holding
<1>2. CASE snap.pc = "idle" /\ beat.pc = "idle"
  BY <1>2 DEF Witness, MarkInv, TypeOK
<1>3. CASE snap.pc # "idle" /\ beat.pc = "idle"
  BY <1>1, <1>3 DEF Witness, MarkInv, TypeOK
<1>4. CASE snap.pc = "idle" /\ beat.pc # "idle"
  BY <1>4 DEF Witness, MarkInv, TypeOK
<1>5. CASE snap.pc # "idle" /\ beat.pc # "idle"
  BY <1>1, <1>5 DEF Witness, MarkInv, TypeOK
<1> QED
  BY <1>2, <1>3, <1>4, <1>5

LEMMA RequestsKeepMarks ==
    TypeOK /\ MarkInv /\ Unchanged /\ (\/ Arrive \/ Authenticate \/ CloneSettings
                             \/ AskWings \/ ReadRows \/ Answer \/ LoseSnapshot
                             \/ BeatArrives \/ BeatAuthenticates \/ BeatMarks
                             \/ LoseBeat) => MarkInv'
<1> SUFFICES ASSUME TypeOK, MarkInv, Unchanged PROVE
      (\/ Arrive \/ Authenticate \/ CloneSettings \/ AskWings \/ ReadRows
       \/ Answer \/ LoseSnapshot \/ BeatArrives \/ BeatAuthenticates
       \/ BeatMarks \/ LoseBeat) => MarkInv'
  OBVIOUS
<1> USE DEF TypeOK, MarkInv, Unchanged, IdleSnap, IdleBeat
<1>1. CASE Arrive
  BY <1>1, AllowedHolds DEF Arrive
<1>2. CASE Authenticate
  BY <1>2 DEF Authenticate
<1>3. CASE CloneSettings
  BY <1>3 DEF CloneSettings
<1>4. CASE AskWings
  BY <1>4 DEF AskWings
<1>5. CASE ReadRows
  BY <1>5 DEF ReadRows
<1>6. CASE Answer \/ LoseSnapshot
  BY <1>6 DEF Answer, LoseSnapshot
<1>7. CASE BeatArrives
  BY <1>7 DEF BeatArrives
<1>8. CASE BeatAuthenticates
  BY <1>8 DEF BeatAuthenticates
<1>9. CASE BeatMarks \/ LoseBeat
  BY <1>9 DEF BeatMarks, LoseBeat
<1> QED
  BY <1>1, <1>2, <1>3, <1>4, <1>5, <1>6, <1>7, <1>8, <1>9

LEMMA MarkStep == TypeOK /\ MarkInv /\ [Next]_vars => MarkInv'
<1>1. CASE Saved \/ FactChanges \/ CredentialChanges
  BY <1>1, WitnessKeepsMarks DEF Saved, FactChanges, CredentialChanges
<1>2. CASE UNCHANGED vars
  BY <1>2 DEF vars, MarkInv
<1>3. [Next]_vars => \/ Saved \/ FactChanges \/ CredentialChanges
                     \/ UNCHANGED vars
                     \/ /\ Unchanged
                        /\ \/ Arrive \/ Authenticate \/ CloneSettings
                           \/ AskWings \/ ReadRows \/ Answer \/ LoseSnapshot
                           \/ BeatArrives \/ BeatAuthenticates \/ BeatMarks
                           \/ LoseBeat
  BY DEF Next, Arrive, Authenticate, CloneSettings, AskWings, ReadRows, Answer,
         LoseSnapshot, BeatArrives, BeatAuthenticates, BeatMarks, LoseBeat
<1> QED
  BY <1>1, <1>2, <1>3, RequestsKeepMarks

\* Of an agent whose credential is revoked only requests that overlapped its
\* validity mark last_seen.
THEOREM MarksEarned == Spec => MarksAreEarned
<1>1. Init => MarkInv
  BY DEF Init, MarkInv, IdleSnap, IdleBeat
<1>2. MarkInv /\ [Next]_vars =>
          [marked' /\ ~marked =>
              \/ snap.pc = "seen" /\ "allowed" \in snap.sometime
              \/ beat.pc = "seen" /\ beat.valid]_vars
  BY DEF Next, vars, MarkInv, Saved, FactChanges, CredentialChanges, Arrive,
         Authenticate, CloneSettings, AskWings, ReadRows, Answer, LoseSnapshot,
         BeatArrives, BeatAuthenticates, BeatMarks, LoseBeat
<1> QED
  BY <1>1, <1>2, MarkStep, TypeCorrect, PTL DEF Spec, MarksAreEarned

-----------------------------------------------------------------------------
(* Entries. *)

LEMMA Ranks ==
    /\ Outranking("suspended") = {}
    /\ Outranking("node_maintenance") = {"suspended"}
    /\ Outranking("transferring") = {"suspended", "node_maintenance"}
    /\ Outranking("installing") =
           {"suspended", "node_maintenance", "transferring"}
    /\ Outranking("install_failed") =
           {"suspended", "node_maintenance", "transferring", "installing"}
    /\ Outranking("restoring_backup") =
           {"suspended", "node_maintenance", "transferring", "installing",
            "install_failed"}
    /\ Outranking("backup_restore_failed") =
           AdminStates \ {"backup_restore_failed"}
    /\ Outranking("node_unreachable") = AdminStates
    /\ \A st \in PowerStates :
          Outranking(st) \subseteq
              (AdminStates \cup PowerStates \cup {"node_unreachable"}) \ {st}
  BY DEF Outranking, Priority, AdminStates, PowerStates

Excludes(q) == ~q.enabled \/ q.serverOut \/ q.eggOut

WingsReasons == PowerStates \cup {"node_unreachable"}
WingsReason(w) ==
    IF ~w.reachable THEN "node_unreachable"
    ELSE IF w.state = "missing" THEN "offline" ELSE w.state

LEMMA WhatHolds ==
    ASSUME TypeOK
    PROVE  /\ "all" \in Holding <=> inUse.all
           /\ "included" \in Holding <=> ~Excludes(inUse)
           /\ "primary" \in Holding <=> facts.primary
           /\ "autostart" \in Holding <=> switch
           /\ "manual" \in Holding <=> ~switch
           /\ "suspended" \in Holding <=> facts.suspended
           /\ "node_maintenance" \in Holding <=> facts.maintenance
           /\ "transferring" \in Holding <=> facts.transferring
           /\ \A st \in Statuses \ {"none"} :
                 st \in Holding <=> facts.status = st
           /\ \A st \in WingsReasons :
                 st \in Holding <=> st = WingsReason(WingsNow)
<1> DEFINE status == facts.status
           power == WingsReason(WingsNow)
<1>1. /\ status \in {"installing", "install_failed", "restoring_backup",
                      "backup_restore_failed", "none"}
      /\ power \in {"offline", "starting", "stopping", "running",
                     "node_unreachable"}
  BY DEF TypeOK, Facts, Statuses, WingsStates, PowerStates, WingsReason, WingsNow
<1>2. Holding =
        {status, power,
         IF facts.suspended THEN "suspended" ELSE "none",
         IF facts.maintenance THEN "node_maintenance" ELSE "none",
         IF facts.transferring THEN "transferring" ELSE "none",
         IF inUse.all THEN "all" ELSE "none",
         IF facts.primary THEN "primary" ELSE "none",
         IF Excludes(inUse) THEN "excluded" ELSE "included",
         IF switch THEN "autostart" ELSE "manual",
         IF allowed THEN "allowed" ELSE "none"}
  BY DEF Holding, Reasons, World, Observation, WingsNow, RowNow, WingsReason,
         IsExcluded, Excludes
<1> HIDE DEF status, power
<1>3. /\ "all" \in Holding <=> inUse.all
      /\ "included" \in Holding <=> ~Excludes(inUse)
      /\ "primary" \in Holding <=> facts.primary
  BY <1>1, <1>2
<1>4. /\ "autostart" \in Holding <=> switch
      /\ "manual" \in Holding <=> ~switch
  BY <1>1, <1>2
<1>5. /\ "suspended" \in Holding <=> facts.suspended
      /\ "node_maintenance" \in Holding <=> facts.maintenance
      /\ "transferring" \in Holding <=> facts.transferring
  BY <1>1, <1>2
<1>6. \A st \in Statuses \ {"none"} : st \in Holding <=> status = st
  BY <1>1, <1>2 DEF Statuses
<1>7. \A st \in WingsReasons : st \in Holding <=> st = power
  BY <1>1, <1>2 DEF WingsReasons, PowerStates
<1> QED
  BY <1>3, <1>4, <1>5, <1>6, <1>7 DEF status, power

\* Each thing that has been read held when it was read, so what excludes it did
\* not hold all the time.
Witnessed == snap.pc # "idle" =>
    Holding \subseteq snap.sometime /\ snap.throughout \subseteq Holding

SettingsRead == snap.pc \in {"wings", "rows"} =>
    /\ snap.settings.all => "all" \in snap.sometime
    /\ ~snap.settings.all => "all" \notin snap.throughout
    /\ ~Excludes(snap.settings) => "included" \in snap.sometime
    /\ Excludes(snap.settings) => "included" \notin snap.throughout

WingsRead == snap.pc = "rows" =>
    /\ WingsReason(snap.wings) \in snap.sometime
    /\ \A st \in WingsReasons :
          st # WingsReason(snap.wings) => st \notin snap.throughout

Evidence == SettingsRead /\ WingsRead /\ EntryAttested /\ ManagedIsListed

EntryInv == Witnessed /\ Evidence

\* Evidence is not lost as time goes by.
LEMMA EvidenceStays ==
    ASSUME Evidence,
           snap'.pc = snap.pc, snap'.settings = snap.settings,
           snap'.wings = snap.wings, snap'.entry = snap.entry,
           snap.sometime \subseteq snap'.sometime,
           snap'.throughout \subseteq snap.throughout
    PROVE  Evidence'
<1>1. SettingsRead'
  BY DEF Evidence, SettingsRead, Excludes
<1>2. WingsRead'
  BY DEF Evidence, WingsRead, WingsReason
<1>3. EntryAttested'
  BY DEF Evidence, EntryAttested
<1>4. ManagedIsListed'
  BY DEF Evidence, ManagedIsListed
<1> QED
  BY <1>1, <1>2, <1>3, <1>4 DEF Evidence

LEMMA IdleIsFine ==
    ASSUME snap'.pc \in {"idle", "auth", "settings"}
    PROVE  Evidence'
  BY DEF Evidence, SettingsRead, WingsRead, EntryAttested, ManagedIsListed

LEMMA SameWorldHolds == Unchanged => Holding' = Holding
  BY DEF Unchanged, Holding, Reasons, World, Observation, WingsNow, RowNow,
         IsExcluded, savedVars, settingsVars, switchVars

\* The step that decides on the entry.
LEMMA EntryDecided ==
    ASSUME TypeOK, EntryInv, ReadRows
    PROVE  EntryAttested' /\ ManagedIsListed'
<1> DEFINE o == Observation(snap.settings, snap.wings, RowNow)
           st == ResolveState(o)
<1>1. /\ snap'.pc = "seen" /\ snap'.entry = EntryOf(o)
      /\ snap'.sometime = snap.sometime /\ snap'.throughout = snap.throughout
      /\ snap.pc = "rows"
  BY DEF ReadRows, TypeOK
<1>2. /\ Holding \subseteq snap.sometime /\ snap.throughout \subseteq Holding
      /\ SettingsRead /\ WingsRead
  BY <1>1 DEF EntryInv, Witnessed, Evidence
<1>3. /\ o.suspended = facts.suspended /\ o.maintenance = facts.maintenance
      /\ o.transferring = facts.transferring /\ o.status = facts.status
      /\ o.primary = facts.primary /\ o.autostart = switch
      /\ o.all = snap.settings.all
      /\ IsExcluded(o) <=> Excludes(snap.settings)
      /\ o.reachable = snap.wings.reachable /\ o.wings = snap.wings.state
  BY DEF Observation, RowNow, IsExcluded, Excludes
<1>4. /\ facts.status \in Statuses /\ snap.wings.state \in WingsStates
      /\ snap.wings.reachable \in BOOLEAN
      /\ facts.suspended \in BOOLEAN /\ facts.maintenance \in BOOLEAN
      /\ facts.transferring \in BOOLEAN /\ facts.primary \in BOOLEAN
      /\ snap.settings.all \in BOOLEAN /\ switch \in BOOLEAN
  BY SettingsAssumption DEF TypeOK, SavedTypeOK, Facts
<1> HIDE DEF o
<1>5. st \in snap.sometime /\ Outranking(st) \cap snap.throughout = {}
  <2>1. CASE facts.suspended
    BY <1>2, <1>3, <2>1, Ranks, WhatHolds DEF ResolveState
  <2>2. CASE ~facts.suspended /\ facts.maintenance
    BY <1>2, <1>3, <2>2, Ranks, WhatHolds DEF ResolveState
  <2>3. CASE ~facts.suspended /\ ~facts.maintenance /\ facts.transferring
    BY <1>2, <1>3, <2>3, Ranks, WhatHolds DEF ResolveState
  <2>4. CASE /\ ~facts.suspended /\ ~facts.maintenance /\ ~facts.transferring
             /\ facts.status # "none"
    <3>1. st = facts.status
      BY <1>3, <2>4 DEF ResolveState
    <3> QED
      BY <1>2, <1>4, <2>4, <3>1, Ranks, WhatHolds DEF Statuses, AdminStates
  <2>5. CASE /\ ~facts.suspended /\ ~facts.maintenance /\ ~facts.transferring
             /\ facts.status = "none"
    <3>1. st = WingsReason(snap.wings)
      BY <1>3, <2>5 DEF ResolveState, WingsReason
    <3>2. st \in WingsReasons
      BY <1>4, <3>1 DEF WingsReason, WingsReasons, WingsStates, PowerStates
    <3>3. st \in snap.sometime
          /\ \A x \in WingsReasons \ {st} : x \notin snap.throughout
      BY <1>1, <1>2, <3>1 DEF WingsRead
    <3>4. \A x \in AdminStates : x \notin Holding
      BY <2>5, WhatHolds DEF AdminStates, Statuses
    <3>5. Outranking(st) \subseteq AdminStates \cup (WingsReasons \ {st})
      BY <3>2, Ranks DEF WingsReasons, AdminStates, PowerStates
    <3> QED
      BY <1>2, <3>3, <3>4, <3>5
  <2> QED
    BY <1>4, <2>1, <2>2, <2>3, <2>4, <2>5
<1> HIDE DEF st
<1>6. CASE InSnapshot(o)
  <2>1. EntryOf(o) = [listed |-> TRUE, state |-> st, autostart |-> switch]
    BY <1>3, <1>6 DEF EntryOf, st
  <2>2. (IF switch THEN "autostart" ELSE "manual") \in snap.sometime
    BY <1>2, <1>4, WhatHolds
  <2>3. "included" \in snap.sometime
    BY <1>1, <1>2, <1>3, <1>6 DEF InSnapshot, SettingsRead
  <2>4. {"all", "primary"} \cap snap.sometime # {}
    BY <1>1, <1>2, <1>3, <1>6, WhatHolds DEF InSnapshot, SettingsRead
  <2> QED
    BY <1>1, <1>5, <2>1, <2>2, <2>3, <2>4 DEF EntryAttested, ManagedIsListed
<1>7. CASE ~InSnapshot(o)
  <2>1. EntryOf(o).listed = FALSE
    BY <1>7 DEF EntryOf, Unlisted
  <2>2. \/ "included" \notin snap.throughout
        \/ {"all", "primary"} \cap snap.throughout = {}
    BY <1>1, <1>2, <1>3, <1>4, <1>7, WhatHolds DEF InSnapshot, SettingsRead
  <2> QED
    BY <1>1, <2>1, <2>2 DEF EntryAttested, ManagedIsListed
<1> QED
  BY <1>6, <1>7

LEMMA EntryStep == TypeOK /\ EntryInv /\ [Next]_vars => EntryInv'
<1> SUFFICES ASSUME TypeOK, EntryInv, [Next]_vars PROVE EntryInv'
  OBVIOUS
<1>1. CASE Witness
  <2>1. CASE snap.pc = "idle"
    BY <1>1, <2>1, IdleIsFine DEF Witness, EntryInv, Witnessed
  <2>2. CASE snap.pc # "idle"
    <3>1. /\ snap'.sometime = snap.sometime \cup Holding'
          /\ snap'.throughout = snap.throughout \cap Holding'
          /\ snap'.pc = snap.pc /\ snap'.settings = snap.settings
          /\ snap'.wings = snap.wings /\ snap'.entry = snap.entry
      BY <1>1, <2>2 DEF Witness, TypeOK
    <3>2. Witnessed'
      BY <3>1 DEF Witnessed
    <3>3. Evidence'
      BY <3>1, EvidenceStays DEF EntryInv
    <3> QED
      BY <3>2, <3>3 DEF EntryInv
  <2> QED
    BY <2>1, <2>2
<1>2. CASE Holding' = Holding /\ UNCHANGED snap
  BY <1>2, EvidenceStays DEF EntryInv, Witnessed
<1>3. CASE Unchanged /\ Arrive
  <2>1. snap'.pc = "auth" /\ snap'.sometime = Holding /\ snap'.throughout = Holding
    BY <1>3 DEF Arrive, IdleSnap
  <2> QED
    BY <1>3, <2>1, IdleIsFine, SameWorldHolds DEF EntryInv, Witnessed
<1>4. CASE Unchanged /\ (Authenticate \/ Answer \/ LoseSnapshot)
  <2>1. \/ snap'.pc = "idle"
        \/ /\ snap'.pc = "settings" /\ snap.pc = "auth"
           /\ snap'.sometime = snap.sometime
           /\ snap'.throughout = snap.throughout
    BY <1>4 DEF Authenticate, Answer, LoseSnapshot, IdleSnap, TypeOK
  <2> QED
    BY <1>4, <2>1, IdleIsFine, SameWorldHolds DEF EntryInv, Witnessed
<1>5. CASE Unchanged /\ CloneSettings
  <2>1. /\ snap.pc = "settings" /\ snap'.pc = "wings" /\ snap'.settings = inUse
        /\ snap'.sometime = snap.sometime
        /\ snap'.throughout = snap.throughout
    BY <1>5 DEF CloneSettings, TypeOK
  <2>2. Witnessed'
    BY <1>5, <2>1, SameWorldHolds DEF EntryInv, Witnessed
  <2>3. SettingsRead'
    BY <2>1, WhatHolds DEF EntryInv, Witnessed, SettingsRead, Excludes
  <2> QED
    BY <2>1, <2>2, <2>3
       DEF EntryInv, Evidence, WingsRead, EntryAttested, ManagedIsListed
<1>6. CASE Unchanged /\ AskWings
  <2>1. /\ snap.pc = "wings" /\ snap'.pc = "rows" /\ snap'.wings = WingsNow
        /\ snap'.settings = snap.settings
        /\ snap'.sometime = snap.sometime
        /\ snap'.throughout = snap.throughout
    BY <1>6 DEF AskWings, TypeOK
  <2>2. Witnessed'
    BY <1>6, <2>1, SameWorldHolds DEF EntryInv, Witnessed
  <2>3. SettingsRead'
    BY <2>1 DEF EntryInv, Evidence, SettingsRead, Excludes
  <2>4. WingsReason(WingsNow) \in WingsReasons
    BY DEF WingsReason, WingsReasons, WingsNow, TypeOK, Facts, WingsStates,
           PowerStates
  <2>5. WingsReason(snap'.wings) = WingsReason(WingsNow)
    BY <2>1
  <2>6. WingsRead'
    BY <2>1, <2>4, <2>5, WhatHolds DEF EntryInv, Witnessed, WingsRead
  <2> QED
    BY <2>1, <2>2, <2>3, <2>6
       DEF EntryInv, Evidence, EntryAttested, ManagedIsListed
<1>7. CASE Unchanged /\ ReadRows
  <2>1. /\ snap.pc = "rows" /\ snap'.pc = "seen"
        /\ snap'.sometime = snap.sometime
        /\ snap'.throughout = snap.throughout
    BY <1>7 DEF ReadRows, TypeOK
  <2>2. Witnessed'
    BY <1>7, <2>1, SameWorldHolds DEF EntryInv, Witnessed
  <2> QED
    BY <1>7, <2>1, <2>2, EntryDecided
       DEF EntryInv, Evidence, SettingsRead, WingsRead
<1>8. \/ Witness \/ (Holding' = Holding /\ UNCHANGED snap)
      \/ /\ Unchanged
         /\ \/ Arrive \/ Authenticate \/ CloneSettings \/ AskWings \/ ReadRows
            \/ Answer \/ LoseSnapshot
  <2>1. UNCHANGED vars => Unchanged /\ UNCHANGED snap
    BY DEF vars, Unchanged
  <2>2. BeatArrives \/ BeatAuthenticates \/ BeatMarks \/ LoseBeat
            => Unchanged /\ UNCHANGED snap
    BY DEF BeatArrives, BeatAuthenticates, BeatMarks, LoseBeat
  <2> QED
    BY <2>1, <2>2, SameWorldHolds
       DEF Next, Saved, FactChanges, CredentialChanges, Arrive, Authenticate,
           CloneSettings, AskWings, ReadRows, Answer, LoseSnapshot
<1> QED
  BY <1>1, <1>2, <1>3, <1>4, <1>5, <1>6, <1>7, <1>8

LEMMA EntryInvariance == Spec => []EntryInv
<1>1. Init => EntryInv
  BY IdleIsFine
     DEF Init, IdleSnap, EntryInv, Witnessed, Evidence, SettingsRead, WingsRead,
         EntryAttested, ManagedIsListed
<1> QED
  BY <1>1, EntryStep, TypeCorrect, PTL DEF Spec

\* Whatever changes while a snapshot is made: each thing an entry says held at
\* some moment of the request, and nothing that outranks it held all the time.
THEOREM EntriesAttested == Spec => []EntryAttested
<1>1. EntryInv => EntryAttested
  BY DEF EntryInv, Evidence
<1> QED
  BY <1>1, EntryInvariance, PTL

\* What is managed all the time, for one and the same reason, is listed.
THEOREM ManagedListed == Spec => []ManagedIsListed
<1>1. EntryInv => ManagedIsListed
  BY DEF EntryInv, Evidence
<1> QED
  BY <1>1, EntryInvariance, PTL
=============================================================================
