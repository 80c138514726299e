--------------------------- MODULE PanelSettings ---------------------------
(***************************************************************************)
(* What administrators and owners save in the panel: the settings of the   *)
(* extension, and one server's switch with its activity log.  Each update  *)
(* is a request that may fail or be dropped between any two of its calls.  *)
(***************************************************************************)

CONSTANTS
    Owners,      \* updates of the switch under way at once
    Settings,    \* the settings that validate accepts
    Defaults     \* those of a new installation

ASSUME DefaultsAssumption == Defaults \in Settings

VARIABLES
    inUse,      \* the settings in the panel's memory
    stored,     \* and in its database
    put,        \* the update of the settings that holds the lock
    confirmed,  \* the settings that were last saved with success
    doubtful,   \* has an update ended without success since
    switch,     \* autostart_on_join of the server's row
    update,     \* the updates of the switch
    logged,     \* what the last entry of the activity log says it became
    chained,    \* has each entry begun where the one before it ended
    clean       \* has no update of the switch met another, or been cut short

settingsVars == <<inUse, stored, put, confirmed, doubtful>>
switchVars == <<switch, update, logged, chained, clean>>
savedVars == <<settingsVars, switchVars>>

Quiet == [pc |-> "idle", from |-> FALSE, to |-> FALSE]

SavedTypeOK ==
    /\ inUse \in Settings /\ stored \in Settings /\ confirmed \in Settings
    /\ put \in {"idle", "save"}
    /\ switch \in BOOLEAN /\ logged \in BOOLEAN
    /\ doubtful \in BOOLEAN /\ chained \in BOOLEAN /\ clean \in BOOLEAN
    /\ update \in [Owners -> [pc: {"idle", "upsert", "log"},
                              from: BOOLEAN, to: BOOLEAN]]

SavedInit ==
    /\ inUse = Defaults /\ stored = Defaults /\ confirmed = Defaults
    /\ put = "idle" /\ doubtful = FALSE
    /\ switch = FALSE
    /\ update = [o \in Owners |-> Quiet]
    /\ logged = FALSE /\ chained = TRUE /\ clean = TRUE

-----------------------------------------------------------------------------
(* settings_put.  Data that validate refuses is answered before this. *)

\* The lock is taken and the settings in memory are replaced.
ReplaceSettings(s) ==
    /\ put = "idle"
    /\ put' = "save"
    /\ inUse' = s
    /\ UNCHANGED <<stored, confirmed, doubtful, switchVars>>

\* Mutant: what is saved was taken before the data was put in place.
SaveBefore ==
    /\ put = "save"
    /\ put' = "idle"
    /\ confirmed' = inUse
    /\ doubtful' = FALSE
    /\ UNCHANGED <<inUse, stored, switchVars>>

\* The settings are saved.  What is left, an entry in the activity log and the
\* answer, does not fail and changes nothing here.
SaveSettings ==
    /\ put = "save"
    /\ put' = "idle"
    /\ stored' = inUse
    /\ confirmed' = inUse
    /\ doubtful' = FALSE
    /\ UNCHANGED <<inUse, switchVars>>

\* save fails, or the request is dropped: nobody takes the replaced settings
\* back, and they may have reached the database or not.
LosePut ==
    /\ put # "idle"
    /\ put' = "idle"
    /\ stored' \in {stored, inUse}
    /\ doubtful' = TRUE
    /\ UNCHANGED <<inUse, confirmed, switchVars>>

-----------------------------------------------------------------------------
(* route of server's put. *)

\* The previous value is read.
ReadPrevious(o, to) ==
    /\ update[o].pc = "idle"
    /\ update' = [update EXCEPT ![o] =
                      [pc |-> "upsert", from |-> switch, to |-> to]]
    /\ clean' = (clean /\ \A p \in Owners : update[p].pc = "idle")
    /\ UNCHANGED <<settingsVars, switch, logged, chained>>

Upsert(o) ==
    /\ update[o].pc = "upsert"
    /\ update' = [update EXCEPT ![o].pc = "log"]
    /\ switch' = update[o].to
    /\ UNCHANGED <<settingsVars, logged, chained, clean>>

\* Mutant: the previous value is read after it has been replaced.
LogTooLate(o) ==
    /\ update[o].pc = "log"
    /\ update' = [update EXCEPT ![o] = Quiet]
    /\ logged' = update[o].to
    /\ chained' = (chained /\ switch = logged)
    /\ UNCHANGED <<settingsVars, switch, clean>>

\* The entry is written, and the update answered.
LogUpdate(o) ==
    /\ update[o].pc = "log"
    /\ update' = [update EXCEPT ![o] = Quiet]
    /\ logged' = update[o].to
    /\ chained' = (chained /\ update[o].from = logged)
    /\ UNCHANGED <<settingsVars, switch, clean>>

\* A call fails, or the request is dropped.
LoseUpdate(o) ==
    /\ update[o].pc # "idle"
    /\ update' = [update EXCEPT ![o] = Quiet]
    /\ clean' = (clean /\ update[o].pc = "upsert")
    /\ UNCHANGED <<settingsVars, switch, logged, chained>>

\* The panel stops with everything under way, and reads its settings again.
\* They are read by the version that wrote them: what cannot be parsed would
\* become the defaults, which are what the database without settings stands for
\* in SavedInit.
Restart ==
    /\ put' = "idle"
    /\ inUse' = stored
    /\ doubtful' = (doubtful \/ put # "idle")
    /\ update' = [o \in Owners |-> Quiet]
    /\ clean' = (clean /\ \A o \in Owners : update[o].pc # "log")
    /\ UNCHANGED <<stored, confirmed, switch, logged, chained>>

-----------------------------------------------------------------------------

\* What requests do, and what goes wrong with them.
Saves ==
    \/ SaveSettings
    \/ \E o \in Owners : Upsert(o) \/ LogUpdate(o)
Requested ==
    \/ \E s \in Settings : ReplaceSettings(s)
    \/ \E o \in Owners, to \in BOOLEAN : ReadPrevious(o, to)
Lost == LosePut \/ (\E o \in Owners : LoseUpdate(o)) \/ Restart

SavedNext == Saves \/ Requested \/ Lost

SavedSpec == SavedInit /\ [][SavedNext]_savedVars

-----------------------------------------------------------------------------
(* Properties. *)

\* Settings that were saved with success are in use and in the database,
\* through restarts, until the next update begins; only one that fails or is
\* dropped leaves memory and database apart.
ConfirmedSurvives ==
    put = "idle" /\ ~doubtful => inUse = confirmed /\ stored = confirmed

\* As long as updates of the switch neither meet nor are cut short between
\* their write and their entry, the activity log tells its whole history:
\* each entry begins where the last one ended, and the last ends at the
\* switch.  Where they do meet, the log has no such claim, as nothing locks
\* the row between the read and the write.
LogChains ==
    clean =>
        /\ chained
        /\ (\A o \in Owners : update[o].pc # "log") => logged = switch
=============================================================================
