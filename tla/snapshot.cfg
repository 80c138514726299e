SPECIFICATION Spec
CONSTANTS
    Owners = {o1, o2}
    Settings <- SettingsCases
    Defaults <- DefaultSettings
    MaxChanges = 3
SYMMETRY OwnerSymmetry
INVARIANTS
    EntryAttested
    ManagedIsListed
    ConfirmedSurvives
    LogChains
PROPERTIES
    MarksAreEarned
CHECK_DEADLOCK FALSE
