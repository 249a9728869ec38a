\* Two deletions at a time share one stash.
SPECIFICATION DeleteSpec
CONSTANTS
    Sessions = {alice, bob}
    NoSession = nobody
    Deleters = {d1, d2}
    MaxTasks = 0
    MaxEdits = 2
    MaxExternal = 0
    MaxCrashes = 0
    MaxSecond = 0
    MaxJoins = 0
    MaxBackupFails = 0
    MaxDeleteFails = 0
    MaxRejoins = 0
    QuietDeveloper = TRUE
    MainCheckedOut = TRUE
    LegacyRows = FALSE
PROPERTIES
    DeletedWorkKept
CHECK_DEADLOCK FALSE
