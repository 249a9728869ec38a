\* The daemon dies while a request starts a task.
SPECIFICATION Spec
CONSTANTS
    Sessions = {alice, bob}
    NoSession = nobody
    MaxTasks = 3
    MaxEdits = 1
    MaxExternal = 0
    MaxCrashes = 1
    MaxSecond = 0
    MaxJoins = 0
    MaxBackupFails = 0
    QuietDeveloper = TRUE
    MainCheckedOut = TRUE
    LegacyRows = FALSE
SYMMETRY Symmetry
INVARIANTS
    LockTaskConsistent
CHECK_DEADLOCK FALSE
