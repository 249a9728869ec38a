\* The daemon dies and is started again, twice, beside another writer of main.
SPECIFICATION Spec
CONSTANTS
    Sessions = {alice, bob}
    NoSession = nobody
    MaxTasks = 3
    MaxEdits = 2
    MaxExternal = 1
    MaxCrashes = 2
    MaxSecond = 0
    MaxJoins = 0
    MaxBackupFails = 0
    QuietDeveloper = TRUE
    MainCheckedOut = TRUE
    LegacyRows = FALSE
SYMMETRY Symmetry
INVARIANTS
    LastSeenReflected
    TaskHoldsLock
    ActiveTaskRecoverable
PROPERTIES
    AckedWorkPublished
    NoWorkLost
CHECK_DEADLOCK FALSE
