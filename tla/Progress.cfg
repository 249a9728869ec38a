\* Everybody finishes what they were given.
SPECIFICATION DiligentSpec
CONSTANTS
    Sessions = {alice, bob}
    NoSession = nobody
    MaxTasks = 4
    MaxEdits = 3
    MaxExternal = 0
    MaxCrashes = 0
    MaxSecond = 0
    MaxJoins = 0
    MaxBackupFails = 0
    QuietDeveloper = FALSE
    MainCheckedOut = TRUE
    LegacyRows = FALSE
INVARIANTS
    FusingOnMain
PROPERTIES
    RequestsFinish
    LockReturned
CHECK_DEADLOCK FALSE
