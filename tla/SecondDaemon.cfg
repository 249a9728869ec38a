\* A second daemon, a crash, a join and a failing backup at once.
SPECIFICATION Spec
CONSTANTS
    Sessions = {alice, bob}
    NoSession = nobody
    MaxTasks = 3
    MaxEdits = 2
    MaxExternal = 0
    MaxCrashes = 1
    MaxSecond = 1
    MaxJoins = 1
    MaxBackupFails = 1
    QuietDeveloper = TRUE
    MainCheckedOut = TRUE
    LegacyRows = FALSE
SYMMETRY Symmetry
PROPERTIES
    NoWorkLost
CHECK_DEADLOCK FALSE
