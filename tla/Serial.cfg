\* Main is serial and never goes back, moved by two commands, with a crash, a join and a failing backup.
SPECIFICATION Spec
CONSTANTS
    Sessions = {alice, bob}
    NoSession = nobody
    MaxTasks = 4
    MaxEdits = 2
    MaxExternal = 0
    MaxCrashes = 1
    MaxSecond = 0
    MaxJoins = 1
    MaxBackupFails = 1
    QuietDeveloper = FALSE
    MainCheckedOut = FALSE
    LegacyRows = TRUE
SYMMETRY Symmetry
INVARIANTS
    SerialInv
PROPERTIES
    SerialMainSpec
    MainForward
CHECK_DEADLOCK FALSE
