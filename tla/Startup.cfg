\* Recovery from whatever was left, by this version or an earlier one.
SPECIFICATION StartupSpec
CONSTANTS
    alice = alice
    bob = bob
    Sessions = {alice, bob}
    NoSession = nobody
    MaxTasks = 3
    MaxEdits = 2
    MaxExternal = 0
    MaxCrashes = 1
    MaxSecond = 0
    MaxJoins = 0
    MaxBackupFails = 0
    QuietDeveloper = TRUE
    MainCheckedOut = TRUE
    LegacyRows = TRUE
INVARIANTS
    LockTaskConsistent
PROPERTIES
    DaemonComesUp
    NoWorkLost
CHECK_DEADLOCK FALSE
