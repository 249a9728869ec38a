\* Requests, failures, another writer of main, developers and Codex at work; no crash.
SPECIFICATION Spec
CONSTANTS
    Sessions = {alice, bob}
    NoSession = nobody
    MaxTasks = 4
    MaxEdits = 2
    MaxExternal = 1
    MaxCrashes = 0
    MaxSecond = 0
    MaxJoins = 0
    MaxBackupFails = 0
    QuietDeveloper = FALSE
    MainCheckedOut = TRUE
    LegacyRows = TRUE
SYMMETRY Symmetry
INVARIANTS
    TypeOK
    LastSeenReflected
    LockTaskConsistent
CHECK_DEADLOCK FALSE
