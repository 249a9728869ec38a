\* Deletions that fail or are killed, beside the requests of the session and a join.
SPECIFICATION FairDeleteSpec
CONSTANTS
    Sessions = {alice}
    NoSession = nobody
    Deleters = {d1}
    MaxTasks = 2
    MaxEdits = 1
    MaxExternal = 1
    MaxCrashes = 0
    MaxSecond = 0
    MaxJoins = 0
    MaxBackupFails = 0
    MaxDeleteFails = 1
    MaxRejoins = 1
    QuietDeveloper = TRUE
    MainCheckedOut = TRUE
    LegacyRows = FALSE
INVARIANTS
    DeleteTypeOK
    LockHolderPresent
    SessionsWhole
PROPERTIES
    DeletedWorkKept
    DeletionCompletes
CHECK_DEADLOCK FALSE
