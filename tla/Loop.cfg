\* One session: agents come and go, die and are late, while the daemon sweeps, syncs and restarts.
SPECIFICATION FairSpec
CONSTANTS
    Sessions = {alice}
    Process = {1, 2}
    Backlog = 2
    MaxIncidents = 1
    MaxCommits = 2
INVARIANTS
    TypeOK
PROPERTIES
    PidMovesForward
    LiveAgentsConnected
    DeadAgentsNoticed
    ObservedSettles
CHECK_DEADLOCK FALSE
