\* Two pushes at once, that fail or overtake each other, beside a deletion and a rejoin.
SPECIFICATION Spec
CONSTANTS
    Sessions = {alice, bob}
    Pushers = {p1, p2}
    Absent = Absent
    MaxMain = 1
    MaxDeletes = 1
INVARIANTS
    TypeOK
    CleanedUp
PROPERTIES
    BackOnlyWhenOvertaken
    RemoteCatchesUp
    BackupsReachRemote
