\* Two servers of one path, with and without a pointer file, killed anywhere and started again.
SPECIFICATION Spec
CONSTANTS
    Servers = {a, b, c}
    Configured = Configured
    Runtime = {r1, r2}
    None = None
    Partial = Partial
INVARIANTS
    TypeOK
    OneReachable
PROPERTIES
    RefusedOnlyByAnother
