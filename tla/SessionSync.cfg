CONSTANTS
    Nicks <- MCNicks
    MaxEvents = 6
    MaxSessions = 2
SPECIFICATION FairSpec
INVARIANTS
    TypeOK
    Converged
PROPERTIES
    ViewIsDelayed
    SyncCompletes
CHECK_DEADLOCK FALSE
