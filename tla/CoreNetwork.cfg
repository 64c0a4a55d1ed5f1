CONSTANTS
    Settings <- MCSettings
    MaxServers = 2
    MaxPingCount = 1
    MaxPosted = 2
SPECIFICATION FairSpec
INVARIANTS
    TypeOK
    ConnectedMeansLive
    QuitInProgress
PROPERTIES
    LostConnectionIsRetried
    QuitEnds
    RemovalEnds
CHECK_DEADLOCK FALSE
