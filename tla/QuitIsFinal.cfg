CONSTANTS
    Settings <- MCSettings
    MaxServers = 1
    MaxPingCount = 1
    MaxPosted = 1
SPECIFICATION Spec
PROPERTIES
    QuitIsFinal
CHECK_DEADLOCK FALSE
