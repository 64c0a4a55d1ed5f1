CONSTANTS
    Peers = {p}
    Users = {a}
    NoUser = nobody
    NoPeer = nopeer
    IdentOn = TRUE
    MaxHeartBeats = 1
    MaxSockets = 1
SPECIFICATION Spec
PROPERTIES
    ShutdownCompletes
CHECK_DEADLOCK FALSE
