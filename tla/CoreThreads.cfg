CONSTANTS
    Peers = {p, q}
    Users = {a, b}
    NoUser = nobody
    NoPeer = nopeer
    IdentOn = TRUE
    MaxHeartBeats = 1
    MaxSockets = 1
SPECIFICATION Spec
INVARIANTS
    TypeOK
    OnePlace
    CoreIsReachable
PROPERTIES
    IsLoginQueue
    LoginsArrive
    DeadPeersAreRemoved
    ShutdownEnds
CHECK_DEADLOCK FALSE
