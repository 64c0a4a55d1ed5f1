CONSTANTS
    Nicks = {x, y, z}
    Channels = {ca, cb}
    Hosts <- MCHosts
    NoNick = none
    NoUser = nobody
    NoChannel = nochan
    MaxBorn = 2
    EarlyShare = 1
    MaxQuits = 2
    MaxOps = 1
    MaxOdd = 1
SYMMETRY Symmetry
CONSTRAINT Cast
SPECIFICATION Spec
INVARIANTS
    TypeOK
    MembershipSymmetric
    ChannelsAlive
    ViewMatches
    HeldBackIsTimed
