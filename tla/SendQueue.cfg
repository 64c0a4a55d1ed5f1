CONSTANTS
    Word = 8
    BurstSizes <- MCBurstSizes
    DefaultBurst = 2
    Garbage <- MCGarbage
    MaxLines = 3
SPECIFICATION FairSpec
INVARIANTS
    TypeOK
    TokensWithinBurst
    RateIsLimited
    OrderIsKept
PROPERTIES
    QueueEmpties
CHECK_DEADLOCK FALSE
