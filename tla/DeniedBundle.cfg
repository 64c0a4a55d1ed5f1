CONSTANTS
    KnownCaps <- MCKnownCaps
    Sasl = "sasl"
    MaxBundle = 2
    EarlyChanges = FALSE
    MaxChanges = 2
    MaxConnections = 2
SPECIFICATION Spec
INVARIANTS
    DenialLosesNothing
CHECK_DEADLOCK FALSE
