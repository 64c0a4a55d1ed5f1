CONSTANTS
    KnownCaps <- MCKnownCaps
    Sasl = "sasl"
    MaxBundle = 2
    EarlyChanges = FALSE
    MaxChanges = 2
    MaxConnections = 2
SPECIFICATION FairSpec
INVARIANTS
    TypeOK
    OneAnswerAtATime
    SaslBeforeEnd
    EnabledAgree
PROPERTIES
    RegistrationCompletes
CHECK_DEADLOCK FALSE
