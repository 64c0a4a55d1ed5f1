CONSTANTS
    Networks = {m, n}
    NoId = noid
    MaxSocketId = 3
    MaxRequests = 1
SPECIFICATION Spec
INVARIANTS
    TypeOK
    NoUserIsTrue
PROPERTIES
    QuestionsAreAnswered
CHECK_DEADLOCK FALSE
