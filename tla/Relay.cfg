SPECIFICATION MCSpec
CONSTANTS
    Requests = {r1, r2}
    Capacity = 1
    MaxChunks = 3
INVARIANTS
    NoSendOnClosed
    AnswerStays
    NoStranded
    AnswersAreWhole
PROPERTIES
    SessionSettles
CHECK_DEADLOCK FALSE
