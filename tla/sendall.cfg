SPECIFICATION AllSpec
CONSTANTS
    Thread = {t1, t2}
    Caller = {t1}
    Calls = {}
    Largest = 1
    MaxLen = 2
    Overlap = TRUE
    Foreign = FALSE
    FcntlMayFail = FALSE
INVARIANTS
    AllTypeOK SentInOrder NoneMeansAll
PROPERTIES
    SendAllIsTimedCall TimedSendEnds
