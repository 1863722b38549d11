SPECIFICATION Spec
CONSTANTS
    Thread = {t1, t2}
    Caller = {t1}
    Calls = {"recv", "io", "accept", "connect", "connect_ex"}
    Largest = 2
    Overlap = FALSE
    Foreign = FALSE
    FcntlMayFail = FALSE
INVARIANTS
    ModeTable TimedCallsDoNotBlock OthersRetryWouldBlock
PROPERTIES ImplementsTimedCall
