SPECIFICATION Spec
CONSTANTS
    Thread = {t1, t2}
    Caller = {t1}
    Calls = {"io", "accept", "connect"}
    Largest = 1
    Overlap = TRUE
    Foreign = TRUE
    FcntlMayFail = TRUE
INVARIANTS
    TypeOK DeadlineFixed OthersRetryInterrupt SetterRepairs
PROPERTIES
    TimedCallsEnd ClosedCallsEnd
