SPECIFICATION Spec
CONSTANTS
    Thread = {t1}
    Caller = {t1}
    Calls = {"accept"}
    Largest = 1
    Overlap = FALSE
    Foreign = FALSE
    FcntlMayFail = FALSE
INVARIANTS
    AcceptRetriesInterrupt
