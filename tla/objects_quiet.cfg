SPECIFICATION Spec
CONSTANTS
    Thread = {t1, t2}
    Socket = {s1, s2}
    Fd = {f1, f2}
    NoFd = NoFd
    NoSocket = NoSocket
    Free = Free
    User = User
    Lost = Lost
    MaxFiles = 1
    ConcurrentClose = FALSE
    FcntlMayFail = FALSE
INVARIANTS
    ReachesOwnFdOnly
PROPERTIES
    FilesKeepFdOpen ImplementsDescriptors ClosedIsReleased
