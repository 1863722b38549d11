SPECIFICATION Spec
CONSTANTS
    Sock = {s1, s2}
    Host4 = {any4, broadcast, a}
    Host6 = {any6, g, l}
    Any4 = any4
    Any6 = any6
    Broadcast = broadcast
    LinkLocal = {l}
    Scope = {0, 1}
    Empty = empty
    BroadcastText = broadcastText
    BadText = bad
    Base = 2
    AskedPort = {0, 3, 4}
    Ephemeral = {1, 3}
    MaxLen = 1
    MaxCalls = 4
SYMMETRY Symmetry
INVARIANTS
    TypeOK AddressAsAsked RepliesReachSender PairsPassBack
    ResolverAskedExactly BroadcastAsPermitted
