SPECIFICATION Spec
CONSTANTS
    Stack = {s1, s2}
    Plugin = {vdestack, picox}
    Vdestack = vdestack
    OtherName = other
    Unset = unset
    Freed = freed
    Iface = {i1, i2}
    Addr = {a, b}
    Mac = {m}
    Mtu = {u1, u2}
    DefaultMtu = u1
    Dns = {d1, d2}
    DefaultDns = d1
    Anywhere = anywhere
    BadText = bad
    NoLink = nolink
    MaxCalls = 2
INVARIANT RoutesAsAsked
