----------------------------- MODULE Addresses ------------------------------
(***************************************************************************)
(* Between the tuples of a program and the sockaddrs of the library:       *)
(* get_sockaddr_from_tuple and make_sockaddr in the methods of datagram    *)
(* sockets, and getnameinfo.  The network loses, repeats and reorders.     *)
(*                                                                         *)
(* The waiting of these methods is module SockCall; here each takes effect *)
(* in one step.  A method that raises changes nothing and is no step.      *)
(***************************************************************************)
EXTENDS Integers

CONSTANTS
    Sock,
    Host4, Host6,          \* addresses, with those below
    Any4, Any6, Broadcast,
    LinkLocal,             \* the IPv6 addresses that need their scope
    Scope,                 \* values of sin6_scope_id and sin6_flowinfo, 0 among them
    Empty, BroadcastText, BadText,  \* "", "<broadcast>" and a str that is no address
    Base,                  \* a port is two digits of this base
    AskedPort,             \* bound: the ports a program passes
    Ephemeral,             \* the ports the library picks
    MaxLen,                \* bound: bytes of a buffer
    MaxCalls               \* bound: calls of methods, in all, but for the constructor

Special == {Empty, BroadcastText, BadText}
Port == 0..(Base * Base - 1)

ASSUME AddressesAssumption ==
    /\ Any4 \in Host4 /\ Broadcast \in Host4 /\ Any4 # Broadcast
    /\ Any6 \in Host6 /\ LinkLocal \subseteq Host6 \ {Any6}
    /\ Host4 \cap Host6 = {} /\ Special \cap (Host4 \cup Host6) = {}
    /\ Empty # BroadcastText /\ BadText \notin {Empty, BroadcastText}
    /\ Scope \subseteq Nat /\ 0 \in Scope
    /\ Base \in Nat /\ Base > 1
    /\ AskedPort \subseteq Int /\ Ephemeral \subseteq Port \ {0}
    /\ MaxLen \in Nat /\ MaxCalls \in Nat

VARIABLES
    family,     \* s->family, or "none" before the object is made
    desc,       \* the socket of the library behind it
    permitted,  \* what setsockopt and getsockopt said of SO_BROADCAST
    heard,      \* the address that was told last, to any object
    last,       \* what the last method did, where it matters (history)
    net,        \* datagrams on their way
    calls

vars == <<family, desc, permitted, heard, last, net, calls>>

----------------------------------------------------------------------------
(* Addresses.  A port is kept in network order; flow and scope are one field. *)

Hosts(f) == IF f = "inet" THEN Host4 ELSE Host6
Bytes == (0..Base - 1) \X (0..Base - 1)
Sockaddr == [family : {"inet"}, host : Host4, port : Bytes, scope : {0}]
              \cup [family : {"inet6"}, host : Host6, port : Bytes, scope : Scope]
NoAddr == [family |-> "none", host |-> Any4, port |-> <<0, 0>>, scope |-> 0]

\* The int is cut to 16 bits.
htons(n) == <<(n \div Base) % Base, n % Base>>
ntohs(b) == b[1] * Base + b[2]

\* A Python value for an address: None, a pair, or a tuple of four.
Tuple(size, host, port, scope) ==
    [size |-> size, host |-> host, port |-> port, scope |-> scope]
Pair(host, port) == Tuple(2, host, port, 0)
NoTuple == Tuple(0, Empty, 0, 0)

Texts(f) == Hosts(f) \cup Special

HostsOfAsIs(f, text) == {text}  \* faulty variant: the text itself

\* The address that a text stands for; none is a ValueError.
HostsOf(f, text) ==
    CASE text = Empty -> {IF f = "inet" THEN Any4 ELSE Any6}
      [] text = BroadcastText /\ f = "inet" -> {Broadcast}
      [] OTHER -> {text} \cap Hosts(f)

PortFitsAny(n) == TRUE                    \* faulty variant: no test
PortFitsBelow(n) == 0 <= n /\ n < Base * Base - 1  \* faulty variant: the last is refused
PortFits(n) == 0 <= n /\ n <= Base * Base - 1

\* What the library may be handed for v; nothing if the method raises.  The
\* flow and the scope of an IPv6 address are what the stack held there.
get_sockaddr_from_tuple(f, v) ==
    IF f \notin {"inet", "inet6"} \/ v.size # 2 \/ ~PortFits(v.port) THEN {}
    ELSE [family : {f}, host : HostsOf(f, v.host), port : {htons(v.port)},
          scope : IF f = "inet" THEN {0} ELSE Scope]

Length(f) == IF f = "inet" THEN 16 ELSE 28
getsockaddrlenOne(f) == Length("inet")  \* faulty variant: one length for both

\* The room that recvfrom offers for the address of the sender.
getsockaddrlen(f) == Length(f)

\* The address a, but for its host and scope.
At(a, host, scope) == [family |-> a.family, host |-> host, port |-> a.port, scope |-> scope]

\* What is found where the library put a: an IPv6 address is cut in the middle
\* by the length of an IPv4 one.
Found(a, room) ==
    IF room >= Length(a.family) THEN {a}
    ELSE {At(a, h, c) : h \in Host6, c \in Scope}

\* An address of no length is None.
make_sockaddr(a) ==
    CASE a = NoAddr -> NoTuple
      [] a.family = "inet" -> Pair(a.host, ntohs(a.port))
      [] OTHER -> Tuple(4, a.host, ntohs(a.port), a.scope)

----------------------------------------------------------------------------
(* The sockets of the library *)

\* The scope counts for link-local addresses only.
Canonical(a) == IF a.host \in LinkLocal THEN a ELSE [a EXCEPT !.scope = 0]

Wildcard(a) == a.host \in {Any4, Any6}

\* asked: the tuple of bind.
Closed == [family |-> "none", name |-> NoAddr, peer |-> NoAddr, asked |-> NoTuple,
           down |-> {}, broadcast |-> FALSE]

Taken(a) == \E r \in Sock : desc[r].name # NoAddr /\ desc[r].name.port = a.port

\* What a becomes when a socket is bound to it: port 0 is replaced.
Bindable(a) ==
    {b \in {[a EXCEPT !.port = p] :
              p \in IF a.port = htons(0) THEN {htons(n) : n \in Ephemeral} ELSE {a.port}} :
       ~Taken(b)}

\* The name of a socket once it has sent or connected.
Names(s) ==
    IF desc[s].name # NoAddr THEN {desc[s].name}
    ELSE UNION {Bindable([family |-> desc[s].family, port |-> htons(0), scope |-> 0,
                          host |-> IF desc[s].family = "inet" THEN Any4 ELSE Any6])}

\* Where a datagram from a socket with that name comes from.
Sources(name) ==
    IF Wildcard(name)
    THEN {Canonical(At(name, h, c)) :
            h \in Hosts(name.family) \ {Any4, Any6, Broadcast},
            c \in IF name.family = "inet" THEN {0} ELSE Scope \ {0}}
    ELSE {name}

Receives(s, d) ==
    LET a == desc[s].name IN
    /\ a.family = d.to.family /\ a.port = d.to.port
    /\ Wildcard(a) \/ d.to.host = Broadcast \/ a = d.to
    /\ desc[s].peer = NoAddr \/ desc[s].peer = d.from

\* What is kept of a method: an address given back, or a query.
GivenBack(size, taken) == [kind |-> "given", size |-> size, taken |-> taken]
Query(asked, real) == [kind |-> "query", asked |-> asked, real |-> real]
Nothing == [kind |-> "nothing"]

----------------------------------------------------------------------------
Init ==
    /\ family = [s \in Sock |-> "none"]
    /\ desc = [s \in Sock |-> Closed]
    /\ permitted = [s \in Sock |-> FALSE]
    /\ heard = [tuple |-> NoTuple, real |-> NoAddr]
    /\ last = Nothing
    /\ net = {} /\ calls = 0

Made(s, f, df) ==
    /\ family[s] = "none"
    /\ family' = [family EXCEPT ![s] = f]
    /\ desc' = [desc EXCEPT ![s].family = df]
    /\ last' = Nothing
    /\ UNCHANGED <<permitted, heard, net>>

\* The library makes a socket of the family it is asked for.
NewSocket(s, f) == Made(s, f, f)

\* fileno=: nobody asks the descriptor for its family; -1 stays -1, "other".
AdoptFd(s, f, df) == Made(s, f, df)

\* The addresses a program passes: of its own making, or told before, the told
\* one whole or its first two items; real is what was told about.
Given(f) ==
    [v : {Pair(h, n) : h \in Texts(f), n \in AskedPort}, real : {NoAddr}]
      \cup {[v |-> heard.tuple, real |-> heard.real],
            [v |-> Pair(heard.tuple.host, heard.tuple.port), real |-> heard.real]}

\* It told an address, whether the object still knows its family or not.
Told(g) == g.real # NoAddr /\ g.v.size # 0

\* The library takes an address of the family of its socket.
Handed(s, g) ==
    {a \in get_sockaddr_from_tuple(family[s], g.v) : a.family = desc[s].family}

Passed(s, g, taken) ==
    last' = IF Told(g) /\ g.real.family = family[s] THEN GivenBack(g.v.size, taken)
            ELSE Nothing

\* bind, connect or sendto refuses an address that was told.
Refuse(s, g) ==
    /\ Told(g) /\ g.real.family = family[s]
    /\ get_sockaddr_from_tuple(family[s], g.v) = {}
    /\ Passed(s, g, FALSE)
    /\ UNCHANGED <<family, desc, permitted, heard, net>>

Bind(s, g) ==
    /\ desc[s].name = NoAddr
    /\ \E a \in Handed(s, g) : \E name \in Bindable(Canonical(a)) :
         /\ name.host # Broadcast
         /\ desc' = [desc EXCEPT ![s].name = name, ![s].asked = g.v]
    /\ Passed(s, g, TRUE)
    /\ UNCHANGED <<family, permitted, heard, net>>

Connect(s, g) ==
    /\ \E a \in Handed(s, g), name \in Names(s) :
         /\ a.port # htons(0) /\ a.host # Broadcast /\ ~Wildcard(a)
         /\ desc' = [desc EXCEPT ![s].name = name, ![s].peer = Canonical(a)]
    /\ Passed(s, g, TRUE)
    /\ UNCHANGED <<family, permitted, heard, net>>

Datagram(from, to, g, allowed) ==
    [from |-> from, to |-> to, asked |-> g.v, real |-> g.real, allowed |-> allowed]

Sendto(s, g) ==
    /\ "wr" \notin desc[s].down
    /\ \E a \in Handed(s, g), name \in Names(s) : \E from \in Sources(name) :
         /\ a.port # htons(0) /\ ~Wildcard(a)
         /\ a.host = Broadcast => desc[s].broadcast
         /\ desc' = [desc EXCEPT ![s].name = name]
         /\ net' = net \cup {Datagram(from, Canonical(a), g, permitted[s])}
    /\ Passed(s, g, TRUE)
    /\ UNCHANGED <<family, permitted, heard>>

\* The network loses a datagram; one that is received may come again.
Lose(d) ==
    /\ net' = net \ {d}
    /\ UNCHANGED <<family, desc, permitted, heard, last>>

Hears(a, real) ==
    /\ heard' = [tuple |-> make_sockaddr(a), real |-> real]
    /\ UNCHANGED <<family, desc, permitted>>

\* sock_recvfrom_guts, but for the bytes.
Guts(s, d) ==
    /\ d \in net /\ Receives(s, d) /\ family[s] # "other"
    /\ \E a \in Found(d.from, getsockaddrlen(family[s])) :
         Hears(a, IF desc[s].family = family[s] THEN d.from ELSE NoAddr)
    /\ last' = Nothing
    /\ net' \in {net, net \ {d}}

Recvfrom(s, d, recvlen) == recvlen >= 0 /\ Guts(s, d)
RecvfromInto(s, d, buflen, recvlen) == 0 <= recvlen /\ recvlen <= buflen /\ Guts(s, d)

\* After shutdown(SHUT_RD): no bytes, and no address.
EndOfData(s) ==
    /\ "rd" \in desc[s].down /\ family[s] # "other"
    /\ Hears(NoAddr, NoAddr)
    /\ last' = Nothing /\ UNCHANGED net

Shutdown(s, how) ==
    /\ desc[s].peer # NoAddr
    /\ desc' = [desc EXCEPT ![s].down = @ \cup how]
    /\ last' = Nothing
    /\ UNCHANGED <<family, permitted, heard, net>>

\* getsockname and getpeername have room for any address.
Tells(s, a) ==
    /\ a # NoAddr /\ Hears(a, a)
    /\ last' = Nothing /\ UNCHANGED net

Getsockname(s) == Tells(s, desc[s].name)
Getpeername(s) == Tells(s, desc[s].peer)

\* Faulty variant: the result of the library is not looked at.
SetsockoptUnchecked(s, form, on) ==
    /\ family[s] # "none" /\ form \in {"int", "buffer"}
    /\ desc' \in {desc, [desc EXCEPT ![s].broadcast = on]}
    /\ permitted' = [permitted EXCEPT ![s] = on]
    /\ last' = Nothing
    /\ UNCHANGED <<family, heard, net>>

\* SO_BROADCAST as an int or as bytes; the library refuses None and any bytes
\* that are no int.
Setsockopt(s, form, on) ==
    /\ family[s] # "none" /\ form \in {"int", "buffer"}
    /\ desc' = [desc EXCEPT ![s].broadcast = on]
    /\ permitted' = [permitted EXCEPT ![s] = on]
    /\ last' = Nothing
    /\ UNCHANGED <<family, heard, net>>

\* Without a buffersize, or with 0, getsockopt raises: it never gives an int.
Getsockopt(s, buflen) ==
    /\ family[s] # "none" /\ buflen \in 1..1024
    /\ permitted' = [permitted EXCEPT ![s] = desc[s].broadcast]
    /\ last' = Nothing
    /\ UNCHANGED <<family, desc, heard, net>>

\* Faulty variant: the scope of the tuple is not put into the address.
AskedOfResolverPlain(v) ==
    IF v.host \in Host4
    THEN [family |-> "inet", host |-> v.host, port |-> htons(v.port), scope |-> 0]
    ELSE [family |-> "inet6", host |-> v.host, port |-> htons(v.port), scope |-> 0]

\* The numeric host says the family; scope and flow are those of the tuple.
AskedOfResolver(v) ==
    IF v.host \in Host4
    THEN [family |-> "inet", host |-> v.host, port |-> htons(v.port), scope |-> 0]
    ELSE [family |-> "inet6", host |-> v.host, port |-> htons(v.port), scope |-> v.scope]

\* Stack.getnameinfo of the address that was told last.
Getnameinfo ==
    LET v == heard.tuple IN
    /\ Told([v |-> v, real |-> heard.real])
    /\ v.host \in Host4 => v.size = 2
    /\ last' = Query(AskedOfResolver(v), heard.real)
    /\ UNCHANGED <<family, desc, permitted, heard, net>>

----------------------------------------------------------------------------
Open(s) ==
    \/ \E f \in {"inet", "inet6"} : NewSocket(s, f)
    \/ \E f \in {"inet", "inet6", "other"}, df \in {"inet", "inet6"} : AdoptFd(s, f, df)

Method(s) ==
    \/ \E g \in Given(family[s]) :
         Refuse(s, g) \/ Bind(s, g) \/ Connect(s, g) \/ Sendto(s, g)
    \/ \E d \in net, recvlen \in -1..MaxLen :
         \/ Recvfrom(s, d, recvlen)
         \/ \E buflen \in 0..MaxLen : RecvfromInto(s, d, buflen, recvlen)
    \/ EndOfData(s)
    \/ \E how \in {{"rd"}, {"wr"}, {"rd", "wr"}} : Shutdown(s, how)
    \/ Getsockname(s) \/ Getpeername(s)
    \/ \E form \in {"int", "None", "buffer"}, on \in BOOLEAN : Setsockopt(s, form, on)
    \/ \E buflen \in {0, 1, 1024, 1025} : Getsockopt(s, buflen)

Next ==
    \/ /\ calls < MaxCalls /\ calls' = calls + 1
       /\ Getnameinfo \/ \E s \in Sock : Method(s)
    \/ /\ (\E s \in Sock : Open(s)) \/ (\E d \in net : Lose(d))
       /\ UNCHANGED calls
    \/ calls = MaxCalls /\ UNCHANGED vars  \* the program ends

Spec == Init /\ [][Next]_vars

----------------------------------------------------------------------------
(* Properties *)

\* Every variable stays in the set of values its code gives it.
TypeOK ==
    LET Addr == Sockaddr \cup {NoAddr}
        Size == [size : {0, 2, 4}, host : Host4 \cup Host6 \cup Special, port : Int, scope : Scope]
    IN
    /\ family \in [Sock -> {"none", "inet", "inet6", "other"}]
    /\ permitted \in [Sock -> BOOLEAN]
    /\ \A s \in Sock :
         /\ {desc[s].name, desc[s].peer} \subseteq Addr /\ desc[s].asked \in Size
    /\ heard.real \in Addr /\ heard.tuple \in Size
    /\ last.kind = "query" => {last.asked, last.real} \subseteq Addr
    /\ \A d \in net : {d.from, d.to} \subseteq Sockaddr /\ d.real \in Addr /\ d.asked \in Size
    /\ calls \in 0..MaxCalls

\* The pair v means the address a, but for flow and scope.
Means(v, a) ==
    /\ ntohs(a.port) = v.port
    /\ CASE v.host = Empty -> Wildcard(a)
         [] v.host = BroadcastText -> a.host = Broadcast
         [] OTHER -> a.host = v.host

\* A port that does not fit and a host that is none never reach the library cut or
\* guessed: it binds and sends to what the pair of the program means.
AddressAsAsked ==
    /\ \A d \in net : Means(d.asked, d.to)
    /\ \A s \in Sock :
         desc[s].asked # NoTuple /\ desc[s].asked.port # 0 => Means(desc[s].asked, desc[s].name)

\* A datagram sent to an address that recvfrom, getsockname or getpeername told, to
\* its first two items if it has four, goes to the very socket it was told about,
\* unless that has a link-local address.
RepliesReachSender ==
    \A d \in net : d.real # NoAddr => d.to = d.real \/ d.real.host \in LinkLocal

\* An address told as a pair, or cut to one, is never refused by a socket of its
\* family.
PairsPassBack == last.kind = "given" /\ last.size = 2 => last.taken

\* Comment on make_sockaddr: what it makes is "suitable for passing it back to bind,
\* connect etc".
AddressesPassBack == last.kind = "given" => last.taken

\* getnameinfo of a told address asks the resolver for exactly what the library had
\* told, flow and scope included, although only the texts of it passed through.
ResolverAskedExactly == last.kind = "query" => last.asked = last.real

\* Broadcasts leave only from sockets whose program, going by what setsockopt and
\* getsockopt return and raise, has them permitted.
BroadcastAsPermitted ==
    \A d \in net : d.to.host = Broadcast => d.allowed
============================================================================
