-------------------------- MODULE AddressesProofs ---------------------------
(***************************************************************************)
(* Theorems about Addresses, for any addresses, ports and sockets.         *)
(***************************************************************************)
EXTENDS Addresses, TLAPS

----------------------------------------------------------------------------
(* Ports *)

\* A quotient and its remainder.
LEMMA DivIs ==
    ASSUME NEW m \in Nat, NEW a \in Nat \ {0}
    PROVE  /\ m \div a \in Nat /\ m % a \in 0..a - 1
           /\ m = (m \div a) * a + (m % a)
OBVIOUS

\* There is only one with a remainder below the divisor.
LEMMA DivUnique ==
    ASSUME NEW m \in Nat, NEW a \in Nat \ {0}, NEW q \in Nat, q * a <= m, m < q * a + a
    PROVE  m \div a = q /\ m % a = m - q * a
<1>1. m \div a = q
  OBVIOUS
<1>2. PICK d \in Nat, r \in 0..a - 1 :
        d = m \div a /\ r = m % a /\ m = d * a + r
  BY DivIs
<1>3. m = q * a + r
  BY <1>1, <1>2
<1>4. PICK p \in Nat : p = q * a
  OBVIOUS
<1> QED BY <1>1, <1>2, <1>3, <1>4

\* The base of the digits.
LEMMA BaseIs == Base \in Nat \ {0} /\ Base > 1 /\ Base * Base \in Nat
BY AddressesAssumption DEF AddressesAssumption

\* Any int has two digits after the cut to 16 bits.
LEMMA CutInt == \A n \in Int : htons(n) \in Bytes
<1> SUFFICES ASSUME NEW n \in Int PROVE htons(n) \in Bytes
  OBVIOUS
<1>1. n \div Base \in Int
  BY BaseIs
<1>2. \A m \in Int : m % Base \in 0..Base - 1
  BY BaseIs
<1> QED BY <1>1, <1>2 DEF htons, Bytes

\* A port that fits is not cut.
LEMMA PortComesBack ==
    ASSUME NEW n \in Int, PortFits(n)
    PROVE  ntohs(htons(n)) = n
<1>1. n \in Nat /\ n <= Base * Base - 1
  BY DEF PortFits
<1>2. PICK q \in Nat : q = n \div Base
  BY <1>1, BaseIs, DivIs
<1>3. n % Base \in 0..Base - 1 /\ n = q * Base + (n % Base)
  BY <1>1, <1>2, BaseIs, DivIs
<1>4. q <= Base - 1
  <2> SUFFICES ASSUME q >= Base PROVE FALSE
    BY <1>2, BaseIs
  <2>1. q * Base >= Base * Base
    BY <1>2, BaseIs
  <2>2. q * Base \in Nat /\ n % Base >= 0 /\ n % Base \in Int
    BY <1>2, <1>3, BaseIs
  <2>3. n >= q * Base
    BY <1>1, <1>3, <2>2
  <2> QED BY <1>1, <2>1, <2>2, <2>3, BaseIs
<1>5. q % Base = q
  BY <1>2, <1>4, BaseIs
<1>6. htons(n) = <<q, n % Base>>
  BY <1>2, <1>5 DEF htons
<1> QED BY <1>3, <1>6 DEF ntohs

\* Two digits come back from the int that they make, and it is a port.
LEMMA BytesComeBack ==
    ASSUME NEW b \in Bytes
    PROVE  /\ htons(ntohs(b)) = b
           /\ ntohs(b) \in Nat /\ PortFits(ntohs(b))
<1>1. PICK p \in 0..Base - 1, r \in 0..Base - 1 : b = <<p, r>>
  BY DEF Bytes
<1>2. p \in Nat /\ r \in Nat /\ p <= Base - 1 /\ r <= Base - 1
  BY <1>1, BaseIs
<1>3. PICK m \in Nat : m = p * Base
  BY <1>2, BaseIs
<1>4. ntohs(b) = m + r
  BY <1>1, <1>3 DEF ntohs
<1>5. (m + r) \div Base = p /\ (m + r) % Base = r
  <2>1. m + r \in Nat /\ p * Base <= m + r /\ m + r < p * Base + Base
    BY <1>2, <1>3, BaseIs
  <2>2. PICK n \in Nat : n = m + r
    BY <2>1
  <2>3. n \div Base = p /\ n % Base = n - p * Base
    BY <1>2, <2>1, <2>2, BaseIs, DivUnique
  <2> QED BY <1>2, <1>3, <2>2, <2>3
<1>6. p % Base = p
  BY <1>2, BaseIs
<1>7. m <= Base * Base - Base
  <2>1. p * Base <= (Base - 1) * Base
    BY <1>2, BaseIs
  <2>2. (Base - 1) * Base = Base * Base - Base
    BY BaseIs
  <2> QED BY <1>3, <2>1, <2>2
<1>8. m + r <= Base * Base - 1 /\ m + r \in Nat
  BY <1>2, <1>7, BaseIs
<1> QED BY <1>1, <1>4, <1>5, <1>6, <1>8 DEF htons, PortFits

----------------------------------------------------------------------------
(* The inductive invariant *)

Addr == Sockaddr \cup {NoAddr}
TupleRecord ==
    [size : {0, 2, 4}, host : Host4 \cup Host6 \cup Special, port : Int, scope : Scope]
DescRecord ==
    [family : {"none", "inet", "inet6"}, name : Addr, peer : Addr, asked : TupleRecord,
     down : SUBSET {"rd", "wr"}, broadcast : BOOLEAN]
DatagramRecord ==
    [from : Sockaddr, to : Sockaddr, asked : TupleRecord, real : Addr, allowed : BOOLEAN]
LastRecord ==
    {Nothing} \cup [kind : {"given"}, size : {0, 2, 4}, taken : BOOLEAN]
              \cup [kind : {"query"}, asked : Addr, real : Addr]

\* An address of a socket of the library: the scope is that of a link.
Known(a) == a \in Sockaddr /\ (a.scope = 0 \/ a.host \in LinkLocal)

\* A name or a peer of d.
Own(d, a) == a = NoAddr \/ (Known(a) /\ a.family = d.family)

\* A socket of the library, behind an object of family f that has p permitted.
FineDesc(f, d, p) ==
    /\ f = "none" => d.name = NoAddr /\ d.peer = NoAddr
    /\ Own(d, d.name) /\ Own(d, d.peer)
    /\ d.asked # NoTuple => d.name # NoAddr
    /\ d.asked # NoTuple /\ d.asked.port # 0 => Means(d.asked, d.name)
    /\ p = d.broadcast

\* What was told is the whole of the address it was told about.
FineHeard(h) == h.real # NoAddr => Known(h.real) /\ h.tuple = make_sockaddr(h.real)

FineDatagram(d) ==
    /\ Known(d.from) /\ d.from.family = d.to.family
    /\ Means(d.asked, d.to)
    /\ d.real # NoAddr => d.to = d.real \/ d.real.host \in LinkLocal
    /\ d.to.host = Broadcast => d.allowed

FineLast(l) ==
    /\ l.kind = "given" /\ l.size = 2 => l.taken
    /\ l.kind = "query" => l.asked = l.real

SocketsAre ==
    /\ family \in [Sock -> {"none", "inet", "inet6", "other"}]
    /\ desc \in [Sock -> DescRecord] /\ permitted \in [Sock -> BOOLEAN]
    /\ \A s \in Sock : FineDesc(family[s], desc[s], permitted[s])
HeardIs == heard \in [tuple : TupleRecord, real : Addr] /\ FineHeard(heard)
LastIs == last \in LastRecord /\ FineLast(last)
NetIs == net \subseteq DatagramRecord /\ \A d \in net : FineDatagram(d)

Inv == SocketsAre /\ HeardIs /\ LastIs /\ NetIs /\ calls \in 0..MaxCalls

----------------------------------------------------------------------------
(* Addresses and tuples *)

\* The addresses that have a name.
LEMMA Special4 ==
    /\ Any4 \in Host4 /\ Broadcast \in Host4 /\ Any4 # Broadcast
    /\ Any6 \in Host6 /\ LinkLocal \subseteq Host6 /\ Any6 \notin LinkLocal
    /\ \A h \in Host4 : h \notin Host6 /\ h \notin Special
    /\ \A h \in Host6 : h \notin Host4 /\ h \notin Special
    /\ 0 \in Scope /\ Empty # BroadcastText /\ BadText # Empty /\ BadText # BroadcastText
    /\ Empty \in Special /\ BroadcastText \in Special /\ BadText \in Special
BY AddressesAssumption DEF AddressesAssumption, Special

\* The fields of an address.
LEMMA Fields ==
    ASSUME NEW a \in Sockaddr
    PROVE  /\ a = [family |-> a.family, host |-> a.host, port |-> a.port, scope |-> a.scope]
           /\ a.family \in {"inet", "inet6"} /\ a.host \in Hosts(a.family)
           /\ a.port \in Bytes /\ a.scope \in Scope
           /\ a.family = "inet" => a.scope = 0
           /\ a.host \in Host4 <=> a.family = "inet"
           /\ a # NoAddr
<1>1. CASE a \in [family : {"inet"}, host : Host4, port : Bytes, scope : {0}]
  BY <1>1, Special4 DEF Hosts, NoAddr
<1>2. CASE a \in [family : {"inet6"}, host : Host6, port : Bytes, scope : Scope]
  BY <1>2, Special4 DEF Hosts, NoAddr
<1> QED BY <1>1, <1>2 DEF Sockaddr

\* An address from its fields.
LEMMA IsSockaddr ==
    ASSUME NEW f \in {"inet", "inet6"}, NEW h \in Hosts(f), NEW p \in Bytes,
           NEW c \in Scope, f = "inet" => c = 0
    PROVE  [family |-> f, host |-> h, port |-> p, scope |-> c] \in Sockaddr
<1>1. CASE f = "inet"
  BY <1>1 DEF Sockaddr, Hosts
<1>2. CASE f = "inet6"
  BY <1>2 DEF Sockaddr, Hosts
<1> QED BY <1>1, <1>2

\* The library drops a scope that is of no link.
LEMMA CanonicalIs ==
    ASSUME NEW a \in Sockaddr
    PROVE  /\ Known(Canonical(a))
           /\ Canonical(a).family = a.family /\ Canonical(a).host = a.host
           /\ Canonical(a).port = a.port
<1>1. CASE a.host \in LinkLocal
  BY <1>1 DEF Canonical, Known
<1>2. CASE a.host \notin LinkLocal
  <2>1. Canonical(a) = [family |-> a.family, host |-> a.host, port |-> a.port, scope |-> 0]
    <3>1. Canonical(a) = [a EXCEPT !.scope = 0]
      BY <1>2 DEF Canonical
    <3> QED BY <3>1, Fields
  <2>2. Canonical(a) \in Sockaddr
    BY <2>1, Fields, IsSockaddr, Special4
  <2> QED BY <2>1, <2>2 DEF Known
<1> QED BY <1>1, <1>2

\* Two addresses of the library that differ in no text are one, but on a link.
LEMMA SameAddress ==
    ASSUME NEW a, NEW b, Known(a), Known(b), a.host = b.host, a.port = b.port,
           a.host \notin LinkLocal
    PROVE  a = b
<1>1. a \in Sockaddr /\ b \in Sockaddr /\ a.scope = 0 /\ b.scope = 0
  BY DEF Known
<1>2. a.family = b.family
  BY <1>1, Fields
<1> QED BY <1>1, <1>2, Fields

\* A socket is bound to the address it is given, but for port 0.
LEMMA BindableIs ==
    ASSUME NEW a, Known(a), NEW b \in Bindable(a)
    PROVE  /\ Known(b) /\ b.family = a.family /\ b.host = a.host
           /\ a.port # htons(0) => b = a
<1>1. a \in Sockaddr
  BY DEF Known
<1>2. PICK p : b = [a EXCEPT !.port = p] /\
                 p \in IF a.port = htons(0) THEN {htons(n) : n \in Ephemeral} ELSE {a.port}
  BY DEF Bindable
<1>3. p \in Bytes
  <2>1. \A n \in Ephemeral : n \in Int
    BY AddressesAssumption DEF AddressesAssumption, Port
  <2> QED BY <1>1, <1>2, <2>1, CutInt, Fields
<1>4. b = [family |-> a.family, host |-> a.host, port |-> p, scope |-> a.scope]
  BY <1>1, <1>2, Fields
<1>5. b \in Sockaddr
  BY <1>1, <1>3, <1>4, Fields, IsSockaddr
<1>6. Known(b)
  BY <1>4, <1>5 DEF Known
<1>7. a.port # htons(0) => b = a
  BY <1>1, <1>2, <1>4, Fields
<1> QED BY <1>4, <1>6, <1>7

\* The name of a socket that sends is its own, old or new.
LEMMA NamesIs ==
    ASSUME NEW s \in Sock, NEW name \in Names(s), Own(desc[s], desc[s].name),
           desc[s].family \in {"inet", "inet6"}
    PROVE  /\ Known(name) /\ name.family = desc[s].family
           /\ desc[s].name # NoAddr => name = desc[s].name
<1>1. CASE desc[s].name # NoAddr
  BY <1>1 DEF Names, Own
<1>2. CASE desc[s].name = NoAddr
  <2> DEFINE any == IF desc[s].family = "inet" THEN Any4 ELSE Any6
             a == [family |-> desc[s].family, port |-> htons(0), scope |-> 0, host |-> any]
  <2>1. name \in Bindable(a)
    BY <1>2, Zenon DEF Names
  <2>2. a = [family |-> desc[s].family, host |-> any, port |-> htons(0), scope |-> 0]
    OBVIOUS
  <2>3. any \in Hosts(desc[s].family) /\ htons(0) \in Bytes /\ 0 \in Scope
    BY Special4, CutInt DEF Hosts
  <2>4. a \in Sockaddr
    BY <2>2, <2>3, IsSockaddr
  <2>5. Known(a) /\ a.family = desc[s].family
    BY <2>4 DEF Known
  <2> HIDE DEF a
  <2> QED BY <1>2, <2>1, <2>5, BindableIs
<1> QED BY <1>1, <1>2

\* So is the address that its datagrams come from.
LEMMA SourcesIs ==
    ASSUME NEW name, Known(name), NEW from \in Sources(name)
    PROVE  Known(from) /\ from.family = name.family
<1>1. name \in Sockaddr
  BY DEF Known
<1>2. CASE ~Wildcard(name)
  BY <1>2 DEF Sources
<1>3. CASE Wildcard(name)
  <2> DEFINE H == Hosts(name.family) \ {Any4, Any6, Broadcast}
             C == IF name.family = "inet" THEN {0} ELSE Scope \ {0}
  <2>1. from \in {Canonical(At(name, h, c)) : h \in H, c \in C}
    BY <1>3 DEF Sources
  <2>2. /\ \A h \in H : h \in Hosts(name.family)
        /\ \A c \in C : c \in Scope /\ (name.family = "inet" => c = 0)
    BY Special4
  <2>3. ASSUME NEW h \in H, NEW c \in C
        PROVE  At(name, h, c) \in Sockaddr /\ At(name, h, c).family = name.family
    BY <1>1, <2>2, Fields, IsSockaddr DEF At
  <2> HIDE DEF H, C
  <2> QED BY <2>1, <2>3, CanonicalIs
<1> QED BY <1>2, <1>3

\* The tuple of an address has its texts, and its scope if it has room for it.
LEMMA TupleIs ==
    ASSUME NEW a \in Sockaddr
    PROVE  /\ make_sockaddr(a) \in TupleRecord
           /\ make_sockaddr(a).size = IF a.family = "inet" THEN 2 ELSE 4
           /\ make_sockaddr(a).host = a.host /\ make_sockaddr(a).port = ntohs(a.port)
           /\ make_sockaddr(a).scope = a.scope
           /\ make_sockaddr(a) # NoTuple
<1>1. /\ a # NoAddr /\ a.host \in Host4 \cup Host6 /\ a.scope \in Scope
      /\ ntohs(a.port) \in Int /\ a.family \in {"inet", "inet6"}
  BY Fields, BytesComeBack DEF Hosts
<1>2. CASE a.family = "inet"
  <2>1. make_sockaddr(a) = [size |-> 2, host |-> a.host, port |-> ntohs(a.port), scope |-> 0]
    BY <1>1, <1>2 DEF make_sockaddr, Pair, Tuple
  <2> QED BY <1>1, <1>2, <2>1, Fields DEF TupleRecord, NoTuple, Tuple
<1>3. CASE a.family = "inet6"
  <2>1. make_sockaddr(a) =
          [size |-> 4, host |-> a.host, port |-> ntohs(a.port), scope |-> a.scope]
    BY <1>1, <1>3 DEF make_sockaddr, Tuple
  <2> QED BY <1>1, <1>3, <2>1, Fields DEF TupleRecord, NoTuple, Tuple
<1> QED BY <1>1, <1>2, <1>3

\* An address that a program passes; if it was told, it is what it was told.
LEMMA GivenIs ==
    ASSUME HeardIs, NEW s \in Sock, NEW g \in Given(family[s])
    PROVE  /\ g.v \in TupleRecord /\ g.real \in Addr
           /\ g.real # NoAddr =>
                /\ Known(g.real) /\ g.v.size \in {2, 4} /\ g.v.host = g.real.host
                /\ g.v.port = ntohs(g.real.port)
<1>1. heard.tuple \in TupleRecord /\ heard.real \in Addr /\ FineHeard(heard)
  BY DEF HeardIs
<1>2. heard.real # NoAddr =>
        /\ Known(heard.real) /\ heard.tuple.size \in {2, 4}
        /\ heard.tuple.host = heard.real.host /\ heard.tuple.port = ntohs(heard.real.port)
  BY <1>1, TupleIs DEF FineHeard, Known
<1>3. CASE g \in {[v |-> heard.tuple, real |-> heard.real]}
  BY <1>1, <1>2, <1>3
<1>4. CASE g \in {[v |-> Pair(heard.tuple.host, heard.tuple.port), real |-> heard.real]}
  <2>1. g.v = [size |-> 2, host |-> heard.tuple.host, port |-> heard.tuple.port, scope |-> 0]
        /\ g.real = heard.real
    BY <1>4 DEF Pair, Tuple
  <2>2. heard.tuple.host \in Host4 \cup Host6 \cup Special /\ heard.tuple.port \in Int
    BY <1>1 DEF TupleRecord
  <2>3. g.v \in TupleRecord
    BY <2>1, <2>2, Special4 DEF TupleRecord
  <2> QED BY <1>1, <1>2, <2>1, <2>3
<1>5. CASE g \in [v : {Pair(h, n) : h \in Texts(family[s]), n \in AskedPort}, real : {NoAddr}]
  <2>1. PICK h \in Texts(family[s]), n \in AskedPort : g.v = Pair(h, n)
    BY <1>5
  <2>2. g.v = [size |-> 2, host |-> h, port |-> n, scope |-> 0]
    BY <2>1 DEF Pair, Tuple
  <2>3. h \in Host4 \cup Host6 \cup Special /\ n \in Int
    BY AddressesAssumption DEF AddressesAssumption, Texts, Hosts
  <2>4. g.v \in TupleRecord
    BY <2>2, <2>3, Special4 DEF TupleRecord
  <2> QED BY <1>5, <2>4 DEF Addr
<1> QED BY <1>3, <1>4, <1>5 DEF Given

\* What the library is handed for a tuple is what the tuple means.
LEMMA HandedIs ==
    ASSUME NEW s \in Sock, NEW g, g.v \in TupleRecord, NEW a \in Handed(s, g)
    PROVE  /\ a \in Sockaddr /\ a.family = family[s] /\ a.family = desc[s].family
           /\ g.v # NoTuple /\ ntohs(a.port) = g.v.port /\ a.port = htons(g.v.port)
           /\ g.v.host \notin Special => a.host = g.v.host
           /\ Means(g.v, a)
<1> DEFINE f == family[s]
<1>1. /\ f \in {"inet", "inet6"} /\ g.v.size = 2 /\ PortFits(g.v.port)
      /\ a \in [family : {f}, host : HostsOf(f, g.v.host), port : {htons(g.v.port)},
                scope : IF f = "inet" THEN {0} ELSE Scope]
      /\ a.family = desc[s].family
  BY DEF Handed, get_sockaddr_from_tuple
<1>2. g.v.port \in Int /\ g.v.host \in Host4 \cup Host6 \cup Special
  BY DEF TupleRecord
<1>3. ntohs(htons(g.v.port)) = g.v.port /\ htons(g.v.port) \in Bytes
  BY <1>1, <1>2, PortComesBack, CutInt
<1>4. /\ a.family = f /\ a.host \in HostsOf(f, g.v.host) /\ a.port = htons(g.v.port)
      /\ a.scope \in Scope /\ (f = "inet" => a.scope = 0)
      /\ a = [family |-> f, host |-> a.host, port |-> a.port, scope |-> a.scope]
  BY <1>1, Special4
<1> HIDE DEF f
<1>5. /\ a.host \in Hosts(f)
      /\ g.v.host = Empty => Wildcard(a)
      /\ g.v.host = BroadcastText => a.host = Broadcast
      /\ g.v.host # Empty /\ g.v.host # BroadcastText => a.host = g.v.host
  <2>1. CASE g.v.host = Empty
    <3>1. HostsOf(f, g.v.host) = {IF f = "inet" THEN Any4 ELSE Any6}
      BY <2>1, Special4 DEF HostsOf
    <3> QED BY <1>1, <1>4, <2>1, <3>1, Special4 DEF Hosts, Wildcard
  <2>2. CASE g.v.host = BroadcastText /\ f = "inet"
    <3>1. HostsOf(f, g.v.host) = {Broadcast}
      BY <2>2, Special4 DEF HostsOf
    <3> QED BY <1>4, <2>2, <3>1, Special4 DEF Hosts
  <2>3. CASE g.v.host # Empty /\ ~(g.v.host = BroadcastText /\ f = "inet")
    <3>1. HostsOf(f, g.v.host) = {g.v.host} \cap Hosts(f)
      BY <2>3 DEF HostsOf
    <3> QED BY <1>4, <2>3, <3>1, Special4 DEF Hosts
  <2> QED BY <2>1, <2>2, <2>3
<1>6. a \in Sockaddr
  BY <1>1, <1>3, <1>4, <1>5, IsSockaddr
<1>7. Means(g.v, a)
  BY <1>3, <1>4, <1>5, Special4 DEF Means
<1>8. g.v # NoTuple
  BY <1>1 DEF NoTuple, Tuple
<1>9. g.v.host \notin Special => a.host = g.v.host
  BY <1>5, Special4
<1> QED BY <1>1, <1>3, <1>4, <1>6, <1>7, <1>8, <1>9 DEF f

----------------------------------------------------------------------------
(* The steps *)

\* It holds before any socket is made.
LEMMA InitInv == Init => Inv
<1> SUFFICES ASSUME Init PROVE Inv
  OBVIOUS
<1>1. NoAddr \in Addr /\ NoTuple \in TupleRecord
  BY Special4 DEF Addr, NoTuple, Tuple, TupleRecord
<1>2. Closed \in DescRecord
  BY <1>1 DEF Closed, DescRecord
<1>3. FineDesc("none", Closed, FALSE)
  BY DEF FineDesc, Closed, Own
<1>4. SocketsAre
  BY <1>2, <1>3 DEF Init, SocketsAre
<1>5. HeardIs /\ NetIs
  BY <1>1 DEF Init, HeardIs, FineHeard, NetIs
<1>6. LastIs
  BY DEF Init, LastIs, FineLast, LastRecord, Nothing
<1>7. calls \in 0..MaxCalls
  BY AddressesAssumption DEF Init, AddressesAssumption
<1> QED BY <1>4, <1>5, <1>6, <1>7 DEF Inv

\* A step that changes one socket, and at most its object and its permission.
LEMMA DescStep ==
    ASSUME SocketsAre, NEW s \in Sock, NEW d \in DescRecord,
           desc' = [desc EXCEPT ![s] = d],
           NEW f \in {"none", "inet", "inet6", "other"}, family' = [family EXCEPT ![s] = f],
           NEW p \in BOOLEAN, permitted' = [permitted EXCEPT ![s] = p], FineDesc(f, d, p)
    PROVE  SocketsAre'
<1>1. /\ family' \in [Sock -> {"none", "inet", "inet6", "other"}]
      /\ desc' \in [Sock -> DescRecord] /\ permitted' \in [Sock -> BOOLEAN]
  BY DEF SocketsAre
<1>2. ASSUME NEW r \in Sock PROVE FineDesc(family'[r], desc'[r], permitted'[r])
  <2>1. CASE r = s
    BY <1>1, <2>1 DEF SocketsAre
  <2>2. CASE r # s
    BY <1>1, <2>2 DEF SocketsAre
  <2> QED BY <2>1, <2>2
<1> QED BY <1>1, <1>2 DEF SocketsAre

\* A step that changes no object and no permission.
LEMMA SocketStep ==
    ASSUME SocketsAre, NEW s \in Sock, NEW d \in DescRecord,
           desc' = [desc EXCEPT ![s] = d], UNCHANGED <<family, permitted>>,
           FineDesc(family[s], d, permitted[s])
    PROVE  SocketsAre'
<1>1. desc' \in [Sock -> DescRecord] /\ family' = family /\ permitted' = permitted
  BY DEF SocketsAre
<1>2. ASSUME NEW r \in Sock PROVE FineDesc(family'[r], desc'[r], permitted'[r])
  <2>1. CASE r = s
    BY <1>1, <2>1 DEF SocketsAre
  <2>2. CASE r # s
    BY <1>1, <2>2 DEF SocketsAre
  <2> QED BY <2>1, <2>2
<1> QED BY <1>1, <1>2 DEF SocketsAre

\* A step that changes no socket.
LEMMA SocketsStay ==
    ASSUME SocketsAre, UNCHANGED <<family, desc, permitted>>
    PROVE  SocketsAre'
BY DEF SocketsAre

\* The last method did nothing that counts.
LEMMA LastNothing == ASSUME last' = Nothing PROVE LastIs'
BY DEF LastIs, LastRecord, FineLast, Nothing

\* A told address is taken if the method goes on, and refused only as a tuple of four.
LEMMA LastPassed ==
    ASSUME HeardIs, NEW s \in Sock, NEW g \in Given(family[s]), NEW taken \in BOOLEAN,
           Passed(s, g, taken),
           taken \/ (Told(g) /\ g.real.family = family[s]
                       /\ get_sockaddr_from_tuple(family[s], g.v) = {})
    PROVE  LastIs'
<1>1. CASE last' = Nothing
  BY <1>1, LastNothing
<1>2. CASE last' = GivenBack(g.v.size, taken)
  <2>1. g.v.size \in {0, 2, 4}
    BY GivenIs DEF TupleRecord
  <2>2. last' \in LastRecord
    BY <1>2, <2>1 DEF LastRecord, GivenBack
  <2>3. ASSUME g.v.size = 2, ~taken PROVE FALSE
    <3> DEFINE f == family[s]
    <3>1. /\ Known(g.real) /\ g.v.host = g.real.host /\ g.v.port = ntohs(g.real.port)
          /\ g.real \in Sockaddr /\ g.real.family = f
      BY <2>3, GivenIs DEF Told, Known
    <3>2. f \in {"inet", "inet6"} /\ PortFits(g.v.port) /\ g.v.host \in Hosts(f)
      BY <3>1, Fields, BytesComeBack
    <3>3. g.v.host \in HostsOf(f, g.v.host)
      <4>1. g.v.host \notin Special
        BY <3>2, Special4 DEF Hosts
      <4>2. g.v.host # Empty /\ g.v.host # BroadcastText
        BY <4>1, Special4
      <4> QED BY <3>2, <4>2 DEF HostsOf
    <3> HIDE DEF f
    <3>4. [family |-> f, host |-> g.v.host, port |-> htons(g.v.port), scope |-> 0]
            \in get_sockaddr_from_tuple(f, g.v)
      BY <2>3, <3>2, <3>3, Special4 DEF get_sockaddr_from_tuple
    <3> QED BY <2>3, <3>4 DEF f
  <2>4. FineLast(last')
    BY <1>2, <2>3 DEF FineLast, GivenBack
  <2> QED BY <2>2, <2>4 DEF LastIs
<1> QED BY <1>1, <1>2 DEF Passed

\* The socket of the library that takes an address has an object that knows it.
LEMMA SocketIs ==
    ASSUME SocketsAre, NEW s \in Sock
    PROVE  /\ desc[s] \in DescRecord /\ family[s] \in {"none", "inet", "inet6", "other"}
           /\ permitted[s] \in BOOLEAN /\ FineDesc(family[s], desc[s], permitted[s])
           /\ desc[s].name \in Addr /\ desc[s].peer \in Addr /\ desc[s].asked \in TupleRecord
           /\ desc[s].family \in {"none", "inet", "inet6"} /\ desc[s].broadcast \in BOOLEAN
           /\ desc[s].down \in SUBSET {"rd", "wr"}
BY DEF SocketsAre, DescRecord

\* A socket that sends, or connects to an address of its family, has a name.
LEMMA NamedSocket ==
    ASSUME SocketsAre, NEW s \in Sock, NEW name \in Names(s), family[s] \in {"inet", "inet6"},
           desc[s].family = family[s], NEW peer, Own(desc[s], peer),
           NEW d \in DescRecord, d.name = name, d.peer = peer,
           d.family = desc[s].family, d.asked = desc[s].asked, d.broadcast = desc[s].broadcast
    PROVE  FineDesc(family[s], d, permitted[s])
<1>1. FineDesc(family[s], desc[s], permitted[s])
  BY SocketIs
<1>2. /\ Known(name) /\ name.family = desc[s].family
      /\ desc[s].name # NoAddr => name = desc[s].name
  BY <1>1, NamesIs DEF FineDesc
<1>3. name # NoAddr
  BY <1>2, Fields DEF Known
<1>4. Own(d, d.name) /\ Own(d, d.peer)
  BY <1>2 DEF Own
<1>5. d.asked # NoTuple => d.name = desc[s].name
  BY <1>1, <1>2 DEF FineDesc
<1> QED BY <1>1, <1>3, <1>4, <1>5 DEF FineDesc

\* A socket is made, or a descriptor is adopted, under a family.
LEMMA MadeStep ==
    ASSUME SocketsAre, NEW s \in Sock, NEW f \in {"inet", "inet6", "other"},
           NEW df \in {"inet", "inet6"}, Made(s, f, df)
    PROVE  SocketsAre' /\ LastIs' /\ UNCHANGED <<heard, net>>
<1> DEFINE d == [desc[s] EXCEPT !.family = df]
<1>1. /\ family[s] = "none" /\ family' = [family EXCEPT ![s] = f]
      /\ desc' = [desc EXCEPT ![s] = d] /\ last' = Nothing
      /\ UNCHANGED <<permitted, heard, net>>
  BY DEF Made
<1>2. /\ d \in DescRecord /\ d.name = desc[s].name /\ d.peer = desc[s].peer
      /\ d.asked = desc[s].asked /\ d.broadcast = desc[s].broadcast
  BY SocketIs DEF DescRecord
<1> HIDE DEF d
<1>3. FineDesc(f, d, permitted[s])
  <2>1. FineDesc("none", desc[s], permitted[s])
    BY <1>1, SocketIs
  <2> QED BY <1>2, <2>1 DEF FineDesc, Own
<1>4. PICK p \in BOOLEAN : p = permitted[s]
  BY SocketIs
<1>5. permitted' = [permitted EXCEPT ![s] = p]
  BY <1>1, <1>4 DEF SocketsAre
<1>6. FineDesc(f, d, p)
  BY <1>3, <1>4
<1>7. SocketsAre'
  BY <1>1, <1>2, <1>5, <1>6, DescStep
<1> QED BY <1>1, <1>7, LastNothing

\* bind: the name means the pair that was asked for, but for port 0.
LEMMA BindStep ==
    ASSUME SocketsAre, HeardIs, NEW s \in Sock, NEW g \in Given(family[s]), Bind(s, g)
    PROVE  SocketsAre' /\ LastIs' /\ UNCHANGED <<heard, net>>
<1>1. PICK a \in Handed(s, g) : \E name \in Bindable(Canonical(a)) :
        desc' = [desc EXCEPT ![s].name = name, ![s].asked = g.v]
  BY DEF Bind
<1>2. PICK name \in Bindable(Canonical(a)) :
        desc' = [desc EXCEPT ![s].name = name, ![s].asked = g.v]
  BY <1>1
<1>3. g.v \in TupleRecord
  BY GivenIs
<1>4. /\ a \in Sockaddr /\ a.family = family[s] /\ a.family = desc[s].family
      /\ g.v # NoTuple /\ ntohs(a.port) = g.v.port /\ a.port = htons(g.v.port)
      /\ Means(g.v, a)
  BY <1>3, HandedIs
<1>5. /\ Known(Canonical(a)) /\ Canonical(a).family = a.family /\ Canonical(a).host = a.host
      /\ Canonical(a).port = a.port
  BY <1>4, CanonicalIs
<1>6. /\ Known(name) /\ name.family = a.family /\ name.host = a.host
      /\ a.port # htons(0) => name = Canonical(a)
  BY <1>5, BindableIs
<1>7. name \in Sockaddr /\ name # NoAddr /\ name \in Addr
  BY <1>6, Fields DEF Known, Addr
<1> DEFINE d == [desc[s] EXCEPT !.name = name, !.asked = g.v]
<1>8. /\ desc' = [desc EXCEPT ![s] = d]
      /\ d \in DescRecord /\ d.name = name /\ d.asked = g.v /\ d.family = desc[s].family
      /\ d.peer = desc[s].peer /\ d.broadcast = desc[s].broadcast
  <2>1. desc' = [desc EXCEPT ![s] = d]
    BY <1>2
  <2>2. /\ d \in DescRecord /\ d.name = name /\ d.asked = g.v /\ d.family = desc[s].family
        /\ d.peer = desc[s].peer /\ d.broadcast = desc[s].broadcast
    BY <1>3, <1>7, SocketIs DEF DescRecord
  <2> QED BY <2>1, <2>2
<1> HIDE DEF d
<1>9. g.v.port # 0 => Means(g.v, name)
  <2> SUFFICES ASSUME g.v.port # 0 PROVE Means(g.v, name)
    OBVIOUS
  <2>1. ntohs(htons(0)) = 0
    <3>1. PortFits(0)
      <4>1. Base * Base >= 1
        BY BaseIs
      <4> QED BY <4>1, BaseIs DEF PortFits
    <3> QED BY <3>1, PortComesBack
  <2>2. a.port # htons(0)
    BY <1>4, <2>1
  <2>3. name.port = a.port /\ name.host = a.host
    BY <1>5, <1>6, <2>2
  <2> QED BY <1>4, <2>3 DEF Means, Wildcard
<1>10. FineDesc(family[s], d, permitted[s])
  <2>1. FineDesc(family[s], desc[s], permitted[s])
    BY SocketIs
  <2>2. family[s] # "none"
    BY <1>4, Fields
  <2>3. Own(d, d.name) /\ Own(d, d.peer)
    BY <1>4, <1>6, <1>8, <2>1 DEF FineDesc, Own
  <2> QED BY <1>7, <1>8, <1>9, <2>1, <2>2, <2>3 DEF FineDesc
<1>11. /\ UNCHANGED <<family, permitted, heard, net>> /\ Passed(s, g, TRUE)
  BY DEF Bind
<1>12. SocketsAre'
  BY <1>8, <1>10, <1>11, SocketStep
<1>13. LastIs'
  BY <1>11, LastPassed
<1> QED BY <1>11, <1>12, <1>13

\* connect: the peer is an address of the library.
LEMMA ConnectStep ==
    ASSUME SocketsAre, HeardIs, NEW s \in Sock, NEW g \in Given(family[s]), Connect(s, g)
    PROVE  SocketsAre' /\ LastIs' /\ UNCHANGED <<heard, net>>
<1>1. PICK a \in Handed(s, g), name \in Names(s) :
        desc' = [desc EXCEPT ![s].name = name, ![s].peer = Canonical(a)]
  BY DEF Connect
<1>2. a \in Sockaddr /\ a.family = family[s] /\ a.family = desc[s].family
  BY GivenIs, HandedIs
<1>3. /\ Known(Canonical(a)) /\ Canonical(a).family = desc[s].family
      /\ family[s] \in {"inet", "inet6"}
  BY <1>2, CanonicalIs, Fields
<1>4. Known(name)
  BY <1>2, <1>3, NamesIs, SocketIs DEF FineDesc
<1>5. PICK peer \in Addr : peer = Canonical(a) /\ Own(desc[s], peer) /\ name \in Addr
  BY <1>3, <1>4 DEF Own, Known, Addr
<1> DEFINE d == [desc[s] EXCEPT !.name = name, !.peer = peer]
<1>6. desc' = [desc EXCEPT ![s] = d]
  BY <1>1, <1>5
<1>7. /\ d \in DescRecord /\ d.name = name /\ d.peer = peer
      /\ d.family = desc[s].family /\ d.asked = desc[s].asked
      /\ d.broadcast = desc[s].broadcast
  BY <1>5, SocketIs DEF DescRecord
<1> HIDE DEF d
<1>8. FineDesc(family[s], d, permitted[s])
  BY <1>2, <1>3, <1>5, <1>7, NamedSocket
<1>9. /\ UNCHANGED <<family, permitted, heard, net>> /\ Passed(s, g, TRUE)
  BY DEF Connect
<1>10. SocketsAre'
  BY <1>6, <1>7, <1>8, <1>9, SocketStep
<1> QED BY <1>9, <1>10, LastPassed

\* sendto: the datagram goes to what the pair means, and to the very address that
\* was told if the pair is of one.
LEMMA SendtoStep ==
    ASSUME SocketsAre, HeardIs, NetIs, NEW s \in Sock, NEW g \in Given(family[s]), Sendto(s, g)
    PROVE  SocketsAre' /\ LastIs' /\ NetIs' /\ heard' = heard
<1>1. PICK a \in Handed(s, g), name \in Names(s) : \E from \in Sources(name) :
        /\ ~Wildcard(a) /\ (a.host = Broadcast => desc[s].broadcast)
        /\ desc' = [desc EXCEPT ![s].name = name]
        /\ net' = net \cup {Datagram(from, Canonical(a), g, permitted[s])}
  BY DEF Sendto
<1>2. PICK from \in Sources(name) :
        net' = net \cup {Datagram(from, Canonical(a), g, permitted[s])}
  BY <1>1
<1>3. /\ g.v \in TupleRecord /\ g.real \in Addr
      /\ g.real # NoAddr =>
           Known(g.real) /\ g.v.host = g.real.host /\ g.v.port = ntohs(g.real.port)
  BY GivenIs
<1>4. /\ a \in Sockaddr /\ a.family = family[s] /\ a.family = desc[s].family
      /\ a.port = htons(g.v.port) /\ (g.v.host \notin Special => a.host = g.v.host)
      /\ Means(g.v, a)
  BY <1>3, HandedIs
<1>5. /\ Known(Canonical(a)) /\ Canonical(a).family = a.family /\ Canonical(a).host = a.host
      /\ Canonical(a).port = a.port /\ family[s] \in {"inet", "inet6"}
  BY <1>4, CanonicalIs, Fields
<1>6. FineDesc(family[s], desc[s], permitted[s])
  BY SocketIs
<1>7. Known(name) /\ name.family = desc[s].family
  BY <1>4, <1>5, <1>6, NamesIs DEF FineDesc
<1>8. Known(from) /\ from.family = a.family
  BY <1>4, <1>7, SourcesIs
<1>9. g.real # NoAddr => Canonical(a) = g.real \/ g.real.host \in LinkLocal
  <2> SUFFICES ASSUME g.real # NoAddr, g.real.host \notin LinkLocal
               PROVE  Canonical(a) = g.real
    OBVIOUS
  <2>1. g.real \in Sockaddr /\ g.v.host = g.real.host /\ g.v.port = ntohs(g.real.port)
    BY <1>3 DEF Known
  <2>2. g.real.host \notin Special /\ g.real.port \in Bytes
    BY <2>1, Fields, Special4 DEF Hosts
  <2>3. a.host = g.real.host /\ a.port = g.real.port
    BY <1>4, <2>1, <2>2, BytesComeBack
  <2> QED BY <1>3, <1>5, <2>3, SameAddress
<1> DEFINE d == Datagram(from, Canonical(a), g, permitted[s])
<1>10. d \in DatagramRecord /\ FineDatagram(d)
  <2>1. d = [from |-> from, to |-> Canonical(a), asked |-> g.v, real |-> g.real,
             allowed |-> permitted[s]]
    BY DEF Datagram
  <2>2. d \in DatagramRecord
    BY <1>3, <1>5, <1>8, <2>1, SocketIs DEF Known, DatagramRecord
  <2>3. Means(g.v, Canonical(a))
    BY <1>4, <1>5 DEF Means, Wildcard
  <2>4. Canonical(a).host = Broadcast => permitted[s]
    BY <1>1, <1>5, <1>6 DEF FineDesc
  <2> HIDE DEF d
  <2> QED BY <1>4, <1>5, <1>8, <1>9, <2>1, <2>2, <2>3, <2>4 DEF FineDatagram
<1>11. NetIs'
  <2>1. net' = net \cup {d}
    BY <1>2
  <2> HIDE DEF d
  <2> QED BY <1>10, <2>1 DEF NetIs
<1> DEFINE e == [desc[s] EXCEPT !.name = name]
<1>12. desc' = [desc EXCEPT ![s] = e]
  BY <1>1
<1>13. /\ e \in DescRecord /\ e.name = name /\ e.peer = desc[s].peer
       /\ e.family = desc[s].family /\ e.asked = desc[s].asked
       /\ e.broadcast = desc[s].broadcast
  BY <1>7, SocketIs DEF DescRecord, Known, Addr
<1> HIDE DEF d, e
<1>14. FineDesc(family[s], e, permitted[s])
  BY <1>4, <1>5, <1>6, <1>13, NamedSocket DEF FineDesc
<1>15. /\ UNCHANGED <<family, permitted, heard>> /\ Passed(s, g, TRUE)
  BY DEF Sendto
<1>16. SocketsAre'
  BY <1>12, <1>13, <1>14, <1>15, SocketStep
<1> QED BY <1>11, <1>15, <1>16, LastPassed

\* bind, connect or sendto refuses an address: nothing changes.
LEMMA RefuseStep ==
    ASSUME SocketsAre, HeardIs, NEW s \in Sock, NEW g \in Given(family[s]), Refuse(s, g)
    PROVE  SocketsAre' /\ LastIs' /\ UNCHANGED <<heard, net>>
<1>1. /\ Told(g) /\ g.real.family = family[s] /\ get_sockaddr_from_tuple(family[s], g.v) = {}
      /\ Passed(s, g, FALSE) /\ UNCHANGED <<family, desc, permitted, heard, net>>
  BY DEF Refuse
<1>2. LastIs'
  BY <1>1, LastPassed
<1> QED BY <1>1, <1>2, SocketsStay

\* An address is told about itself.
LEMMA HearsStep ==
    ASSUME NEW a \in Addr, NEW real \in {a, NoAddr}, real = NoAddr \/ Known(real), Hears(a, real)
    PROVE  HeardIs' /\ UNCHANGED <<family, desc, permitted>>
<1>1. heard' = [tuple |-> make_sockaddr(a), real |-> real]
      /\ UNCHANGED <<family, desc, permitted>>
  BY DEF Hears
<1>2. make_sockaddr(a) \in TupleRecord
  <2>1. CASE a = NoAddr
    <3>1. make_sockaddr(a) = NoTuple
      <4>1. NoAddr.family = "none"
        BY DEF NoAddr
      <4> QED BY <2>1, <4>1 DEF make_sockaddr
    <3> QED BY <3>1, Special4 DEF NoTuple, Tuple, TupleRecord
  <2>2. CASE a \in Sockaddr
    BY <2>2, TupleIs
  <2> QED BY <2>1, <2>2 DEF Addr
<1>3. heard' \in [tuple : TupleRecord, real : Addr]
  BY <1>1, <1>2 DEF Addr
<1>4. FineHeard(heard')
  BY <1>1 DEF FineHeard
<1> QED BY <1>1, <1>3, <1>4 DEF HeardIs

\* recvfrom tells the whole address of the sender, where the object knows its family.
LEMMA GutsStep ==
    ASSUME SocketsAre, NetIs, NEW s \in Sock, NEW d \in net, Guts(s, d)
    PROVE  HeardIs' /\ LastIs' /\ NetIs' /\ UNCHANGED <<family, desc, permitted>>
<1> DEFINE room == getsockaddrlen(family[s])
<1>1. PICK a \in Found(d.from, room) :
        Hears(a, IF desc[s].family = family[s] THEN d.from ELSE NoAddr)
  BY DEF Guts
<1>2. /\ d \in DatagramRecord /\ FineDatagram(d)
      /\ d.from \in Sockaddr /\ d.to \in Sockaddr /\ Known(d.from)
      /\ d.from.family = d.to.family
  BY DEF NetIs, DatagramRecord, FineDatagram
<1>3. desc[s].family = d.from.family
  <2>1. Own(desc[s], desc[s].name) /\ desc[s].name.family = d.to.family
    BY SocketIs DEF FineDesc, Guts, Receives
  <2>2. d.to.family # "none" /\ NoAddr.family = "none"
    BY <1>2, Fields DEF NoAddr
  <2> QED BY <1>2, <2>1, <2>2 DEF Own
<1>4. room = (IF family[s] = "inet" THEN 16 ELSE 28)
  BY DEF getsockaddrlen, Length
<1>5. d.from.family = family[s] \/ d.from.family = "inet" => a = d.from
  <2>1. ASSUME d.from.family = family[s] \/ d.from.family = "inet"
        PROVE  room >= Length(d.from.family)
    <3> HIDE DEF room
    <3> QED BY <1>4, <2>1 DEF Length
  <2> HIDE DEF room
  <2> QED BY <2>1 DEF Found
<1>6. a \in Sockaddr
  <2>1. CASE a = d.from
    BY <1>2, <2>1
  <2>2. CASE a # d.from
    <3>1. d.from.family = "inet6"
      BY <1>2, <1>5, <2>2, Fields
    <3>2. PICK h \in Host6, c \in Scope : a = At(d.from, h, c)
      BY <2>2 DEF Found
    <3>3. a = [family |-> "inet6", host |-> h, port |-> d.from.port, scope |-> c]
      BY <3>1, <3>2 DEF At
    <3>4. d.from.port \in Bytes /\ h \in Hosts("inet6")
      BY <1>2, Fields DEF Hosts
    <3> QED BY <3>3, <3>4, IsSockaddr
  <2> QED BY <2>1, <2>2
<1>7. HeardIs' /\ UNCHANGED <<family, desc, permitted>>
  <2>1. a \in Addr
    BY <1>6 DEF Addr
  <2>2. CASE desc[s].family = family[s]
    <3>1. a = d.from /\ Known(a) /\ Hears(a, a)
      BY <1>1, <1>2, <1>3, <1>5, <2>2
    <3> QED BY <2>1, <3>1, HearsStep
  <2>3. CASE desc[s].family # family[s]
    <3>1. Hears(a, NoAddr)
      BY <1>1, <2>3
    <3> QED BY <2>1, <3>1, HearsStep
  <2> QED BY <2>2, <2>3
<1>8. net' \subseteq net /\ last' = Nothing
  BY DEF Guts
<1>9. NetIs'
  BY <1>8 DEF NetIs
<1> QED BY <1>7, <1>8, <1>9, LastNothing

\* So do getsockname and getpeername; after a shutdown recvfrom tells none.
LEMMA TellStep ==
    ASSUME SocketsAre, NetIs, NEW s \in Sock, EndOfData(s) \/ Getsockname(s) \/ Getpeername(s)
    PROVE  SocketsAre' /\ HeardIs' /\ LastIs' /\ NetIs'
<1>1. last' = Nothing /\ net' = net
  BY DEF EndOfData, Getsockname, Getpeername, Tells
<1>2. HeardIs' /\ UNCHANGED <<family, desc, permitted>>
  <2>1. CASE EndOfData(s)
    <3>1. Hears(NoAddr, NoAddr) /\ NoAddr \in Addr
      BY <2>1 DEF EndOfData, Addr
    <3> QED BY <3>1, HearsStep
  <2>2. CASE Getsockname(s) \/ Getpeername(s)
    <3>1. PICK a \in {desc[s].name, desc[s].peer} : a # NoAddr /\ Hears(a, a)
      BY <2>2 DEF Getsockname, Getpeername, Tells
    <3>2. Own(desc[s], a) /\ a \in Addr
      BY SocketIs DEF FineDesc
    <3> QED BY <3>1, <3>2, HearsStep DEF Own
  <2> QED BY <2>1, <2>2
<1>3. NetIs'
  BY <1>1 DEF NetIs
<1> QED BY <1>1, <1>2, <1>3, SocketsStay, LastNothing

\* setsockopt of SO_BROADCAST: the library and what was asked change together.
LEMMA SetsockoptStep ==
    ASSUME SocketsAre, NEW s \in Sock, NEW form, NEW on \in BOOLEAN, Setsockopt(s, form, on)
    PROVE  SocketsAre' /\ LastIs' /\ UNCHANGED <<heard, net>>
<1> DEFINE d == [desc[s] EXCEPT !.broadcast = on]
<1>1. desc' = [desc EXCEPT ![s] = d]
  BY DEF Setsockopt
<1>2. permitted' = [permitted EXCEPT ![s] = on]
  BY DEF Setsockopt
<1>3. family' = family /\ last' = Nothing /\ UNCHANGED <<heard, net>>
  BY DEF Setsockopt
<1>4. /\ d \in DescRecord /\ d.name = desc[s].name /\ d.peer = desc[s].peer
      /\ d.family = desc[s].family /\ d.asked = desc[s].asked /\ d.broadcast = on
  BY SocketIs DEF DescRecord
<1> HIDE DEF d
<1>5. FineDesc(family[s], d, on)
  BY <1>4, SocketIs DEF FineDesc, Own
<1>6. PICK f \in {"none", "inet", "inet6", "other"} : f = family[s]
  BY SocketIs
<1>7. family' = [family EXCEPT ![s] = f]
  BY <1>3, <1>6 DEF SocketsAre
<1>8. FineDesc(f, d, on)
  BY <1>5, <1>6
<1>9. SocketsAre'
  BY <1>1, <1>2, <1>4, <1>7, <1>8, DescStep, ZenonT(60)
<1> QED BY <1>3, <1>9, LastNothing

\* shutdown, and what setsockopt and getsockopt say of SO_BROADCAST.
LEMMA OptionStep ==
    ASSUME SocketsAre, NEW s \in Sock,
           \/ \E how \in {{"rd"}, {"wr"}, {"rd", "wr"}} : Shutdown(s, how)
           \/ \E form \in {"int", "None", "buffer"}, on \in BOOLEAN : Setsockopt(s, form, on)
           \/ \E buflen \in {0, 1, 1024, 1025} : Getsockopt(s, buflen)
    PROVE  SocketsAre' /\ LastIs' /\ UNCHANGED <<heard, net>>
<1>1. last' = Nothing /\ UNCHANGED <<heard, net>>
  BY DEF Shutdown, Setsockopt, Getsockopt
<1>2. FineDesc(family[s], desc[s], permitted[s])
  BY SocketIs
<1>3. CASE \E how \in {{"rd"}, {"wr"}, {"rd", "wr"}} : Shutdown(s, how)
  <2>1. PICK how \in {{"rd"}, {"wr"}, {"rd", "wr"}} : Shutdown(s, how)
    BY <1>3
  <2> DEFINE d == [desc[s] EXCEPT !.down = @ \cup how]
  <2>2. desc' = [desc EXCEPT ![s] = d] /\ UNCHANGED <<family, permitted>>
    BY <2>1 DEF Shutdown
  <2>3. how \in SUBSET {"rd", "wr"}
    BY <2>1
  <2>4. desc[s].down \cup how \in SUBSET {"rd", "wr"}
    BY <2>3, SocketIs
  <2>5. /\ d \in DescRecord /\ d.name = desc[s].name /\ d.peer = desc[s].peer
        /\ d.family = desc[s].family /\ d.asked = desc[s].asked
        /\ d.broadcast = desc[s].broadcast
    BY <2>4, SocketIs DEF DescRecord
  <2> HIDE DEF d
  <2>6. FineDesc(family[s], d, permitted[s])
    BY <1>2, <2>5 DEF FineDesc, Own
  <2>7. SocketsAre'
    BY <2>2, <2>5, <2>6, SocketStep, ZenonT(60)
  <2> QED BY <1>1, <2>7, LastNothing
<1>4. CASE \E form \in {"int", "None", "buffer"}, on \in BOOLEAN : Setsockopt(s, form, on)
  BY <1>4, SetsockoptStep
<1>5. CASE \E buflen \in {0, 1, 1024, 1025} : Getsockopt(s, buflen)
  <2>1. permitted' = [permitted EXCEPT ![s] = desc[s].broadcast] /\ UNCHANGED <<family, desc>>
    BY <1>5 DEF Getsockopt
  <2>2. permitted[s] = desc[s].broadcast
    BY <1>2 DEF FineDesc
  <2>3. permitted' = permitted
    BY <2>1, <2>2 DEF SocketsAre
  <2> QED BY <1>1, <2>1, <2>3, SocketsStay, LastNothing
<1> QED BY <1>3, <1>4, <1>5

\* getnameinfo: the texts of a told address make that address again.
LEMMA GetnameinfoStep ==
    ASSUME SocketsAre, HeardIs, Getnameinfo
    PROVE  SocketsAre' /\ LastIs' /\ UNCHANGED <<heard, net>>
<1> DEFINE v == heard.tuple
           a == heard.real
<1>1. /\ a # NoAddr /\ last' = Query(AskedOfResolver(v), a)
      /\ UNCHANGED <<family, desc, permitted, heard, net>>
  BY DEF Getnameinfo, Told
<1>2. a \in Sockaddr /\ v = make_sockaddr(a)
  BY <1>1 DEF HeardIs, FineHeard, Known
<1>3. /\ v.host = a.host /\ htons(v.port) = a.port /\ v.scope = a.scope
  BY <1>2, TupleIs, Fields, BytesComeBack
<1> HIDE DEF v, a
<1>4. AskedOfResolver(v) = a
  <2>1. CASE a.host \in Host4
    <3>1. AskedOfResolver(v) = [family |-> "inet", host |-> a.host, port |-> a.port, scope |-> 0]
      BY <1>3, <2>1 DEF AskedOfResolver
    <3> QED BY <1>2, <2>1, <3>1, Fields
  <2>2. CASE a.host \notin Host4
    <3>1. AskedOfResolver(v) =
            [family |-> "inet6", host |-> a.host, port |-> a.port, scope |-> a.scope]
      BY <1>3, <2>2 DEF AskedOfResolver
    <3> QED BY <1>2, <2>2, <3>1, Fields
  <2> QED BY <2>1, <2>2
<1>5. LastIs'
  BY <1>1, <1>2, <1>4 DEF LastIs, LastRecord, FineLast, Query, Addr
<1> QED BY <1>1, <1>5, SocketsStay

\* Every step keeps the inductive invariant.
LEMMA InvStep == ASSUME Inv, [Next]_vars PROVE Inv'
<1> USE DEF Inv
<1>1. CASE UNCHANGED vars
  BY <1>1, SocketsStay DEF vars, HeardIs, LastIs, NetIs
<1>2. ASSUME UNCHANGED net PROVE NetIs'
  BY <1>2 DEF NetIs
<1>3. ASSUME UNCHANGED heard PROVE HeardIs'
  BY <1>3 DEF HeardIs
<1>4. CASE Next /\ ~UNCHANGED vars
  <2>1. calls' \in 0..MaxCalls
    <3>1. calls' = calls \/ (calls < MaxCalls /\ calls' = calls + 1)
      BY <1>4 DEF Next
    <3> QED BY <3>1, AddressesAssumption DEF AddressesAssumption
  <2>2. ASSUME Getnameinfo PROVE Inv'
    BY <1>2, <1>3, <2>1, <2>2, GetnameinfoStep
  <2>3. ASSUME NEW s \in Sock, Method(s) PROVE Inv'
    <3>1. ASSUME NEW g \in Given(family[s]), Refuse(s, g) \/ Bind(s, g) \/ Connect(s, g)
          PROVE  Inv'
      BY <1>2, <1>3, <2>1, <3>1, RefuseStep, BindStep, ConnectStep
    <3>2. ASSUME NEW g \in Given(family[s]), Sendto(s, g) PROVE Inv'
      BY <1>3, <2>1, <3>2, SendtoStep
    <3>3. ASSUME NEW d \in net, Guts(s, d) PROVE Inv'
      BY <2>1, <3>3, GutsStep, SocketsStay
    <3>4. ASSUME EndOfData(s) \/ Getsockname(s) \/ Getpeername(s) PROVE Inv'
      BY <2>1, <3>4, TellStep
    <3>5. ASSUME \/ \E how \in {{"rd"}, {"wr"}, {"rd", "wr"}} : Shutdown(s, how)
                 \/ \E form \in {"int", "None", "buffer"}, on \in BOOLEAN : Setsockopt(s, form, on)
                 \/ \E buflen \in {0, 1, 1024, 1025} : Getsockopt(s, buflen)
          PROVE  Inv'
      BY <1>2, <1>3, <2>1, <3>5, OptionStep
    <3> QED BY <2>3, <3>1, <3>2, <3>3, <3>4, <3>5 DEF Method, Recvfrom, RecvfromInto
  <2>4. ASSUME NEW s \in Sock, Open(s) PROVE Inv'
    <3>1. PICK f \in {"inet", "inet6", "other"}, df \in {"inet", "inet6"} : Made(s, f, df)
      BY <2>4 DEF Open, NewSocket, AdoptFd
    <3> QED BY <1>2, <1>3, <2>1, <3>1, MadeStep
  <2>5. ASSUME NEW d \in net, Lose(d) PROVE Inv'
    <3>1. net' \subseteq net /\ UNCHANGED <<family, desc, permitted, heard, last>>
      BY <2>5 DEF Lose
    <3>2. NetIs' /\ LastIs'
      BY <3>1 DEF NetIs, LastIs
    <3> QED BY <1>3, <2>1, <3>1, <3>2, SocketsStay
  <2> QED BY <1>4, <2>2, <2>3, <2>4, <2>5 DEF Next
<1> QED BY <1>1, <1>4

\* Every state of the specification satisfies it.
LEMMA SpecInv == Spec => []Inv
<1>1. Init => Inv
  BY InitInv
<1>2. Inv /\ [Next]_vars => Inv'
  BY InvStep
<1> QED BY <1>1, <1>2, PTL DEF Spec

----------------------------------------------------------------------------
(* The theorems *)

\* The types of every variable, in every state.
THEOREM AddressesTypeCorrect == Spec => []TypeOK
<1>1. Inv => TypeOK
  <2> SUFFICES ASSUME Inv PROVE TypeOK
    OBVIOUS
  <2>1. \A s \in Sock : /\ {desc[s].name, desc[s].peer} \subseteq Addr
                        /\ desc[s].asked \in TupleRecord
    BY SocketIs DEF Inv
  <2>2. heard.real \in Addr /\ heard.tuple \in TupleRecord
    BY DEF Inv, HeardIs
  <2>3. last.kind = "query" => {last.asked, last.real} \subseteq Addr
    BY DEF Inv, LastIs, LastRecord, Nothing
  <2>4. \A d \in net : /\ {d.from, d.to} \subseteq Sockaddr
                       /\ d.real \in Addr /\ d.asked \in TupleRecord
    BY DEF Inv, NetIs, DatagramRecord
  <2> QED BY <2>1, <2>2, <2>3, <2>4 DEF Inv, SocketsAre, TypeOK, Addr, TupleRecord
<1> QED BY <1>1, SpecInv, PTL

\* What a program asks for is what the library binds and sends to: no port that
\* does not fit 16 bits is cut, no text is guessed at, whatever the ports.
THEOREM AskedAddressesReached == Spec => []AddressAsAsked
<1>1. Inv => AddressAsAsked
  BY SocketIs DEF Inv, NetIs, FineDatagram, FineDesc, AddressAsAsked
<1> QED BY <1>1, SpecInv, PTL

\* A reply to an address that a method told goes to the socket that has it, or to
\* a link-local address: the tuple loses nothing else.
THEOREM RepliesReach == Spec => []RepliesReachSender
<1>1. Inv => RepliesReachSender
  BY DEF Inv, NetIs, FineDatagram, RepliesReachSender
<1> QED BY <1>1, SpecInv, PTL

\* A pair that a method told is never refused where its address is from: every
\* port and host that the library tells passes the tests of get_sockaddr_from_tuple.
THEOREM PairsAccepted == Spec => []PairsPassBack
<1>1. Inv => PairsPassBack
  BY DEF Inv, LastIs, FineLast, PairsPassBack
<1> QED BY <1>1, SpecInv, PTL

\* getnameinfo of a told address is a query for exactly that address.
THEOREM QueriesExact == Spec => []ResolverAskedExactly
<1>1. Inv => ResolverAskedExactly
  BY DEF Inv, LastIs, FineLast, ResolverAskedExactly
<1> QED BY <1>1, SpecInv, PTL

\* No broadcast leaves a socket of which setsockopt and getsockopt did not say
\* that it may.
THEOREM BroadcastsPermitted == Spec => []BroadcastAsPermitted
<1>1. Inv => BroadcastAsPermitted
  BY DEF Inv, NetIs, FineDatagram, BroadcastAsPermitted
<1> QED BY <1>1, SpecInv, PTL

============================================================================
