------------------------- MODULE StackConfigProofs -------------------------
(***************************************************************************)
(* Theorems about StackConfig, for any stacks, plugins, interfaces and     *)
(* addresses.                                                              *)
(*                                                                         *)
(* Agree is what a method must leave between the configuration that the    *)
(* library has and the account of the calls; all methods change the two by *)
(* Returns, so each has only to show Agree for the values it returns.      *)
(***************************************************************************)
EXTENDS StackConfig, TLAPS

Agree(c, t) ==
    /\ t \in Account
    /\ c.link = t.link /\ c.dns = t.dns
    /\ t.addrs \subseteq c.addrs
    /\ c.addrs \subseteq t.addrs \cup t.mayAddrs

\* The variables that are no configurations.
Rest ==
    /\ obj \in [Stack -> Life] /\ plugin \in [Stack -> Plugin]
    /\ stackName \in Plugin \cup {OtherName, Unset, Freed}
    /\ clean \in [Stack -> BOOLEAN] /\ alone \in [Stack -> BOOLEAN]
    /\ looking \in [Stack -> BOOLEAN] /\ outcome \in [Stack -> Outcomes]
    /\ alive \in BOOLEAN /\ calls \in 0..MaxCalls

Known ==
    /\ Rest
    /\ cfg \in [Stack -> Config] /\ told \in [Stack -> Account]
    /\ \A s \in Stack : clean[s] => Agree(cfg[s], told[s])

----------------------------------------------------------------------------
(* Changes that keep Agree *)

\* Sets of addresses and of routes, with one more, are such sets.
LEMMA MoreAddrs ==
    ASSUME NEW x \in Addrs, NEW a \in Addr, NEW i \in Iface
    PROVE  x \cup {<<a, i>>} \in Addrs /\ x \ {<<a, i>>} \in Addrs
BY DEF Addrs

LEMMA MoreRoutes ==
    ASSUME NEW x \in Routes, NEW r \in (Addr \cup {Anywhere}) \X Addr
    PROVE  x \cup {r} \in Routes /\ x \ {r} \in Routes
BY DEF Routes

\* The account of a configuration agrees with it.
LEMMA AccountAgrees ==
    ASSUME NEW c \in Config
    PROVE  AccountOf(c) \in Account /\ Agree(c, AccountOf(c))
BY DEF Config, Account, AccountOf, Agree, Addrs, Routes

\* An empty configuration, with one link, is a configuration.
LEMMA EmptyIsConfig ==
    /\ Empty \in Config
    /\ \A i \in Iface, m \in Mac : [Empty EXCEPT !.link[i] = NewLink(m)] \in Config
<1>1. Empty \in Config
  BY StackConfigAssumption DEF Empty, Config, Link, Addrs, Routes
<1>2. \A m \in Mac : NewLink(m) \in Link
  BY StackConfigAssumption DEF NewLink, Link
<1> QED BY <1>1, <1>2 DEF Config

\* A link of a configuration set, and a link set on both sides.
LEMMA LinkSet ==
    ASSUME NEW c \in Config, NEW i \in Iface, NEW l \in Link
    PROVE  /\ [c EXCEPT !.link[i] = l] \in Config
           /\ \A t : Agree(c, t) => Agree([c EXCEPT !.link[i] = l], [t EXCEPT !.link[i] = l])
BY DEF Agree, Config, Account

\* A method that returns a configuration, and an account that agrees with it if
\* all was well formed, keeps Known.
LEMMA ReturnsKnown ==
    ASSUME Known, NEW s \in Stack, NEW c \in Config, NEW t, NEW b \in BOOLEAN,
           NEW r \in Outcomes, Calling(s), WellFormed(s, b), Returns(s, c, t, r),
           clean[s] /\ b => Agree(c, t)
    PROVE  Known'
<1>1. Rest'
    BY StackConfigAssumption DEF Known, Rest, Calling, WellFormed, Returns
<1>2. clean'[s] = (clean[s] /\ b) /\ \A u \in Stack \ {s} : clean'[u] = clean[u]
    BY DEF Known, Rest, WellFormed
<1>3. cfg' \in [Stack -> Config] /\ cfg'[s] = c /\ \A u \in Stack \ {s} : cfg'[u] = cfg[u]
    BY DEF Known, Returns
<1>4. /\ told' \in [Stack -> Account]
      /\ \A u \in Stack \ {s} : told'[u] = told[u]
      /\ clean'[s] => told'[s] = t
    BY <1>2 DEF Known, Returns, Agree
<1>5. \A u \in Stack : clean'[u] => Agree(cfg'[u], told'[u])
    BY <1>2, <1>3, <1>4 DEF Known
<1> QED BY <1>1, <1>3, <1>4, <1>5 DEF Known

\* So does one that changes neither.
LEMMA RaisesKnown ==
    ASSUME Known, NEW s \in Stack, NEW b \in BOOLEAN, NEW r \in Outcomes,
           Calling(s), WellFormed(s, b), Raises(s, r)
    PROVE  Known'
<1>1. cfg[s] \in Config /\ (clean[s] /\ b => Agree(cfg[s], told[s]))
    BY DEF Known, Rest
<1> QED BY <1>1, ReturnsKnown DEF Raises

----------------------------------------------------------------------------
(* The invariant holds at first and through every action *)

\* Nothing is built at first, and nothing is asked for.
LEMMA InitKnown == Init => Known
<1> SUFFICES ASSUME Init PROVE Known
  OBVIOUS
<1>1. Rest
  BY StackConfigAssumption DEF Init, Rest, Life, Outcomes
<1>2. AccountOf(Empty) \in Account /\ Agree(Empty, AccountOf(Empty)) /\ Empty \in Config
  BY EmptyIsConfig, AccountAgrees
<1>3. /\ \A s \in Stack : cfg[s] = Empty /\ told[s] = AccountOf(Empty)
      /\ cfg \in [Stack -> Config] /\ told \in [Stack -> Account]
  BY <1>2 DEF Init
<1> QED BY <1>1, <1>2, <1>3 DEF Known

\* A constructor leaves the configuration empty but for one link.
LEMMA StartKnown ==
    ASSUME Known, NEW s \in Stack, NEW p \in Plugin,
           Starts(s, p) \/ StartFails(s), UNCHANGED <<clean, looking, outcome, alive, calls>>,
           stackName' \in Plugin \cup {OtherName, Unset, Freed},
           alone' \in [Stack -> BOOLEAN]
    PROVE  Known'
<1>1. Rest'
  <2>1. /\ obj' = [obj EXCEPT ![s] = "built"] \/ obj' = [obj EXCEPT ![s] = "dead"]
        /\ plugin' = [plugin EXCEPT ![s] = p] \/ plugin' = plugin
    BY DEF Starts, StartFails
  <2> QED BY <2>1 DEF Known, Rest, Life
<1>2. CASE StartFails(s)
  BY <1>1, <1>2 DEF Known, StartFails
<1>3. CASE Starts(s, p)
  <2>1. PICK i \in Iface, m \in Mac :
          LET c == [Empty EXCEPT !.link[i] = NewLink(m)] IN
          cfg' = [cfg EXCEPT ![s] = c] /\ told' = [told EXCEPT ![s] = AccountOf(c)]
    BY <1>3 DEF Starts
  <2> DEFINE c == [Empty EXCEPT !.link[i] = NewLink(m)]
  <2>2. c \in Config
    BY EmptyIsConfig
  <2>3. cfg' = [cfg EXCEPT ![s] = c] /\ told' = [told EXCEPT ![s] = AccountOf(c)]
    BY <2>1
  <2> HIDE DEF c
  <2>4. AccountOf(c) \in Account /\ Agree(c, AccountOf(c))
    BY <2>2, AccountAgrees
  <2>5. cfg' \in [Stack -> Config] /\ told' \in [Stack -> Account]
    BY <2>2, <2>3, <2>4 DEF Known
  <2>6. \A u \in Stack : clean'[u] => Agree(cfg'[u], told'[u])
    BY <2>3, <2>4 DEF Known
  <2> QED BY <1>1, <2>5, <2>6 DEF Known
<1> QED BY <1>2, <1>3

\* The two constructors.
LEMMA NewKnown ==
    ASSUME Known, NEW s \in Stack, NEW p \in Plugin,
           NewStack(s, p)
             \/ \E form \in {"last", "first", "blank", "absent"} : NewStackConfigured(s, p, form)
    PROVE  Known'
<1>1. Starts(s, p) \/ StartFails(s)
  BY DEF NewStack, NewStackConfigured
<1>2. UNCHANGED <<clean, looking, outcome, alive, calls>>
  BY DEF NewStack, NewStackConfigured, Making
<1>3. /\ stackName' \in Plugin \cup {OtherName, Unset, Freed}
      /\ alone' \in [Stack -> BOOLEAN]
  BY DEF NewStack, NewStackConfigured, Name, NamedBy, Known, Rest
<1> QED BY <1>1, <1>2, <1>3, StartKnown

\* Parsing returns an address, for a well-formed text the one it says.
LEMMA ParsedIsAddr ==
    ASSUME NEW text \in Texts, NEW a \in Parsed(text)
    PROVE  a \in Addr /\ (text \in Addr => a = text)
BY DEF Parsed

\* Addresses added and deleted.
LEMMA AddressKnown ==
    ASSUME Known, NEW s \in Stack, NEW text \in Texts, NEW i \in Iface,
           AddAddress(s, text, i) \/ DelAddress(s, text, i)
    PROVE  Known'
<1> DEFINE b == text \in Addr
           c == cfg[s]
           t == told[s]
<1>1. Calling(s) /\ WellFormed(s, b) /\ b \in BOOLEAN
  BY DEF AddAddress, DelAddress
<1>2. c \in Config /\ (clean[s] => Agree(c, t)) /\ clean[s] \in BOOLEAN
  BY DEF Known, Rest
<1>3. CASE Raises(s, "raised")
  <2> HIDE DEF b
  <2> QED BY <1>1, <1>3, RaisesKnown DEF Outcomes
<1>4. ASSUME NEW a \in Parsed(text),
             Returns(s, [c EXCEPT !.addrs = @ \cup {<<a, i>>}],
                        [t EXCEPT !.addrs = @ \cup {<<text, i>>}], "ok")
      PROVE  Known'
  <2>1. a \in Addr /\ (b => a = text)
    BY ParsedIsAddr
  <2>2. [c EXCEPT !.addrs = @ \cup {<<a, i>>}] \in Config
    BY <1>2, <2>1, MoreAddrs DEF Config
  <2>3. clean[s] /\ b => Agree([c EXCEPT !.addrs = @ \cup {<<a, i>>}],
                               [t EXCEPT !.addrs = @ \cup {<<text, i>>}])
    <3> HIDE DEF b, c, t
    <3> QED BY <1>2, <2>1, MoreAddrs DEF Agree, Config, Account
  <2> HIDE DEF b, c, t
  <2> QED BY <1>1, <1>2, <1>4, <2>2, <2>3, ReturnsKnown DEF Outcomes
<1>5. ASSUME NEW a \in Parsed(text),
             Returns(s, [c EXCEPT !.addrs = @ \ {<<a, i>>}],
                        [t EXCEPT !.addrs = @ \ {<<text, i>>},
                                  !.mayAddrs = @ \ {<<text, i>>}], "ok")
      PROVE  Known'
  <2>1. a \in Addr /\ (b => a = text)
    BY ParsedIsAddr
  <2>2. [c EXCEPT !.addrs = @ \ {<<a, i>>}] \in Config
    BY <1>2, <2>1, MoreAddrs DEF Config
  <2>3. clean[s] /\ b => Agree([c EXCEPT !.addrs = @ \ {<<a, i>>}],
                               [t EXCEPT !.addrs = @ \ {<<text, i>>},
                                         !.mayAddrs = @ \ {<<text, i>>}])
    <3> HIDE DEF b, c, t
    <3> QED BY <1>2, <2>1, MoreAddrs DEF Agree, Config, Account
  <2> HIDE DEF b, c, t
  <2> QED BY <1>1, <1>2, <1>5, <2>2, <2>3, ReturnsKnown DEF Outcomes
<1>6. CASE AddAddress(s, text, i)
  BY <1>3, <1>4, <1>6 DEF AddAddress
<1>7. CASE DelAddress(s, text, i)
  BY <1>3, <1>5, <1>7 DEF DelAddress
<1> QED BY <1>6, <1>7

\* A route that was parsed, and one that was asked for, are routes.
LEMMA ParsedIsRoute ==
    ASSUME NEW dst \in Texts \cup {Anywhere}, NEW gw \in Texts
    PROVE  /\ \A r \in RouteParsed(dst, gw) : r \in (Addr \cup {Anywhere}) \X Addr
           /\ RouteWellFormed(dst, gw) => <<dst, gw>> \in (Addr \cup {Anywhere}) \X Addr
BY DEF RouteParsed, Parsed, RouteWellFormed, Texts

\* Routes added and deleted.
LEMMA RouteKnown ==
    ASSUME Known, NEW s \in Stack, NEW dst \in Texts \cup {Anywhere}, NEW gw \in Texts,
           AddRoute(s, dst, gw) \/ DelRoute(s, dst, gw)
    PROVE  Known'
<1> DEFINE b == RouteWellFormed(dst, gw)
           c == cfg[s]
           t == told[s]
<1>1. Calling(s) /\ WellFormed(s, b) /\ b \in BOOLEAN
  BY DEF AddRoute, DelRoute, RouteWellFormed
<1>2. c \in Config /\ (clean[s] => Agree(c, t)) /\ clean[s] \in BOOLEAN
  BY DEF Known, Rest
<1>3. CASE Raises(s, "raised")
  <2> HIDE DEF b
  <2> QED BY <1>1, <1>3, RaisesKnown DEF Outcomes
<1>4. ASSUME NEW r \in RouteParsed(dst, gw),
             Returns(s, [c EXCEPT !.routes = @ \cup {r}],
                        [t EXCEPT !.routes = @ \cup {<<dst, gw>>}], "ok")
      PROVE  Known'
  <2>1. [c EXCEPT !.routes = @ \cup {r}] \in Config
    BY <1>2, ParsedIsRoute, MoreRoutes DEF Config
  <2>2. clean[s] /\ b => Agree([c EXCEPT !.routes = @ \cup {r}],
                               [t EXCEPT !.routes = @ \cup {<<dst, gw>>}])
    <3>1. b => <<dst, gw>> \in (Addr \cup {Anywhere}) \X Addr
      BY ParsedIsRoute
    <3> HIDE DEF b, c, t
    <3> QED BY <1>2, <3>1, MoreRoutes DEF Agree, Config, Account
  <2> HIDE DEF b, c, t
  <2> QED BY <1>1, <1>2, <1>4, <2>1, <2>2, ReturnsKnown DEF Outcomes
<1>5. ASSUME NEW r \in RouteParsed(dst, gw),
             Returns(s, [c EXCEPT !.routes = @ \ {r}],
                        [t EXCEPT !.routes = @ \ {<<dst, gw>>},
                                  !.mayRoutes = @ \ {<<dst, gw>>}], "ok")
      PROVE  Known'
  <2>1. [c EXCEPT !.routes = @ \ {r}] \in Config
    BY <1>2, ParsedIsRoute, MoreRoutes DEF Config
  <2>2. clean[s] /\ b => Agree([c EXCEPT !.routes = @ \ {r}],
                               [t EXCEPT !.routes = @ \ {<<dst, gw>>},
                                         !.mayRoutes = @ \ {<<dst, gw>>}])
    <3>1. b => <<dst, gw>> \in (Addr \cup {Anywhere}) \X Addr
      BY ParsedIsRoute
    <3> HIDE DEF b, c, t
    <3> QED BY <1>2, <3>1, MoreRoutes DEF Agree, Config, Account
  <2> HIDE DEF b, c, t
  <2> QED BY <1>1, <1>2, <1>5, <2>1, <2>2, ReturnsKnown DEF Outcomes
<1>6. CASE AddRoute(s, dst, gw)
  BY <1>3, <1>4, <1>6 DEF AddRoute
<1>7. CASE DelRoute(s, dst, gw)
  BY <1>3, <1>5, <1>7 DEF DelRoute
<1> QED BY <1>6, <1>7

\* A crash changes no configuration.
LEMMA CrashesKnown ==
    ASSUME Known, NEW s \in Stack, NEW b \in BOOLEAN, Calling(s), WellFormed(s, b), Crashes
    PROVE  Known'
<1>1. \A u \in Stack : clean'[u] => clean[u]
  BY DEF Known, Rest, WellFormed
<1>2. calls' \in 0..MaxCalls
  BY StackConfigAssumption DEF Known, Rest, Calling
<1>3. clean' \in [Stack -> BOOLEAN]
  BY DEF Known, Rest, WellFormed
<1>4. Rest'
  BY <1>2, <1>3 DEF Known, Rest, Calling, Crashes
<1> QED BY <1>1, <1>4 DEF Known, Crashes

\* New links, told or not.
LEMMA AddLinkKnown ==
    ASSUME Known, NEW s \in Stack, NEW i \in Iface, NEW m \in Mac, NEW data,
           AddLink(s, i, m, data) \/ AddVdeLink(s, i, m)
    PROVE  Known'
<1> DEFINE c == cfg[s]
           t == told[s]
           l == NewLink(m)
           b == data # "unconverted"
<1>1. c \in Config /\ (clean[s] => Agree(c, t)) /\ clean[s] \in BOOLEAN
  BY DEF Known, Rest
<1>2. Calling(s) /\ b \in BOOLEAN /\ l \in Link
  BY StackConfigAssumption DEF AddLink, AddVdeLink, NewLink, Link
<1>3. /\ [c EXCEPT !.link[i] = l] \in Config
      /\ clean[s] => Agree([c EXCEPT !.link[i] = l], [t EXCEPT !.link[i] = l])
  <2> HIDE DEF c, t, l
  <2> QED BY <1>1, <1>2, LinkSet
<1>4. ASSUME NEW w \in BOOLEAN, WellFormed(s, w), LinkAdded(s, i, m)
      PROVE  Known'
  <2>1. Returns(s, [c EXCEPT !.link[i] = l], [t EXCEPT !.link[i] = l], "linked")
    BY <1>4 DEF LinkAdded
  <2> HIDE DEF c, t, l
  <2> QED BY <1>2, <1>3, <1>4, <2>1, ReturnsKnown DEF Outcomes
<1>5. ASSUME WellFormed(s, FALSE), LinkAddedUntold(s, i, m)
      PROVE  Known'
  <2>1. Returns(s, [c EXCEPT !.link[i] = l], t, "raised")
    BY <1>5 DEF LinkAddedUntold
  <2> HIDE DEF c, t, l
  <2> QED BY <1>2, <1>3, <1>5, <2>1, ReturnsKnown DEF Outcomes
<1>6. ASSUME NEW w \in BOOLEAN, WellFormed(s, w), Raises(s, "raised") \/ Raises(s, "refused")
      PROVE  Known'
  BY <1>2, <1>6, RaisesKnown DEF Outcomes
<1>7. ASSUME NEW w \in BOOLEAN, WellFormed(s, w), Crashes
      PROVE  Known'
  BY <1>2, <1>7, CrashesKnown
<1>8. CASE AddLink(s, i, m, data)
  <2>1. WellFormed(s, b)
    BY <1>8 DEF AddLink
  <2>2. data = "unconverted" => WellFormed(s, FALSE)
    BY <2>1 DEF WellFormed
  <2> HIDE DEF b
  <2> QED BY <1>2, <1>4, <1>5, <1>6, <1>7, <1>8, <2>1, <2>2 DEF AddLink
<1>9. CASE AddVdeLink(s, i, m)
  BY <1>4, <1>6, <1>7, <1>9 DEF AddVdeLink
<1> QED BY <1>8, <1>9

\* A part of a link that is there set on both sides.
LEMMA LinkPartAgrees ==
    ASSUME NEW c \in Config, NEW i \in Iface, c.link[i] # NoLink
    PROVE  /\ \A m \in Mac :
                /\ [c EXCEPT !.link[i].mac = m] \in Config
                /\ \A t : Agree(c, t) =>
                     Agree([c EXCEPT !.link[i].mac = m], [t EXCEPT !.link[i].mac = m])
           /\ \A u \in Mtu :
                /\ [c EXCEPT !.link[i].mtu = u] \in Config
                /\ \A t : Agree(c, t) =>
                     Agree([c EXCEPT !.link[i].mtu = u], [t EXCEPT !.link[i].mtu = u])
           /\ \A up \in BOOLEAN :
                /\ [c EXCEPT !.link[i].up = up] \in Config
                /\ \A t : Agree(c, t) =>
                     Agree([c EXCEPT !.link[i].up = up], [t EXCEPT !.link[i].up = up])
<1>1. c.link[i] \in [mac : Mac, mtu : Mtu, up : BOOLEAN]
  BY DEF Config, Link
<1>2. ASSUME NEW t, Agree(c, t) PROVE t.link[i] = c.link[i]
  BY <1>2 DEF Agree
<1>3. ASSUME NEW m \in Mac
      PROVE  /\ [c EXCEPT !.link[i].mac = m] \in Config
             /\ \A t : Agree(c, t) =>
                  Agree([c EXCEPT !.link[i].mac = m], [t EXCEPT !.link[i].mac = m])
  <2> DEFINE l == [c.link[i] EXCEPT !.mac = m]
  <2>1. l \in Link /\ [c EXCEPT !.link[i].mac = m] = [c EXCEPT !.link[i] = l]
    BY <1>1 DEF Link
  <2>2. ASSUME NEW t, Agree(c, t)
        PROVE  Agree([c EXCEPT !.link[i].mac = m], [t EXCEPT !.link[i].mac = m])
    <3>1. [t EXCEPT !.link[i].mac = m] = [t EXCEPT !.link[i] = l]
      BY <1>2, <2>2
    <3> HIDE DEF l
    <3> QED BY <2>1, <2>2, <3>1, LinkSet
  <2>3. [c EXCEPT !.link[i].mac = m] \in Config
    <3> HIDE DEF l
    <3> QED BY <2>1, LinkSet
  <2> QED BY <2>2, <2>3
<1>4. ASSUME NEW u \in Mtu
      PROVE  /\ [c EXCEPT !.link[i].mtu = u] \in Config
             /\ \A t : Agree(c, t) =>
                  Agree([c EXCEPT !.link[i].mtu = u], [t EXCEPT !.link[i].mtu = u])
  <2> DEFINE l == [c.link[i] EXCEPT !.mtu = u]
  <2>1. l \in Link /\ [c EXCEPT !.link[i].mtu = u] = [c EXCEPT !.link[i] = l]
    BY <1>1 DEF Link
  <2>2. ASSUME NEW t, Agree(c, t)
        PROVE  Agree([c EXCEPT !.link[i].mtu = u], [t EXCEPT !.link[i].mtu = u])
    <3>1. [t EXCEPT !.link[i].mtu = u] = [t EXCEPT !.link[i] = l]
      BY <1>2, <2>2
    <3> HIDE DEF l
    <3> QED BY <2>1, <2>2, <3>1, LinkSet
  <2>3. [c EXCEPT !.link[i].mtu = u] \in Config
    <3> HIDE DEF l
    <3> QED BY <2>1, LinkSet
  <2> QED BY <2>2, <2>3
<1>5. ASSUME NEW up \in BOOLEAN
      PROVE  /\ [c EXCEPT !.link[i].up = up] \in Config
             /\ \A t : Agree(c, t) =>
                  Agree([c EXCEPT !.link[i].up = up], [t EXCEPT !.link[i].up = up])
  <2> DEFINE l == [c.link[i] EXCEPT !.up = up]
  <2>1. l \in Link /\ [c EXCEPT !.link[i].up = up] = [c EXCEPT !.link[i] = l]
    BY <1>1 DEF Link
  <2>2. ASSUME NEW t, Agree(c, t)
        PROVE  Agree([c EXCEPT !.link[i].up = up], [t EXCEPT !.link[i].up = up])
    <3>1. [t EXCEPT !.link[i].up = up] = [t EXCEPT !.link[i] = l]
      BY <1>2, <2>2
    <3> HIDE DEF l
    <3> QED BY <2>1, <2>2, <3>1, LinkSet
  <2>3. [c EXCEPT !.link[i].up = up] \in Config
    <3> HIDE DEF l
    <3> QED BY <2>1, LinkSet
  <2> QED BY <2>2, <2>3
<1> QED BY <1>3, <1>4, <1>5

\* Parts of a link set or read.
LEMMA LinkKnown ==
    ASSUME Known, NEW s \in Stack, NEW i \in Iface,
           \/ \E m \in Mac, six \in BOOLEAN : SetMac(s, i, m, six)
           \/ GetMac(s, i)
           \/ \E u \in Mtu : SetMtu(s, i, u)
           \/ \E up \in BOOLEAN : SetUpDown(s, i, up)
    PROVE  Known'
<1> DEFINE c == cfg[s]
           t == told[s]
<1>1. c \in Config /\ (clean[s] => Agree(c, t)) /\ clean[s] \in BOOLEAN
  BY DEF Known, Rest
<1>2. Calling(s)
  BY DEF SetMac, GetMac, SetMtu, SetUpDown
<1>3. ASSUME NEW b \in BOOLEAN, WellFormed(s, b), Raises(s, "raised") PROVE Known'
  BY <1>2, <1>3, RaisesKnown DEF Outcomes
<1>4. CASE GetMac(s, i)
  <2>1. WellFormed(s, TRUE)
    BY <1>4 DEF GetMac
  <2>2. CASE Returns(s, c, t, "ok")
    <3> HIDE DEF c, t
    <3> QED BY <1>1, <1>2, <2>1, <2>2, ReturnsKnown DEF Outcomes
  <2> QED BY <1>3, <1>4, <2>1, <2>2 DEF GetMac
<1>5. ASSUME NEW m \in Mac, NEW six \in BOOLEAN, SetMac(s, i, m, six)
      PROVE  Known'
  <2>1. WellFormed(s, six)
    BY <1>5 DEF SetMac
  <2>2. CASE /\ c.link[i] # NoLink
             /\ IF six
                THEN Returns(s, [c EXCEPT !.link[i].mac = m], [t EXCEPT !.link[i].mac = m], "ok")
                ELSE Returns(s, [c EXCEPT !.link[i].mac = m], t, "raised")
    <3> HIDE DEF c, t
    <3>1. /\ [c EXCEPT !.link[i].mac = m] \in Config
          /\ clean[s] => Agree([c EXCEPT !.link[i].mac = m], [t EXCEPT !.link[i].mac = m])
      BY <1>1, <2>2, LinkPartAgrees
    <3> QED BY <1>1, <1>2, <2>1, <2>2, <3>1, ReturnsKnown DEF Outcomes
  <2> QED BY <1>3, <1>5, <2>1, <2>2 DEF SetMac
<1>6. ASSUME NEW u \in Mtu, SetMtu(s, i, u)
      PROVE  Known'
  <2>1. WellFormed(s, TRUE)
    BY <1>6 DEF SetMtu
  <2>2. CASE /\ c.link[i] # NoLink
             /\ Returns(s, [c EXCEPT !.link[i].mtu = u], [t EXCEPT !.link[i].mtu = u], "ok")
    <3> HIDE DEF c, t
    <3>1. /\ [c EXCEPT !.link[i].mtu = u] \in Config
          /\ clean[s] => Agree([c EXCEPT !.link[i].mtu = u], [t EXCEPT !.link[i].mtu = u])
      BY <1>1, <2>2, LinkPartAgrees
    <3> QED BY <1>1, <1>2, <2>1, <2>2, <3>1, ReturnsKnown DEF Outcomes
  <2> QED BY <1>3, <1>6, <2>1, <2>2 DEF SetMtu
<1>7. ASSUME NEW up \in BOOLEAN, SetUpDown(s, i, up)
      PROVE  Known'
  <2>1. WellFormed(s, TRUE)
    BY <1>7 DEF SetUpDown
  <2>2. CASE /\ c.link[i] # NoLink
             /\ Returns(s, [c EXCEPT !.link[i].up = up], [t EXCEPT !.link[i].up = up], "ok")
    <3> HIDE DEF c, t
    <3>1. /\ [c EXCEPT !.link[i].up = up] \in Config
          /\ clean[s] => Agree([c EXCEPT !.link[i].up = up], [t EXCEPT !.link[i].up = up])
      BY <1>1, <2>2, LinkPartAgrees
    <3> QED BY <1>1, <1>2, <2>1, <2>2, <3>1, ReturnsKnown DEF Outcomes
  <2> QED BY <1>3, <1>7, <2>1, <2>2 DEF SetUpDown
<1> QED BY <1>4, <1>5, <1>6, <1>7

\* Links deleted, with the addresses that are or may be on them.
LEMMA UnlinkKnown ==
    ASSUME Known, NEW s \in Stack, NEW i \in Iface, DelLink(s, i)
    PROVE  Known'
<1> DEFINE c == cfg[s]
           t == told[s]
<1>1. c \in Config /\ (clean[s] => Agree(c, t)) /\ clean[s] \in BOOLEAN
  BY DEF Known, Rest
<1>2. Calling(s) /\ WellFormed(s, TRUE)
  BY DEF DelLink
<1>3. CASE Raises(s, "raised")
  BY <1>2, <1>3, RaisesKnown DEF Outcomes
<1>4. CASE Returns(s, Unlinked(c, i), ToldUnlinked(t, i), "ok")
  <2> HIDE DEF c, t
  <2>1. Unlinked(c, i) \in Config
    BY <1>1 DEF Config, Unlinked, Others, Link, Addrs
  <2>2. ASSUME clean[s] PROVE Agree(Unlinked(c, i), ToldUnlinked(t, i))
    <3>1. t \in Account /\ c.link = t.link
      BY <1>1, <2>2 DEF Agree
    <3>2. /\ Unlinked(c, i).link = [c.link EXCEPT ![i] = NoLink]
          /\ Unlinked(c, i).addrs = Others(c.addrs, i)
          /\ Unlinked(c, i).dns = c.dns
      BY <1>1 DEF Config, Unlinked
    <3>3. /\ ToldUnlinked(t, i).link = [t.link EXCEPT ![i] = NoLink]
          /\ ToldUnlinked(t, i).addrs = Others(t.addrs, i)
          /\ ToldUnlinked(t, i).mayAddrs = Others(t.mayAddrs, i)
          /\ ToldUnlinked(t, i).dns = t.dns
      BY <3>1 DEF Account, ToldUnlinked, Unlinked
    <3>4. ToldUnlinked(t, i) \in Account
      BY <3>1 DEF Account, ToldUnlinked, Unlinked, Others, Link, Addrs
    <3>5. /\ Others(t.addrs, i) \subseteq Others(c.addrs, i)
          /\ Others(c.addrs, i) \subseteq Others(t.addrs, i) \cup Others(t.mayAddrs, i)
      BY <1>1, <2>2 DEF Agree, Others
    <3> QED BY <1>1, <2>2, <3>2, <3>3, <3>4, <3>5 DEF Agree
  <2> QED BY <1>1, <1>2, <1>4, <2>1, <2>2, ReturnsKnown DEF Outcomes
<1> QED BY <1>3, <1>4 DEF DelLink

\* The resolver given another configuration.
LEMMA DnsKnown ==
    ASSUME Known, NEW s \in Stack, NEW d \in Dns, NEW slash \in BOOLEAN, NEW path \in BOOLEAN,
           UpgradeDns(s, d, slash, path)
    PROVE  Known'
<1> DEFINE b == slash = path
           c == cfg[s]
           t == told[s]
<1>1. c \in Config /\ (clean[s] => Agree(c, t)) /\ clean[s] \in BOOLEAN
  BY DEF Known, Rest
<1>2. Calling(s) /\ WellFormed(s, b) /\ b \in BOOLEAN
  BY DEF UpgradeDns
<1>3. CASE Raises(s, "raised")
  <2> HIDE DEF b
  <2> QED BY <1>2, <1>3, RaisesKnown DEF Outcomes
<1>4. ASSUME NEW e \in Dns, b => e = d,
             Returns(s, [c EXCEPT !.dns = e], [t EXCEPT !.dns = d], "ok")
      PROVE  Known'
  <2> HIDE DEF b, c, t
  <2>1. [c EXCEPT !.dns = e] \in Config
    BY <1>1 DEF Config
  <2>2. clean[s] /\ b => Agree([c EXCEPT !.dns = e], [t EXCEPT !.dns = d])
    BY <1>1, <1>4 DEF Agree, Config, Account
  <2> QED BY <1>2, <1>4, <2>1, <2>2, ReturnsKnown DEF Outcomes
<1> QED BY <1>3, <1>4 DEF UpgradeDns

\* Addresses and routes added to a configuration.
LEMMA ConfiguredIs ==
    ASSUME NEW c, c \in Config \/ c \in Account,
           NEW x \in Addrs, NEW r \in Routes
    PROVE  /\ c \in Config => Configured(c, x, r) \in Config
           /\ c \in Account => Configured(c, x, r) \in Account
           /\ Configured(c, x, r).addrs = c.addrs \cup x
           /\ Configured(c, x, r).routes = c.routes \cup r
           /\ Configured(c, x, r).link = c.link
           /\ Configured(c, x, r).dns = c.dns
           /\ c \in Account => /\ Configured(c, x, r).mayAddrs = c.mayAddrs
                               /\ Configured(c, x, r).mayRoutes = c.mayRoutes
BY DEF Config, Account, Configured, Addrs, Routes

\* ioth_config, whether it succeeds or leaves a part of its work.
LEMMA ConfigureKnown ==
    ASSUME Known, NEW s \in Stack, NEW a \in Addr, NEW i \in Iface, NEW g \in Addr,
           Configure(s, a, i, g)
    PROVE  Known'
<1> DEFINE c == cfg[s]
           t == told[s]
           ip == {<<a, i>>}
           gw == {<<Anywhere, g>>}
<1>1. c \in Config /\ (clean[s] => Agree(c, t)) /\ clean[s] \in BOOLEAN
  BY DEF Known, Rest
<1>2. Calling(s) /\ WellFormed(s, TRUE)
  BY DEF Configure
<1>3. ip \in Addrs /\ gw \in Routes
  BY DEF Addrs, Routes
<1>4. CASE Returns(s, Configured(c, ip, gw), Configured(t, ip, gw), "ok")
  <2> HIDE DEF c, t, ip, gw
  <2>1. Configured(c, ip, gw) \in Config
    BY <1>1, <1>3, ConfiguredIs
  <2>2. clean[s] => Agree(Configured(c, ip, gw), Configured(t, ip, gw))
    BY <1>1, <1>3, ConfiguredIs DEF Agree
  <2> QED BY <1>2, <1>4, <2>1, <2>2, ReturnsKnown DEF Outcomes
<1>5. ASSUME NEW x \in SUBSET ip, NEW r \in SUBSET gw,
             Returns(s, Configured(c, x, r),
                        [t EXCEPT !.mayAddrs = @ \cup ip, !.mayRoutes = @ \cup gw], "raised")
      PROVE  Known'
  <2> HIDE DEF c, t, ip, gw
  <2>1. x \in Addrs /\ r \in Routes
    BY <1>3, <1>5 DEF Addrs, Routes
  <2>2. Configured(c, x, r) \in Config
    BY <1>1, <2>1, ConfiguredIs
  <2>3. ASSUME clean[s]
        PROVE  Agree(Configured(c, x, r),
                     [t EXCEPT !.mayAddrs = @ \cup ip, !.mayRoutes = @ \cup gw])
    <3>1. [t EXCEPT !.mayAddrs = @ \cup ip, !.mayRoutes = @ \cup gw] \in Account
      BY <1>1, <1>3, <2>3 DEF Agree, Account, Addrs, Routes
    <3> QED BY <1>1, <2>1, <2>3, <3>1, ConfiguredIs DEF Agree, Account
  <2> QED BY <1>2, <1>5, <2>2, <2>3, ReturnsKnown DEF Outcomes
<1> QED BY <1>4, <1>5 DEF Configure

\* Steps that change no configuration.
LEMMA OthersKnown ==
    ASSUME Known,
           \/ \E s \in Stack : Finalize(s) \/ Lookup(s) \/ LookupAgain(s)
           \/ NameFreed \/ UNCHANGED vars
    PROVE  Known'
<1>1. UNCHANGED <<cfg, told, clean>>
  BY DEF Finalize, NameFreed, Lookup, LookupAgain, vars, history
<1>2. calls' \in 0..MaxCalls
  BY StackConfigAssumption DEF Known, Rest, Calling, Finalize, NameFreed, Lookup, LookupAgain, vars
<1>3. Rest'
  <2>1. CASE \E s \in Stack : Finalize(s)
    BY <1>2, <2>1 DEF Known, Rest, Life, Finalize, history
  <2>2. CASE NameFreed
    BY <1>2, <2>2 DEF Known, Rest, NameFreed
  <2>3. CASE \E s \in Stack : Lookup(s)
    BY <1>2, <2>3 DEF Known, Rest, Calling, Lookup, Outcomes
  <2>4. CASE \E s \in Stack : LookupAgain(s)
    BY <1>2, <2>4 DEF Known, Rest, LookupAgain, Outcomes, history
  <2>5. CASE UNCHANGED vars
    BY <1>2, <2>5 DEF Known, Rest, vars, history
  <2> QED BY <2>1, <2>2, <2>3, <2>4, <2>5
<1> QED BY <1>1, <1>3 DEF Known

\* Every step keeps the invariant.
LEMMA StepKnown == Known /\ [Next]_vars => Known'
<1> SUFFICES ASSUME Known, [Next]_vars PROVE Known'
  OBVIOUS
<1>1. ASSUME NEW s \in Stack, Method(s) PROVE Known'
  <2>1. CASE \E text \in Texts, i \in Iface : AddAddress(s, text, i) \/ DelAddress(s, text, i)
    BY <2>1, AddressKnown
  <2>2. CASE \E dst \in Texts \cup {Anywhere}, gw \in Texts :
               AddRoute(s, dst, gw) \/ DelRoute(s, dst, gw)
    BY <2>2, RouteKnown
  <2>3. CASE \E i \in Iface, m \in Mac, data \in LinkData :
               AddLink(s, i, m, data) \/ AddVdeLink(s, i, m)
    BY <2>3, AddLinkKnown
  <2>4. CASE \E i \in Iface : DelLink(s, i)
    BY <2>4, UnlinkKnown
  <2>5. CASE \E a \in Addr, i \in Iface, g \in Addr : Configure(s, a, i, g)
    BY <2>5, ConfigureKnown
  <2>6. CASE Lookup(s) \/ LookupAgain(s)
    BY <2>6, OthersKnown
  <2>7. CASE \/ \E i \in Iface, m \in Mac, six \in BOOLEAN : SetMac(s, i, m, six)
             \/ \E i \in Iface, u \in Mtu : GetMac(s, i) \/ SetMtu(s, i, u)
             \/ \E i \in Iface, up \in BOOLEAN : SetUpDown(s, i, up)
    BY <2>7, LinkKnown
  <2>8. CASE \E d \in Dns, slash, path \in BOOLEAN : UpgradeDns(s, d, slash, path)
    BY <2>8, DnsKnown
  <2> QED BY <1>1, <2>1, <2>2, <2>3, <2>4, <2>5, <2>6, <2>7, <2>8, StackConfigAssumption
          DEF Method, LinkData
<1>2. ASSUME NEW s \in Stack, NEW p \in Plugin,
             NewStack(s, p)
               \/ \E form \in {"last", "first", "blank", "absent"} : NewStackConfigured(s, p, form)
      PROVE  Known'
  BY <1>2, NewKnown
<1>3. ASSUME NEW s \in Stack, Finalize(s) PROVE Known'
  BY <1>3, OthersKnown
<1>4. CASE NameFreed \/ UNCHANGED vars
  BY <1>4, OthersKnown
<1> QED BY <1>1, <1>2, <1>3, <1>4 DEF Next, Done

\* Every variable of StackConfig keeps its type (TypeOK), for any instance.
THEOREM ConfigTypeCorrect == Spec => []TypeOK
<1>1. Known => TypeOK
  BY DEF Known, Rest, TypeOK
<1> QED BY <1>1, InitKnown, StepKnown, PTL DEF Spec

\* As long as every argument was well formed, the calls that returned account
\* for the links, addresses and resolver that the library has (ConfigAsTold), but
\* for the addresses that a failed ioth_config named: no other method of
\* iothpy_stack.c drops or repeats a change, or makes one and raises.
THEOREM ConfigurationKnown == Spec => []ConfigAsTold
<1>1. Known => ConfigAsTold
  BY DEF Known, Agree, ConfigAsTold
<1> QED BY <1>1, InitKnown, StepKnown, PTL DEF Spec

----------------------------------------------------------------------------
(* The routes.  Gated says of each route of the library why it is there:    *)
(* it is a default route asked for, or one that leads to its own gateway    *)
(* because the destination is parsed from the gateway's string.  Without    *)
(* the second half, deleting one route could take away the reason of        *)
(* another.                                                                 *)

Gated(c, t, b) ==
    b => \A r \in Addr \cup {Anywhere}, g \in Addr : <<r, g>> \in c.routes =>
            \/ r = Anywhere /\ <<Anywhere, g>> \in t.routes \cup t.mayRoutes
            \/ r = g /\ \E d \in Addr : <<d, g>> \in t.routes \cup t.mayRoutes

AllGated == \A s \in Stack : Gated(cfg[s], told[s], clean[s])

\* A method that returns gated routes keeps AllGated.
LEMMA ReturnsGated ==
    ASSUME Known, AllGated, NEW s \in Stack, NEW c, NEW t, NEW b \in BOOLEAN, NEW r,
           WellFormed(s, b), Returns(s, c, t, r), Gated(c, t, clean[s] /\ b)
    PROVE  AllGated'
<1>1. \A u \in Stack \ {s} : cfg'[u] = cfg[u] /\ told'[u] = told[u] /\ clean'[u] = clean[u]
  BY DEF Known, Rest, Returns, WellFormed
<1>2. clean'[s] = (clean[s] /\ b)
  BY DEF Known, Rest, WellFormed
<1>3. cfg'[s] = c /\ (clean'[s] => told'[s] = t)
  BY DEF Known, Returns
<1>4. Gated(cfg[s], told[s], clean[s])'
  BY <1>2, <1>3 DEF Gated
<1>5. \A u \in Stack \ {s} : Gated(cfg[u], told[u], clean[u])'
  BY <1>1 DEF AllGated, Gated
<1> QED BY <1>4, <1>5 DEF AllGated

\* So does one that returns the routes as they are.
LEMMA RoutesKept ==
    ASSUME Known, AllGated, NEW s \in Stack, NEW c, NEW t, NEW b \in BOOLEAN, NEW r,
           WellFormed(s, b), Returns(s, c, t, r), c.routes = cfg[s].routes,
           clean[s] /\ b => t.routes = told[s].routes /\ t.mayRoutes = told[s].mayRoutes
    PROVE  AllGated'
<1>1. Gated(cfg[s], told[s], clean[s]) /\ clean[s] \in BOOLEAN
  BY DEF AllGated, Known, Rest
<1>2. Gated(c, t, clean[s] /\ b)
  BY <1>1 DEF Gated
<1> QED BY <1>2, ReturnsGated

\* So does a method that raises.
LEMMA RaisesGated ==
    ASSUME Known, AllGated, NEW s \in Stack, NEW b \in BOOLEAN, NEW r,
           WellFormed(s, b), Raises(s, r)
    PROVE  AllGated'
BY RoutesKept DEF Raises

\* Routes added and deleted.
LEMMA RouteGated ==
    ASSUME Known, AllGated, NEW s \in Stack,
           NEW dst \in Texts \cup {Anywhere}, NEW gw \in Texts,
           AddRoute(s, dst, gw) \/ DelRoute(s, dst, gw)
    PROVE  AllGated'
<1> DEFINE b == RouteWellFormed(dst, gw)
           c == cfg[s]
           t == told[s]
<1>1. WellFormed(s, b) /\ b \in BOOLEAN
  BY DEF AddRoute, DelRoute, RouteWellFormed
<1>2. CASE Raises(s, "raised")
  <2> HIDE DEF b
  <2> QED BY <1>1, <1>2, RaisesGated
<1>3. Gated(c, t, clean[s]) /\ clean[s] \in BOOLEAN /\ c \in Config /\ t \in Account
  BY DEF AllGated, Known, Rest
<1>4. ASSUME NEW r \in RouteParsed(dst, gw), b
      PROVE  /\ gw \in Addr
             /\ \/ dst = Anywhere /\ r = <<Anywhere, gw>>
                \/ dst \in Addr /\ r = <<gw, gw>>
  BY <1>4, StackConfigAssumption DEF RouteWellFormed, RouteParsed, Parsed, Texts
<1>5. ASSUME NEW r \in RouteParsed(dst, gw),
             Returns(s, [c EXCEPT !.routes = @ \cup {r}],
                        [t EXCEPT !.routes = @ \cup {<<dst, gw>>}], "ok")
      PROVE  AllGated'
  <2>1. /\ [c EXCEPT !.routes = @ \cup {r}].routes = c.routes \cup {r}
        /\ [t EXCEPT !.routes = @ \cup {<<dst, gw>>}].routes = t.routes \cup {<<dst, gw>>}
        /\ [t EXCEPT !.routes = @ \cup {<<dst, gw>>}].mayRoutes = t.mayRoutes
    BY <1>3 DEF Config, Account
  <2>2. Gated([c EXCEPT !.routes = @ \cup {r}],
              [t EXCEPT !.routes = @ \cup {<<dst, gw>>}], clean[s] /\ b)
    <3> HIDE DEF b, c, t
    <3> QED BY <1>3, <1>4, <2>1, StackConfigAssumption DEF Gated
  <2> HIDE DEF b, c, t
  <2> QED BY <1>1, <1>5, <2>2, ReturnsGated
<1>6. ASSUME NEW r \in RouteParsed(dst, gw),
             Returns(s, [c EXCEPT !.routes = @ \ {r}],
                        [t EXCEPT !.routes = @ \ {<<dst, gw>>},
                                  !.mayRoutes = @ \ {<<dst, gw>>}], "ok")
      PROVE  AllGated'
  <2> DEFINE d == [c EXCEPT !.routes = @ \ {r}]
             e == [t EXCEPT !.routes = @ \ {<<dst, gw>>}, !.mayRoutes = @ \ {<<dst, gw>>}]
  <2>1. /\ d.routes = c.routes \ {r}
        /\ e.routes \cup e.mayRoutes = (t.routes \cup t.mayRoutes) \ {<<dst, gw>>}
    BY <1>3 DEF Config, Account
  <2>2. Gated(d, e, clean[s] /\ b)
    <3> HIDE DEF b, c, t, d, e
    <3> QED BY <1>3, <1>4, <2>1, StackConfigAssumption DEF Gated
  <2>3. Returns(s, d, e, "ok")
    BY <1>6
  <2> HIDE DEF b, c, t, d, e
  <2> QED BY <1>1, <2>2, <2>3, ReturnsGated
<1>7. CASE AddRoute(s, dst, gw)
  BY <1>2, <1>5, <1>7 DEF AddRoute
<1>8. CASE DelRoute(s, dst, gw)
  BY <1>2, <1>6, <1>8 DEF DelRoute
<1> QED BY <1>7, <1>8

\* Methods that have nothing to do with routes.
LEMMA OtherMethodsGated ==
    ASSUME Known, AllGated, NEW s \in Stack,
           \/ \E text \in Texts, i \in Iface : AddAddress(s, text, i) \/ DelAddress(s, text, i)
           \/ \E i \in Iface, up \in BOOLEAN : SetUpDown(s, i, up) \/ DelLink(s, i)
           \/ \E i \in Iface, m \in Mac, six \in BOOLEAN, data \in LinkData :
                SetMac(s, i, m, six) \/ AddLink(s, i, m, data) \/ AddVdeLink(s, i, m)
           \/ \E i \in Iface, u \in Mtu : GetMac(s, i) \/ SetMtu(s, i, u)
           \/ \E d \in Dns, slash, path \in BOOLEAN : UpgradeDns(s, d, slash, path)
    PROVE  AllGated'
<1> DEFINE c == cfg[s]
           t == told[s]
<1>1. c \in Config /\ t \in Account
  BY DEF Known
<1>2. ASSUME NEW w \in BOOLEAN, WellFormed(s, w), Crashes
      PROVE  AllGated'
  <2>1. UNCHANGED <<cfg, told>> /\ \A u \in Stack : clean'[u] => clean[u]
    BY <1>2 DEF Known, Rest, WellFormed, Crashes
  <2> QED BY <2>1 DEF AllGated, Gated
<1>3. ASSUME NEW text \in Texts, NEW i \in Iface,
             AddAddress(s, text, i) \/ DelAddress(s, text, i)
      PROVE  AllGated'
  <2> DEFINE b == text \in Addr
  <2>1. WellFormed(s, text \in Addr)
    BY <1>3 DEF AddAddress, DelAddress
  <2>2. WellFormed(s, b) /\ b \in BOOLEAN
    BY <2>1
  <2>3. CASE Raises(s, "raised")
    <3> HIDE DEF b
    <3> QED BY <2>2, <2>3, RaisesGated
  <2>4. ASSUME NEW x, NEW y, NEW z,
               \/ Returns(s, [c EXCEPT !.addrs = x], [t EXCEPT !.addrs = y], "ok")
               \/ Returns(s, [c EXCEPT !.addrs = x],
                             [t EXCEPT !.addrs = y, !.mayAddrs = z], "ok")
        PROVE  AllGated'
    <3>1. /\ [c EXCEPT !.addrs = x].routes = c.routes
          /\ [t EXCEPT !.addrs = y].routes = t.routes
          /\ [t EXCEPT !.addrs = y].mayRoutes = t.mayRoutes
          /\ [t EXCEPT !.addrs = y, !.mayAddrs = z].routes = t.routes
          /\ [t EXCEPT !.addrs = y, !.mayAddrs = z].mayRoutes = t.mayRoutes
      BY <1>1 DEF Config, Account
    <3> HIDE DEF b
    <3> QED BY <2>2, <2>4, <3>1, RoutesKept
  <2>5. CASE AddAddress(s, text, i)
    BY <2>3, <2>4, <2>5 DEF AddAddress
  <2>6. CASE DelAddress(s, text, i)
    BY <2>3, <2>4, <2>6 DEF DelAddress
  <2> QED BY <1>3, <2>5, <2>6
<1>4. ASSUME NEW x, NEW y, NEW r, NEW w \in BOOLEAN, WellFormed(s, w),
             \/ Returns(s, [c EXCEPT !.link = x], [t EXCEPT !.link = y], r)
             \/ Returns(s, [c EXCEPT !.link = x], t, r)
      PROVE  AllGated'
  <2>1. /\ [c EXCEPT !.link = x].routes = c.routes
        /\ [t EXCEPT !.link = y].routes = t.routes
        /\ [t EXCEPT !.link = y].mayRoutes = t.mayRoutes
    BY <1>1 DEF Config, Account
  <2> QED BY <1>4, <2>1, RoutesKept
<1>5. ASSUME NEW i \in Iface, NEW up \in BOOLEAN, SetUpDown(s, i, up)
      PROVE  AllGated'
  BY <1>4, <1>5, RaisesGated DEF SetUpDown
<1>6. ASSUME NEW i \in Iface, DelLink(s, i)
      PROVE  AllGated'
  <2>1. WellFormed(s, TRUE)
    BY <1>6 DEF DelLink
  <2>2. /\ Unlinked(c, i).routes = c.routes
        /\ ToldUnlinked(t, i).routes = t.routes
        /\ ToldUnlinked(t, i).mayRoutes = t.mayRoutes
    BY <1>1 DEF Config, Account, Unlinked, ToldUnlinked
  <2> QED BY <1>6, <2>1, <2>2, RoutesKept, RaisesGated DEF DelLink
<1>7. ASSUME NEW i \in Iface, NEW m \in Mac, NEW six \in BOOLEAN, SetMac(s, i, m, six)
      PROVE  AllGated'
  BY <1>4, <1>7, RaisesGated DEF SetMac
<1>8. ASSUME NEW i \in Iface, NEW m \in Mac, NEW w \in BOOLEAN, WellFormed(s, w),
             LinkAdded(s, i, m) \/ LinkAddedUntold(s, i, m)
      PROVE  AllGated'
  BY <1>4, <1>8 DEF LinkAdded, LinkAddedUntold
<1>9. ASSUME NEW i \in Iface, NEW m \in Mac, NEW data, AddLink(s, i, m, data)
      PROVE  AllGated'
  <2>1. \E w \in BOOLEAN : WellFormed(s, w)
    BY <1>9 DEF AddLink
  <2> QED BY <1>2, <1>8, <1>9, <2>1, RaisesGated DEF AddLink
<1>10. ASSUME NEW i \in Iface, NEW m \in Mac, AddVdeLink(s, i, m)
      PROVE  AllGated'
  BY <1>2, <1>8, <1>10, RaisesGated DEF AddVdeLink
<1>11. ASSUME NEW i \in Iface, NEW u \in Mtu, GetMac(s, i) \/ SetMtu(s, i, u)
      PROVE  AllGated'
  <2>1. WellFormed(s, TRUE)
    BY <1>11 DEF GetMac, SetMtu
  <2>2. CASE Returns(s, c, t, "ok")
    BY <2>1, <2>2, RoutesKept
  <2> QED BY <1>4, <1>11, <2>1, <2>2, RaisesGated DEF GetMac, SetMtu
<1>12. ASSUME NEW d \in Dns, NEW slash \in BOOLEAN, NEW path \in BOOLEAN,
             UpgradeDns(s, d, slash, path)
      PROVE  AllGated'
  <2> DEFINE b == slash = path
  <2>1. WellFormed(s, b) /\ b \in BOOLEAN
    BY <1>12 DEF UpgradeDns
  <2>2. \A e : /\ [c EXCEPT !.dns = e].routes = c.routes
               /\ [t EXCEPT !.dns = e].routes = t.routes
               /\ [t EXCEPT !.dns = e].mayRoutes = t.mayRoutes
    BY <1>1 DEF Config, Account
  <2>3. \/ Raises(s, "raised")
        \/ \E e : Returns(s, [c EXCEPT !.dns = e], [t EXCEPT !.dns = d], "ok")
    BY <1>12 DEF UpgradeDns
  <2> HIDE DEF b
  <2> QED BY <2>1, <2>2, <2>3, RoutesKept, RaisesGated
<1> QED BY <1>3, <1>5, <1>6, <1>7, <1>9, <1>10, <1>11, <1>12

\* ioth_config adds a default route, or may have added it, on both sides.
LEMMA ConfigureGated ==
    ASSUME Known, AllGated, NEW s \in Stack, NEW a \in Addr, NEW i \in Iface, NEW g \in Addr,
           Configure(s, a, i, g)
    PROVE  AllGated'
<1> DEFINE c == cfg[s]
           t == told[s]
           ip == {<<a, i>>}
           gw == {<<Anywhere, g>>}
<1>1. Gated(c, t, clean[s]) /\ clean[s] \in BOOLEAN /\ c \in Config /\ t \in Account
  BY DEF AllGated, Known, Rest
<1>2. WellFormed(s, TRUE)
  BY DEF Configure
<1>3. ip \in Addrs /\ gw \in Routes
  BY DEF Addrs, Routes
<1>4. ASSUME NEW x \in Addrs, NEW r \in SUBSET gw, NEW e,
             t.routes \cup t.mayRoutes \cup gw \subseteq e.routes \cup e.mayRoutes
      PROVE  Gated(Configured(c, x, r), e, clean[s])
  <2>1. r \in Routes
    BY <1>3, <1>4 DEF Routes
  <2>2. Configured(c, x, r).routes = c.routes \cup r
    <3> HIDE DEF c, gw
    <3> QED BY <1>1, <1>4, <2>1, ConfiguredIs
  <2> HIDE DEF c, t
  <2> QED BY <1>1, <1>4, <2>2 DEF Gated
<1>5. CASE Returns(s, Configured(c, ip, gw), Configured(t, ip, gw), "ok")
  <2> HIDE DEF c, t, ip, gw
  <2>1. Gated(Configured(c, ip, gw), Configured(t, ip, gw), clean[s])
    BY <1>1, <1>3, <1>4, ConfiguredIs
  <2> QED BY <1>1, <1>2, <1>5, <2>1, ReturnsGated
<1>6. ASSUME NEW x \in SUBSET ip, NEW r \in SUBSET gw,
             Returns(s, Configured(c, x, r),
                        [t EXCEPT !.mayAddrs = @ \cup ip, !.mayRoutes = @ \cup gw], "raised")
      PROVE  AllGated'
  <2> DEFINE e == [t EXCEPT !.mayAddrs = @ \cup ip, !.mayRoutes = @ \cup gw]
  <2>1. e.routes = t.routes /\ e.mayRoutes = t.mayRoutes \cup gw
    BY <1>1 DEF Account
  <2>2. Returns(s, Configured(c, x, r), e, "raised")
    BY <1>6
  <2> HIDE DEF c, t, ip, gw, e
  <2>3. x \in Addrs
    BY <1>3, <1>6 DEF Addrs
  <2>4. Gated(Configured(c, x, r), e, clean[s])
    BY <1>4, <2>1, <2>3
  <2> QED BY <1>1, <1>2, <2>2, <2>4, ReturnsGated
<1> QED BY <1>5, <1>6 DEF Configure

\* A new stack has no routes.
LEMMA NewGated ==
    ASSUME Known, AllGated, NEW s \in Stack, NEW p \in Plugin,
           NewStack(s, p)
             \/ \E form \in {"last", "first", "blank", "absent"} : NewStackConfigured(s, p, form)
    PROVE  AllGated'
<1>1. Starts(s, p) \/ StartFails(s)
  BY DEF NewStack, NewStackConfigured
<1>2. clean' = clean
  BY DEF NewStack, NewStackConfigured, Making
<1>3. CASE StartFails(s)
  BY <1>2, <1>3 DEF StartFails, AllGated, Gated
<1>4. CASE Starts(s, p)
  <2>1. PICK i \in Iface, m \in Mac :
          LET c == [Empty EXCEPT !.link[i] = NewLink(m)] IN
          cfg' = [cfg EXCEPT ![s] = c] /\ told' = [told EXCEPT ![s] = AccountOf(c)]
    BY <1>4 DEF Starts
  <2>2. cfg'[s].routes = {}
    BY <2>1 DEF Known, Empty
  <2>3. \A u \in Stack \ {s} : cfg'[u] = cfg[u] /\ told'[u] = told[u]
    BY <2>1 DEF Known
  <2> QED BY <1>2, <2>2, <2>3 DEF AllGated, Gated
<1> QED BY <1>1, <1>3, <1>4

\* Every step keeps the routes gated.
LEMMA StepGated == Known /\ AllGated /\ [Next]_vars => AllGated'
<1> SUFFICES ASSUME Known, AllGated, [Next]_vars PROVE AllGated'
  OBVIOUS
<1>1. ASSUME UNCHANGED <<cfg, told, clean>> PROVE AllGated'
  BY <1>1 DEF AllGated, Gated
<1>2. ASSUME NEW s \in Stack, Method(s) PROVE AllGated'
  <2>1. CASE \/ \E text \in Texts, i \in Iface : AddAddress(s, text, i) \/ DelAddress(s, text, i)
             \/ \E i \in Iface, up \in BOOLEAN : SetUpDown(s, i, up)
             \/ \E i \in Iface : DelLink(s, i)
             \/ \E i \in Iface, m \in Mac :
                  \/ \E six \in BOOLEAN : SetMac(s, i, m, six)
                  \/ \E data \in LinkData : AddLink(s, i, m, data)
                  \/ AddVdeLink(s, i, m)
             \/ \E i \in Iface, u \in Mtu : GetMac(s, i) \/ SetMtu(s, i, u)
             \/ \E d \in Dns, slash, path \in BOOLEAN : UpgradeDns(s, d, slash, path)
    BY <2>1, OtherMethodsGated DEF LinkData
  <2>2. CASE \E dst \in Texts \cup {Anywhere}, gw \in Texts :
               AddRoute(s, dst, gw) \/ DelRoute(s, dst, gw)
    BY <2>2, RouteGated
  <2>3. CASE \E a \in Addr, i \in Iface, g \in Addr : Configure(s, a, i, g)
    BY <2>3, ConfigureGated
  <2>4. CASE Lookup(s) \/ LookupAgain(s)
    BY <1>1, <2>4 DEF Lookup, LookupAgain, history
  <2> QED BY <1>2, <2>1, <2>2, <2>3, <2>4, StackConfigAssumption DEF Method
<1>3. ASSUME NEW s \in Stack, NEW p \in Plugin,
             NewStack(s, p)
               \/ \E form \in {"last", "first", "blank", "absent"} : NewStackConfigured(s, p, form)
      PROVE  AllGated'
  BY <1>3, NewGated
<1>4. CASE (\E s \in Stack : Finalize(s)) \/ NameFreed \/ UNCHANGED vars
  BY <1>1, <1>4 DEF Finalize, NameFreed, vars, history
<1> QED BY <1>2, <1>3, <1>4 DEF Next, Done

\* Every route of the library goes through the gateway of a route that the
\* program added, or that a failed ioth_config named, and that it did not delete
\* (GatewaysAsked), although iproute_add and iproute_del both mistake its
\* destination.
THEOREM GatewaysKnown == Spec => []GatewaysAsked
<1>1. Init => AllGated
  BY DEF Init, AllGated, Gated, Empty
<1>2. AllGated => GatewaysAsked
  BY DEF AllGated, Gated, GatewaysAsked, Expected
<1> QED BY <1>1, <1>2, InitKnown, StepKnown, StepGated, PTL DEF Spec

----------------------------------------------------------------------------
(* The name of the stack *)

\* stackName is set for a stack that is marked alone, to its plugin's name or
\* to something that is no plugin's name.
Named ==
    \A s \in Stack :
        /\ obj[s] = "none" => ~alone[s] /\ outcome[s] = "none"
        /\ looking[s] => obj[s] = "built"
        /\ alone[s] => stackName \in {plugin[s], OtherName, Unset}
        /\ alone[s] /\ outcome[s] = "refused" => plugin[s] = Vdestack

\* Every step keeps Named.
LEMMA StepNamed == Known /\ Named /\ [Next]_vars => Named'
<1> SUFFICES ASSUME Known, Named, [Next]_vars PROVE Named'
  OBVIOUS
<1> DEFINE Result(s, r) == outcome' = [outcome EXCEPT ![s] = r] /\ looking' = looking
<1>1. ASSUME NEW s \in Stack, UNCHANGED <<obj, plugin, stackName, alone>>,
             obj[s] = "built",
             \A u \in Stack \ {s} : outcome'[u] = outcome[u] /\ looking'[u] = looking[u],
             \/ outcome'[s] = outcome[s] \/ outcome'[s] # "refused"
             \/ Vdestack \in NameRead
      PROVE  Named'
  BY <1>1, StackConfigAssumption DEF Known, Rest, Named, NameRead
<1>2. ASSUME NEW s \in Stack, Method(s) PROVE Named'
  <2>1. ASSUME NEW r, Calling(s), Result(s, r), r # "refused" \/ Vdestack \in NameRead
        PROVE  Named'
    <3>1. outcome'[s] = r /\ \A u \in Stack \ {s} : outcome'[u] = outcome[u]
      BY <2>1 DEF Known, Rest
    <3> QED BY <1>1, <2>1, <3>1 DEF Calling
  <2>2. ASSUME NEW c, NEW t, NEW r, Calling(s), Returns(s, c, t, r),
               r # "refused" \/ Vdestack \in NameRead
        PROVE  Named'
    BY <2>1, <2>2 DEF Returns
  <2>3. ASSUME NEW r, Calling(s), Raises(s, r), r # "refused" \/ Vdestack \in NameRead
        PROVE  Named'
    BY <2>2, <2>3 DEF Raises
  <2>4. ASSUME NEW text, NEW i, AddAddress(s, text, i) \/ DelAddress(s, text, i)
        PROVE  Named'
    <3>1. Calling(s) /\ (Raises(s, "raised") \/ \E c, t : Returns(s, c, t, "ok"))
      <4>1. CASE AddAddress(s, text, i)
        BY <4>1, Zenon DEF AddAddress
      <4>2. CASE DelAddress(s, text, i)
        BY <4>2, Zenon DEF DelAddress
      <4> QED BY <2>4, <4>1, <4>2
    <3> QED BY <2>2, <2>3, <3>1
  <2>5. ASSUME NEW dst, NEW gw, AddRoute(s, dst, gw) \/ DelRoute(s, dst, gw)
        PROVE  Named'
    <3>1. Calling(s) /\ (Raises(s, "raised") \/ \E c, t : Returns(s, c, t, "ok"))
      <4>1. CASE AddRoute(s, dst, gw)
        BY <4>1, Zenon DEF AddRoute
      <4>2. CASE DelRoute(s, dst, gw)
        BY <4>2, Zenon DEF DelRoute
      <4> QED BY <2>5, <4>1, <4>2
    <3> QED BY <2>2, <2>3, <3>1
  <2>6. ASSUME NEW i, NEW up, SetUpDown(s, i, up)
        PROVE  Named'
    BY <2>2, <2>3, <2>6 DEF SetUpDown
  <2>7. ASSUME NEW i, DelLink(s, i)
        PROVE  Named'
    BY <2>2, <2>3, <2>7 DEF DelLink
  <2>8. ASSUME NEW i, NEW m, NEW six, SetMac(s, i, m, six)
        PROVE  Named'
    BY <2>2, <2>3, <2>8 DEF SetMac
  <2>9. ASSUME NEW i, NEW m, NEW data, AddLink(s, i, m, data) \/ AddVdeLink(s, i, m)
        PROVE  Named'
    <3>1. Calling(s)
      BY <2>9 DEF AddLink, AddVdeLink
    <3>2. CASE Crashes
      BY <1>1, <3>1, <3>2 DEF Calling, Crashes
    <3>3. CASE LinkAdded(s, i, m) \/ LinkAddedUntold(s, i, m)
      BY <2>2, <3>1, <3>3 DEF LinkAdded, LinkAddedUntold
    <3>4. CASE Raises(s, "raised")
      BY <2>3, <3>1, <3>4
    <3>5. CASE \E n \in NameRead : n = Vdestack /\ Raises(s, "refused")
      BY <2>3, <3>1, <3>5
    <3> QED BY <2>9, <3>2, <3>3, <3>4, <3>5 DEF AddLink, AddVdeLink
  <2>10. ASSUME NEW a, NEW i, NEW g, Configure(s, a, i, g)
        PROVE  Named'
    BY <2>2, <2>10 DEF Configure
  <2>11. CASE Lookup(s)
    <3>1. obj[s] = "built" /\ UNCHANGED <<obj, plugin, stackName, alone>>
      BY <2>11 DEF Lookup, Calling
    <3>2. /\ \A u \in Stack \ {s} : outcome'[u] = outcome[u] /\ looking'[u] = looking[u]
          /\ outcome'[s] = outcome[s] \/ outcome'[s] # "refused"
      BY <2>11 DEF Lookup, Known, Rest
    <3> QED BY <1>1, <3>1, <3>2
  <2>12. CASE LookupAgain(s)
    <3>1. obj[s] = "built" /\ UNCHANGED <<obj, plugin, stackName, alone>>
      BY <2>12 DEF LookupAgain, Named, history
    <3>2. /\ \A u \in Stack \ {s} : outcome'[u] = outcome[u] /\ looking'[u] = looking[u]
          /\ outcome'[s] # "refused"
      BY <2>12 DEF LookupAgain, Known, Rest
    <3> QED BY <1>1, <3>1, <3>2
  <2>13. ASSUME NEW i, NEW u, GetMac(s, i) \/ SetMtu(s, i, u)
        PROVE  Named'
    <3>1. Calling(s) /\ (Raises(s, "raised") \/ \E c, t : Returns(s, c, t, "ok"))
      <4>1. CASE GetMac(s, i)
        BY <4>1, Zenon DEF GetMac
      <4>2. CASE SetMtu(s, i, u)
        BY <4>2, Zenon DEF SetMtu
      <4> QED BY <2>13, <4>1, <4>2
    <3> QED BY <2>2, <2>3, <3>1
  <2>14. ASSUME NEW d, NEW slash, NEW path, UpgradeDns(s, d, slash, path)
        PROVE  Named'
    <3>1. Calling(s) /\ (Raises(s, "raised") \/ \E c, t : Returns(s, c, t, "ok"))
      BY <2>14, Zenon DEF UpgradeDns
    <3> QED BY <2>2, <2>3, <3>1
  <2> QED BY <1>2, <2>4, <2>5, <2>6, <2>7, <2>8, <2>9, <2>10, <2>11, <2>12, <2>13, <2>14 DEF Method
<1>3. ASSUME NEW s \in Stack, NEW p \in Plugin,
             NewStack(s, p)
               \/ \E form \in {"last", "first", "blank", "absent"} : NewStackConfigured(s, p, form)
      PROVE  Named'
  <2>1. obj[s] = "none" /\ outcome' = outcome /\ looking' = looking
    BY <1>3 DEF NewStack, NewStackConfigured, Making
  <2>2. \/ Starts(s, p) /\ obj' = [obj EXCEPT ![s] = "built"] /\ plugin' = [plugin EXCEPT ![s] = p]
        \/ StartFails(s) /\ obj' = [obj EXCEPT ![s] = "dead"] /\ plugin' = plugin
    BY <1>3 DEF NewStack, NewStackConfigured, Starts, StartFails
  <2>3. \/ UNCHANGED <<stackName, alone>>
        \/ /\ stackName' \in {p, OtherName, Unset}
           /\ alone' = [t \in Stack |-> t = s /\ obj'[s] = "built"]
    BY <1>3 DEF NewStack, NewStackConfigured, Name, NamedBy
  <2> QED BY <2>1, <2>2, <2>3 DEF Named, Known, Rest
<1>4. CASE \E s \in Stack : Finalize(s)
  BY <1>4 DEF Finalize, Named, Known, Rest, history
<1>5. CASE NameFreed
  BY <1>5 DEF NameFreed, Named
<1>6. CASE UNCHANGED vars
  BY <1>6 DEF vars, history, Named
<1> QED BY <1>2, <1>3, <1>4, <1>5, <1>6 DEF Next, Done

\* iplink_add refuses a stack only because it is a vdestack, as long as no
\* other stack was named since and the name is still there (RefusalIsOwn).
THEOREM RefusalsAreOwn == Spec => []RefusalIsOwn
<1>1. Init => Named
  BY DEF Init, Named
<1>2. Named => RefusalIsOwn
  BY DEF Named, RefusalIsOwn
<1> QED BY <1>1, <1>2, InitKnown, StepKnown, StepNamed, PTL DEF Spec
============================================================================
