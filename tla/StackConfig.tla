---------------------------- MODULE StackConfig ----------------------------
(***************************************************************************)
(* Stack objects (stack.py over iothpy_stack.c): what their methods hand   *)
(* to the ioth library, against what the program asked for.                *)
(*                                                                         *)
(* No method releases the GIL: each is one action, but for getaddrinfo,    *)
(* whose Python half asks twice.  A method that raises before it reaches   *)
(* the library, and a library call that fails, change nothing: Raises.     *)
(***************************************************************************)
EXTENDS Naturals

CONSTANTS
    Stack,
    Plugin, Vdestack,  \* stack implementations; the one without iplink_add
    OtherName,         \* a name that no plugin has
    Unset,             \* stackName == NULL
    Freed,             \* stackName points to a str that is gone
    Iface, Addr, Mac,
    Mtu, DefaultMtu,   \* that of a new link
    Dns, DefaultDns,   \* configurations of the resolver; that of config_dns
    Anywhere,          \* the destination of a default route
    BadText,           \* a str that is no address of the family
    NoLink,
    MaxCalls           \* bound: calls on the stacks, in all

ASSUME StackConfigAssumption ==
    /\ Vdestack \in Plugin /\ OtherName \notin Plugin
    /\ {Unset, Freed} \cap (Plugin \cup {OtherName}) = {} /\ Unset # Freed
    /\ Anywhere \notin Addr /\ BadText \notin Addr
    /\ DefaultMtu \in Mtu /\ DefaultDns \in Dns
    /\ NoLink \notin [mac : Mac, mtu : Mtu, up : BOOLEAN]
    /\ MaxCalls \in Nat

VARIABLES
    obj,        \* life of each Stack object
    plugin,     \* what the stack of the library really is
    stackName,  \* the global of iothpy_stack.c, one for all stacks
    cfg,        \* the configuration that the library has
    told,       \* what it should be: as the stack started, changed by what the
                \* calls said they did, as long as it is clean (history)
    clean,      \* every argument so far was well formed (history)
    alone,      \* the name was set for this stack, last, and is held (history)
    looking,    \* between the two queries of getaddrinfo
    outcome,    \* of the last call on each stack
    alive,      \* the process has not crashed
    calls

history == <<clean, alone>>
vars == <<obj, plugin, stackName, cfg, told, history, looking, outcome, alive, calls>>

Life == {"none", "built", "dead"}
Outcomes == {"none", "ok", "raised", "refused", "linked", "list", "gaierror", "TypeError"}
Link == [mac : Mac, mtu : Mtu, up : BOOLEAN] \cup {NoLink}
Texts == Addr \cup {BadText}
Addrs == SUBSET (Addr \X Iface)
Routes == SUBSET ((Addr \cup {Anywhere}) \X Addr)
Config == [link : [Iface -> Link], addrs : Addrs, routes : Routes, dns : Dns]
Empty == [link |-> [i \in Iface |-> NoLink], addrs |-> {}, routes |-> {}, dns |-> DefaultDns]

\* mayAddrs, mayRoutes: what is there or not, after an ioth_config that failed.
Account == [link : [Iface -> Link], addrs : Addrs, routes : Routes, dns : Dns,
            mayAddrs : Addrs, mayRoutes : Routes]
AccountOf(c) == [link |-> c.link, addrs |-> c.addrs, routes |-> c.routes, dns |-> c.dns,
                 mayAddrs |-> {}, mayRoutes |-> {}]

Init ==
    /\ obj = [s \in Stack |-> "none"]
    /\ plugin = [s \in Stack |-> Vdestack]
    /\ stackName = Unset
    /\ cfg = [s \in Stack |-> Empty]
    /\ told = [s \in Stack |-> AccountOf(Empty)]
    /\ clean = [s \in Stack |-> TRUE]
    /\ alone = [s \in Stack |-> FALSE]
    /\ looking = [s \in Stack |-> FALSE]
    /\ outcome = [s \in Stack |-> "none"]
    /\ alive = TRUE
    /\ calls = 0

----------------------------------------------------------------------------
(* Construction and end of a Stack *)

NewLink(m) == [mac |-> m, mtu |-> DefaultMtu, up |-> FALSE]

\* A new ioth stack with one interface, whose address is the library's choice,
\* and with the resolver that config_dns asks for, read as UpgradeDns reads it.
Starts(s, p) ==
    \E i \in Iface, m \in Mac :
        LET c == [Empty EXCEPT !.link[i] = NewLink(m)] IN
        /\ obj' = [obj EXCEPT ![s] = "built"] /\ plugin' = [plugin EXCEPT ![s] = p]
        /\ cfg' = [cfg EXCEPT ![s] = c] /\ told' = [told EXCEPT ![s] = AccountOf(c)]

StartFails(s) == obj' = [obj EXCEPT ![s] = "dead"] /\ UNCHANGED <<plugin, cfg, told>>

\* Faulty variant: the name of the first stack stays.
NameFirst(s, name) ==
    /\ stackName' = IF stackName = Unset THEN name ELSE stackName
    /\ alone' = [t \in Stack |-> t = s /\ obj'[s] = "built"]

\* stackName is set to name, for s if it started.
Name(s, name) ==
    /\ stackName' = name
    /\ alone' = [t \in Stack |-> t = s /\ obj'[s] = "built"]

Making(s) == alive /\ obj[s] = "none" /\ UNCHANGED <<clean, looking, outcome, alive, calls>>

\* Stack(name, vdeurl): the name is kept before the stack is known to be there.
NewStack(s, p) ==
    /\ Making(s)
    /\ \/ (Starts(s, p) \/ StartFails(s)) /\ Name(s, p)
       \/ StartFails(s) /\ UNCHANGED <<stackName, alone>>  \* no DNS, or a wrong vdeurl

\* What is left of the configuration string as name of the stack: up to the
\* next "=", so that an option after the plugin's becomes part of the name.
NamedBy(form, p) ==
    CASE form = "last"  -> p          \* "..., stack=p"
      [] form = "first" -> OtherName  \* "stack=p,vnl=..."
      [] form = "blank" -> Unset      \* "..., stack="

\* Stack(config).  strtok cuts the caller's own string, which the constructor
\* then refuses if it is used again.
NewStackConfigured(s, p, form) ==
    /\ Making(s)
    /\ \/ StartFails(s) /\ UNCHANGED <<stackName, alone>>
       \/ Starts(s, p) /\ form \in {"last", "first", "blank"} /\ Name(s, NamedBy(form, p))
       \/ Starts(s, p) /\ form = "absent" /\ UNCHANGED <<stackName, alone>>

\* The str that stackName borrows goes away.
NameFreed ==
    /\ alive /\ stackName \notin {Unset, Freed}
    /\ stackName' = Freed /\ alone' = [s \in Stack |-> FALSE]
    /\ UNCHANGED <<obj, plugin, cfg, told, clean, looking, outcome, alive, calls>>

\* The finalizer leaves the stack of the library alone.
Finalize(s) ==
    /\ alive /\ obj[s] = "built" /\ ~looking[s]
    /\ obj' = [obj EXCEPT ![s] = "dead"]
    /\ UNCHANGED <<plugin, stackName, cfg, told, history, looking, outcome, alive, calls>>

----------------------------------------------------------------------------
(* The parts of a method *)

Calling(s) ==
    /\ alive /\ obj[s] = "built" /\ calls < MaxCalls
    /\ calls' = calls + 1
    /\ UNCHANGED <<obj, plugin, stackName, alone>>

Returns(s, c, t, result) ==
    /\ cfg' = [cfg EXCEPT ![s] = c]
    /\ told' = IF clean'[s] THEN [told EXCEPT ![s] = t] ELSE told
    /\ outcome' = [outcome EXCEPT ![s] = result]
    /\ UNCHANGED <<alive, looking>>

Raises(s, result) == Returns(s, cfg[s], told[s], result)

Crashes == alive' = FALSE /\ UNCHANGED <<cfg, told, outcome, looking>>

WellFormed(s, b) == clean' = [clean EXCEPT ![s] = @ /\ b]

\* Faulty variant: the text itself is handed over.
ParsedAsIs(text) == {text}

\* inet_pton leaves the buffer as it was, and returns 0, for a bad string.
\* The methods look for -1, which it returns for an unknown family only.
Parsed(text) == IF text \in Addr THEN {text} ELSE Addr

----------------------------------------------------------------------------
(* Addresses, routes and links *)

AddAddress(s, text, i) ==
    /\ Calling(s) /\ WellFormed(s, text \in Addr)
    /\ \/ Raises(s, "raised")
       \/ \E a \in Parsed(text) :
            Returns(s, [cfg[s] EXCEPT !.addrs = @ \cup {<<a, i>>}],
                       [told[s] EXCEPT !.addrs = @ \cup {<<text, i>>}], "ok")

DelAddress(s, text, i) ==
    /\ Calling(s) /\ WellFormed(s, text \in Addr)
    /\ \/ Raises(s, "raised")
       \/ \E a \in Parsed(text) :
            Returns(s, [cfg[s] EXCEPT !.addrs = @ \ {<<a, i>>}],
                       [told[s] EXCEPT !.addrs = @ \ {<<text, i>>},
                                       !.mayAddrs = @ \ {<<text, i>>}], "ok")

\* Faulty variant: the buffers of destination and gateway are swapped.
RouteParsedSwapped(dst, gw) ==
    Parsed(gw) \X (IF dst = Anywhere THEN Addr ELSE Parsed(dst))

\* The destination is parsed from the gateway's string.  For a default route
\* its buffer is not written; with the prefix 0 the library either refuses
\* what it finds there or takes it for Anywhere.
RouteParsed(dst, gw) ==
    (IF dst = Anywhere THEN {Anywhere} ELSE Parsed(gw)) \X Parsed(gw)

RouteWellFormed(dst, gw) == gw \in Addr /\ dst # BadText

AddRoute(s, dst, gw) ==
    /\ Calling(s) /\ WellFormed(s, RouteWellFormed(dst, gw))
    /\ \/ Raises(s, "raised")
       \/ \E r \in RouteParsed(dst, gw) :
            Returns(s, [cfg[s] EXCEPT !.routes = @ \cup {r}],
                       [told[s] EXCEPT !.routes = @ \cup {<<dst, gw>>}], "ok")

DelRoute(s, dst, gw) ==
    /\ Calling(s) /\ WellFormed(s, RouteWellFormed(dst, gw))
    /\ \/ Raises(s, "raised")
       \/ \E r \in RouteParsed(dst, gw) :
            Returns(s, [cfg[s] EXCEPT !.routes = @ \ {r}],
                       [told[s] EXCEPT !.routes = @ \ {<<dst, gw>>},
                                       !.mayRoutes = @ \ {<<dst, gw>>}], "ok")

SetUpDown(s, i, up) ==
    /\ Calling(s) /\ WellFormed(s, TRUE)
    /\ \/ Raises(s, "raised")
       \/ /\ cfg[s].link[i] # NoLink
          /\ Returns(s, [cfg[s] EXCEPT !.link[i].up = up],
                        [told[s] EXCEPT !.link[i].up = up], "ok")

\* Bytes of another length than 6 raise ValueError, but only after the library
\* has taken the first six of what is there.
SetMac(s, i, m, six) ==
    /\ Calling(s) /\ WellFormed(s, six)
    /\ \/ Raises(s, "raised")
       \/ /\ cfg[s].link[i] # NoLink
          /\ LET c == [cfg[s] EXCEPT !.link[i].mac = m] IN
             IF six THEN Returns(s, c, [told[s] EXCEPT !.link[i].mac = m], "ok")
             ELSE Returns(s, c, told[s], "raised")

\* linkgetaddr only reads.
GetMac(s, i) ==
    /\ Calling(s) /\ WellFormed(s, TRUE)
    /\ \/ Raises(s, "raised")
       \/ /\ cfg[s].link[i] # NoLink
          /\ Returns(s, cfg[s], told[s], "ok")

\* The doc asks for "a positive integer"; the library alone looks at it.
SetMtu(s, i, u) ==
    /\ Calling(s) /\ WellFormed(s, TRUE)
    /\ \/ Raises(s, "raised")
       \/ /\ cfg[s].link[i] # NoLink
          /\ Returns(s, [cfg[s] EXCEPT !.link[i].mtu = u],
                        [told[s] EXCEPT !.link[i].mtu = u], "ok")

\* dns_upgrade.  What has a "/" in it is a path for the library and all else a
\* text: of a path without one, the library makes what it likes.
UpgradeDns(s, d, slash, path) ==
    /\ Calling(s) /\ WellFormed(s, slash = path)
    /\ \/ Raises(s, "raised")
       \/ \E e \in IF slash = path THEN {d} ELSE Dns :
            Returns(s, [cfg[s] EXCEPT !.dns = e], [told[s] EXCEPT !.dns = d], "ok")

\* What strcmp may find behind stackName.
NameRead == IF stackName = Freed THEN Plugin \cup {OtherName} ELSE {stackName}

\* ioth_iplink_add, which vdestack does not have.
LinkAdded(s, i, m) ==
    /\ plugin[s] # Vdestack /\ cfg[s].link[i] = NoLink
    /\ Returns(s, [cfg[s] EXCEPT !.link[i] = NewLink(m)],
                  [told[s] EXCEPT !.link[i] = NewLink(m)], "linked")

\* With an exception pending since the data was converted the library is asked
\* all the same: the link may be there although the method raises.
LinkAddedUntold(s, i, m) ==
    /\ plugin[s] # Vdestack /\ cfg[s].link[i] = NoLink
    /\ Returns(s, [cfg[s] EXCEPT !.link[i] = NewLink(m)], told[s], "raised")

\* data: what fits; "wrong", no list of tuples; "unconverted", tuples of no
\* ints; "short", a tuple of one item; "omitted", which the doc allows.  Of the
\* last two, and of a tag_data that is no int, the code follows a NULL.
LinkData == {"fits", "wrong", "unconverted", "short", "omitted"}

AddLink(s, i, m, data) ==
    /\ Calling(s) /\ WellFormed(s, data # "unconverted")
    /\ \/ stackName = Unset /\ Crashes
       \/ stackName # Unset /\ \E n \in NameRead :
            \/ n = Vdestack /\ Raises(s, "refused")
            \/ n # Vdestack /\ Raises(s, "raised")
            \/ n # Vdestack /\ data \in {"unconverted", "short", "omitted"} /\ Crashes
            \/ n # Vdestack /\ data = "fits" /\ LinkAdded(s, i, m)
            \/ n # Vdestack /\ data = "unconverted" /\ LinkAddedUntold(s, i, m)

AddVdeLink(s, i, m) ==
    /\ Calling(s) /\ WellFormed(s, TRUE)
    /\ \/ stackName = Unset /\ Crashes
       \/ stackName # Unset /\ \E n \in NameRead :
            \/ n = Vdestack /\ Raises(s, "refused")
            \/ n # Vdestack /\ (Raises(s, "raised") \/ LinkAdded(s, i, m))

\* A link goes with its addresses.
Others(x, i) == {y \in x : y[2] # i}
Unlinked(c, i) == [c EXCEPT !.link[i] = NoLink, !.addrs = Others(@, i)]
ToldUnlinked(t, i) == [Unlinked(t, i) EXCEPT !.mayAddrs = Others(@, i)]

\* Positional arguments are not looked at: they raise like none.
DelLink(s, i) ==
    /\ Calling(s) /\ WellFormed(s, TRUE)
    /\ \/ Raises(s, "raised")
       \/ /\ cfg[s].link[i] # NoLink
          /\ Returns(s, Unlinked(cfg[s], i), ToldUnlinked(told[s], i), "ok")

Configured(c, x, r) == [c EXCEPT !.addrs = @ \cup x, !.routes = @ \cup r]

\* Faulty variant: it is taken for done whatever ioth_config returns.
ConfigureUnchecked(s, a, i, g) ==
    LET ip == {<<a, i>>} gw == {<<Anywhere, g>>} IN
    /\ Calling(s) /\ WellFormed(s, TRUE)
    /\ \E x \in SUBSET ip, r \in SUBSET gw :
         Returns(s, Configured(cfg[s], x, r), Configured(told[s], ip, gw), "ok")

\* ioth_config("ip=a,gw=g").  After an error part of it may be there, and no
\* method tells which.
Configure(s, a, i, g) ==
    LET ip == {<<a, i>>} gw == {<<Anywhere, g>>} IN
    /\ Calling(s) /\ WellFormed(s, TRUE)
    /\ \/ Returns(s, Configured(cfg[s], ip, gw), Configured(told[s], ip, gw), "ok")
       \/ \E x \in SUBSET ip, r \in SUBSET gw :
            Returns(s, Configured(cfg[s], x, r),
                       [told[s] EXCEPT !.mayAddrs = @ \cup ip, !.mayRoutes = @ \cup gw],
                       "raised")

----------------------------------------------------------------------------
(* Stack.getaddrinfo asks once to see whether the answer is a list, then    *)
(* again for the list.  An error comes as a tuple, whose first item, an     *)
(* int, the loop cannot unpack.                                             *)

Lookup(s) ==
    /\ Calling(s) /\ ~looking[s] /\ UNCHANGED <<cfg, told, clean, alive>>
    /\ \/ looking' = [looking EXCEPT ![s] = TRUE] /\ UNCHANGED outcome
       \/ outcome' = [outcome EXCEPT ![s] = "gaierror"] /\ UNCHANGED looking

LookupAgain(s) ==
    /\ alive /\ looking[s] /\ looking' = [looking EXCEPT ![s] = FALSE]
    /\ \E r \in {"list", "TypeError"} : outcome' = [outcome EXCEPT ![s] = r]
    /\ UNCHANGED <<obj, plugin, stackName, cfg, told, history, alive, calls>>

----------------------------------------------------------------------------
Method(s) ==
    \/ \E text \in Texts, i \in Iface : AddAddress(s, text, i) \/ DelAddress(s, text, i)
    \/ \E dst \in Texts \cup {Anywhere}, gw \in Texts : AddRoute(s, dst, gw) \/ DelRoute(s, dst, gw)
    \/ \E i \in Iface, up \in BOOLEAN : SetUpDown(s, i, up)
    \/ \E i \in Iface, m \in Mac :
         \/ \E six \in BOOLEAN : SetMac(s, i, m, six)
         \/ \E data \in LinkData : AddLink(s, i, m, data)
         \/ AddVdeLink(s, i, m)
    \/ \E i \in Iface : DelLink(s, i) \/ GetMac(s, i) \/ \E u \in Mtu : SetMtu(s, i, u)
    \/ \E d \in Dns, slash, path \in BOOLEAN : UpgradeDns(s, d, slash, path)
    \/ \E a \in Addr, i \in Iface, g \in Addr : Configure(s, a, i, g)
    \/ Lookup(s) \/ LookupAgain(s)

Done == (calls = MaxCalls \/ ~alive \/ \A s \in Stack : obj[s] = "dead") /\ UNCHANGED vars

Next ==
    \/ \E s \in Stack :
         \/ \E p \in Plugin :
              \/ NewStack(s, p)
              \/ \E form \in {"last", "first", "blank", "absent"} : NewStackConfigured(s, p, form)
         \/ Method(s) \/ Finalize(s)
    \/ NameFreed \/ Done

Spec == Init /\ [][Next]_vars

----------------------------------------------------------------------------
(* Properties *)

\* Every variable stays in the set of values its code gives it.
TypeOK ==
    /\ obj \in [Stack -> Life] /\ plugin \in [Stack -> Plugin]
    /\ stackName \in Plugin \cup {OtherName, Unset, Freed}
    /\ cfg \in [Stack -> Config] /\ told \in [Stack -> Account]
    /\ clean \in [Stack -> BOOLEAN] /\ alone \in [Stack -> BOOLEAN]
    /\ looking \in [Stack -> BOOLEAN] /\ outcome \in [Stack -> Outcomes]
    /\ alive \in BOOLEAN /\ calls \in 0..MaxCalls

\* As long as every argument was well formed, the calls account for the links,
\* addresses and resolver that the library has: they are those the stack started
\* with, changed as the methods that returned say and not at all by those that
\* raised; but of the addresses that a failed ioth_config named, any may be
\* there, until they are deleted or go with their link.
ConfigAsTold ==
    \A s \in Stack :
        clean[s] => /\ cfg[s].link = told[s].link /\ cfg[s].dns = told[s].dns
                    /\ told[s].addrs \subseteq cfg[s].addrs
                    /\ cfg[s].addrs \subseteq told[s].addrs \cup told[s].mayAddrs

\* iplink_add refuses a stack only because it is a vdestack, as long as no
\* Stack was named since, not even one that failed, and the str with the name
\* is still there.
RefusalIsOwn ==
    \A s \in Stack : alone[s] /\ outcome[s] = "refused" => plugin[s] = Vdestack

\* The routes a program may expect: added, or named by a failed ioth_config, and
\* not deleted since.
Expected(s) == told[s].routes \cup told[s].mayRoutes

\* As long as the arguments are well formed, every route of the library goes
\* through the gateway of a route that the program may expect.
GatewaysAsked ==
    \A s \in Stack, r \in Addr \cup {Anywhere}, g \in Addr :
        clean[s] /\ <<r, g>> \in cfg[s].routes =>
            \E d \in Addr \cup {Anywhere} : <<d, g>> \in Expected(s)

\* "Add a static route to dst_addr/dst_prefixlen network through the gateway
\* gw_addr" (the doc of iproute_add): the routes are the ones asked for.
RoutesAsAsked ==
    \A s \in Stack :
        clean[s] => told[s].routes \subseteq cfg[s].routes /\ cfg[s].routes \subseteq Expected(s)
============================================================================
