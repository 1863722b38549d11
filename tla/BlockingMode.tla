--------------------------- MODULE BlockingMode ----------------------------
(***************************************************************************)
(* The two halves of a socket's blocking mode: s->sock_timeout in the      *)
(* object and O_NONBLOCK in the descriptor.  Every setter writes the first *)
(* with the GIL held and the second in internal_setblocking without it, so *)
(* the halves can disagree.  One socket, seen by several threads.          *)
(***************************************************************************)
EXTENDS Integers

CONSTANTS
    Thread,
    Largest,      \* the largest timeout whose milliseconds fit an int
    Overlap,      \* may calls on the socket overlap a setter or a close?
    Foreign,      \* may a descriptor come in a mode its object is not told?
    FcntlMayFail  \* may ioth_fcntl fail on an open descriptor?

ASSUME ModeAssumption ==
    /\ Largest \in Nat
    /\ Overlap \in BOOLEAN /\ Foreign \in BOOLEAN /\ FcntlMayFail \in BOOLEAN

None == -1
Modes == {None} \cup 0..Largest

\* What a program may pass as a timeout: -1 is None, -2 any negative number.
\* The numbers socket_parse_timeout rejects raise before anything changes.
Asked == -2..Largest + 1
ValidUnchecked(n) == n <= Largest  \* faulty variant: negative numbers pass
Valid(n) == 0 <= n /\ n <= Largest

VARIABLES
    life,            \* of the socket object
    timeout,         \* s->sock_timeout
    nonblock,        \* O_NONBLOCK of the descriptor
    defaulttimeout,  \* the module's default for new sockets
    setter           \* what each thread is doing to the mode

modeVars == <<life, timeout, nonblock, defaulttimeout, setter>>

Life == {"none", "init", "live", "failed", "closed"}
SetterOps == {"idle", "accepted", "getfl", "setfl", "done"}

\* block: the mode asked for; saw: the flag that F_GETFL returned; force: an
\* accept() has yet to look at the timeouts; alone: no other setter, and no
\* close, ran since this one began.
Setting(op, block, force, alone) ==
    [op |-> op, block |-> block, saw |-> FALSE, force |-> force, alone |-> alone]
Rest == Setting("idle", FALSE, FALSE, FALSE)

Setters == {t \in Thread : setter[t].op # "idle"}

ModeInit ==
    /\ life = "none"
    /\ timeout = None /\ nonblock = FALSE
    /\ defaulttimeout = None
    /\ setter = [t \in Thread |-> Rest]

\* Thread t starts to set the mode: nobody who is at it is alone any more.
StartSetting(t, block, force) ==
    setter' = [u \in Thread |->
                 IF u = t THEN Setting("getfl", block, force, Setters \subseteq {t})
                 ELSE [setter[u] EXCEPT !.alone = FALSE]]

SetterReturns(t) == setter' = [setter EXCEPT ![t] = Rest]

----------------------------------------------------------------------------
(* Construction *)

\* init_sockobject: SOCK_NONBLOCK in the type stands for timeout 0 and asks
\* for no fcntl; a default timeout asks for one.  flag: the descriptor's mode.
Construct(t, nonblocking, flag, force) ==
    /\ life = "none" /\ setter[t] = Rest
    /\ nonblock' = flag
    /\ timeout' = IF nonblocking THEN 0 ELSE defaulttimeout
    /\ \/ /\ ~nonblocking /\ defaulttimeout >= 0
          /\ life' = "init"
          /\ StartSetting(t, FALSE, force)
       \/ /\ nonblocking \/ defaulttimeout < 0
          /\ life' = IF force THEN "init" ELSE "live"
          /\ setter' = [setter EXCEPT ![t] =
                          IF force THEN Setting("accepted", FALSE, FALSE, FALSE) ELSE @]
    /\ UNCHANGED defaulttimeout

\* The library opens the descriptor in the mode the type asks for.
NewSocket(t, nonblocking) == Construct(t, nonblocking, nonblocking, FALSE)

\* MSocket(fileno=fd): the descriptor is in any mode, and so is the type: the
\* type of Stack.socket(fileno=fd) is -1, which has the bit SOCK_NONBLOCK.
AdoptFd(t, nonblocking, flag) == Foreign /\ Construct(t, nonblocking, flag, FALSE)

\* MSocket.accept: the type of a listener never has SOCK_NONBLOCK.  Platforms
\* differ on whether the descriptor inherits O_NONBLOCK from the listener.
Accepted(t, listener, flag) ==
    /\ flag => Foreign /\ listener # None
    /\ Construct(t, FALSE, flag, listener > 0)

\* It then reads defaulttimeout a second time: None and a listener with a
\* timeout make it call setblocking(True).
AcceptMode(t) ==
    /\ setter[t].op = "accepted"
    /\ IF defaulttimeout = None
         THEN timeout' = None /\ StartSetting(t, TRUE, FALSE) /\ UNCHANGED life
         ELSE life' = "live" /\ SetterReturns(t) /\ UNCHANGED timeout
    /\ UNCHANGED <<nonblock, defaulttimeout>>

----------------------------------------------------------------------------
(* Setters *)

\* Faulty variant: a timeout of 0 makes the descriptor blocking.
SetModeOffByOne(t, v) ==
    /\ life \in {"live", "closed"} /\ setter[t] = Rest
    /\ Overlap \/ Setters = {}
    /\ timeout' = v
    /\ StartSetting(t, v <= 0, FALSE)
    /\ UNCHANGED <<life, nonblock, defaulttimeout>>

\* The timeout is written before the descriptor is asked.
SetMode(t, v) ==
    /\ life \in {"live", "closed"} /\ setter[t] = Rest
    /\ Overlap \/ Setters = {}
    /\ timeout' = v
    /\ StartSetting(t, v < 0, FALSE)
    /\ UNCHANGED <<life, nonblock, defaulttimeout>>

SetTimeout(t, n) == Valid(n) /\ SetMode(t, n)

\* setblocking(block); settimeout(None) does what setblocking(True) does.
SetBlocking(t, block) == SetMode(t, IF block THEN None ELSE 0)

SetDefaultTimeout(v) ==
    /\ v = None \/ Valid(v)
    /\ defaulttimeout' = v
    /\ UNCHANGED <<life, timeout, nonblock, setter>>

\* fcntl fails on a closed socket: its descriptor is -1.
FcntlFails(t) ==
    /\ setter[t].op \in {"getfl", "setfl"}
    /\ FcntlMayFail \/ life = "closed"
    /\ life' = IF life = "init" THEN "failed" ELSE life
    /\ SetterReturns(t)
    /\ UNCHANGED <<timeout, nonblock, defaulttimeout>>

GetFl(t) ==
    /\ setter[t].op = "getfl" /\ life # "closed"
    /\ setter' = [setter EXCEPT ![t].saw = nonblock,
                    ![t].op = IF nonblock = setter[t].block THEN "setfl" ELSE "done"]
    /\ UNCHANGED <<life, timeout, nonblock, defaulttimeout>>

\* Faulty variant: O_NONBLOCK is only ever set.
SetFlNeverClears(t) ==
    /\ setter[t].op = "setfl" /\ life # "closed"
    /\ nonblock' = TRUE
    /\ setter' = [setter EXCEPT ![t].op = "done"]
    /\ UNCHANGED <<life, timeout, defaulttimeout>>

\* F_SETFL writes the flags that were read, with O_NONBLOCK changed.
SetFl(t) ==
    /\ setter[t].op = "setfl" /\ life # "closed"
    /\ nonblock' = ~setter[t].block
    /\ setter' = [setter EXCEPT ![t].op = "done"]
    /\ UNCHANGED <<life, timeout, defaulttimeout>>

\* internal_setblocking has the GIL back and returns 0.
SetterDone(t) ==
    /\ setter[t].op = "done"
    /\ IF setter[t].force
         THEN /\ setter' = [setter EXCEPT ![t] = Setting("accepted", FALSE, FALSE, FALSE)]
              /\ UNCHANGED life
         ELSE /\ life' = IF life = "init" THEN "live" ELSE life
              /\ SetterReturns(t)
    /\ UNCHANGED <<timeout, nonblock, defaulttimeout>>

\* s->fd becomes -1.
Close(t) ==
    /\ life = "live" /\ setter[t] = Rest
    /\ Overlap \/ Setters = {}
    /\ life' = "closed"
    /\ setter' = [u \in Thread |-> [setter[u] EXCEPT !.alone = FALSE]]
    /\ UNCHANGED <<timeout, nonblock, defaulttimeout>>

----------------------------------------------------------------------------
SetterStep(t) ==
    AcceptMode(t) \/ FcntlFails(t) \/ GetFl(t) \/ SetFl(t) \/ SetterDone(t)

ModeRequest(t) ==
    \/ \E n \in BOOLEAN : NewSocket(t, n)
    \/ \E n, flag \in BOOLEAN : AdoptFd(t, n, flag)
    \/ \E listener \in Modes, flag \in BOOLEAN : Accepted(t, listener, flag)
    \/ \E n \in Asked : SetTimeout(t, n)
    \/ \E block \in BOOLEAN : SetBlocking(t, block)
    \/ Close(t)

ModeNext ==
    \/ \E t \in Thread : ModeRequest(t) \/ SetterStep(t)
    \/ \E v \in Asked : SetDefaultTimeout(v)

ModeSpec == ModeInit /\ [][ModeNext]_modeVars

----------------------------------------------------------------------------
(* Properties *)

\* Every variable stays in the set of values its code gives it.
ModeTypeOK ==
    /\ life \in Life
    /\ timeout \in Modes /\ defaulttimeout \in Modes
    /\ nonblock \in BOOLEAN
    /\ setter \in [Thread -> [op : SetterOps, block : BOOLEAN, saw : BOOLEAN,
                              force : BOOLEAN, alone : BOOLEAN]]

Agree == nonblock <=> timeout # None

\* The table in sock_settimeout: a usable socket that no setter is at work on
\* has a blocking descriptor if and only if its timeout is None.
ModeTable == life = "live" /\ Setters = {} => Agree

\* A setter that succeeds, with no other at work meanwhile, leaves the table
\* true, whatever earlier races, failures or foreign descriptors had done.
SetterRepairs ==
    \A t \in Thread : setter[t].op = "done" /\ setter[t].alone => Agree
============================================================================
