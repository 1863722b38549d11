---------------------------- MODULE Descriptors ----------------------------
(***************************************************************************)
(* What the socket objects promise about descriptors, with every close     *)
(* taking effect in one step: a socket holds at most one descriptor, no    *)
(* descriptor is held twice, and only its holder closes it.                *)
(***************************************************************************)
EXTENDS FiniteSets

CONSTANTS Socket, Fd, NoFd

VARIABLES
    open,  \* descriptors the library has open
    held,  \* the descriptor of each socket, or NoFd
    user   \* open descriptors in the hands of the program

vars == <<open, held, user>>

Holds(f) == \E s \in Socket : held[s] = f

Init == open = {} /\ held = [s \in Socket |-> NoFd] /\ user = {}

\* The library makes a descriptor, for a socket or for an accept() under way.
OpenFor(s, f) ==
    /\ f \notin open /\ held[s] = NoFd
    /\ open' = open \cup {f}
    /\ held' = [held EXCEPT ![s] = f]
    /\ UNCHANGED user

OpenUnclaimed(f) ==
    /\ f \notin open
    /\ open' = open \cup {f}
    /\ UNCHANGED <<held, user>>

\* A socket takes over an open descriptor that no socket holds.
Claim(s, f) ==
    /\ f \in open /\ held[s] = NoFd /\ ~Holds(f)
    /\ held' = [held EXCEPT ![s] = f]
    /\ user' = user \ {f}
    /\ UNCHANGED open

\* close() and the finalizer.
Release(s) ==
    /\ held[s] # NoFd
    /\ open' = open \ {held[s]}
    /\ held' = [held EXCEPT ![s] = NoFd]
    /\ UNCHANGED user

\* detach().
HandOver(s) ==
    /\ held[s] # NoFd
    /\ user' = user \cup {held[s]}
    /\ held' = [held EXCEPT ![s] = NoFd]
    /\ UNCHANGED open

\* A descriptor no socket holds is closed by the program or by accept().
CloseUnheld(f) ==
    /\ f \in open /\ ~Holds(f)
    /\ open' = open \ {f}
    /\ user' = user \ {f}
    /\ UNCHANGED held

Next ==
    \/ \E f \in Fd : OpenUnclaimed(f) \/ CloseUnheld(f)
    \/ \E s \in Socket, f \in Fd : OpenFor(s, f) \/ Claim(s, f)
    \/ \E s \in Socket : Release(s) \/ HandOver(s)

Spec == Init /\ [][Next]_vars

----------------------------------------------------------------------------
\* The promise, as an invariant: what a socket holds is open, no two sockets
\* hold the same descriptor, and none holds one the program was given.
OneHolder ==
    /\ open \subseteq Fd /\ user \subseteq open
    /\ \A s \in Socket : held[s] # NoFd => held[s] \in open \ user
    /\ \A r, s \in Socket : held[r] = held[s] /\ held[r] # NoFd => r = s
=============================================================================
