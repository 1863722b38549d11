----------------------------- MODULE TimedCall -----------------------------
(***************************************************************************)
(* What sock_call and sendall promise of time, without their loops: a call *)
(* waits from one moment to one other, and times out no sooner than its    *)
(* limit after the first.  SockCall and SendAll implement it.              *)
(***************************************************************************)
EXTENDS Integers

CONSTANTS
    Caller,
    Modes,    \* limits: below 1 there is none
    Outcomes  \* what a call may end with, "timed out" and "nothing" among them

VARIABLE wait  \* what each caller's last call is doing

\* waited: ticks since it began to wait; nobody counts on beyond the limit.
Idle(r) == [on |-> FALSE, limit |-> 0, waited |-> 0, outcome |-> r]
Since(waited, limit) == [on |-> TRUE, limit |-> limit, waited |-> waited, outcome |-> "nothing"]

Init == wait = [t \in Caller |-> Idle("nothing")]

Becomes(t, w) == wait' = [wait EXCEPT ![t] = w]

\* A call is made; it does not wait yet.
Called(t) == ~wait[t].on /\ Becomes(t, Idle("nothing"))

Waits(t, limit) ==
    /\ ~wait[t].on
    /\ Becomes(t, Since(0, limit))

\* It ends, maybe without having waited at all.
Ends(t, r) == r # "timed out" /\ Becomes(t, Idle(r))

TimesOut(t) ==
    /\ wait[t].on /\ wait[t].limit > 0 /\ wait[t].waited >= wait[t].limit
    /\ Becomes(t, Idle("timed out"))

Counts(w) == w.on /\ w.waited <= w.limit /\ w.limit > 0

\* One clock for all.
Tick == wait' = [t \in Caller |->
                   IF Counts(wait[t]) THEN Since(wait[t].waited + 1, wait[t].limit)
                                      ELSE wait[t]]

Next ==
    \/ \E t \in Caller :
         \/ Called(t) \/ TimesOut(t)
         \/ \E limit \in Modes : Waits(t, limit)
         \/ \E r \in Outcomes : Ends(t, r)
    \/ Tick

Spec == Init /\ [][Next]_wait
============================================================================
