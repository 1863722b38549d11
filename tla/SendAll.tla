------------------------------ MODULE SendAll ------------------------------
(***************************************************************************)
(* sendall: a loop around sock_call with a deadline of its own.  Each turn *)
(* gives sock_call what is left of the time and of the buffer; a send may  *)
(* be partial, and signal handlers run between two turns.                  *)
(*                                                                         *)
(* Composed of SockCall, whose one caller per socket is the sendall, and   *)
(* of the setters of BlockingMode in other threads.                        *)
(***************************************************************************)
EXTENDS SockCall, Sequences

CONSTANT MaxLen  \* bound: bytes given to sendall
ASSUME MaxLenAssumption == MaxLen \in Nat /\ Calls = {}

VARIABLE all  \* the sendall of each thread

allVars == <<vars, all>>

\* off, len: buf (from the start of the buffer) and len; limit: s->sock_timeout
\* at the start; n: ctx.result; taken: the bytes that the library took, by
\* their place in the buffer; waited: ticks since the deadline was set
\* (history, like taken and total).
NoSend == [op |-> "idle", total |-> 0, off |-> 0, len |-> 0, limit |-> 0,
           armed |-> FALSE, left |-> 0, waited |-> 0, n |-> 0, taken |-> <<>>,
           outcome |-> "nothing"]

Sending(t) == t \in Caller /\ all[t].op # "idle"
UpdateAll(t, a) == all' = [all EXCEPT ![t] = a]
EndAll(t, a, r) == UpdateAll(t, [a EXCEPT !.op = "idle", !.outcome = r])

AllInit == Init /\ all = [t \in Caller |-> NoSend]

----------------------------------------------------------------------------
StartAll(t, len) ==
    /\ Free(t) /\ ~Sending(t)
    /\ UpdateAll(t, [NoSend EXCEPT !.op = "top", !.total = len, !.len = len,
                                   !.limit = timeout])
    /\ UNCHANGED vars

\* Faulty variant: every turn sets the deadline anew.
ArmedAllAgain(a) ==
    IF a.limit > 0 THEN [a EXCEPT !.armed = TRUE, !.left = a.limit, !.waited = 0] ELSE a

\* The first turn of a sendall with a timeout sets its deadline.
ArmedAll(a) ==
    IF a.limit > 0 /\ ~a.armed THEN [a EXCEPT !.armed = TRUE, !.left = a.limit] ELSE a

\* The top of the loop: no time left ends it, else sock_call is given the rest.
Turn(t) ==
    LET a == ArmedAll(all[t]) IN
    /\ all[t].op = "top"
    /\ \/ /\ a.limit > 0 /\ a.left <= 0
          /\ EndAll(t, a, "timed out") /\ UNCHANGED vars
       \/ /\ a.limit <= 0 \/ a.left > 0
          /\ Enter(t, "io", IF a.limit > 0 THEN a.left ELSE a.limit)
          /\ UpdateAll(t, [a EXCEPT !.op = "sending"])
          /\ UNCHANGED modeVars

\* ioth_send takes the next n bytes of what it is given.
Take(t, n) ==
    /\ all[t].op = "sending" /\ Succeeded(t, "ok")
    /\ n \in 0..all[t].len
    /\ UpdateAll(t, [all[t] EXCEPT !.n = n,
                       !.taken = @ \o [i \in 1..n |-> all[t].off + i]])

\* The other steps of sock_call.
InCall(t) ==
    /\ all[t].op = "sending" /\ UNCHANGED all
    /\ \/ Test(t) \/ PollReady(t) \/ PollTimeout(t) \/ PollInterrupted(t) \/ PollFails(t)
       \/ \E answer \in Answers, e \in Errnos : Failed(t, answer, e)

\* Faulty variant: the bytes sent are counted, but buf does not move.
AdvancedStays(a) == [a EXCEPT !.len = @ - a.n]
Advanced(a) == [a EXCEPT !.off = @ + a.n, !.len = @ - a.n]

MoreOnce(a) == FALSE  \* faulty variant: one send is taken for all
More(a) == a.len > 0

\* sock_call has returned.  PyErr_CheckSignals runs after every partial send,
\* the last one included.
Sent(t) ==
    LET a == Advanced(all[t]) IN
    /\ all[t].op = "sending" /\ ~Calling(t)
    /\ \/ call[t].outcome # "ok" /\ EndAll(t, all[t], call[t].outcome)
       \/ call[t].outcome = "ok" /\ EndAll(t, a, "handler")
       \/ call[t].outcome = "ok" /\ More(a) /\ UpdateAll(t, [a EXCEPT !.op = "top"])
       \/ call[t].outcome = "ok" /\ ~More(a) /\ EndAll(t, a, "None")
    /\ UNCHANGED vars

----------------------------------------------------------------------------
(* The clock and the other threads *)

ClockedAll(t) == all[t].armed /\ Sending(t) /\ all[t].left >= 0

TickAll ==
    /\ \E t \in Caller : Clocked(t) \/ ClockedAll(t)
    /\ call' = [t \in Caller |-> Ticked(t)]
    /\ all' = [t \in Caller |->
                 IF ClockedAll(t) THEN [all[t] EXCEPT !.left = @ - 1, !.waited = @ + 1]
                 ELSE all[t]]
    /\ UNCHANGED modeVars

OthersRequest(t) ==
    /\ Request(t) /\ ~Sending(t)
    /\ Overlap \/ \A u \in Caller : ~Sending(u)
    /\ UNCHANGED all

\* Steps of a sendall that do not wait for the network.
Going(t) ==
    \/ Turn(t) \/ Sent(t)
    \/ Prompt(t) /\ (InCall(t) \/ \E n \in 0..MaxLen : Take(t, n))

AllNext ==
    \/ \E t \in Thread : InSetter(t) /\ UNCHANGED all
    \/ \E t \in Thread : OthersRequest(t)
    \/ \E t \in Caller :
         \/ \E len \in 0..MaxLen : StartAll(t, len) \/ Take(t, len)
         \/ Turn(t) \/ InCall(t) \/ Sent(t)
    \/ TickAll

AllFairness ==
    /\ WF_allVars(TickAll)
    /\ \A t \in Thread : WF_allVars(InSetter(t) /\ UNCHANGED all)
    /\ \A t \in Caller : WF_allVars(Going(t))

AllSpec == AllInit /\ [][AllNext]_allVars /\ AllFairness

----------------------------------------------------------------------------
(* Properties *)

\* Every variable stays in the set of values its code gives it.
AllTypeOK ==
    /\ TypeOK
    /\ all \in [Caller ->
         [op : {"idle", "top", "sending"}, total : 0..MaxLen, off : 0..MaxLen,
          len : 0..MaxLen, limit : Modes, armed : BOOLEAN, left : -1..Largest,
          waited : 0..Largest + 1, n : 0..MaxLen, taken : Seq(1..MaxLen),
          outcome : Outcomes]]

\* The library takes the bytes of the buffer in order, each once and none
\* skipped, whatever mix of partial sends, retries, signals and errors ends it.
SentInOrder ==
    \A t \in Caller : all[t].taken = [i \in 1..Len(all[t].taken) |-> i]

\* sendall returns None only after the library took the whole buffer.
NoneMeansAll ==
    \A t \in Caller : all[t].outcome = "None" => Len(all[t].taken) = all[t].total

\* The two deadlines agree: sock_call's does not come before sendall's own, so
\* no sendall times out early, and sendall's never moves.
NoEarlyEnd ==
    \A t \in Caller :
        /\ all[t].armed => all[t].left + all[t].waited = all[t].limit
        /\ all[t].outcome = "timed out" => all[t].waited >= all[t].limit

\* A sendall with a timeout ends, however little the peer takes at a time and
\* however often it is interrupted, unless a setter leaves it blocking.
TimedSendEnds ==
    \A t \in Caller :
        all[t].op = "top" /\ all[t].limit > 0 ~> ~Sending(t) \/ Stuck(t)

Whole == INSTANCE TimedCall WITH wait <- [t \in Caller |-> WaitOf(all[t])]

\* So is a sendall, however many calls with a deadline of their own it makes.
SendAllIsTimedCall == Whole!Spec
============================================================================
