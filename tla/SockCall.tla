----------------------------- MODULE SockCall ------------------------------
(***************************************************************************)
(* sock_call and its callers: the loop that polls a socket, calls the      *)
(* library, and decides between retry, timeout and failure, run by several *)
(* threads on one socket whose mode setters change (BlockingMode).         *)
(*                                                                         *)
(* The poll and the library call run without the GIL.  Another thread may   *)
(* also run where a signal handler may have: at the top of the loop, which *)
(* is a step of its own.  Time is counted in ticks of the clock: each call *)
(* knows how much is left to its deadline and how long it has waited,      *)
(* which is all that the code computes from the clock.                     *)
(***************************************************************************)
EXTENDS BlockingMode

CONSTANTS
    Caller,  \* the threads that make calls
    Calls    \* the kinds of calls they make

VARIABLE call  \* what each thread is doing in a call

vars == <<modeVars, call>>

\* recv replaces the exception of sock_call; io is any other caller without
\* err and without connect (recv_into, send, sendto, recvfrom, recvmsg).  The
\* entry for sendmsg is commented out of socket_methods.
Kinds == {"recv", "io", "accept", "connect", "connect_ex"}
Connects == {"connect", "connect_ex"}

ASSUME CallerAssumption == Caller \subseteq Thread /\ Calls \subseteq Kinds

\* What the library may answer, and what the caller may see.
Errnos == {"EINTR", "EWOULDBLOCK", "EINPROGRESS", "EIO"}
Answers == {"ok", "zero"} \cup Errnos
Outcomes == {"nothing", "ok", "None", "timed out", "handler", "Exception", "SystemError"}
              \cup Errnos

\* limit: the timeout given to sock_call; armed: deadline_initialized; left:
\* ticks to the deadline; waited: ticks since it was set (history); answer: the
\* library's last (history).  The counts stop once the deadline is past.
NoCall == [op |-> "idle", kind |-> "io", limit |-> 0, armed |-> FALSE, left |-> 0,
           waited |-> 0, answer |-> "ok", outcome |-> "nothing"]

Calling(t) == t \in Caller /\ call[t].op # "idle"
Update(t, c) == call' = [call EXCEPT ![t] = c]
InOp(t, op) == [call[t] EXCEPT !.op = op]

(***************************************************************************)
(* How each method ends, r being what sock_call found: sock_recv turns any *)
(* error into Exception; connect_ex drops the errno and returns None, but  *)
(* for a signal handler's exception (err is -1).                           *)
(***************************************************************************)
Outcome(kind, r) ==
    CASE kind = "recv" /\ r # "ok" -> "Exception"
      [] kind = "connect_ex" /\ r # "handler" -> "None"
      [] OTHER -> r

Ended(c, r) == [c EXCEPT !.op = "idle", !.outcome = Outcome(c.kind, r)]
End(t, answer, r) == Update(t, Ended([call[t] EXCEPT !.answer = answer], r))

\* Faulty variant: what a signal interrupts fails.
InterruptedFails(t, c) ==
    Update(t, Ended(c, "handler")) \/ Update(t, Ended(c, "EINTR"))

\* PyErr_CheckSignals after EINTR: a handler raises, or the loop goes on.
Interrupted(t, c) == Update(t, Ended(c, "handler")) \/ Update(t, c)

Init == ModeInit /\ call = [t \in Caller |-> NoCall]

----------------------------------------------------------------------------
(* Calls begin *)

\* A thread that is free to call a method of the socket.
Free(t) ==
    /\ life \in {"live", "closed"} /\ setter[t] = Rest /\ ~Calling(t)
    /\ Overlap \/ Setters = {}

\* sock_call(s, ..., timeout) is entered, or the connect() before it.
Enter(t, kind, limit) ==
    Update(t, [NoCall EXCEPT !.op = IF kind \in Connects THEN "connect" ELSE "test",
                             !.kind = kind, !.limit = limit])

\* A method that goes straight to sock_call, with the timeout of this moment.
Begin(t, kind) ==
    /\ Free(t) /\ kind \in Calls
    /\ Enter(t, kind, timeout)
    /\ UNCHANGED modeVars

\* internal_connect: the library starts the connection; the timeout of the
\* moment it answers decides whether the call waits for it.
StartConnect(t, answer) ==
    LET c == [call[t] EXCEPT !.limit = timeout, !.answer = answer]
        wait == IF answer = "EINTR" THEN timeout # 0
                                    ELSE timeout > 0 /\ answer = "EINPROGRESS"
    IN
    /\ call[t].op = "connect"
    /\ answer \in {"ok", "EINTR", "EINPROGRESS", "EIO"}
    /\ answer = "EINPROGRESS" => nonblock
    /\ answer # "EIO" => life # "closed"
    /\ \/ answer = "EINTR" /\ Update(t, Ended(c, "handler"))
       \/ wait /\ Update(t, [c EXCEPT !.op = "test"])
       \/ ~wait /\ Update(t, Ended(c, answer))
    /\ UNCHANGED modeVars

----------------------------------------------------------------------------
(* sock_call *)

\* Faulty variant: every turn of the loop sets the deadline anew.
ArmedAgain(c) ==
    IF c.limit > 0 THEN [c EXCEPT !.armed = TRUE, !.left = c.limit] ELSE c

\* The first turn of a call with a timeout sets its deadline.
Armed(c) ==
    IF c.limit > 0 /\ ~c.armed THEN [c EXCEPT !.armed = TRUE, !.left = c.limit]
                               ELSE c

SelectUnguarded(c) == [c EXCEPT !.op = "poll"]  \* faulty: polls -1 as well

\* internal_select reports a closed socket ready instead of polling it.
Select(c) == [c EXCEPT !.op = IF life = "closed" THEN "func" ELSE "poll"]

\* The top of the loop: a call without a timeout is not polled, unless it is a
\* connect(); a deadline that is past ends the call.
Test(t) ==
    LET c == Armed(call[t]) IN
    /\ c.op = "test"
    /\ Update(t,
         IF c.limit <= 0 /\ c.kind \notin Connects THEN [c EXCEPT !.op = "func"]
         ELSE IF c.limit > 0 /\ c.left < 0 THEN Ended(c, "timed out")
         ELSE Select(c))
    /\ UNCHANGED modeVars

\* poll() finds the socket ready, rightly or not.
PollReady(t) ==
    /\ call[t].op = "poll"
    /\ Update(t, InOp(t, "func"))
    /\ UNCHANGED modeVars

\* Faulty variant: its milliseconds are rounded down.
PollTimeoutEarly(t) ==
    /\ call[t].op = "poll" /\ call[t].limit >= 0 /\ call[t].left <= 1
    /\ Update(t, Ended(call[t], "timed out"))
    /\ UNCHANGED modeVars

PollTimeoutNever(t) == FALSE  \* faulty variant: poll() is given no limit

\* It waits as long as the deadline was away when it was entered.
PollTimeout(t) ==
    /\ call[t].op = "poll" /\ call[t].limit >= 0 /\ call[t].left <= 0
    /\ Update(t, Ended(call[t], "timed out"))
    /\ UNCHANGED modeVars

PollInterrupted(t) ==
    /\ call[t].op = "poll"
    /\ Interrupted(t, [call[t] EXCEPT !.op = "test", !.answer = "EINTR"])
    /\ UNCHANGED modeVars

\* poll() fails: OSError is set, also for connect_ex, which goes on to return
\* None with the exception pending.
PollFails(t) ==
    /\ call[t].op = "poll"
    /\ Update(t, [call[t] EXCEPT !.op = "idle", !.answer = "EIO", !.outcome =
                    IF call[t].kind = "connect_ex" THEN "SystemError"
                                                   ELSE Outcome(call[t].kind, "EIO")])
    /\ UNCHANGED modeVars

\* The library answers.  Only a call that waits is interrupted, and only one
\* that may not wait would block; SO_ERROR, for connect, does neither.
Answer(t, answer) ==
    /\ call[t].op = "func"
    /\ answer \in Answers \ {"EINPROGRESS"}
    /\ answer = "EWOULDBLOCK" => nonblock
    /\ answer = "EINTR" => ~nonblock
    /\ answer \in {"EINTR", "EWOULDBLOCK"} => call[t].kind \notin Connects
    /\ answer = "zero" => call[t].kind = "accept"
    /\ life = "closed" => answer = "EIO"

\* sock_func succeeded.  sock_accept_impl has no return statement and leaves
\* its result in the return register: any but 0 counts as success, and -1 is
\* noticed only by sock_accept.
Succeeded(t, answer) ==
    /\ Answer(t, answer)
    /\ answer = "ok" \/ (call[t].kind = "accept" /\ answer # "zero")
    /\ End(t, answer, answer)
    /\ UNCHANGED modeVars

\* The errno after a failure: the library's, or, after an accepted descriptor
\* 0, any that was left behind.
Errno(t, answer) ==
    IF call[t].kind = "accept" THEN IF answer = "zero" THEN Errnos ELSE {}
                               ELSE {answer} \ {"ok"}

NoRetry(e) == FALSE  \* faulty variant: EWOULDBLOCK is never retried

\* A false positive, by the socket's timeout of this moment.
Retry(e) == e = "EWOULDBLOCK" /\ timeout > 0

\* sock_func failed.
Failed(t, answer, e) ==
    LET c == [call[t] EXCEPT !.answer = answer] IN
    /\ Answer(t, answer)
    /\ e \in Errno(t, answer)
    /\ \/ e = "EINTR" /\ Interrupted(t, c)
       \/ Retry(e) /\ Update(t, [c EXCEPT !.op = "test"])
       \/ e # "EINTR" /\ ~Retry(e) /\ Update(t, Ended(c, e))
    /\ UNCHANGED modeVars

----------------------------------------------------------------------------
(* The clock, and the setters of BlockingMode by threads not in a call *)

Clocked(t) == call[t].armed /\ Calling(t) /\ call[t].left >= 0

Ticked(t) ==
    IF Clocked(t) THEN [call[t] EXCEPT !.left = @ - 1, !.waited = @ + 1] ELSE call[t]

Tick ==
    /\ \E t \in Caller : Clocked(t)
    /\ call' = [t \in Caller |-> Ticked(t)]
    /\ UNCHANGED modeVars

InSetter(t) == SetterStep(t) /\ ~Calling(t) /\ UNCHANGED call

Request(t) ==
    /\ ModeRequest(t) /\ ~Calling(t)
    /\ Overlap \/ \A u \in Caller : ~Calling(u)
    /\ UNCHANGED call

\* Steps of a call that do not wait for the network.
Prompt(t) ==
    \/ Test(t) \/ PollTimeout(t)
    \/ /\ nonblock \/ life = "closed" \/ call[t].kind \in Connects
       /\ \E a \in Answers, e \in Errnos : Succeeded(t, a) \/ Failed(t, a, e)

Waiting(t) ==
    \/ PollReady(t) \/ PollInterrupted(t) \/ PollFails(t)
    \/ \E a \in Answers : StartConnect(t, a)
    \/ \E a \in Answers, e \in Errnos : Succeeded(t, a) \/ Failed(t, a, e)

Next ==
    \/ \E t \in Thread : InSetter(t) \/ Request(t)
    \/ \E t \in Caller : Prompt(t) \/ Waiting(t) \/ \E kind \in Calls : Begin(t, kind)
    \/ \E v \in Asked : SetDefaultTimeout(v) /\ UNCHANGED call
    \/ Tick

(***************************************************************************)
(* The clock advances, a thread with the GIL runs on, poll() returns when  *)
(* its time is up, and so does a library call that cannot wait: fcntl, and *)
(* any on a non-blocking or closed descriptor.  Nothing is assumed of the  *)
(* network or of calls that may block.                                     *)
(***************************************************************************)
Fairness ==
    /\ WF_vars(Tick)
    /\ \A t \in Thread : WF_vars(InSetter(t))
    /\ \A t \in Caller : WF_vars(Prompt(t))

Spec == Init /\ [][Next]_vars /\ Fairness

----------------------------------------------------------------------------
(* Properties *)

\* Every variable stays in the set of values its code gives it.
TypeOK ==
    /\ ModeTypeOK
    /\ call \in [Caller ->
         [op : {"idle", "connect", "test", "poll", "func"}, kind : Kinds,
          limit : Modes, armed : BOOLEAN, left : -1..Largest,
          waited : 0..Largest + 1, answer : Answers, outcome : Outcomes]]

\* A call's deadline never moves: interrupted polls and false positives shorten
\* the next wait by the time already spent, however often they happen.
DeadlineFixed ==
    \A t \in Caller : call[t].armed => call[t].left + call[t].waited = call[t].limit

\* No call times out before its own timeout has passed, also if setters change
\* the socket's timeout under it.
NoEarlyTimeout ==
    \A t \in Caller :
        call[t].outcome = "timed out" => call[t].limit > 0 /\ call[t].waited >= call[t].limit

\* A call with a timeout, or on a non-blocking socket, never sits in a library
\* call that may block: its descriptor is non-blocking whenever it is there.
TimedCallsDoNotBlock ==
    \A t \in Caller :
        call[t].op = "func" /\ call[t].limit # None /\ life = "live" => nonblock

\* Comment in sock_call: a call with a timeout that finds EWOULDBLOCK loops to
\* poll again instead of raising it.
OthersRetryWouldBlock ==
    \A t \in Caller :
        call[t].kind # "accept" /\ call[t].limit > 0 => call[t].outcome # "EWOULDBLOCK"

\* Comment in sock_call: it retries what "is interrupted by a signal", so that
\* no caller sees EINTR; a connect() on a non-blocking socket has no loop.
InterruptIsRetried(kinds) ==
    \A t \in Caller :
        call[t].kind \in kinds /\ call[t].outcome = "EINTR" => call[t].limit = 0
OthersRetryInterrupt == InterruptIsRetried(Kinds \ {"accept"})
AcceptRetriesInterrupt == InterruptIsRetried({"accept"})

\* A call left in the library on a descriptor that a setter made blocking.
Stuck(t) == call[t].op = "func" /\ ~nonblock /\ life = "live"

\* Comment before sock_settimeout: with a timeout > 0 "operations time out after
\* timeout seconds".  Every call that has a timeout ends, whatever the network,
\* the signals and a close do, unless a setter makes the descriptor blocking.
TimedCallsEnd ==
    \A t \in Caller : call[t].op = "test" /\ call[t].limit > 0 ~> ~Calling(t) \/ Stuck(t)

\* A call that comes back to the top of the loop after the socket was closed
\* ends: poll() would wait for ever on the descriptor -1.
ClosedCallsEnd ==
    \A t \in Caller : call[t].op = "test" /\ life = "closed" ~> ~Calling(t)

\* To the caller, a call with a limit waits from the turn that sets its deadline,
\* any other from the top of its first turn, until it ends.
WaitOf(c) ==
    LET on == c.op \notin {"idle", "connect"} /\ (c.armed \/ c.limit <= 0) IN
    [on |-> on, limit |-> IF on THEN c.limit ELSE 0, waited |-> IF on THEN c.waited ELSE 0,
     outcome |-> c.outcome]

Timed == INSTANCE TimedCall WITH wait <- [t \in Caller |-> WaitOf(call[t])]

\* The loop of sock_call with its polls, retries and signals is one wait that
\* times out no sooner than the limit it was given (module TimedCall).
ImplementsTimedCall == Timed!Spec
============================================================================
