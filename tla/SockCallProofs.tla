--------------------------- MODULE SockCallProofs ---------------------------
(***************************************************************************)
(* Theorems about SockCall, for any threads, timeouts and mix of calls.    *)
(*                                                                         *)
(* No caller looks at another's record, so everything is said of one       *)
(* record: Fine is what holds of it, Seen what a step of a TimedCall may   *)
(* make of what is seen of it, and every action is shown once to turn the  *)
(* record of its caller into a fine one by such a step.                    *)
(***************************************************************************)
EXTENDS SockCall, BlockingModeProofs

CallRecord ==
    [op : {"idle", "connect", "test", "poll", "func"}, kind : Kinds,
     limit : Modes, armed : BOOLEAN, left : -1..Largest,
     waited : 0..Largest + 1, answer : Answers, outcome : Outcomes]

\* The deadline of a call: set once, on the way to its first poll; what is left
\* of it and what has passed make up the limit.
Dated(c) ==
    /\ c.armed => c.limit > 0 /\ c.left + c.waited = c.limit
    /\ ~c.armed => c.waited = 0
    /\ c.op = "connect" => ~c.armed
    /\ c.op \in {"poll", "func"} /\ c.limit > 0 => c.armed

\* Where a call can be: only a connect() is polled without a limit, and one on
\* a non-blocking socket is over before the loop.
Placed(c) ==
    /\ c.op \in {"test", "poll", "func"} /\ c.kind \in Connects => c.limit # 0
    /\ c.op = "poll" => c.limit > 0 \/ c.kind \in Connects

\* What it may end with.
EndedWell(c) ==
    /\ c.op # "idle" => c.outcome = "nothing"
    /\ c.outcome = "timed out" => c.limit > 0 /\ c.waited >= c.limit
    /\ c.outcome = "EINTR" /\ c.kind # "accept" => c.limit = 0

Fine(c) == c \in CallRecord /\ Dated(c) /\ Placed(c) /\ EndedWell(c)

AllFine == call \in [Caller -> CallRecord] /\ \A t \in Caller : Fine(call[t])

\* The steps of TimedCall on what is seen of one call.
Seen(w, v) ==
    \/ v = w
    \/ ~w.on /\ v = Timed!Idle("nothing")
    \/ ~w.on /\ \E limit \in Modes : v = Timed!Since(0, limit)
    \/ \E r \in Outcomes \ {"timed out"} : v = Timed!Idle(r)
    \/ w.on /\ w.limit > 0 /\ w.waited >= w.limit /\ v = Timed!Idle("timed out")

\* A step from the record c to d.
Good(c, d) == Fine(d) /\ Seen(WaitOf(c), WaitOf(d))

InLoop(c) == c.op \in {"test", "poll", "func"}

----------------------------------------------------------------------------
(* Records *)

\* A call that is made, before it waits or at the top of its first turn.
LEMMA EnterGood ==
    ASSUME NEW c, Fine(c), c.op = "idle", NEW d \in CallRecord, d.op \in {"connect", "test"},
           d.op = "test" => d.kind \notin Connects, ~d.armed, d.waited = 0,
           d.outcome = "nothing"
    PROVE  Good(c, d)
<1> USE ModeAssumption DEF ModeAssumption, Modes, None
<1>1. Fine(d)
  BY DEF Fine, Dated, Placed, EndedWell
<1>2. WaitOf(c).on = FALSE
  BY DEF WaitOf
<1>3. d.limit \in Modes /\ d.armed = FALSE
  BY DEF CallRecord
<1> HIDE DEF None
<1>4. WaitOf(d) = Timed!Idle("nothing") \/ WaitOf(d) = Timed!Since(0, d.limit)
  BY <1>3 DEF WaitOf, Timed!Idle, Timed!Since
<1> QED BY <1>1, <1>2, <1>3, <1>4 DEF Good, Seen

\* A call that ends.
LEMMA EndGood ==
    ASSUME NEW c, Fine(c), c.op # "idle", NEW d \in CallRecord,
           d.op = "idle", d.kind = c.kind, d.armed = c.armed, d.left = c.left,
           d.waited = c.waited, d.limit = c.limit \/ c.op = "connect",
           d.outcome = "timed out" => InLoop(c) /\ c.armed /\ c.waited >= c.limit,
           d.outcome = "EINTR" /\ d.kind # "accept" => d.limit = 0
    PROVE  Good(c, d)
<1> USE ModeAssumption DEF ModeAssumption, Modes, None
<1>1. Fine(d)
  BY DEF Fine, Dated, Placed, EndedWell, InLoop
<1>2. WaitOf(d) = Timed!Idle(d.outcome) /\ d.outcome \in Outcomes
  BY DEF WaitOf, Timed!Idle, CallRecord
<1>3. CASE d.outcome = "timed out"
  <2>1. WaitOf(c).on /\ WaitOf(c).limit = c.limit /\ WaitOf(c).waited = c.waited /\ c.limit > 0
    BY <1>3 DEF WaitOf, InLoop, Fine, Dated
  <2> QED BY <1>1, <1>2, <1>3, <2>1 DEF Good, Seen
<1> QED BY <1>1, <1>2, <1>3 DEF Good, Seen

\* A call that goes on in the loop, with the same deadline.
LEMMA GoOnGood ==
    ASSUME NEW c, Fine(c), InLoop(c), c.armed \/ c.limit <= 0, NEW d \in CallRecord, InLoop(d),
           d.kind = c.kind, d.armed = c.armed, d.left = c.left, d.waited = c.waited,
           d.limit = c.limit, d.outcome = c.outcome, d.op = "poll" => Placed(d)
    PROVE  Good(c, d)
<1> USE ModeAssumption DEF ModeAssumption, Modes, None
<1>1. Fine(d)
  <2>1. Dated(d)
    BY DEF Fine, Dated, InLoop, CallRecord
  <2>2. Placed(d)
    BY DEF Fine, Placed, InLoop
  <2>3. EndedWell(d)
    BY DEF Fine, EndedWell, InLoop
  <2> QED BY <2>1, <2>2, <2>3 DEF Fine
<1>2. WaitOf(d) = WaitOf(c)
  BY DEF WaitOf, InLoop
<1> QED BY <1>1, <1>2 DEF Good, Seen

\* Whatever sock_call found, the caller of its method sees an outcome.
LEMMA OutcomeTyped ==
    ASSUME NEW kind, NEW r \in Outcomes
    PROVE  /\ Outcome(kind, r) \in Outcomes
           /\ Outcome(kind, r) \in {"timed out", "EINTR"} => Outcome(kind, r) = r
BY DEF Outcome, Outcomes, Errnos

\* The end of a call with the outcome r, by a step that leaves its deadline alone.
LEMMA EndsGood ==
    ASSUME NEW c, Fine(c), InLoop(c), NEW a \in Answers, NEW r \in Outcomes,
           r = "timed out" => c.armed /\ c.waited >= c.limit,
           r = "EINTR" /\ c.kind # "accept" => c.limit = 0,
           NEW b, b = [c EXCEPT !.answer = a]
    PROVE  Good(c, Ended(b, r)) /\ Good(c, Ended(c, r))
<1> DEFINE d == Ended(b, r)
           e == Ended(c, r)
<1>1. c \in CallRecord
  BY DEF Fine
<1>2. b \in CallRecord /\ b.kind = c.kind
  BY <1>1 DEF CallRecord
<1>3. Outcome(c.kind, r) \in Outcomes
        /\ (Outcome(c.kind, r) \in {"timed out", "EINTR"} => Outcome(c.kind, r) = r)
  BY OutcomeTyped
<1>4. /\ d \in CallRecord /\ d.op = "idle" /\ d.kind = c.kind /\ d.armed = c.armed
      /\ d.left = c.left /\ d.waited = c.waited /\ d.limit = c.limit
      /\ d.outcome = Outcome(c.kind, r)
  BY <1>1, <1>2, <1>3 DEF CallRecord, Ended
<1>5. /\ e \in CallRecord /\ e.op = "idle" /\ e.kind = c.kind /\ e.armed = c.armed
      /\ e.left = c.left /\ e.waited = c.waited /\ e.limit = c.limit
      /\ e.outcome = Outcome(c.kind, r)
  BY <1>1, <1>3 DEF CallRecord, Ended
<1>6. c.op # "idle"
  BY DEF InLoop
<1> HIDE DEF d, e
<1>7. Good(c, d)
  BY <1>3, <1>4, <1>6, EndGood
<1>8. Good(c, e)
  BY <1>3, <1>5, <1>6, EndGood
<1> QED BY <1>7, <1>8 DEF d, e

----------------------------------------------------------------------------
(* The actions of one call *)

Steps(t) == \E d : Update(t, d) /\ Good(call[t], d)

\* sock_call entered, or the connect() before it.
LEMMA EnterSteps ==
    ASSUME NEW t \in Caller, Fine(call[t]), call[t].op = "idle",
           NEW kind \in Kinds, NEW limit \in Modes, Enter(t, kind, limit)
    PROVE  Steps(t)
<1>1. NoCall \in CallRecord
  BY ModeAssumption DEF NoCall, CallRecord, Kinds, Modes, Answers, Outcomes, ModeAssumption
<1>2. PICK op \in {"connect", "test"} :
        /\ op = "test" => kind \notin Connects
        /\ Update(t, [NoCall EXCEPT !.op = op, !.kind = kind, !.limit = limit])
  <2>1. CASE kind \in Connects
    BY <2>1, Zenon DEF Enter
  <2>2. CASE kind \notin Connects
    BY <2>2, Zenon DEF Enter
  <2> QED BY <2>1, <2>2
<1> DEFINE d == [NoCall EXCEPT !.op = op, !.kind = kind, !.limit = limit]
<1>3. /\ d \in CallRecord /\ d.op = op /\ d.kind = kind
      /\ d.armed = NoCall.armed /\ d.waited = NoCall.waited /\ d.outcome = NoCall.outcome
  BY <1>1 DEF CallRecord
<1>4. ~NoCall.armed /\ NoCall.waited = 0 /\ NoCall.outcome = "nothing"
  BY DEF NoCall
<1>5. Good(call[t], d)
  <2> HIDE DEF d
  <2> QED BY <1>2, <1>3, <1>4, EnterGood
<1> QED BY <1>2, <1>5 DEF Steps

\* A connect() starts: it is over, or goes on to wait.
LEMMA StartConnectSteps ==
    ASSUME NEW t \in Caller, Fine(call[t]), timeout \in Modes, NEW a \in Answers,
           StartConnect(t, a)
    PROVE  Steps(t)
<1> DEFINE c == call[t]
           b == [c EXCEPT !.limit = timeout, !.answer = a]
           wait == IF a = "EINTR" THEN timeout # 0 ELSE timeout > 0 /\ a = "EINPROGRESS"
           loop == [b EXCEPT !.op = "test"]
<1>1. c \in CallRecord /\ c.op = "connect"
  BY DEF Fine, StartConnect
<1>2. /\ b \in CallRecord /\ b.op = c.op /\ b.kind = c.kind /\ b.armed = c.armed
      /\ b.left = c.left /\ b.waited = c.waited /\ b.limit = timeout /\ b.outcome = c.outcome
  BY <1>1 DEF CallRecord
<1>3. /\ loop \in CallRecord /\ loop.op = "test" /\ loop.kind = c.kind
      /\ loop.armed = c.armed /\ loop.left = c.left /\ loop.waited = c.waited
      /\ loop.limit = timeout /\ loop.outcome = c.outcome
  BY <1>1 DEF CallRecord
<1>4. \/ a = "EINTR" /\ Update(t, Ended(b, "handler"))
      \/ wait /\ Update(t, loop)
      \/ ~wait /\ Update(t, Ended(b, a))
  BY DEF StartConnect
<1>5. ASSUME NEW r \in Outcomes, r # "timed out", r = "EINTR" => timeout = 0
      PROVE  Good(c, Ended(b, r))
  <2> DEFINE d == Ended(b, r)
  <2>1. Outcome(c.kind, r) \in Outcomes
          /\ (Outcome(c.kind, r) \in {"timed out", "EINTR"} => Outcome(c.kind, r) = r)
    BY OutcomeTyped
  <2>2. /\ d \in CallRecord /\ d.op = "idle" /\ d.kind = c.kind /\ d.armed = c.armed
        /\ d.left = c.left /\ d.waited = c.waited /\ d.limit = timeout
        /\ d.outcome = Outcome(c.kind, r)
    BY <1>2, <2>1 DEF CallRecord, Ended
  <2> HIDE DEF c, b, d
  <2>3. Good(c, d)
    BY <1>1, <1>5, <2>1, <2>2, EndGood DEF c
  <2> QED BY <2>3 DEF d
<1>6. wait => timeout # 0
  OBVIOUS
<1>7. timeout # 0 => Good(c, loop)
  <2> SUFFICES ASSUME timeout # 0 PROVE Good(c, loop)
    OBVIOUS
  <2> USE ModeAssumption DEF ModeAssumption, Modes, None
  <2> HIDE DEF loop, b, wait, c
  <2>1. Fine(c)
    BY DEF c
  <2>2. Fine(loop)
    BY <1>1, <1>3, <2>1 DEF Fine, Dated, Placed, EndedWell
  <2>3. WaitOf(c).on = FALSE
    BY <1>1 DEF WaitOf
  <2>4. loop.armed = FALSE /\ loop.waited = 0 /\ loop.outcome = "nothing"
    BY <1>1, <1>3, <2>1 DEF Fine, Dated, EndedWell, CallRecord
  <2>5. WaitOf(loop) = Timed!Idle("nothing") \/ WaitOf(loop) = Timed!Since(0, loop.limit)
    BY <1>3, <2>4 DEF WaitOf, Timed!Idle, Timed!Since
  <2> QED BY <1>3, <2>2, <2>3, <2>5 DEF Good, Seen
<1>8. a \in Outcomes /\ a # "timed out" /\ "handler" \in Outcomes
  <2>1. a \in {"ok", "EINTR", "EINPROGRESS", "EIO"}
    BY DEF StartConnect
  <2> QED BY <2>1 DEF Outcomes, Errnos
<1>9. CASE a = "EINTR" /\ Update(t, Ended(b, "handler"))
  <2>1. Good(c, Ended(b, "handler"))
    BY <1>5, <1>8
  <2> QED BY <1>9, <2>1, Zenon DEF Steps
<1>10. CASE wait /\ Update(t, loop)
  <2> HIDE DEF loop, wait
  <2> QED BY <1>6, <1>7, <1>10 DEF Steps
<1>11. CASE ~wait /\ Update(t, Ended(b, a))
  <2>1. a = "EINTR" => timeout = 0
    BY <1>11
  <2>2. Good(c, Ended(b, a))
    BY <1>5, <1>8, <2>1
  <2> QED BY <1>11, <2>2, Zenon DEF Steps
<1> HIDE DEF b, loop, wait
<1> QED BY <1>4, <1>9, <1>10, <1>11

\* The turn that sets the deadline.
LEMMA ArmGood ==
    ASSUME NEW c, Fine(c), c.op = "test", ~c.armed, c.limit > 0,
           NEW d \in CallRecord, d.op \in {"poll", "func"}, d.kind = c.kind, d.armed,
           d.limit = c.limit, d.left = c.limit, d.waited = c.waited, d.outcome = c.outcome
    PROVE  Good(c, d)
<1> USE ModeAssumption DEF ModeAssumption, Modes, None
<1>1. Fine(d) /\ d.waited = 0 /\ d.outcome = "nothing"
  <2>1. d.waited = 0 /\ d.outcome = "nothing"
    BY DEF Fine, Dated, EndedWell
  <2>2. d.limit + 0 = d.limit
    BY DEF CallRecord
  <2>3. Dated(d)
    BY <2>1, <2>2 DEF Dated
  <2>4. Placed(d) /\ EndedWell(d)
    BY <2>1 DEF Fine, Placed, EndedWell
  <2> QED BY <2>1, <2>3, <2>4 DEF Fine
<1>2. WaitOf(c).on = FALSE
  <2>1. ~(c.limit <= 0)
    BY DEF Fine, CallRecord
  <2> QED BY <2>1 DEF WaitOf
<1>3. WaitOf(d) = Timed!Since(0, d.limit) /\ d.limit \in Modes
  BY <1>1 DEF WaitOf, Timed!Since, CallRecord
<1> QED BY <1>1, <1>2, <1>3 DEF Good, Seen

\* What the first lines of a turn make of the record.
LEMMA ArmedTyped ==
    ASSUME NEW c \in CallRecord
    PROVE  /\ Armed(c) \in CallRecord /\ Armed(c).op = c.op /\ Armed(c).kind = c.kind
           /\ Armed(c).waited = c.waited /\ Armed(c).limit = c.limit
           /\ Armed(c).outcome = c.outcome /\ Armed(c).answer = c.answer
           /\ c.armed \/ c.limit <= 0 => Armed(c) = c
           /\ ~c.armed /\ c.limit > 0 => Armed(c).armed /\ Armed(c).left = c.limit
<1> USE ModeAssumption DEF ModeAssumption, Modes, None
<1>1. CASE c.armed \/ c.limit <= 0
  <2>1. ~(c.limit > 0 /\ ~c.armed)
    BY <1>1 DEF CallRecord
  <2>2. Armed(c) = c
    BY <2>1, Zenon DEF Armed
  <2> QED BY <1>1, <2>1, <2>2
<1>2. CASE ~(c.armed \/ c.limit <= 0)
  <2>1. c.limit > 0 /\ ~c.armed
    BY <1>2 DEF CallRecord
  <2> DEFINE b == [c EXCEPT !.armed = TRUE, !.left = c.limit]
  <2>2. Armed(c) = b
    BY <2>1, Zenon DEF Armed
  <2>3. /\ b \in CallRecord /\ b.op = c.op /\ b.kind = c.kind /\ b.waited = c.waited
        /\ b.limit = c.limit /\ b.outcome = c.outcome /\ b.answer = c.answer
        /\ b.armed /\ b.left = c.limit
    <3>1. c.limit \in -1..Largest
      BY DEF CallRecord
    <3>2. b \in CallRecord
      BY <3>1 DEF CallRecord
    <3>3. b.armed /\ b.left = c.limit
      BY DEF CallRecord
    <3> QED BY <3>2, <3>3 DEF CallRecord
  <2> HIDE DEF b
  <2> QED BY <1>2, <2>2, <2>3
<1> QED BY <1>1, <1>2

\* The top of the loop.
LEMMA TestSteps ==
    ASSUME NEW t \in Caller, Fine(call[t]), Test(t)
    PROVE  Steps(t)
<1> DEFINE c == call[t]
           b == Armed(c)
           func == [b EXCEPT !.op = "func"]
           next == Select(b)
<1> USE ModeAssumption DEF ModeAssumption, Modes, None
<1>1. c \in CallRecord
  BY DEF Fine
<1>2. /\ b \in CallRecord /\ b.op = c.op /\ b.kind = c.kind /\ b.waited = c.waited
      /\ b.limit = c.limit /\ b.outcome = c.outcome /\ b.answer = c.answer
      /\ (c.limit > 0 => b.armed) /\ (c.armed \/ c.limit <= 0 => b = c)
      /\ (~c.armed /\ c.limit > 0 => b.left = c.limit)
  <2>1. c.armed \/ c.limit <= 0 \/ (~c.armed /\ c.limit > 0)
    BY <1>1 DEF CallRecord
  <2>2. /\ b \in CallRecord /\ b.op = c.op /\ b.kind = c.kind /\ b.waited = c.waited
        /\ b.limit = c.limit /\ b.outcome = c.outcome /\ b.answer = c.answer
        /\ (c.armed \/ c.limit <= 0 => b = c)
        /\ (~c.armed /\ c.limit > 0 => b.armed /\ b.left = c.limit)
    BY <1>1, ArmedTyped
  <2> HIDE DEF b, c
  <2>3. c.limit > 0 => ~(c.limit <= 0)
    BY <1>1 DEF CallRecord
  <2> QED BY <2>1, <2>2, <2>3
<1>3. b.op = "test"
  BY DEF Test
<1>4. \/ c.limit <= 0 /\ c.kind \notin Connects /\ Update(t, func)
      \/ c.limit > 0 /\ b.left < 0 /\ Update(t, Ended(b, "timed out"))
      \/ (c.limit > 0 \/ c.kind \in Connects) /\ Update(t, next)
  <2> HIDE DEF b, next, func
  <2>1. Update(t,
          IF b.limit <= 0 /\ b.kind \notin Connects THEN func
          ELSE IF b.limit > 0 /\ b.left < 0 THEN Ended(b, "timed out")
          ELSE next)
    BY DEF Test, func, next, b
  <2>2. b.limit = c.limit /\ b.kind = c.kind /\ (c.limit <= 0 \/ c.limit > 0)
    BY <1>1, <1>2 DEF CallRecord
  <2>3. CASE c.limit <= 0 /\ c.kind \notin Connects
    BY <2>1, <2>2, <2>3, Zenon
  <2>4. CASE ~(c.limit <= 0 /\ c.kind \notin Connects)
    <3>1. Update(t, IF b.limit > 0 /\ b.left < 0 THEN Ended(b, "timed out") ELSE next)
      BY <2>1, <2>2, <2>4, Zenon
    <3>2. CASE b.limit > 0 /\ b.left < 0
      BY <2>2, <3>1, <3>2, Zenon
    <3>3. CASE ~(b.limit > 0 /\ b.left < 0)
      BY <2>2, <2>4, <3>1, <3>3, Zenon
    <3> QED BY <3>2, <3>3
  <2> QED BY <2>3, <2>4
<1>5. /\ func \in CallRecord /\ func.op = "func" /\ func.kind = b.kind
      /\ func.armed = b.armed /\ func.left = b.left /\ func.waited = b.waited
      /\ func.limit = b.limit /\ func.outcome = b.outcome
  BY <1>2 DEF CallRecord
<1>6. /\ next \in CallRecord /\ next.op \in {"poll", "func"} /\ next.kind = b.kind
      /\ next.armed = b.armed /\ next.left = b.left /\ next.waited = b.waited
      /\ next.limit = b.limit /\ next.outcome = b.outcome
  BY <1>2 DEF CallRecord, Select
<1>7. CASE c.limit <= 0 /\ c.kind \notin Connects /\ Update(t, func)
  <2>1. b = c /\ InLoop(c) /\ InLoop(func)
    BY <1>2, <1>3, <1>5, <1>7 DEF InLoop
  <2> HIDE DEF func, b, c
  <2>2. Good(c, func)
    BY <1>5, <1>7, <2>1, GoOnGood DEF c
  <2> QED BY <1>7, <2>2 DEF Steps, c
<1>8. CASE c.limit > 0 /\ b.left < 0 /\ Update(t, Ended(b, "timed out"))
  <2>1. Fine(c)
    OBVIOUS
  <2> HIDE DEF b, c
  <2>2. c.armed
    <3>1. c.limit \in Int
      BY <1>1 DEF CallRecord
    <3>2. ~c.armed => b.left = c.limit
      BY <1>2, <1>8
    <3>3. c.limit > 0 /\ b.left < 0
      BY <1>8
    <3> QED BY <3>1, <3>2, <3>3
  <2>3. b = c
    BY <1>2, <2>2
  <2>4. c.waited >= c.limit /\ InLoop(c)
    <3>1. c.left + c.waited = c.limit
      BY <2>1, <2>2 DEF Fine, Dated
    <3>2. c.left \in -1..Largest /\ c.waited \in Nat
      BY <1>1 DEF CallRecord
    <3>3. c.left < 0
      BY <1>8, <2>3
    <3>4. c.op = "test"
      BY <1>2, <1>3
    <3> QED BY <3>1, <3>2, <3>3, <3>4 DEF InLoop
  <2>5. Good(c, Ended(c, "timed out"))
    <3>1. "timed out" \in Outcomes /\ c.answer \in Answers
      BY <1>1 DEF CallRecord, Outcomes
    <3> QED BY <2>1, <2>2, <2>4, <3>1, EndsGood
  <2>6. Update(t, Ended(c, "timed out"))
    BY <1>8, <2>3, Zenon
  <2> QED BY <2>5, <2>6 DEF Steps, c
<1>9. CASE (c.limit > 0 \/ c.kind \in Connects) /\ Update(t, next)
  <2>1. Good(c, next)
    <3>1. CASE c.armed \/ c.limit <= 0
      <4>1. b = c /\ InLoop(c) /\ InLoop(next)
        BY <1>2, <1>3, <1>6, <3>1 DEF InLoop
      <4> HIDE DEF next, b, c
      <4>2. next.op = "poll" => Placed(next)
        <5>1. Placed(c) /\ c.op = "test"
          BY <1>2, <1>3 DEF Fine, c
        <5> QED BY <1>6, <1>9, <4>1, <5>1 DEF Placed
      <4> QED BY <1>6, <3>1, <4>1, <4>2, GoOnGood DEF c
    <3>2. CASE ~(c.armed \/ c.limit <= 0)
      <4>1. c.limit > 0 /\ c.op = "test" /\ ~c.armed /\ next.armed
        BY <1>1, <1>2, <1>3, <1>6, <3>2 DEF CallRecord
      <4>2. next.left = c.limit /\ next.limit = c.limit /\ next.kind = c.kind
              /\ next.waited = c.waited /\ next.outcome = c.outcome
        BY <1>2, <1>6, <4>1
      <4> HIDE DEF next, b, c
      <4> QED BY <1>6, <4>1, <4>2, ArmGood DEF c
    <3> QED BY <3>1, <3>2
  <2> HIDE DEF next
  <2> QED BY <1>9, <2>1 DEF Steps
<1> HIDE DEF c, b, func, next
<1> QED BY <1>4, <1>7, <1>8, <1>9

\* A call in the loop whose deadline is set, if it has one.
InLoopDated(c) == Fine(c) /\ InLoop(c) /\ (c.armed \/ c.limit <= 0)

\* After EINTR the loop goes on, or a signal handler ends the call.
LEMMA InterruptedSteps ==
    ASSUME NEW t \in Caller, InLoopDated(call[t]),
           NEW b \in CallRecord, b.op \in {"test", "func"}, b.kind = call[t].kind,
           b.armed = call[t].armed, b.left = call[t].left, b.waited = call[t].waited,
           b.limit = call[t].limit, b.outcome = call[t].outcome, Interrupted(t, b)
    PROVE  Steps(t)
<1> DEFINE c == call[t]
           e == Ended(b, "handler")
<1>1. Outcome(b.kind, "handler") \in Outcomes \ {"timed out", "EINTR"}
  <2>1. "handler" \in Outcomes
    BY DEF Outcomes
  <2> QED BY <2>1, OutcomeTyped
<1>2. /\ e \in CallRecord /\ e.op = "idle" /\ e.kind = c.kind /\ e.armed = c.armed
      /\ e.left = c.left /\ e.waited = c.waited /\ e.limit = c.limit
      /\ e.outcome = Outcome(b.kind, "handler")
  BY <1>1 DEF CallRecord, Ended
<1> HIDE DEF c
<1>3. Good(c, b)
  BY GoOnGood DEF c, InLoopDated, InLoop
<1> HIDE DEF e
<1>4. Good(c, e)
  BY <1>1, <1>2, EndGood DEF c, InLoopDated, InLoop
<1>5. Update(t, e) \/ Update(t, b)
  BY DEF Interrupted, e
<1> QED BY <1>3, <1>4, <1>5 DEF Steps, c

\* In poll() or the library, the deadline of a call is set.
LEMMA WhereDated ==
    ASSUME NEW c, Fine(c), c.op \in {"poll", "func"}
    PROVE  InLoopDated(c)
<1>1. c.limit > 0 \/ c.limit <= 0
  BY ModeAssumption DEF Fine, CallRecord, Modes, None, ModeAssumption
<1> QED BY <1>1 DEF InLoopDated, InLoop, Fine, Dated

\* poll() returns.
LEMMA PollReadySteps ==
    ASSUME NEW t \in Caller, Fine(call[t]), PollReady(t)
    PROVE  Steps(t)
<1> DEFINE c == call[t]
           d == InOp(t, "func")
<1>1. c \in CallRecord /\ c.op = "poll" /\ Update(t, d)
  BY DEF Fine, PollReady
<1>2. /\ d \in CallRecord /\ d.op = "func" /\ d.kind = c.kind /\ d.armed = c.armed
      /\ d.left = c.left /\ d.waited = c.waited /\ d.limit = c.limit /\ d.outcome = c.outcome
  BY <1>1 DEF CallRecord, InOp
<1>3. InLoopDated(c)
  BY <1>1, WhereDated
<1> HIDE DEF c, d
<1>4. Good(c, d)
  BY <1>2, <1>3, GoOnGood DEF InLoopDated, InLoop
<1> QED BY <1>1, <1>4 DEF Steps, c

\* So is a poll that times out: its call has waited its limit.
LEMMA PollTimeoutSteps ==
    ASSUME NEW t \in Caller, Fine(call[t]), PollTimeout(t)
    PROVE  Steps(t)
<1> DEFINE c == call[t]
<1> USE ModeAssumption DEF ModeAssumption, Modes, None
<1>1. c \in CallRecord /\ c.op = "poll"
  BY DEF Fine, PollTimeout
<1> USE <1>1
<1>2. Update(t, Ended(c, "timed out"))
  BY DEF PollTimeout
<1>3. c.limit >= 0 /\ c.left <= 0
  BY DEF PollTimeout
<1>4. InLoopDated(c)
  BY <1>1, WhereDated
<1> HIDE DEF c
<1>5. c.limit \in Int /\ c.left \in Int /\ c.waited \in Int
  <2>1. c.limit \in Modes /\ c.left \in -1..Largest /\ c.waited \in 0..Largest + 1
    BY <1>1 DEF CallRecord
  <2> QED BY <2>1
<1>6. c.limit > 0
  <2>1. c.kind \in Connects => c.limit # 0
    BY <1>1, <1>4 DEF InLoopDated, Fine, Placed
  <2>2. c.limit > 0 \/ c.kind \in Connects
    BY <1>1, <1>4 DEF InLoopDated, Fine, Placed
  <2> QED BY <1>3, <1>5, <2>1, <2>2
<1>7. c.armed /\ c.left + c.waited = c.limit
  BY <1>1, <1>4, <1>6 DEF InLoopDated, Fine, Dated
<1>8. c.waited >= c.limit
  BY <1>3, <1>5, <1>7
<1>9. "timed out" \in Outcomes /\ c.answer \in Answers
  BY <1>1 DEF CallRecord, Outcomes
<1>10. Good(c, Ended(c, "timed out"))
  BY <1>4, <1>7, <1>8, <1>9, EndsGood DEF InLoopDated
<1> QED BY <1>2, <1>10, Zenon DEF Steps, c

\* So is a poll that is interrupted.
LEMMA PollInterruptedSteps ==
    ASSUME NEW t \in Caller, Fine(call[t]), PollInterrupted(t)
    PROVE  Steps(t)
<1> DEFINE c == call[t]
           b == [c EXCEPT !.op = "test", !.answer = "EINTR"]
<1>1. c \in CallRecord /\ c.op = "poll" /\ "EINTR" \in Answers
  BY DEF Fine, PollInterrupted, Answers, Errnos
<1>2. /\ b \in CallRecord /\ b.op = "test" /\ b.kind = c.kind /\ b.armed = c.armed
      /\ b.left = c.left /\ b.waited = c.waited /\ b.limit = c.limit /\ b.outcome = c.outcome
  BY <1>1 DEF CallRecord
<1>3. InLoopDated(c)
  BY <1>1, WhereDated
<1>4. Interrupted(t, b)
  BY DEF PollInterrupted
<1> HIDE DEF b
<1> QED BY <1>2, <1>3, <1>4, InterruptedSteps

\* So is a poll that fails.
LEMMA PollFailsSteps ==
    ASSUME NEW t \in Caller, Fine(call[t]), PollFails(t)
    PROVE  Steps(t)
<1> DEFINE c == call[t]
           r == IF c.kind = "connect_ex" THEN "SystemError" ELSE Outcome(c.kind, "EIO")
           d == [c EXCEPT !.op = "idle", !.answer = "EIO", !.outcome = r]
<1>1. c \in CallRecord /\ c.op = "poll" /\ Update(t, d)
  BY DEF Fine, PollFails
<1>2. r \in Outcomes \ {"timed out", "EINTR"} /\ "EIO" \in Answers
  <2>1. {"SystemError", "EIO"} \subseteq Outcomes /\ "EIO" \in Answers
    BY DEF Outcomes, Errnos, Answers
  <2> QED BY <2>1, OutcomeTyped
<1> HIDE DEF r
<1>3. /\ d \in CallRecord /\ d.op = "idle" /\ d.kind = c.kind /\ d.armed = c.armed
      /\ d.left = c.left /\ d.waited = c.waited /\ d.limit = c.limit /\ d.outcome = r
  BY <1>1, <1>2 DEF CallRecord
<1> HIDE DEF d
<1>4. Fine(c)
  OBVIOUS
<1> HIDE DEF c
<1>5. Good(c, d)
  BY <1>1, <1>2, <1>3, <1>4, EndGood
<1> QED BY <1>1, <1>5 DEF Steps, c

\* The library answers with success, or with what counts as one.
LEMMA SucceededSteps ==
    ASSUME NEW t \in Caller, Fine(call[t]), NEW a \in Answers, Succeeded(t, a)
    PROVE  Steps(t)
<1> DEFINE c == call[t]
           b == [c EXCEPT !.answer = a]
<1>1. c.op = "func" /\ Update(t, Ended(b, a)) /\ (a = "ok" \/ (c.kind = "accept" /\ a # "zero"))
  BY DEF Succeeded, Answer, End
<1>2. a \in Outcomes /\ a # "timed out" /\ (a = "EINTR" => c.kind = "accept")
  BY <1>1 DEF Answers, Outcomes, Errnos
<1>3. InLoopDated(c)
  BY <1>1, WhereDated
<1>4. b = [c EXCEPT !.answer = a]
  OBVIOUS
<1> HIDE DEF b, c
<1>5. Good(c, Ended(b, a))
  BY <1>2, <1>3, <1>4, EndsGood DEF InLoopDated
<1> QED BY <1>1, <1>5, Zenon DEF Steps, c

\* The library answers with a failure: the call goes round again or ends.
LEMMA FailedSteps ==
    ASSUME NEW t \in Caller, Fine(call[t]), NEW a \in Answers, NEW e \in Errnos,
           Failed(t, a, e)
    PROVE  Steps(t)
<1> DEFINE c == call[t]
           b == [c EXCEPT !.answer = a]
           again == [b EXCEPT !.op = "test"]
<1>1. /\ c.op = "func" /\ c \in CallRecord
      /\ \/ e = "EINTR" /\ Interrupted(t, b)
         \/ Update(t, again)
         \/ e # "EINTR" /\ Update(t, Ended(b, e))
      /\ e \in Errno(t, a)
  BY DEF Failed, Answer, Fine
<1>2. InLoopDated(c)
  BY <1>1, WhereDated
<1>3. b = [c EXCEPT !.answer = a]
  OBVIOUS
<1>4. e \in Outcomes /\ e # "timed out"
  BY DEF Outcomes, Errnos
<1>5. CASE e = "EINTR" /\ Interrupted(t, b)
  <2> USE <1>5
  <2>1. /\ b \in CallRecord /\ b.op = "func" /\ b.kind = c.kind /\ b.armed = c.armed
        /\ b.left = c.left /\ b.waited = c.waited /\ b.limit = c.limit
        /\ b.outcome = c.outcome
    BY <1>1 DEF CallRecord
  <2> HIDE DEF b
  <2> QED BY <1>1, <1>2, <2>1, InterruptedSteps
<1>6. CASE Update(t, again)
  <2>1. /\ again \in CallRecord /\ again.op = "test" /\ again.kind = c.kind
        /\ again.armed = c.armed /\ again.left = c.left /\ again.waited = c.waited
        /\ again.limit = c.limit /\ again.outcome = c.outcome
    BY <1>1 DEF CallRecord
  <2> HIDE DEF again, c
  <2>2. Good(c, again)
    BY <1>2, <2>1, GoOnGood DEF InLoopDated, InLoop
  <2> QED BY <1>6, <2>2 DEF Steps, c
<1>7. CASE e # "EINTR" /\ Update(t, Ended(b, e))
  <2> HIDE DEF b, c
  <2>1. Good(c, Ended(b, e))
    BY <1>2, <1>3, <1>4, <1>7, EndsGood DEF InLoopDated
  <2> QED BY <1>7, <2>1, Zenon DEF Steps, c
<1> HIDE DEF b, c, again
<1> QED BY <1>1, <1>5, <1>6, <1>7

\* Every step of a caller's own.
CallerStep(t) ==
    \/ Prompt(t) \/ Waiting(t)
    \/ \E kind \in Calls : Begin(t, kind)

\* So is every step of a caller.
LEMMA CallerSteps ==
    ASSUME NEW t \in Caller, Fine(call[t]), timeout \in Modes, CallerStep(t)
    PROVE  Steps(t)
<1>1. ASSUME NEW kind \in Calls, Begin(t, kind) PROVE Steps(t)
  <2>1. kind \in Kinds /\ Enter(t, kind, timeout) /\ call[t].op = "idle"
    BY <1>1, CallerAssumption DEF Begin, Free, CallerAssumption, Calling
  <2> QED BY <2>1, EnterSteps
<1>2. ASSUME NEW a \in Answers, NEW e \in Errnos, Succeeded(t, a) \/ Failed(t, a, e)
      PROVE  Steps(t)
  BY <1>2, SucceededSteps, FailedSteps
<1>3. ASSUME Prompt(t) PROVE Steps(t)
  BY <1>2, <1>3, TestSteps, PollTimeoutSteps DEF Prompt
<1>4. ASSUME Waiting(t) PROVE Steps(t)
  BY <1>2, <1>4, PollReadySteps, PollInterruptedSteps, PollFailsSteps, StartConnectSteps
     DEF Waiting
<1> QED BY <1>1, <1>3, <1>4 DEF CallerStep

----------------------------------------------------------------------------
(* All callers, and the clock *)

Waits == [t \in Caller |-> WaitOf(call[t])]

\* A caller's step is one of TimedCall.
LEMMA StepFrame ==
    ASSUME AllFine, NEW t \in Caller, Steps(t)
    PROVE  AllFine' /\ (Timed!Next \/ UNCHANGED Waits)
<1>1. PICK d : Update(t, d) /\ Good(call[t], d)
  BY DEF Steps
<1>2. call' = [call EXCEPT ![t] = d] /\ Fine(d) /\ d \in CallRecord
  BY <1>1 DEF Update, Good, Fine
<1>3. AllFine'
  BY <1>2 DEF AllFine
<1>4. Waits' = [Waits EXCEPT ![t] = WaitOf(d)]
  BY <1>2 DEF AllFine, Waits
<1>5. Seen(Waits[t], WaitOf(d))
  BY <1>1 DEF Waits, Good
<1> DEFINE v == WaitOf(d)
           w == Waits[t]
           Becomes(x) == Waits' = [Waits EXCEPT ![t] = x]
<1> HIDE DEF v, w
<1>6. \/ v = w
      \/ ~w.on /\ v = Timed!Idle("nothing")
      \/ ~w.on /\ \E limit \in Modes : v = Timed!Since(0, limit)
      \/ \E r \in Outcomes \ {"timed out"} : v = Timed!Idle(r)
      \/ w.on /\ w.limit > 0 /\ w.waited >= w.limit /\ v = Timed!Idle("timed out")
  BY <1>5 DEF Seen, v, w
<1>7. Becomes(v)
  BY <1>4 DEF v
<1>8. CASE v = w
  <2>1. Waits = [u \in Caller |-> Waits[u]]
    BY DEF Waits
  <2>2. Waits' = Waits
    BY <1>7, <1>8, <2>1 DEF w
  <2> QED BY <1>3, <2>2
<1>9. CASE ~w.on /\ v = Timed!Idle("nothing")
  <2>1. Timed!Called(t)
    BY <1>7, <1>9 DEF Timed!Called, Timed!Becomes, Timed!Idle, w, Waits
  <2> QED BY <1>3, <2>1 DEF Timed!Next
<1>10. ASSUME NEW limit \in Modes, ~w.on, v = Timed!Since(0, limit)
       PROVE  Timed!Next
  <2>1. Timed!Waits(t, limit)
    BY <1>7, <1>10 DEF Timed!Waits, Timed!Becomes, w, Waits
  <2> QED BY <2>1 DEF Timed!Next
<1>11. ASSUME NEW r \in Outcomes, r # "timed out", v = Timed!Idle(r)
       PROVE  Timed!Next
  <2>1. Timed!Ends(t, r)
    BY <1>7, <1>11 DEF Timed!Ends, Timed!Becomes, Timed!Idle, Waits
  <2> QED BY <2>1 DEF Timed!Next
<1>12. CASE w.on /\ w.limit > 0 /\ w.waited >= w.limit /\ v = Timed!Idle("timed out")
  <2>1. Timed!TimesOut(t)
    BY <1>7, <1>12 DEF Timed!TimesOut, Timed!Becomes, Timed!Idle, w, Waits
  <2> QED BY <1>3, <2>1 DEF Timed!Next
<1> QED BY <1>3, <1>6, <1>8, <1>9, <1>10, <1>11, <1>12

\* A tick counts for a call exactly if it is waiting for its deadline.
LEMMA TickOne ==
    ASSUME NEW t \in Caller, Fine(call[t])
    PROVE  /\ Fine(Ticked(t))
           /\ WaitOf(Ticked(t)) =
                IF Timed!Counts(WaitOf(call[t]))
                THEN Timed!Since(WaitOf(call[t]).waited + 1, WaitOf(call[t]).limit)
                ELSE WaitOf(call[t])
<1> DEFINE c == call[t]
           d == [c EXCEPT !.left = @ - 1, !.waited = @ + 1]
<1>1. c \in CallRecord
  BY DEF Fine
<1>2. c.limit \in Int /\ c.left \in Int /\ c.waited \in Int
  <2>1. c.limit \in Modes /\ c.left \in -1..Largest /\ c.waited \in 0..Largest + 1
    BY <1>1 DEF CallRecord
  <2> QED BY <2>1, ModeAssumption DEF Modes, None, ModeAssumption
<1>3. CASE Clocked(t)
  <2>1. c.armed /\ c.op # "idle" /\ c.left >= 0
    BY <1>3 DEF Clocked, Calling
  <2>2. c.limit > 0 /\ c.left + c.waited = c.limit /\ c.op # "connect"
    BY <2>1 DEF Fine, Dated
  <2>3. c.waited <= c.limit
    BY <1>2, <2>1, <2>2
  <2>4. c.left - 1 \in -1..Largest /\ c.waited + 1 \in 0..Largest + 1
    <3>1. c.left \in -1..Largest /\ c.waited \in 0..Largest + 1 /\ c.limit \in Modes
      BY <1>1 DEF CallRecord
    <3>2. c.limit <= Largest /\ Largest \in Nat
      BY <2>2, <3>1, ModeAssumption DEF Modes, None, ModeAssumption
    <3>3. c.left <= Largest /\ c.waited >= 0
      BY <3>1, <3>2
    <3> QED BY <1>2, <2>1, <2>2, <2>3, <3>2, <3>3
  <2>5. /\ d \in CallRecord /\ d.op = c.op /\ d.kind = c.kind /\ d.armed = c.armed
        /\ d.left = c.left - 1 /\ d.waited = c.waited + 1 /\ d.limit = c.limit
        /\ d.outcome = c.outcome
    BY <1>1, <2>4 DEF CallRecord
  <2>6. Ticked(t) = d
    BY <1>3 DEF Ticked
  <2> HIDE DEF d
  <2>7. d.left + d.waited = d.limit
    BY <1>2, <2>2, <2>5
  <2>8. Fine(c)
    OBVIOUS
  <2> HIDE DEF c
  <2>9. c.outcome # "timed out"
    BY <2>1, <2>8 DEF Fine, EndedWell
  <2>10. Dated(d) /\ Placed(d) /\ EndedWell(d)
    BY <2>1, <2>2, <2>5, <2>7, <2>8, <2>9 DEF Fine, Dated, Placed, EndedWell
  <2>11. WaitOf(c) = [on |-> TRUE, limit |-> c.limit, waited |-> c.waited,
                      outcome |-> c.outcome]
    BY <2>1, <2>2 DEF WaitOf
  <2>12. WaitOf(d) = [on |-> TRUE, limit |-> c.limit, waited |-> c.waited + 1,
                      outcome |-> c.outcome]
    BY <2>1, <2>2, <2>5 DEF WaitOf
  <2>13. Timed!Counts(WaitOf(c))
    BY <2>2, <2>3, <2>11 DEF Timed!Counts
  <2>14. WaitOf(d) = Timed!Since(WaitOf(c).waited + 1, WaitOf(c).limit)
    <3>1. c.outcome = "nothing"
      BY <2>1, <2>8 DEF Fine, EndedWell
    <3>2. WaitOf(c).waited = c.waited /\ WaitOf(c).limit = c.limit
      BY <2>11
    <3> QED BY <2>12, <3>1, <3>2, Zenon DEF Timed!Since
  <2> QED BY <2>5, <2>6, <2>10, <2>13, <2>14, Zenon DEF Fine, c
<1>4. CASE ~Clocked(t)
  <2>1. Ticked(t) = c
    BY <1>4 DEF Ticked
  <2>2. ~(c.armed /\ c.op # "idle" /\ c.left >= 0)
    BY <1>4 DEF Clocked, Calling
  <2>3. Fine(c)
    OBVIOUS
  <2> HIDE DEF c
  <2>4. ~Timed!Counts(WaitOf(c))
    <3> SUFFICES ASSUME Timed!Counts(WaitOf(c)) PROVE FALSE
      OBVIOUS
    <3>1. WaitOf(c).on /\ WaitOf(c).waited <= WaitOf(c).limit /\ WaitOf(c).limit > 0
      BY DEF Timed!Counts
    <3>2. c.op \notin {"idle", "connect"} /\ (c.armed \/ c.limit <= 0)
      BY <3>1 DEF WaitOf
    <3>3. c.waited <= c.limit /\ c.limit > 0
      BY <3>1, <3>2 DEF WaitOf
    <3>4. c.armed /\ ~(c.left >= 0)
      BY <1>2, <2>2, <3>2, <3>3
    <3>5. c.left + c.waited = c.limit
      BY <2>3, <3>4 DEF Fine, Dated
    <3> QED BY <1>2, <3>3, <3>4, <3>5
  <2> QED BY <2>1, <2>3, <2>4, Zenon DEF c
<1> QED BY <1>3, <1>4

\* A tick of the clock moves every wait that has a limit.
LEMMA TickFrame ==
    ASSUME AllFine, Tick
    PROVE  AllFine' /\ Timed!Tick
<1>1. call' = [t \in Caller |-> Ticked(t)]
  BY DEF Tick
<1>2. \A t \in Caller :
        /\ Fine(Ticked(t)) /\ Ticked(t) \in CallRecord
        /\ WaitOf(Ticked(t)) = IF Timed!Counts(WaitOf(call[t]))
                                 THEN Timed!Since(WaitOf(call[t]).waited + 1, WaitOf(call[t]).limit)
                                 ELSE WaitOf(call[t])
  BY TickOne DEF AllFine, Fine
<1>3. AllFine'
  BY <1>1, <1>2 DEF AllFine
<1>4. Waits' = [t \in Caller |-> WaitOf(Ticked(t))]
  BY <1>1 DEF Waits
<1>5. Waits' = [t \in Caller |-> IF Timed!Counts(Waits[t])
                                   THEN Timed!Since(Waits[t].waited + 1, Waits[t].limit)
                                   ELSE Waits[t]]
  BY <1>2, <1>4 DEF Waits
<1> QED BY <1>3, <1>5 DEF Timed!Tick, Waits

\* The calls change nothing of the mode.
LEMMA StepMode == [Next]_vars => [ModeNext]_modeVars
<1> SUFFICES ASSUME [Next]_vars PROVE [ModeNext]_modeVars
  OBVIOUS
<1>1. ASSUME NEW t \in Thread, InSetter(t) \/ Request(t) PROVE ModeNext
  BY <1>1 DEF InSetter, Request, ModeNext
<1>2. ASSUME NEW t \in Caller, CallerStep(t) PROVE UNCHANGED modeVars
  BY <1>2 DEF CallerStep, Prompt, Waiting, Test, PollTimeout, Succeeded, Failed, PollReady,
              PollInterrupted, PollFails, StartConnect, Begin
<1>3. ASSUME NEW v \in Asked, SetDefaultTimeout(v) PROVE ModeNext
  BY <1>3 DEF ModeNext
<1>4. ASSUME Tick \/ UNCHANGED vars PROVE UNCHANGED modeVars
  BY <1>4 DEF Tick, vars
<1> QED BY <1>1, <1>2, <1>3, <1>4 DEF Next, CallerStep

\* What holds of the socket and of every call on it.
Inv == ModeInv /\ AllFine

\* The invariant holds at the start, where nobody waits.
LEMMA InitInv == Init => Inv /\ Timed!Init
<1> SUFFICES ASSUME Init PROVE Inv /\ Timed!Init
  OBVIOUS
<1>1. ModeInv
  BY InitModeInv DEF Init
<1>2. call = [t \in Caller |-> NoCall]
  BY DEF Init
<1>3. NoCall \in CallRecord
  BY ModeAssumption DEF NoCall, CallRecord, Kinds, Modes, Answers, Outcomes, ModeAssumption
<1>4. Fine(NoCall) /\ WaitOf(NoCall) = Timed!Idle("nothing")
  BY <1>3 DEF NoCall, Fine, Dated, Placed, EndedWell, WaitOf, Timed!Idle
<1> HIDE DEF NoCall
<1>5. AllFine
  BY <1>2, <1>3, <1>4 DEF AllFine
<1>6. Timed!Init
  BY <1>2, <1>4 DEF Timed!Init, Timed!Idle
<1> QED BY <1>1, <1>5, <1>6 DEF Inv

\* Every step keeps the invariant and is a step of TimedCall or of nothing in it.
LEMMA InvStep == Inv /\ [Next]_vars => Inv' /\ (Timed!Next \/ UNCHANGED Waits)
<1> SUFFICES ASSUME Inv, [Next]_vars PROVE Inv' /\ (Timed!Next \/ UNCHANGED Waits)
  OBVIOUS
<1>1. ModeInv'
  BY StepMode, ModeInvStep DEF Inv
<1>2. ASSUME UNCHANGED call PROVE AllFine' /\ UNCHANGED Waits
  BY <1>2 DEF Inv, AllFine, Waits
<1>3. ASSUME NEW t \in Caller, CallerStep(t)
      PROVE  AllFine' /\ (Timed!Next \/ UNCHANGED Waits)
  <2>1. Fine(call[t]) /\ timeout \in Modes
    BY DEF Inv, AllFine, ModeInv, ModeTypeOK
  <2> QED BY <1>3, <2>1, CallerSteps, StepFrame DEF Inv
<1>4. ASSUME Tick PROVE AllFine' /\ Timed!Next
  BY <1>4, TickFrame DEF Inv, Timed!Next
<1>5. \/ UNCHANGED call \/ Tick
      \/ \E t \in Caller : CallerStep(t)
  BY DEF Next, CallerStep, InSetter, Request, vars
<1> QED BY <1>1, <1>2, <1>3, <1>4, <1>5 DEF Inv

\* The invariant is one of the specification.
LEMMA SpecInv == Spec => []Inv
<1>1. Inv /\ [Next]_vars => Inv'
  BY InvStep
<1> QED BY InitInv, <1>1, PTL DEF Spec

\* Every variable keeps its type, for any threads, timeouts and calls.
THEOREM CallTypeCorrect == Spec => []TypeOK
<1>1. Inv => TypeOK
  BY DEF Inv, ModeInv, AllFine, CallRecord, TypeOK
<1> QED BY SpecInv, <1>1, PTL

\* A call's deadline never moves.
THEOREM DeadlinesHold == Spec => []DeadlineFixed
<1>1. Inv => DeadlineFixed
  BY DEF Inv, AllFine, Fine, Dated, DeadlineFixed
<1> QED BY SpecInv, <1>1, PTL

\* No call times out before its own timeout has passed.
THEOREM TimeoutsNotEarly == Spec => []NoEarlyTimeout
<1>1. Inv => NoEarlyTimeout
  BY DEF Inv, AllFine, Fine, EndedWell, NoEarlyTimeout
<1> QED BY SpecInv, <1>1, PTL

\* Nobody but accept(), and connect() without a loop, shows EINTR.
THEOREM InterruptsRetried == Spec => []OthersRetryInterrupt
<1>1. Inv => OthersRetryInterrupt
  BY DEF Inv, AllFine, Fine, EndedWell, OthersRetryInterrupt, InterruptIsRetried
<1> QED BY SpecInv, <1>1, PTL

\* Setters repair the mode also while calls run.
THEOREM SettersRepairUnderCalls == Spec => []SetterRepairs
<1>1. Inv => SetterRepairs
  BY DEF Inv, ModeInv, ModeTypeOK, AloneIsAlone, SetterRepairs, Agree
<1> QED BY SpecInv, <1>1, PTL

\* sock_call, with its polls, retries and signals, is one wait with a limit.
THEOREM CallsAreTimed == Spec => ImplementsTimedCall
<1>1. Init => Timed!Init
  BY InitInv
<1>2. Inv /\ [Next]_vars => [Timed!Next]_Waits
  BY InvStep
<1> QED BY SpecInv, <1>1, <1>2, PTL DEF Spec, ImplementsTimedCall, Timed!Spec, Waits

----------------------------------------------------------------------------
(* A program that keeps calls and setters of a socket apart *)

\* While a call runs nobody sets the mode, and its limit is the timeout; only a
\* call without one shows EWOULDBLOCK.
Apart(c) ==
    /\ c.op # "idle" => Setters = {}
    /\ InLoop(c) => c.limit = timeout
    /\ c.outcome = "EWOULDBLOCK" /\ c.kind # "accept" => c.limit <= 0

AllApart == \A t \in Caller : Apart(call[t])

\* A step from c to d that keeps it so while the mode stays.
Heeds(c, d) ==
    /\ d.op # "idle" => c.op # "idle" \/ Setters = {}
    /\ InLoop(d) => d.limit = timeout \/ (InLoop(c) /\ d.limit = c.limit)
    /\ d.outcome = "EWOULDBLOCK" /\ d.kind # "accept" =>
         InLoop(c) /\ d.limit = c.limit /\ ~(timeout > 0)

StepHeeds(t) == \E d : Update(t, d) /\ Heeds(call[t], d)

\* A call that goes on, or ends as it should.
LEMMA EndHeeds ==
    ASSUME NEW t \in Caller, Fine(call[t]), NEW a \in Answers, NEW r \in Outcomes,
           NEW b \in {call[t], [call[t] EXCEPT !.answer = a]},
           r = "EWOULDBLOCK" /\ call[t].kind # "accept" => InLoop(call[t]) /\ ~(timeout > 0)
    PROVE  Heeds(call[t], Ended(b, r))
<1> DEFINE c == call[t]
           e == Ended(b, r)
<1>1. c \in CallRecord
  BY DEF Fine
<1>2. b \in CallRecord /\ b.kind = c.kind /\ b.limit = c.limit
  BY <1>1 DEF CallRecord
<1>3. Outcome(c.kind, r) = "EWOULDBLOCK" => r = "EWOULDBLOCK"
  BY DEF Outcome
<1>4. e.op = "idle" /\ e.outcome = Outcome(c.kind, r) /\ e.kind = c.kind /\ e.limit = c.limit
  BY <1>2 DEF CallRecord, Ended
<1> HIDE DEF e
<1>5. ~InLoop(e) /\ e.op = "idle"
  BY <1>4 DEF InLoop
<1>6. e.outcome = "EWOULDBLOCK" /\ e.kind # "accept" =>
        InLoop(c) /\ e.limit = c.limit /\ ~(timeout > 0)
  BY <1>3, <1>4
<1> HIDE DEF c
<1> QED BY <1>5, <1>6 DEF Heeds, e, c

\* A step inside the loop keeps the limit that it started with.
LEMMA GoOnHeeds ==
    ASSUME NEW t \in Caller, Fine(call[t]), InLoop(call[t]), NEW d,
           d.limit = call[t].limit, d.outcome = call[t].outcome
    PROVE  Heeds(call[t], d)
<1>1. call[t].op # "idle" /\ call[t].outcome = "nothing"
  BY DEF Fine, EndedWell, InLoop
<1> QED BY <1>1 DEF Heeds

\* A call that starts when nothing overlaps takes the mode of the descriptor.
LEMMA BeginHeeds ==
    ASSUME ~Overlap, NEW t \in Caller, Fine(call[t]), NEW kind \in Kinds, Begin(t, kind)
    PROVE  StepHeeds(t)
<1>1. Setters = {} /\ Enter(t, kind, timeout)
  BY DEF Begin, Free
<1>2. PICK op \in {"connect", "test"} :
        Update(t, [NoCall EXCEPT !.op = op, !.kind = kind, !.limit = timeout])
  <2>1. CASE kind \in Connects
    BY <1>1, <2>1, Zenon DEF Enter
  <2>2. CASE kind \notin Connects
    BY <1>1, <2>2, Zenon DEF Enter
  <2> QED BY <2>1, <2>2
<1> DEFINE d == [NoCall EXCEPT !.op = op, !.kind = kind, !.limit = timeout]
<1>3. d.limit = timeout /\ d.outcome = "nothing"
  BY DEF NoCall
<1> HIDE DEF d
<1>4. Heeds(call[t], d)
  BY <1>1, <1>3 DEF Heeds
<1> QED BY <1>2, <1>4 DEF StepHeeds, d

\* So does the first step of connect.
LEMMA StartConnectHeeds ==
    ASSUME NEW t \in Caller, Fine(call[t]), NEW a \in Answers, StartConnect(t, a)
    PROVE  StepHeeds(t)
<1> DEFINE c == call[t]
           b == [c EXCEPT !.limit = timeout, !.answer = a]
           loop == [b EXCEPT !.op = "test"]
<1>1. c \in CallRecord /\ c.op = "connect" /\ c.outcome = "nothing"
  BY DEF Fine, EndedWell, StartConnect
<1>2. /\ \/ Update(t, Ended(b, "handler"))
         \/ Update(t, loop)
         \/ Update(t, Ended(b, a))
      /\ a # "EWOULDBLOCK"
  BY DEF StartConnect
<1>3. loop.limit = timeout /\ loop.outcome = "nothing"
  BY <1>1 DEF CallRecord
<1>4. Heeds(c, loop)
  <2> HIDE DEF loop, c
  <2> QED BY <1>1, <1>3 DEF Heeds
<1>5. ASSUME NEW r \in {a, "handler"} PROVE Heeds(c, Ended(b, r))
  <2> DEFINE e == Ended(b, r)
  <2>1. e.op = "idle" /\ e.outcome # "EWOULDBLOCK"
    BY <1>1, <1>2, <1>5 DEF CallRecord, Ended, Outcome
  <2> HIDE DEF e, c
  <2> QED BY <2>1 DEF Heeds, InLoop, e
<1> HIDE DEF loop, c, b
<1> QED BY <1>2, <1>4, <1>5 DEF StepHeeds, c

\* The steps of the loop.
LEMMA LoopHeeds ==
    ASSUME NEW t \in Caller, Fine(call[t]),
           \/ Test(t) \/ PollTimeout(t) \/ PollReady(t) \/ PollInterrupted(t) \/ PollFails(t)
    PROVE  StepHeeds(t)
<1> DEFINE c == call[t]
<1>1. c \in CallRecord
  BY DEF Fine
<1>2. c.answer \in Answers /\ {"timed out", "handler", "EIO"} \subseteq Outcomes
        /\ {"EINTR", "EIO"} \subseteq Answers
  BY <1>1 DEF CallRecord, Outcomes, Answers, Errnos
<1>3. ASSUME Test(t) PROVE StepHeeds(t)
  <2> DEFINE b == Armed(c)
             d == [b EXCEPT !.op = "func"]
             next == Select(b)
  <2>1. InLoop(c) /\ b \in CallRecord /\ b.limit = c.limit /\ b.kind = c.kind
          /\ b.outcome = c.outcome
    <3>1. c.armed \/ c.limit <= 0 \/ (~c.armed /\ c.limit > 0)
      BY <1>1, ModeAssumption DEF CallRecord, Modes, None, ModeAssumption
    <3> QED BY <1>1, <1>3, ArmedTyped DEF Test, InLoop
  <2>2. Update(t, d) \/ Update(t, Ended(b, "timed out")) \/ Update(t, next)
    BY <1>3 DEF Test
  <2>3. /\ d.limit = c.limit /\ d.outcome = c.outcome
        /\ next.limit = c.limit /\ next.outcome = c.outcome
    BY <2>1 DEF CallRecord, Select
  <2>4. Heeds(c, d) /\ Heeds(c, next)
    <3> HIDE DEF d, next
    <3> QED BY <2>1, <2>3, GoOnHeeds
  <2>5. Heeds(c, Ended(b, "timed out"))
    <3> DEFINE e == Ended(b, "timed out")
    <3>1. e.op = "idle" /\ e.outcome # "EWOULDBLOCK"
      BY <2>1 DEF CallRecord, Ended, Outcome
    <3> HIDE DEF e, c
    <3> QED BY <3>1 DEF Heeds, InLoop, e
  <2> HIDE DEF b, d, next, c
  <2> QED BY <2>2, <2>4, <2>5 DEF StepHeeds, c
<1>4. ASSUME PollTimeout(t) PROVE StepHeeds(t)
  <2>1. Heeds(c, Ended(c, "timed out"))
    BY <1>2, EndHeeds
  <2>2. Update(t, Ended(c, "timed out"))
    BY <1>4 DEF PollTimeout
  <2> QED BY <2>1, <2>2, Zenon DEF StepHeeds
<1>5. ASSUME PollReady(t) PROVE StepHeeds(t)
  <2> DEFINE d == InOp(t, "func")
  <2>1. InLoop(c) /\ Update(t, d) /\ d.limit = c.limit /\ d.outcome = c.outcome
    BY <1>1, <1>5 DEF PollReady, InLoop, InOp, CallRecord
  <2> HIDE DEF d
  <2> QED BY <2>1, GoOnHeeds DEF StepHeeds
<1>6. ASSUME PollInterrupted(t) PROVE StepHeeds(t)
  <2> DEFINE b == [c EXCEPT !.op = "test", !.answer = "EINTR"]
             e == Ended(b, "handler")
  <2>1. InLoop(c) /\ b.limit = c.limit /\ b.outcome = c.outcome
    BY <1>1, <1>6 DEF PollInterrupted, InLoop, CallRecord
  <2>2. e.op = "idle" /\ e.outcome # "EWOULDBLOCK"
    BY <1>1 DEF CallRecord, Ended, Outcome
  <2>3. Update(t, e) \/ Update(t, b)
    BY <1>6 DEF PollInterrupted, Interrupted
  <2> HIDE DEF b, e
  <2>4. Heeds(c, b)
    BY <2>1, GoOnHeeds
  <2>5. Heeds(c, e)
    BY <2>2 DEF Heeds, InLoop
  <2> QED BY <2>3, <2>4, <2>5 DEF StepHeeds
<1>7. ASSUME PollFails(t) PROVE StepHeeds(t)
  <2> DEFINE r == IF c.kind = "connect_ex" THEN "SystemError" ELSE Outcome(c.kind, "EIO")
             e == [c EXCEPT !.op = "idle", !.answer = "EIO", !.outcome = r]
  <2>1. r # "EWOULDBLOCK"
    BY DEF Outcome
  <2> HIDE DEF r
  <2>2. e.op = "idle" /\ e.outcome # "EWOULDBLOCK"
    BY <1>1, <2>1 DEF CallRecord
  <2>3. Update(t, e)
    BY <1>7 DEF PollFails, r
  <2> HIDE DEF e
  <2>4. Heeds(c, e)
    BY <2>2 DEF Heeds, InLoop
  <2> QED BY <2>3, <2>4 DEF StepHeeds
<1> QED BY <1>3, <1>4, <1>5, <1>6, <1>7

\* The library's answers: EWOULDBLOCK ends a call only while there is no timeout.
LEMMA AnswerHeeds ==
    ASSUME NEW t \in Caller, Fine(call[t]), NEW a \in Answers, NEW f \in Errnos,
           Succeeded(t, a) \/ Failed(t, a, f)
    PROVE  StepHeeds(t)
<1> DEFINE c == call[t]
           b == [c EXCEPT !.answer = a]
           again == [b EXCEPT !.op = "test"]
<1>1. c \in CallRecord /\ InLoop(c)
  BY DEF Fine, Succeeded, Failed, Answer, InLoop
<1>2. b.limit = c.limit /\ b.outcome = c.outcome
        /\ again.limit = c.limit /\ again.outcome = c.outcome
  BY <1>1 DEF CallRecord
<1>3. b \in {c, [c EXCEPT !.answer = a]}
  OBVIOUS
<1>4. ASSUME Succeeded(t, a) PROVE StepHeeds(t)
  <2>1. Update(t, Ended(b, a)) /\ a \in Outcomes /\ (a = "EWOULDBLOCK" => c.kind = "accept")
    BY <1>4 DEF Succeeded, Answer, End, Answers, Outcomes, Errnos
  <2>2. Heeds(c, Ended(b, a))
    <3> HIDE DEF b
    <3> QED BY <1>3, <2>1, EndHeeds
  <2> QED BY <2>1, <2>2, Zenon DEF StepHeeds
<1>5. ASSUME Failed(t, a, f) PROVE StepHeeds(t)
  <2>1. \/ Update(t, Ended(b, "handler"))
        \/ Update(t, b) \/ Update(t, again)
        \/ f # "EINTR" /\ ~Retry(f) /\ Update(t, Ended(b, f))
    BY <1>5 DEF Failed, Interrupted
  <2>2. f \in Outcomes /\ "handler" \in Outcomes
    BY DEF Outcomes
  <2>3. Heeds(c, b) /\ Heeds(c, again)
    <3> HIDE DEF b, again
    <3> QED BY <1>1, <1>2, GoOnHeeds
  <2>4. Heeds(c, Ended(b, "handler"))
    <3> HIDE DEF b
    <3> QED BY <1>3, <2>2, EndHeeds
  <2>5. ASSUME ~Retry(f) PROVE Heeds(c, Ended(b, f))
    <3>1. f = "EWOULDBLOCK" => ~(timeout > 0)
      BY <2>5 DEF Retry
    <3> HIDE DEF b
    <3> QED BY <1>1, <1>3, <2>2, <3>1, EndHeeds
  <2> HIDE DEF b, again
  <2> QED BY <2>1, <2>3, <2>4, <2>5 DEF StepHeeds
<1> QED BY <1>4, <1>5

\* So does every step of a caller.
LEMMA CallerHeeds ==
    ASSUME ~Overlap, NEW t \in Caller, Fine(call[t]), CallerStep(t)
    PROVE  StepHeeds(t)
<1>1. ASSUME NEW kind \in Calls, Begin(t, kind) PROVE StepHeeds(t)
  BY <1>1, BeginHeeds, CallerAssumption DEF CallerAssumption
<1>2. ASSUME Prompt(t) PROVE StepHeeds(t)
  BY <1>2, LoopHeeds, AnswerHeeds DEF Prompt
<1>3. ASSUME Waiting(t) PROVE StepHeeds(t)
  BY <1>3, LoopHeeds, AnswerHeeds, StartConnectHeeds DEF Waiting
<1> QED BY <1>1, <1>2, <1>3 DEF CallerStep

\* Every step keeps calls and setters apart.
LEMMA ApartStep ==
    ASSUME ~Overlap
    PROVE  Inv /\ AllApart /\ [Next]_vars => AllApart'
<1> SUFFICES ASSUME Inv, AllApart, [Next]_vars PROVE AllApart'
  OBVIOUS
<1>1. ASSUME UNCHANGED <<setter, timeout>>, NEW t \in Caller, NEW d, d = call'[t],
             Heeds(call[t], d)
      PROVE  Apart(call[t])'
  <2>1. Setters' = Setters /\ timeout' = timeout /\ timeout \in Modes
    BY <1>1 DEF Setters, Inv, ModeInv, ModeTypeOK
  <2>2. Apart(call[t])
    BY DEF AllApart
  <2>3. d.op # "idle" => Setters = {}
    BY <1>1, <2>2 DEF Heeds, Apart
  <2>4. InLoop(d) => d.limit = timeout
    BY <1>1, <2>2 DEF Heeds, Apart
  <2>5. d.outcome = "EWOULDBLOCK" /\ d.kind # "accept" => d.limit <= 0
    <3> SUFFICES ASSUME d.outcome = "EWOULDBLOCK", d.kind # "accept" PROVE d.limit <= 0
      OBVIOUS
    <3>1. d.limit = timeout /\ ~(timeout > 0)
      BY <1>1, <2>2 DEF Heeds, Apart
    <3> QED BY <2>1, <3>1, ModeAssumption DEF Modes, None, ModeAssumption
  <2> QED BY <1>1, <2>1, <2>3, <2>4, <2>5 DEF Apart, InLoop
<1>2. ASSUME UNCHANGED <<setter, timeout>>, NEW t \in Caller, call'[t] = call[t]
      PROVE  Apart(call[t])'
  BY <1>2 DEF AllApart, Apart, InLoop, Setters
<1>3. ASSUME NEW t \in Caller, CallerStep(t) PROVE AllApart'
  <2>1. UNCHANGED <<setter, timeout>>
    BY <1>3 DEF CallerStep, Prompt, Waiting, Test, PollTimeout, Succeeded, Failed, PollReady,
                PollInterrupted, PollFails, StartConnect, Begin, modeVars
  <2>2. PICK d : call' = [call EXCEPT ![t] = d] /\ Heeds(call[t], d)
    BY <1>3, CallerHeeds DEF StepHeeds, Update, Inv, AllFine
  <2>3. call'[t] = d /\ \A u \in Caller \ {t} : call'[u] = call[u]
    BY <2>2 DEF Inv, AllFine
  <2> QED BY <1>1, <1>2, <2>1, <2>2, <2>3 DEF AllApart
<1>4. ASSUME Tick PROVE AllApart'
  <2>1. UNCHANGED <<setter, timeout>> /\ call' = [t \in Caller |-> Ticked(t)]
    BY <1>4 DEF Tick, modeVars
  <2>2. ASSUME NEW t \in Caller PROVE Apart(call[t])'
    <3>1. call[t] \in CallRecord
      BY DEF Inv, AllFine
    <3>2. /\ Ticked(t).op = call[t].op /\ Ticked(t).limit = call[t].limit
          /\ Ticked(t).outcome = call[t].outcome /\ Ticked(t).kind = call[t].kind
      BY <3>1 DEF Ticked, CallRecord
    <3>3. Apart(call[t]) /\ Setters' = Setters
      BY <2>1 DEF AllApart, Setters
    <3> QED BY <2>1, <3>2, <3>3 DEF Apart, InLoop
  <2> QED BY <2>2 DEF AllApart
<1>5. ASSUME NEW t \in Thread, InSetter(t) PROVE AllApart'
  <2>1. t \in Setters
    BY <1>5 DEF InSetter, SetterStep, AcceptMode, FcntlFails, GetFl, SetFl, SetterDone, Setters
  <2>2. \A u \in Caller : call[u].op = "idle"
    BY <2>1 DEF AllApart, Apart
  <2> QED BY <1>5, <2>2 DEF InSetter, AllApart, Apart, InLoop
<1>6. ASSUME NEW t \in Thread, Request(t) PROVE AllApart'
  <2>1. \A u \in Caller : call[u].op = "idle"
    BY <1>6 DEF Request, Calling
  <2> QED BY <1>6, <2>1 DEF Request, AllApart, Apart, InLoop
<1>7. ASSUME NEW v \in Asked, SetDefaultTimeout(v), UNCHANGED call PROVE AllApart'
  BY <1>2, <1>7 DEF SetDefaultTimeout, AllApart
<1>8. ASSUME UNCHANGED vars PROVE AllApart'
  BY <1>2, <1>8 DEF vars, modeVars, AllApart
<1> QED BY <1>3, <1>4, <1>5, <1>6, <1>7, <1>8 DEF Next, CallerStep

ApartInv == Inv /\ Orderly /\ AllApart

\* At the start nothing overlaps.
LEMMA InitApart == Init => ApartInv
<1> SUFFICES ASSUME Init PROVE ApartInv
  OBVIOUS
<1>1. Inv
  BY InitInv
<1>2. Orderly
  BY DEF Init, ModeInit, Rest, Setting, Orderly, OneSetter, Marked, Settled, Accepting
<1>3. \A t \in Caller : call[t].op = "idle" /\ call[t].outcome = "nothing"
  BY DEF Init, NoCall
<1>4. AllApart
  BY <1>3 DEF AllApart, Apart, InLoop
<1> QED BY <1>1, <1>2, <1>4 DEF ApartInv

\* Under the discipline nothing ever does.
LEMMA ApartInvStep ==
    ASSUME ModeDiscipline
    PROVE  ApartInv /\ [Next]_vars => ApartInv'
<1> SUFFICES ASSUME ApartInv, [Next]_vars PROVE ApartInv'
  OBVIOUS
<1>1. Inv'
  BY InvStep DEF ApartInv
<1>2. Orderly'
  BY StepMode, OrderlyStep DEF ApartInv, Inv
<1>3. AllApart'
  BY ApartStep DEF ApartInv, ModeDiscipline
<1> QED BY <1>1, <1>2, <1>3 DEF ApartInv

\* A call with a timeout, or on a non-blocking socket, is in a library call only
\* while the descriptor is non-blocking.
THEOREM TimedCallsNeverBlock ==
    ASSUME ModeDiscipline
    PROVE  Spec => []TimedCallsDoNotBlock
<1>1. ApartInv => TimedCallsDoNotBlock
  <2> SUFFICES ASSUME ApartInv, NEW t \in Caller,
                      call[t].op = "func", call[t].limit # None, life = "live"
               PROVE  nonblock
    BY DEF TimedCallsDoNotBlock
  <2>1. Setters = {} /\ timeout # None
    BY DEF ApartInv, AllApart, Apart, InLoop
  <2>2. \A u \in Thread : setter[u].op = "idle"
    BY <2>1 DEF Setters
  <2> QED BY <2>1, <2>2 DEF ApartInv, Orderly, Settled, Agree
<1>2. ApartInv /\ [Next]_vars => ApartInv'
  BY ApartInvStep
<1> QED BY InitApart, <1>1, <1>2, PTL DEF Spec

\* A call with a timeout never shows EWOULDBLOCK, unless it is an accept().
THEOREM WouldBlockRetried ==
    ASSUME ModeDiscipline
    PROVE  Spec => []OthersRetryWouldBlock
<1>1. ApartInv => OthersRetryWouldBlock
  <2> SUFFICES ASSUME ApartInv, NEW t \in Caller,
                      call[t].kind # "accept", call[t].limit > 0
               PROVE  call[t].outcome # "EWOULDBLOCK"
    BY DEF OthersRetryWouldBlock
  <2>1. call[t].limit \in Modes
    BY DEF ApartInv, Inv, AllFine, CallRecord
  <2>2. ~(call[t].limit <= 0)
    BY <2>1, ModeAssumption DEF Modes, None, ModeAssumption
  <2> QED BY <2>2 DEF ApartInv, AllApart, Apart
<1>2. ApartInv /\ [Next]_vars => ApartInv'
  BY ApartInvStep
<1> QED BY InitApart, <1>1, <1>2, PTL DEF Spec
============================================================================
