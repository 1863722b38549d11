--------------------------- MODULE SendAllProofs ---------------------------
(***************************************************************************)
(* Theorems about SendAll, for any threads, timeouts and lengths.          *)
(*                                                                         *)
(* A sendall owns the call that its thread makes, so everything is said of *)
(* the pair of its record and its call's: FineSend is what holds of the    *)
(* pair, and every step of a thread turns it into another such pair by a   *)
(* step that Seen (SockCallProofs) allows of what is seen of the sendall.  *)
(***************************************************************************)
EXTENDS SendAll, SockCallProofs, SequenceTheorems

SendRecord ==
    [op : {"idle", "top", "sending"}, total : 0..MaxLen, off : 0..MaxLen,
     len : 0..MaxLen, limit : Modes, armed : BOOLEAN, left : -1..Largest,
     waited : 0..Largest + 1, n : 0..MaxLen, taken : Seq(1..MaxLen),
     outcome : Outcomes]

\* The first n places of a buffer, in order.
FirstBytes(n) == [i \in 1..n |-> i]

\* The library took the n bytes that sendall has not counted yet.
Uncounted(a, c) == a.op = "sending" /\ c.op = "idle" /\ c.outcome = "ok"

\* The bytes: what is counted and what is left make up the buffer, and the
\* library took what is counted, or what will be.
Counted(a, c) ==
    /\ a.off + a.len = a.total
    /\ ~Uncounted(a, c) => a.taken = FirstBytes(a.off)
    /\ Uncounted(a, c) => a.n <= a.len /\ a.taken = FirstBytes(a.off + a.n)
    /\ a.outcome = "None" => a.len = 0

\* The deadlines: the one of the sendall is set once, and what is left to it is
\* never more than what is left to that of its call.
Nested(a, c) ==
    /\ a.armed => a.limit > 0 /\ a.left + a.waited = a.limit
    /\ ~a.armed => a.waited = 0
    /\ a.op = "sending" /\ a.limit > 0 =>
         a.armed /\ c.limit > 0 /\ a.left + c.waited <= c.limit
    /\ a.op = "sending" /\ a.limit <= 0 => c.limit <= 0

\* The call is made by the sendall, as a send.
Owned(a, c) ==
    /\ a.op # "sending" => c.op = "idle"
    /\ a.op = "sending" => c.kind = "io" /\ c.outcome # "None"

EndedSend(a) ==
    /\ a.op # "idle" => a.outcome = "nothing"
    /\ a.outcome = "timed out" => a.limit > 0 /\ a.waited >= a.limit

FineSend(a, c) ==
    /\ a \in SendRecord /\ Fine(c)
    /\ Counted(a, c) /\ Nested(a, c) /\ Owned(a, c) /\ EndedSend(a)

AllFineSend ==
    /\ AllFine
    /\ all \in [Caller -> SendRecord]
    /\ \A t \in Caller : FineSend(all[t], call[t])

SendInv == ModeInv /\ AllFineSend

\* A step from the pair a, c to the pair b, d.
GoodSend(a, b, d) == FineSend(b, d) /\ Seen(WaitOf(a), WaitOf(b))

SendSteps(t) ==
    \E b, d : UpdateAll(t, b) /\ Update(t, d) /\ GoodSend(all[t], b, d)

----------------------------------------------------------------------------
(* What is seen of a sendall, and its bytes *)

\* The numbers in the record of a sendall.
LEMMA SendNumbers ==
    ASSUME NEW a \in SendRecord
    PROVE  /\ {a.total, a.off, a.len, a.waited, a.n} \subseteq Nat
           /\ {a.left, a.limit} \subseteq Int
           /\ a.limit > 0 \/ a.limit <= 0
           /\ MaxLen \in Nat /\ Largest \in Nat
<1> USE ModeAssumption, MaxLenAssumption DEF ModeAssumption, MaxLenAssumption, Modes, None
<1>1. /\ a.total \in 0..MaxLen /\ a.off \in 0..MaxLen /\ a.len \in 0..MaxLen
      /\ a.n \in 0..MaxLen /\ a.waited \in 0..Largest + 1 /\ a.left \in -1..Largest
      /\ a.limit \in Modes
  BY DEF SendRecord
<1> QED BY <1>1

\* A sendall that is over shows its outcome, one in its loop its deadline.
LEMMA SeenSend ==
    ASSUME NEW a \in SendRecord
    PROVE  /\ a.op = "idle" => WaitOf(a) = Timed!Idle(a.outcome)
           /\ a.op # "idle" /\ ~a.armed /\ a.limit > 0 =>
                WaitOf(a) = Timed!Idle(a.outcome)
           /\ a.op # "idle" /\ (a.armed \/ a.limit <= 0) =>
                WaitOf(a) = [on |-> TRUE, limit |-> a.limit, waited |-> a.waited,
                             outcome |-> a.outcome]
<1>1. a.limit > 0 => ~(a.limit <= 0)
  BY SendNumbers
<1>2. a.op # "connect"
  BY DEF SendRecord
<1> QED BY <1>1, <1>2 DEF WaitOf, Timed!Idle

\* The next bytes after the first ones are more of the first ones.
LEMMA MoreBytes ==
    ASSUME NEW off \in Nat, NEW n \in Nat
    PROVE  FirstBytes(off) \o [i \in 1..n |-> off + i] = FirstBytes(off + n)
<1> DEFINE s == FirstBytes(off)
           e == [i \in 1..n |-> off + i]
           both == FirstBytes(off + n)
<1>1. s \in Seq(Nat) /\ Len(s) = off /\ \A i \in 1..off : s[i] = i
  BY DEF FirstBytes
<1>2. e \in Seq(Nat) /\ Len(e) = n /\ \A i \in 1..n : e[i] = off + i
  OBVIOUS
<1>3. both \in Seq(Nat) /\ Len(both) = off + n /\ \A i \in 1..(off + n) : both[i] = i
  BY DEF FirstBytes
<1> HIDE DEF s, e, both
<1>4. /\ s \o e \in Seq(Nat) /\ Len(s \o e) = off + n
      /\ \A i \in 1..(off + n) : (s \o e)[i] = IF i <= off THEN s[i] ELSE e[i - off]
  BY <1>1, <1>2, ConcatProperties
<1>5. \A i \in 1..(off + n) : (s \o e)[i] = both[i]
  <2> TAKE i \in 1..(off + n)
  <2>1. CASE i <= off
    BY <1>1, <1>3, <1>4, <2>1
  <2>2. CASE ~(i <= off)
    <3>1. i - off \in 1..n /\ off + (i - off) = i
      BY <2>2
    <3> QED BY <1>2, <1>3, <1>4, <2>2, <3>1
  <2> QED BY <2>1, <2>2
<1>6. s \o e = both
  BY <1>3, <1>4, <1>5, SeqEqual
<1> QED BY <1>6 DEF s, e, both

\* The bytes of a send are a sequence of that length.
LEMMA FirstBytesTyped ==
    ASSUME NEW n \in 0..MaxLen
    PROVE  FirstBytes(n) \in Seq(1..MaxLen) /\ Len(FirstBytes(n)) = n
<1>1. n \in Nat /\ \A i \in 1..n : i \in 1..MaxLen
  BY MaxLenAssumption DEF MaxLenAssumption
<1> QED BY <1>1 DEF FirstBytes

----------------------------------------------------------------------------
(* The call of a sendall *)

\* A step of a call made for a sendall: its limit stays and so does the clock,
\* it does not return None, and with ok only if the library took bytes.
Moves(t, ok) ==
    \E d : /\ Update(t, d)
           /\ d.kind = "io" /\ d.limit = call[t].limit /\ d.waited = call[t].waited
           /\ d.outcome # "None"
           /\ d.op = "idle" /\ d.outcome = "ok" <=> ok

\* A call that ends, and one that does not.
LEMMA EndMoves ==
    ASSUME NEW t \in Caller, NEW c \in CallRecord, c.kind = "io", c.limit = call[t].limit,
           c.waited = call[t].waited, NEW r \in Outcomes \ {"None"}, Update(t, Ended(c, r))
    PROVE  Moves(t, r = "ok")
<1> DEFINE e == Ended(c, r)
<1>1. Outcome("io", r) = r
  BY DEF Outcome
<1>2. /\ e.op = "idle" /\ e.kind = "io" /\ e.limit = c.limit /\ e.waited = c.waited
      /\ e.outcome = r
  BY <1>1 DEF Ended, CallRecord
<1>3. Update(t, e)
  OBVIOUS
<1> HIDE DEF e
<1> QED BY <1>2, <1>3 DEF Moves

\* A step inside sock_call leaves the bytes alone.
LEMMA GoOnMoves ==
    ASSUME NEW t \in Caller, Fine(call[t]), InLoop(call[t]), call[t].kind = "io",
           NEW d, d.kind = "io", d.limit = call[t].limit, d.waited = call[t].waited,
           d.outcome = call[t].outcome, Update(t, d)
    PROVE  Moves(t, FALSE)
<1>1. d.outcome = "nothing"
  BY DEF Fine, EndedWell, InLoop
<1> QED BY <1>1 DEF Moves

\* The turns of its loop and its polls.
LEMMA LoopMoves ==
    ASSUME NEW t \in Caller, Fine(call[t]), call[t].kind = "io",
           \/ Test(t) \/ PollTimeout(t) \/ PollReady(t) \/ PollInterrupted(t) \/ PollFails(t)
    PROVE  Moves(t, FALSE)
<1> DEFINE c == call[t]
<1>1. c \in CallRecord
  BY DEF Fine
<1>2. {"timed out", "handler", "EIO"} \subseteq Outcomes \ {"None"}
  BY DEF Outcomes, Errnos
<1>3. ASSUME Test(t) PROVE Moves(t, FALSE)
  <2> DEFINE b == Armed(c)
             d == [b EXCEPT !.op = "func"]
             next == Select(b)
  <2>1. InLoop(c) /\ b \in CallRecord /\ b.limit = c.limit /\ b.kind = c.kind
          /\ b.outcome = c.outcome /\ b.waited = c.waited
    <3>1. c.armed \/ c.limit <= 0 \/ (~c.armed /\ c.limit > 0)
      BY <1>1, ModeAssumption DEF CallRecord, Modes, None, ModeAssumption
    <3> QED BY <1>1, <1>3, ArmedTyped DEF Test, InLoop
  <2>2. Update(t, d) \/ Update(t, Ended(b, "timed out")) \/ Update(t, next)
    BY <1>3 DEF Test
  <2>3. /\ d.limit = c.limit /\ d.outcome = c.outcome /\ d.kind = c.kind
        /\ d.waited = c.waited
        /\ next.limit = c.limit /\ next.outcome = c.outcome /\ next.kind = c.kind
        /\ next.waited = c.waited
    BY <2>1 DEF CallRecord, Select
  <2>4. ASSUME Update(t, d) \/ Update(t, next) PROVE Moves(t, FALSE)
    <3> HIDE DEF d, next
    <3> QED BY <2>1, <2>3, <2>4, GoOnMoves
  <2>5. ASSUME Update(t, Ended(b, "timed out")) PROVE Moves(t, FALSE)
    <3> HIDE DEF b
    <3>1. Moves(t, "timed out" = "ok")
      BY <1>2, <2>1, <2>5, EndMoves
    <3> QED BY <3>1
  <2> HIDE DEF b, d, next
  <2> QED BY <2>2, <2>4, <2>5
<1>4. ASSUME PollTimeout(t) PROVE Moves(t, FALSE)
  <2>1. Update(t, Ended(c, "timed out"))
    BY <1>4 DEF PollTimeout
  <2>2. Moves(t, "timed out" = "ok")
    BY <1>1, <1>2, <2>1, EndMoves
  <2> QED BY <2>2
<1>5. ASSUME PollReady(t) PROVE Moves(t, FALSE)
  <2> DEFINE d == InOp(t, "func")
  <2>1. InLoop(c) /\ Update(t, d) /\ d.limit = c.limit /\ d.outcome = c.outcome
          /\ d.kind = c.kind /\ d.waited = c.waited
    BY <1>1, <1>5 DEF PollReady, InLoop, InOp, CallRecord
  <2> HIDE DEF d
  <2> QED BY <2>1, GoOnMoves
<1>6. ASSUME PollInterrupted(t) PROVE Moves(t, FALSE)
  <2> DEFINE b == [c EXCEPT !.op = "test", !.answer = "EINTR"]
  <2>1. "EINTR" \in Answers
    BY DEF Answers, Errnos
  <2>2. InLoop(c) /\ b \in CallRecord /\ b.limit = c.limit /\ b.outcome = c.outcome
          /\ b.kind = c.kind /\ b.waited = c.waited
    BY <1>1, <1>6, <2>1 DEF PollInterrupted, InLoop, CallRecord
  <2>3. Update(t, Ended(b, "handler")) \/ Update(t, b)
    BY <1>6 DEF PollInterrupted, Interrupted
  <2> HIDE DEF b
  <2>4. ASSUME Update(t, Ended(b, "handler")) PROVE Moves(t, FALSE)
    <3>1. Moves(t, "handler" = "ok")
      BY <1>2, <2>2, <2>4, EndMoves
    <3> QED BY <3>1
  <2> QED BY <2>2, <2>3, <2>4, GoOnMoves
<1>7. ASSUME PollFails(t) PROVE Moves(t, FALSE)
  <2> DEFINE d == [c EXCEPT !.op = "idle", !.answer = "EIO", !.outcome = "EIO"]
  <2>1. Update(t, d)
    BY <1>7 DEF PollFails, Outcome
  <2>2. d.kind = c.kind /\ d.limit = c.limit /\ d.waited = c.waited /\ d.outcome = "EIO"
    BY <1>1 DEF CallRecord
  <2> HIDE DEF d
  <2> QED BY <2>1, <2>2 DEF Moves
<1> QED BY <1>3, <1>4, <1>5, <1>6, <1>7

\* The library's answers.
LEMMA AnswerMoves ==
    ASSUME NEW t \in Caller, Fine(call[t]), call[t].kind = "io",
           NEW a \in Answers, NEW f \in Errnos
    PROVE  /\ Succeeded(t, "ok") => Moves(t, TRUE)
           /\ Failed(t, a, f) => Moves(t, FALSE)
<1> DEFINE c == call[t]
           ok == [c EXCEPT !.answer = "ok"]
           b == [c EXCEPT !.answer = a]
           again == [b EXCEPT !.op = "test"]
<1>1. c \in CallRecord
  BY DEF Fine
<1>2. /\ b \in CallRecord /\ b.kind = "io" /\ b.limit = c.limit /\ b.waited = c.waited
      /\ b.outcome = c.outcome
      /\ again.kind = "io" /\ again.limit = c.limit /\ again.waited = c.waited
      /\ again.outcome = c.outcome
      /\ ok \in CallRecord /\ ok.kind = "io" /\ ok.limit = c.limit /\ ok.waited = c.waited
  <2>1. "ok" \in Answers
    BY DEF Answers
  <2> QED BY <1>1, <2>1 DEF CallRecord
<1>3. {f, "handler", "ok"} \subseteq Outcomes \ {"None"} /\ f # "ok"
  BY DEF Outcomes, Errnos
<1>4. ASSUME Succeeded(t, "ok") PROVE Moves(t, TRUE)
  <2>1. Update(t, Ended(ok, "ok"))
    BY <1>4 DEF Succeeded, End
  <2> HIDE DEF ok
  <2>2. Moves(t, "ok" = "ok")
    BY <1>2, <1>3, <2>1, EndMoves
  <2> QED BY <2>2
<1>5. ASSUME Failed(t, a, f) PROVE Moves(t, FALSE)
  <2>1. /\ InLoop(c)
        /\ \/ Update(t, Ended(b, "handler")) \/ Update(t, Ended(b, f))
           \/ Update(t, b) \/ Update(t, again)
    BY <1>5 DEF Failed, Answer, Interrupted, InLoop
  <2> HIDE DEF b, again
  <2>2. ASSUME NEW r \in {f, "handler"}, Update(t, Ended(b, r)) PROVE Moves(t, FALSE)
    <3>1. Moves(t, r = "ok")
      BY <1>2, <1>3, <2>2, EndMoves
    <3>2. (r = "ok") = FALSE
      BY <1>3
    <3> QED BY <3>1, <3>2
  <2> QED BY <1>2, <2>1, <2>2, GoOnMoves
<1> QED BY <1>4, <1>5

----------------------------------------------------------------------------
(* The actions of a sendall *)

\* What a call and its sendall may become, the sendall as it is.
LEMMA SeenSame ==
    ASSUME NEW a \in SendRecord, NEW b \in SendRecord, a.op # "idle", b.op # "idle",
           b.armed = a.armed, b.limit = a.limit, b.waited = a.waited, b.outcome = a.outcome
    PROVE  Seen(WaitOf(a), WaitOf(b))
<1>1. CASE a.armed \/ a.limit <= 0
  <2>1. WaitOf(b) = WaitOf(a)
    BY <1>1, SeenSend
  <2> QED BY <2>1 DEF Seen
<1>2. CASE ~(a.armed \/ a.limit <= 0)
  <2>1. ~a.armed /\ a.limit > 0
    BY <1>2, SendNumbers
  <2>2. WaitOf(b) = WaitOf(a)
    BY <2>1, SeenSend
  <2> QED BY <2>2 DEF Seen
<1> QED BY <1>1, <1>2

\* A sendall that ends with what is no timeout.
LEMMA SeenEnd ==
    ASSUME NEW a \in SendRecord, NEW b \in SendRecord, b.op = "idle", b.outcome # "timed out"
    PROVE  Seen(WaitOf(a), WaitOf(b))
<1>1. WaitOf(b) = Timed!Idle(b.outcome) /\ b.outcome \in Outcomes
  BY SeenSend DEF SendRecord
<1> QED BY <1>1 DEF Seen

\* A timeout counts only if the limit has passed.
LEMMA SeenTimeout ==
    ASSUME NEW a \in SendRecord, NEW b \in SendRecord, b.op = "idle",
           b.outcome = "timed out", a.op # "idle", a.armed, a.limit > 0, a.waited >= a.limit
    PROVE  Seen(WaitOf(a), WaitOf(b))
<1>1. WaitOf(b) = Timed!Idle("timed out")
  BY SeenSend
<1>2. WaitOf(a).on /\ WaitOf(a).limit > 0 /\ WaitOf(a).waited >= WaitOf(a).limit
  <2>1. WaitOf(a).on = TRUE
    BY DEF WaitOf, SendRecord
  <2>2. WaitOf(a).limit = a.limit /\ WaitOf(a).waited = a.waited
    BY DEF WaitOf, SendRecord
  <2> QED BY <2>1, <2>2
<1> QED BY <1>1, <1>2, Zenon DEF Seen

\* A sendall that starts has the bytes and the timeout of its arguments, and no call yet.
LEMMA StartAllSteps ==
    ASSUME NEW t \in Caller, FineSend(all[t], call[t]), call \in [Caller -> CallRecord],
           timeout \in Modes, NEW len \in 0..MaxLen, StartAll(t, len)
    PROVE  SendSteps(t)
<1> DEFINE a == all[t]
           c == call[t]
           b == [NoSend EXCEPT !.op = "top", !.total = len, !.len = len, !.limit = timeout]
<1>1. UpdateAll(t, b) /\ call' = call /\ a.op = "idle" /\ c.op = "idle"
  BY DEF StartAll, Free, Sending, Calling, vars
<1>2. Update(t, c)
  BY <1>1 DEF Update
<1>3. /\ b.op = "top" /\ b.total = len /\ b.off = 0 /\ b.len = len /\ b.limit = timeout
      /\ b.armed = FALSE /\ b.left = 0 /\ b.waited = 0 /\ b.n = 0 /\ b.taken = <<>>
      /\ b.outcome = "nothing"
  BY DEF NoSend
<1>4. b \in SendRecord
  <2>1. 0 \in 0..MaxLen /\ 0 \in -1..Largest /\ 0 \in 0..Largest + 1
    BY MaxLenAssumption, ModeAssumption DEF MaxLenAssumption, ModeAssumption
  <2>2. <<>> \in Seq(1..MaxLen) /\ "nothing" \in Outcomes
    BY DEF Outcomes
  <2> QED BY <2>1, <2>2 DEF SendRecord, NoSend
<1> HIDE DEF b, a, c
<1>5. FineSend(a, c)
  BY DEF a, c
<1>6. FirstBytes(0) = <<>>
  BY DEF FirstBytes
<1>7. ~Uncounted(b, c)
  BY <1>3 DEF Uncounted
<1>8. Counted(b, c)
  BY <1>3, <1>6, <1>7 DEF Counted
<1>9. Nested(b, c) /\ Owned(b, c) /\ EndedSend(b)
  BY <1>1, <1>3 DEF Nested, Owned, EndedSend
<1>10. FineSend(b, c)
  BY <1>4, <1>5, <1>8, <1>9 DEF FineSend
<1>11. Seen(WaitOf(a), WaitOf(b))
  <2>1. ~WaitOf(a).on
    BY <1>1, <1>5, SeenSend DEF FineSend, Timed!Idle
  <2>2. CASE timeout > 0
    <3>1. WaitOf(b) = Timed!Idle("nothing")
      BY <1>3, <1>4, <2>2, SeenSend
    <3> QED BY <2>1, <3>1 DEF Seen
  <2>3. CASE timeout <= 0
    <3>1. WaitOf(b) = Timed!Since(0, timeout)
      BY <1>3, <1>4, <2>3, SeenSend DEF Timed!Since
    <3> QED BY <2>1, <3>1 DEF Seen
  <2> QED BY <1>3, <1>4, <2>2, <2>3, SendNumbers
<1> QED BY <1>1, <1>2, <1>10, <1>11 DEF SendSteps, GoodSend, a, c

\* What the first lines of a turn make of the record.
LEMMA ArmedAllTyped ==
    ASSUME NEW a \in SendRecord
    PROVE  /\ ArmedAll(a) \in SendRecord
           /\ \A f \in {"op", "total", "off", "len", "limit", "waited", "n", "taken",
                        "outcome"} : ArmedAll(a)[f] = a[f]
           /\ a.armed \/ a.limit <= 0 => ArmedAll(a) = a
           /\ ~a.armed /\ a.limit > 0 => ArmedAll(a).armed /\ ArmedAll(a).left = a.limit
<1>1. CASE a.limit > 0 /\ ~a.armed
  <2> DEFINE b == [a EXCEPT !.armed = TRUE, !.left = a.limit]
  <2>1. ArmedAll(a) = b /\ ~(a.limit <= 0)
    BY <1>1, SendNumbers DEF ArmedAll
  <2>2. a.limit \in -1..Largest
    BY ModeAssumption, <1>1 DEF SendRecord, Modes, None, ModeAssumption
  <2>3. b \in SendRecord
    BY <2>2 DEF SendRecord
  <2>4. \A f \in {"op", "total", "off", "len", "limit", "waited", "n", "taken",
                  "outcome"} : b[f] = a[f]
    BY DEF SendRecord
  <2>5. b.armed /\ b.left = a.limit
    BY DEF SendRecord
  <2> HIDE DEF b
  <2> QED BY <1>1, <2>1, <2>3, <2>4, <2>5
<1>2. CASE ~(a.limit > 0 /\ ~a.armed)
  BY <1>2, Zenon DEF ArmedAll
<1> QED BY <1>1, <1>2

\* What stands for no call has the type of a call.
LEMMA NoCallTyped ==
    /\ NoCall \in CallRecord /\ ~NoCall.armed /\ NoCall.waited = 0
    /\ NoCall.outcome = "nothing"
BY ModeAssumption DEF NoCall, CallRecord, Kinds, Modes, Answers, Outcomes, ModeAssumption

\* The top of the loop.
LEMMA TurnSteps ==
    ASSUME NEW t \in Caller, FineSend(all[t], call[t]), call \in [Caller -> CallRecord],
           Turn(t)
    PROVE  SendSteps(t)
<1> DEFINE a == all[t]
           c == call[t]
           m == ArmedAll(a)
           over == [m EXCEPT !.op = "idle", !.outcome = "timed out"]
           sending == [m EXCEPT !.op = "sending"]
           limit == IF m.limit > 0 THEN m.left ELSE m.limit
           d == [NoCall EXCEPT !.op = "test", !.kind = "io", !.limit = limit]
<1>1. /\ a \in SendRecord /\ a.op = "top" /\ c.op = "idle" /\ Fine(c)
      /\ Counted(a, c) /\ Nested(a, c) /\ a.outcome = "nothing"
  BY DEF FineSend, Turn, Owned, EndedSend
<1>2. m \in SendRecord /\ (a.armed \/ a.limit <= 0 => m = a)
        /\ (~a.armed /\ a.limit > 0 => m.armed /\ m.left = a.limit)
        /\ m.op = a.op /\ m.total = a.total /\ m.off = a.off /\ m.len = a.len
        /\ m.limit = a.limit /\ m.waited = a.waited /\ m.n = a.n /\ m.taken = a.taken
        /\ m.outcome = a.outcome
  BY <1>1, ArmedAllTyped
<1>3. \/ m.limit > 0 /\ m.left <= 0 /\ UpdateAll(t, over) /\ call' = call
      \/ (m.limit <= 0 \/ m.left > 0) /\ UpdateAll(t, sending) /\ Enter(t, "io", limit)
  BY DEF Turn, EndAll, vars
<1>4. a.limit > 0 => m.armed /\ m.left + m.waited = m.limit
  <2> SUFFICES ASSUME a.limit > 0 PROVE m.armed /\ m.left + m.waited = m.limit
    OBVIOUS
  <2> HIDE DEF m, a, c
  <2>1. CASE a.armed
    BY <1>1, <1>2, <2>1 DEF Nested
  <2>2. CASE ~a.armed
    <3>1. m.armed /\ m.left = a.limit /\ m.waited = 0 /\ m.limit = a.limit
      BY <1>1, <1>2, <2>2 DEF Nested
    <3> QED BY <1>1, <3>1, SendNumbers
  <2> QED BY <1>1, <2>1, <2>2 DEF SendRecord
<1>5. CASE m.limit > 0 /\ m.left <= 0 /\ UpdateAll(t, over) /\ call' = call
  <2>1. /\ over \in SendRecord /\ over.op = "idle" /\ over.outcome = "timed out"
        /\ over.total = m.total /\ over.off = m.off /\ over.len = m.len /\ over.n = m.n
        /\ over.taken = m.taken /\ over.limit = m.limit /\ over.armed = m.armed
        /\ over.left = m.left /\ over.waited = m.waited
    BY <1>2 DEF SendRecord, Outcomes
  <2>2. Update(t, c)
    BY <1>5 DEF Update
  <2> HIDE DEF over, m, a, c
  <2>3. a.armed /\ m = a
    <3>1. a.limit > 0 /\ ~(a.limit <= 0) /\ ~(m.left > 0)
      BY <1>1, <1>2, <1>5, SendNumbers
    <3>2. a.armed
      BY <1>1, <1>2, <3>1 DEF SendRecord
    <3> QED BY <1>2, <3>2
  <2>4. a.waited >= a.limit
    BY <1>1, <1>2, <1>4, <1>5, <2>3, SendNumbers
  <2>5. ~Uncounted(a, c) /\ ~Uncounted(over, c)
    BY <1>1, <2>1 DEF Uncounted
  <2>6. Counted(over, c)
    BY <1>1, <2>1, <2>3, <2>5 DEF Counted
  <2>7. Nested(over, c) /\ Owned(over, c) /\ EndedSend(over)
    BY <1>1, <1>2, <1>5, <2>1, <2>3, <2>4 DEF Nested, Owned, EndedSend
  <2>8. FineSend(over, c)
    BY <1>1, <2>1, <2>6, <2>7 DEF FineSend
  <2>9. Seen(WaitOf(a), WaitOf(over))
    BY <1>1, <1>2, <1>5, <2>1, <2>3, <2>4, SeenTimeout
  <2> QED BY <1>5, <2>2, <2>8, <2>9 DEF SendSteps, GoodSend, a, c
<1>6. CASE (m.limit <= 0 \/ m.left > 0) /\ UpdateAll(t, sending) /\ Enter(t, "io", limit)
  <2>1. /\ sending \in SendRecord /\ sending.op = "sending" /\ sending.outcome = m.outcome
        /\ sending.total = m.total /\ sending.off = m.off /\ sending.len = m.len
        /\ sending.n = m.n /\ sending.taken = m.taken /\ sending.limit = m.limit
        /\ sending.armed = m.armed /\ sending.left = m.left /\ sending.waited = m.waited
    BY <1>2 DEF SendRecord
  <2>2. limit \in Modes /\ (m.limit > 0 => limit > 0 /\ limit = m.left)
          /\ (m.limit <= 0 => limit <= 0)
    <3> HIDE DEF m
    <3>1. m.limit \in Modes /\ m.left \in -1..Largest
      BY <1>2 DEF SendRecord
    <3> QED BY <1>6, <3>1, ModeAssumption DEF Modes, None, ModeAssumption
  <2>3. Update(t, d)
    BY <1>6 DEF Enter, Connects
  <2> HIDE DEF limit
  <2>4. /\ d \in CallRecord /\ d.op = "test" /\ d.kind = "io" /\ d.limit = limit
        /\ d.armed = FALSE /\ d.waited = 0 /\ d.outcome = "nothing"
    <3>1. NoCall \in CallRecord /\ ~NoCall.armed /\ NoCall.waited = 0
            /\ NoCall.outcome = "nothing"
      BY NoCallTyped
    <3> QED BY <2>2, <3>1 DEF CallRecord, Kinds
  <2> HIDE DEF sending, m, a, c, d
  <2>5. Fine(d)
    <3>1. d.kind \notin Connects
      BY <2>4 DEF Connects
    <3>2. Good(c, d)
      BY <1>1, <2>4, <3>1, EnterGood
    <3> QED BY <3>2 DEF Good
  <2>6. ~Uncounted(a, c) /\ ~Uncounted(sending, d)
    BY <1>1, <2>1, <2>4 DEF Uncounted
  <2>7. Counted(sending, d)
    BY <1>1, <1>2, <2>1, <2>6 DEF Counted
  <2>8. Nested(sending, d)
    <3>1. m.limit > 0 => m.armed /\ limit > 0 /\ m.left + 0 <= limit
      BY <1>2, <1>4, <2>2, SendNumbers
    <3>2. m.armed => m.limit > 0 /\ m.left + m.waited = m.limit
      <4>1. CASE a.limit > 0
        BY <1>2, <1>4, <4>1
      <4>2. CASE a.limit <= 0
        BY <1>1, <1>2, <4>2 DEF Nested
      <4> QED BY <1>1, <4>1, <4>2, SendNumbers
    <3>3. ~m.armed => m.waited = 0
      BY <1>1, <1>2 DEF Nested, SendRecord
    <3> QED BY <2>1, <2>2, <2>4, <3>1, <3>2, <3>3 DEF Nested
  <2>9. Owned(sending, d) /\ EndedSend(sending)
    BY <1>1, <1>2, <2>1, <2>4 DEF Owned, EndedSend
  <2>10. FineSend(sending, d)
    BY <2>1, <2>5, <2>7, <2>8, <2>9 DEF FineSend
  <2>11. Seen(WaitOf(a), WaitOf(sending))
    <3>1. CASE a.armed \/ a.limit <= 0
      BY <1>1, <1>2, <2>1, <3>1, SeenSame
    <3>2. CASE ~(a.armed \/ a.limit <= 0)
      <4>1. ~a.armed /\ a.limit > 0 /\ m.armed
        BY <1>1, <1>2, <3>2, SendNumbers
      <4>2. WaitOf(sending) = Timed!Since(0, a.limit) /\ a.limit \in Modes
        <5>1. sending.waited = 0
          BY <1>1, <1>2, <2>1, <4>1 DEF Nested
        <5>2. WaitOf(sending) = [on |-> TRUE, limit |-> sending.limit,
                                 waited |-> sending.waited, outcome |-> sending.outcome]
          BY <1>2, <2>1, <4>1, SeenSend
        <5>3. a.limit \in Modes
          BY <1>1 DEF SendRecord
        <5> QED BY <1>1, <1>2, <2>1, <5>1, <5>2, <5>3 DEF Timed!Since
      <4>3. WaitOf(a).on = FALSE
        BY <1>1, <4>1, SeenSend DEF Timed!Idle
      <4> QED BY <4>2, <4>3 DEF Seen
    <3> QED BY <3>1, <3>2
  <2> QED BY <1>6, <2>3, <2>10, <2>11 DEF SendSteps, GoodSend, a, c
<1> HIDE DEF m, over, sending, limit
<1> QED BY <1>3, <1>5, <1>6

\* The library takes some bytes: the call is over, the sendall has yet to count.
LEMMA TakeSteps ==
    ASSUME NEW t \in Caller, FineSend(all[t], call[t]), call \in [Caller -> CallRecord],
           all \in [Caller -> SendRecord], NEW n \in 0..MaxLen, Take(t, n)
    PROVE  SendSteps(t)
<1> DEFINE a == all[t]
           c == call[t]
           bytes == [i \in 1..n |-> a.off + i]
           b == [a EXCEPT !.n = n, !.taken = @ \o bytes]
<1>1. /\ a \in SendRecord /\ a.op = "sending" /\ Fine(c) /\ c.op = "func"
      /\ Counted(a, c) /\ Nested(a, c) /\ Owned(a, c) /\ EndedSend(a)
      /\ n <= a.len /\ UpdateAll(t, b) /\ Succeeded(t, "ok")
  BY DEF FineSend, Take, Succeeded, Answer
<1>2. PICK d : /\ Update(t, d)
               /\ d.kind = "io" /\ d.limit = c.limit /\ d.waited = c.waited
               /\ d.op = "idle" /\ d.outcome = "ok" /\ Fine(d)
  <2>1. PICK d : /\ Update(t, d)
                 /\ d.kind = "io" /\ d.limit = c.limit /\ d.waited = c.waited
                 /\ d.op = "idle" /\ d.outcome = "ok"
    BY <1>1, AnswerMoves DEF Moves, Owned, Answers, Errnos
  <2>2. PICK e : Update(t, e) /\ Fine(e)
    BY <1>1, SucceededSteps DEF Steps, Good, Answers
  <2>3. d = e
    BY <2>1, <2>2 DEF Update
  <2> QED BY <2>1, <2>2, <2>3
<1>3. a.off \in Nat /\ a.len \in Nat /\ a.off + n \in 0..MaxLen /\ n \in Nat
  <2>1. a.off \in Nat /\ a.len \in Nat /\ a.total \in 0..MaxLen /\ a.off + a.len = a.total
    BY <1>1, SendNumbers DEF Counted, SendRecord
  <2> QED BY <1>1, <2>1, MaxLenAssumption DEF MaxLenAssumption
<1>4. a.taken = FirstBytes(a.off)
  BY <1>1 DEF Counted, Uncounted
<1>5. a.taken \o bytes = FirstBytes(a.off + n)
  BY <1>3, <1>4, MoreBytes
<1>6. /\ b \in SendRecord /\ b.op = "sending" /\ b.n = n /\ b.taken = FirstBytes(a.off + n)
      /\ b.total = a.total /\ b.off = a.off /\ b.len = a.len /\ b.limit = a.limit
      /\ b.armed = a.armed /\ b.left = a.left /\ b.waited = a.waited
      /\ b.outcome = a.outcome
  <2>1. FirstBytes(a.off + n) \in Seq(1..MaxLen)
    BY <1>3, FirstBytesTyped
  <2> HIDE DEF bytes
  <2> QED BY <1>1, <1>5, <2>1 DEF SendRecord
<1> HIDE DEF a, b, c, bytes
<1>7. Uncounted(b, d)
  BY <1>2, <1>6 DEF Uncounted
<1>8. Counted(b, d) /\ Nested(b, d) /\ Owned(b, d) /\ EndedSend(b)
  BY <1>1, <1>2, <1>6, <1>7 DEF Counted, Nested, Owned, EndedSend
<1>9. FineSend(b, d)
  BY <1>2, <1>6, <1>8 DEF FineSend
<1>10. Seen(WaitOf(a), WaitOf(b))
  BY <1>1, <1>6, SeenSame
<1> QED BY <1>1, <1>2, <1>9, <1>10 DEF SendSteps, GoodSend, a, c

\* The other steps of the call.
LEMMA InCallSteps ==
    ASSUME NEW t \in Caller, FineSend(all[t], call[t]), call \in [Caller -> CallRecord],
           all \in [Caller -> SendRecord], InCall(t)
    PROVE  SendSteps(t)
<1> DEFINE a == all[t]
           c == call[t]
<1>1. /\ a \in SendRecord /\ a.op = "sending" /\ Fine(c)
      /\ Counted(a, c) /\ Nested(a, c) /\ Owned(a, c) /\ EndedSend(a) /\ all' = all
  BY DEF FineSend, InCall
<1>2. UpdateAll(t, a)
  BY <1>1 DEF UpdateAll
<1>3. c.op # "idle" /\ Moves(t, FALSE) /\ Steps(t)
  <2>1. c.kind = "io"
    BY <1>1 DEF Owned
  <2>2. CASE \/ Test(t) \/ PollTimeout(t) \/ PollReady(t) \/ PollInterrupted(t)
             \/ PollFails(t)
    <3>1. c.op # "idle"
      <4>1. ASSUME Test(t) PROVE c.op # "idle"
        BY <1>1, <4>1, ArmedTyped DEF Test, Fine
      <4> QED BY <2>2, <4>1 DEF PollTimeout, PollReady, PollInterrupted, PollFails
    <3>2. Moves(t, FALSE)
      BY <1>1, <2>1, <2>2, LoopMoves
    <3>3. Steps(t)
      BY <1>1, <2>2, TestSteps, PollTimeoutSteps, PollReadySteps, PollInterruptedSteps,
         PollFailsSteps
    <3> QED BY <3>1, <3>2, <3>3
  <2>3. ASSUME NEW answer \in Answers, NEW e \in Errnos, Failed(t, answer, e)
        PROVE  c.op # "idle" /\ Moves(t, FALSE) /\ Steps(t)
    <3>1. c.op # "idle"
      BY <2>3 DEF Failed, Answer
    <3> QED BY <1>1, <2>1, <2>3, <3>1, AnswerMoves, FailedSteps
  <2> QED BY <2>2, <2>3 DEF InCall
<1>4. PICK d : /\ Update(t, d) /\ Fine(d)
               /\ d.kind = "io" /\ d.limit = c.limit /\ d.waited = c.waited
               /\ d.outcome # "None" /\ ~(d.op = "idle" /\ d.outcome = "ok")
  <2>1. PICK d : /\ Update(t, d)
                 /\ d.kind = "io" /\ d.limit = c.limit /\ d.waited = c.waited
                 /\ d.outcome # "None" /\ ~(d.op = "idle" /\ d.outcome = "ok")
    BY <1>3 DEF Moves
  <2>2. PICK e : Update(t, e) /\ Fine(e)
    BY <1>3 DEF Steps, Good
  <2>3. d = e
    BY <2>1, <2>2 DEF Update
  <2> QED BY <2>1, <2>2, <2>3
<1> HIDE DEF a, c
<1>5. ~Uncounted(a, c) /\ ~Uncounted(a, d)
  BY <1>3, <1>4 DEF Uncounted
<1>6. Counted(a, d) /\ Nested(a, d) /\ Owned(a, d)
  BY <1>1, <1>4, <1>5 DEF Counted, Nested, Owned
<1>7. FineSend(a, d)
  BY <1>1, <1>4, <1>6 DEF FineSend
<1> QED BY <1>2, <1>4, <1>7 DEF SendSteps, GoodSend, Seen, a, c

\* The numbers in the record of a call.
LEMMA CallNumbers ==
    ASSUME NEW c \in CallRecord
    PROVE  c.limit \in Int /\ c.waited \in Nat
<1>1. c.limit \in Modes /\ c.waited \in 0..Largest + 1
  BY DEF CallRecord
<1> QED BY <1>1, ModeAssumption DEF Modes, None, ModeAssumption

\* A call past its limit leaves its sendall no time.
LEMMA PastLimit ==
    ASSUME NEW a \in SendRecord, NEW c \in CallRecord, Nested(a, c), a.op = "sending",
           c.limit > 0, c.waited >= c.limit
    PROVE  a.armed /\ a.limit > 0 /\ a.waited >= a.limit
<1>1. c.limit \in Int /\ c.waited \in Nat
  BY CallNumbers
<1>2. a.limit \in Int /\ a.left \in Int /\ a.waited \in Nat
  BY SendNumbers
<1>3. a.limit > 0
  <2>1. a.limit <= 0 => c.limit <= 0
    BY DEF Nested
  <2> QED BY <1>1, <1>2, <2>1
<1>4. a.armed /\ a.left + c.waited <= c.limit /\ a.left + a.waited = a.limit
  BY <1>3 DEF Nested
<1> QED BY <1>1, <1>2, <1>3, <1>4

\* sock_call has returned.
LEMMA SentSteps ==
    ASSUME NEW t \in Caller, FineSend(all[t], call[t]), call \in [Caller -> CallRecord],
           all \in [Caller -> SendRecord], Sent(t)
    PROVE  SendSteps(t)
<1> DEFINE a == all[t]
           c == call[t]
           m == Advanced(a)
           top == [m EXCEPT !.op = "top"]
           Over(x, r) == [x EXCEPT !.op = "idle", !.outcome = r]
<1>1. /\ a \in SendRecord /\ a.op = "sending" /\ Fine(c) /\ c.op = "idle" /\ call' = call
      /\ Counted(a, c) /\ Nested(a, c) /\ Owned(a, c) /\ EndedSend(a)
      /\ c \in CallRecord /\ c.outcome \in Outcomes
  BY DEF FineSend, Sent, Calling, vars, Fine, CallRecord
<1>2. \/ c.outcome # "ok" /\ UpdateAll(t, Over(a, c.outcome))
      \/ c.outcome = "ok" /\ UpdateAll(t, Over(m, "handler"))
      \/ c.outcome = "ok" /\ UpdateAll(t, top)
      \/ c.outcome = "ok" /\ ~(m.len > 0) /\ UpdateAll(t, Over(m, "None"))
  BY DEF Sent, EndAll, More
<1>3. Update(t, c)
  BY <1>1 DEF Update
<1>4. ASSUME c.outcome # "ok", UpdateAll(t, Over(a, c.outcome)) PROVE SendSteps(t)
  <2> DEFINE b == Over(a, c.outcome)
  <2>1. /\ b \in SendRecord /\ b.op = "idle" /\ b.outcome = c.outcome
        /\ b.total = a.total /\ b.off = a.off /\ b.len = a.len /\ b.n = a.n
        /\ b.taken = a.taken /\ b.limit = a.limit /\ b.armed = a.armed
        /\ b.left = a.left /\ b.waited = a.waited
    BY <1>1 DEF SendRecord
  <2>2. UpdateAll(t, b)
    BY <1>4
  <2> HIDE DEF a, b, c
  <2>3. ~Uncounted(a, c) /\ ~Uncounted(b, c)
    BY <1>4, <2>1 DEF Uncounted
  <2>4. c.outcome # "None"
    BY <1>1 DEF Owned
  <2>5. Counted(b, c)
    BY <1>1, <2>1, <2>3, <2>4 DEF Counted
  <2>6. b.outcome = "timed out" => a.armed /\ a.limit > 0 /\ a.waited >= a.limit
    <3>1. b.outcome = "timed out" => c.limit > 0 /\ c.waited >= c.limit
      BY <1>1, <2>1 DEF Fine, EndedWell
    <3>2. c.limit > 0 /\ c.waited >= c.limit => a.armed /\ a.limit > 0 /\ a.waited >= a.limit
      BY <1>1, PastLimit
    <3> QED BY <3>1, <3>2
  <2>7. Nested(b, c) /\ Owned(b, c) /\ EndedSend(b)
    BY <1>1, <2>1, <2>6 DEF Nested, Owned, EndedSend
  <2>8. FineSend(b, c)
    BY <1>1, <2>1, <2>5, <2>7 DEF FineSend
  <2>9. Seen(WaitOf(a), WaitOf(b))
    BY <1>1, <2>1, <2>6, SeenEnd, SeenTimeout
  <2> QED BY <1>3, <2>2, <2>8, <2>9 DEF SendSteps, GoodSend, a, c
<1>5. SUFFICES ASSUME c.outcome = "ok",
                      \/ UpdateAll(t, Over(m, "handler"))
                      \/ UpdateAll(t, top)
                      \/ ~(m.len > 0) /\ UpdateAll(t, Over(m, "None"))
               PROVE  SendSteps(t)
  BY <1>2, <1>4
<1>6. /\ m \in SendRecord /\ m.off = a.off + a.n /\ m.off + m.len = a.total
      /\ m.taken = FirstBytes(m.off) /\ m.total = a.total
      /\ m.op = a.op /\ m.outcome = "nothing" /\ m.limit = a.limit /\ m.armed = a.armed
      /\ m.left = a.left /\ m.waited = a.waited
  <2>1. a.n <= a.len /\ a.off + a.len = a.total /\ a.taken = FirstBytes(a.off + a.n)
          /\ a.outcome = "nothing"
    BY <1>1, <1>5 DEF Counted, Uncounted, EndedSend
  <2>2. {a.off, a.len, a.n, a.total} \subseteq Nat /\ a.total <= MaxLen
    BY <1>1, SendNumbers, MaxLenAssumption DEF SendRecord, MaxLenAssumption
  <2>3. a.off + a.n \in 0..MaxLen /\ a.len - a.n \in 0..MaxLen
          /\ (a.off + a.n) + (a.len - a.n) = a.total
    BY <2>1, <2>2, MaxLenAssumption DEF MaxLenAssumption
  <2>4. /\ m \in SendRecord /\ m.off = a.off + a.n /\ m.len = a.len - a.n
        /\ m.taken = a.taken /\ m.total = a.total
        /\ m.op = a.op /\ m.outcome = a.outcome /\ m.limit = a.limit /\ m.armed = a.armed
        /\ m.left = a.left /\ m.waited = a.waited
    BY <1>1, <2>3 DEF Advanced, SendRecord
  <2> QED BY <2>1, <2>3, <2>4
<1>7. ASSUME NEW b \in SendRecord, UpdateAll(t, b), b.op \in {"idle", "top"},
             b.outcome \in {"handler", "nothing", "None"}, b.outcome = "None" => m.len = 0,
             b.op = "top" => b.outcome = "nothing",
             b.total = m.total, b.off = m.off, b.len = m.len, b.taken = m.taken,
             b.limit = m.limit, b.armed = m.armed, b.left = m.left, b.waited = m.waited
      PROVE  SendSteps(t)
  <2> HIDE DEF a, c, m
  <2>1. ~Uncounted(b, c)
    BY <1>7 DEF Uncounted
  <2>2. Counted(b, c)
    BY <1>6, <1>7, <2>1 DEF Counted
  <2>3. Nested(b, c) /\ Owned(b, c) /\ EndedSend(b)
    BY <1>1, <1>6, <1>7 DEF Nested, Owned, EndedSend
  <2>4. FineSend(b, c)
    BY <1>1, <2>2, <2>3 DEF FineSend
  <2>5. Seen(WaitOf(a), WaitOf(b))
    <3>1. CASE b.op = "idle"
      BY <1>1, <1>7, <3>1, SeenEnd
    <3>2. CASE b.op = "top"
      BY <1>1, <1>6, <1>7, <3>2, SeenSame DEF EndedSend
    <3> QED BY <1>7, <3>1, <3>2
  <2> QED BY <1>3, <1>7, <2>4, <2>5 DEF SendSteps, GoodSend, a, c
<1>8. ASSUME NEW r \in {"handler", "None"}, UpdateAll(t, Over(m, r)), r = "None" => ~(m.len > 0)
      PROVE  SendSteps(t)
  <2> DEFINE b == Over(m, r)
  <2>1. r \in Outcomes
    BY DEF Outcomes
  <2>2. /\ b \in SendRecord /\ b.op = "idle" /\ b.outcome = r
        /\ b.total = m.total /\ b.off = m.off /\ b.len = m.len
        /\ b.taken = m.taken /\ b.limit = m.limit /\ b.armed = m.armed
        /\ b.left = m.left /\ b.waited = m.waited
    BY <1>6, <2>1 DEF SendRecord
  <2>3. UpdateAll(t, b)
    BY <1>8
  <2> HIDE DEF b, m
  <2>4. r = "None" => m.len = 0
    BY <1>6, <1>8, SendNumbers
  <2> QED BY <1>7, <2>2, <2>3, <2>4
<1>9. ASSUME UpdateAll(t, top) PROVE SendSteps(t)
  <2>1. /\ top \in SendRecord /\ top.op = "top" /\ top.outcome = m.outcome
        /\ top.total = m.total /\ top.off = m.off /\ top.len = m.len
        /\ top.taken = m.taken /\ top.limit = m.limit /\ top.armed = m.armed
        /\ top.left = m.left /\ top.waited = m.waited
    BY <1>6 DEF SendRecord
  <2> HIDE DEF top, m
  <2> QED BY <1>6, <1>7, <1>9, <2>1
<1> QED BY <1>5, <1>8, <1>9

----------------------------------------------------------------------------
(* All senders, and the clock *)

Sends == [t \in Caller |-> WaitOf(all[t])]

\* A sender's step is one of TimedCall.
LEMMA SendFrame ==
    ASSUME AllFineSend, NEW t \in Caller, SendSteps(t)
    PROVE  AllFineSend' /\ (Whole!Next \/ UNCHANGED Sends)
<1>1. PICK b, d : UpdateAll(t, b) /\ Update(t, d) /\ GoodSend(all[t], b, d)
  BY DEF SendSteps
<1>2. /\ all' = [all EXCEPT ![t] = b] /\ call' = [call EXCEPT ![t] = d]
      /\ FineSend(b, d) /\ b \in SendRecord /\ Fine(d) /\ d \in CallRecord
  BY <1>1 DEF UpdateAll, Update, GoodSend, FineSend, Fine
<1>3. AllFineSend'
  <2>1. /\ all' \in [Caller -> SendRecord] /\ call' \in [Caller -> CallRecord]
        /\ all'[t] = b /\ call'[t] = d
        /\ \A u \in Caller \ {t} : all'[u] = all[u] /\ call'[u] = call[u]
    BY <1>2 DEF AllFineSend, AllFine
  <2>2. \A u \in Caller : FineSend(all'[u], call'[u])
    BY <1>2, <2>1 DEF AllFineSend
  <2>3. \A u \in Caller : Fine(call'[u])
    BY <2>2 DEF FineSend
  <2> QED BY <2>1, <2>2, <2>3 DEF AllFineSend, AllFine
<1>4. Sends' = [Sends EXCEPT ![t] = WaitOf(b)]
  BY <1>2 DEF AllFineSend, Sends
<1> DEFINE v == WaitOf(b)
           w == Sends[t]
           Becomes(x) == Sends' = [Sends EXCEPT ![t] = x]
<1>5. Seen(w, v)
  BY <1>1 DEF Sends, GoodSend
<1> HIDE DEF v, w
<1>6. \/ v = w
      \/ ~w.on /\ v = Timed!Idle("nothing")
      \/ ~w.on /\ \E limit \in Modes : v = Timed!Since(0, limit)
      \/ \E r \in Outcomes \ {"timed out"} : v = Timed!Idle(r)
      \/ w.on /\ w.limit > 0 /\ w.waited >= w.limit /\ v = Timed!Idle("timed out")
  BY <1>5 DEF Seen
<1>7. Becomes(v)
  BY <1>4 DEF v
<1>8. CASE v = w
  <2>1. Sends = [u \in Caller |-> Sends[u]]
    BY DEF Sends
  <2>2. Sends' = Sends
    BY <1>7, <1>8, <2>1 DEF w
  <2> QED BY <1>3, <2>2
<1>9. CASE ~w.on /\ v = Timed!Idle("nothing")
  <2>1. Whole!Called(t)
    BY <1>7, <1>9 DEF Whole!Called, Whole!Becomes, Whole!Idle, Timed!Idle, w, Sends
  <2> QED BY <1>3, <2>1 DEF Whole!Next
<1>10. ASSUME NEW limit \in Modes, ~w.on, v = Timed!Since(0, limit)
       PROVE  Whole!Next
  <2>1. Whole!Waits(t, limit)
    BY <1>7, <1>10 DEF Whole!Waits, Whole!Becomes, Whole!Since, Timed!Since, w, Sends
  <2> QED BY <2>1 DEF Whole!Next
<1>11. ASSUME NEW r \in Outcomes, r # "timed out", v = Timed!Idle(r)
       PROVE  Whole!Next
  <2>1. Whole!Ends(t, r)
    BY <1>7, <1>11 DEF Whole!Ends, Whole!Becomes, Whole!Idle, Timed!Idle, Sends
  <2> QED BY <2>1 DEF Whole!Next
<1>12. CASE w.on /\ w.limit > 0 /\ w.waited >= w.limit /\ v = Timed!Idle("timed out")
  <2>1. Whole!TimesOut(t)
    BY <1>7, <1>12 DEF Whole!TimesOut, Whole!Becomes, Whole!Idle, Timed!Idle, w, Sends
  <2> QED BY <1>3, <2>1 DEF Whole!Next
<1> QED BY <1>3, <1>6, <1>8, <1>9, <1>10, <1>11, <1>12

\* The sendall of t after a tick.
TickedAll(t) ==
    IF ClockedAll(t) THEN [all[t] EXCEPT !.left = @ - 1, !.waited = @ + 1] ELSE all[t]

\* A tick counts for a sendall exactly if it is waiting for its deadline, and
\* leaves its deadline no later than that of its call.
LEMMA TickOneSend ==
    ASSUME NEW t \in Caller, FineSend(all[t], call[t])
    PROVE  /\ FineSend(TickedAll(t), Ticked(t))
           /\ WaitOf(TickedAll(t)) =
                IF Whole!Counts(WaitOf(all[t]))
                  THEN Whole!Since(WaitOf(all[t]).waited + 1, WaitOf(all[t]).limit)
                  ELSE WaitOf(all[t])
<1> DEFINE a == all[t]
           c == call[t]
           b == TickedAll(t)
           d == Ticked(t)
           ticks == ClockedAll(t)
<1>1. /\ a \in SendRecord /\ Fine(c) /\ Counted(a, c) /\ Nested(a, c) /\ Owned(a, c)
      /\ EndedSend(a)
  BY DEF FineSend
<1>2. /\ a.left \in Int /\ a.waited \in Nat /\ a.limit \in Int
      /\ a.left \in -1..Largest /\ a.waited \in 0..Largest + 1 /\ Largest \in Nat
      /\ a.limit <= Largest
  <2>1. a.left \in -1..Largest /\ a.waited \in 0..Largest + 1 /\ a.limit \in Modes
    BY <1>1 DEF SendRecord
  <2> QED BY <2>1, ModeAssumption DEF ModeAssumption, Modes, None
<1>3. ticks <=> a.armed /\ a.op # "idle" /\ a.left >= 0
  BY DEF ClockedAll, Sending
<1>4. /\ Fine(d) /\ d.op = c.op /\ d.kind = c.kind /\ d.limit = c.limit
      /\ d.outcome = c.outcome
      /\ d.waited \in Nat /\ c.waited \in Nat /\ c.limit \in Int
      /\ d.waited = c.waited \/ (d.waited = c.waited + 1 /\ c.waited <= c.limit)
  <2>1. Fine(d)
    BY <1>1, TickOne
  <2>2. c \in CallRecord
    BY <1>1 DEF Fine
  <2>3. c.limit \in Int /\ c.left \in Int /\ c.waited \in Nat
    <3>1. c.limit \in Modes /\ c.left \in -1..Largest /\ c.waited \in 0..Largest + 1
      BY <2>2 DEF CallRecord
    <3> QED BY <3>1, ModeAssumption DEF Modes, None, ModeAssumption
  <2>4. CASE Clocked(t)
    <3> DEFINE e == [c EXCEPT !.left = @ - 1, !.waited = @ + 1]
    <3>1. d = e
      BY <2>4 DEF Ticked
    <3>2. /\ e.op = c.op /\ e.kind = c.kind /\ e.limit = c.limit /\ e.outcome = c.outcome
          /\ e.waited = c.waited + 1
      BY <2>2 DEF CallRecord
    <3>3. c.left + c.waited = c.limit /\ c.left >= 0
      BY <1>1, <2>4 DEF Clocked, Fine, Dated
    <3> HIDE DEF d, e, c
    <3> QED BY <2>1, <2>3, <3>1, <3>2, <3>3
  <2>5. CASE ~Clocked(t)
    <3>1. d = c
      BY <2>5 DEF Ticked
    <3> HIDE DEF d, c
    <3> QED BY <2>1, <2>3, <3>1
  <2> QED BY <2>4, <2>5
<1>5. /\ b \in SendRecord /\ b.op = a.op /\ b.total = a.total /\ b.off = a.off
      /\ b.len = a.len /\ b.n = a.n /\ b.taken = a.taken /\ b.limit = a.limit
      /\ b.armed = a.armed /\ b.outcome = a.outcome
      /\ ticks => b.left = a.left - 1 /\ b.waited = a.waited + 1
      /\ ~ticks => b = a
  <2>1. CASE ticks
    <3> DEFINE e == [a EXCEPT !.left = @ - 1, !.waited = @ + 1]
    <3>1. b = e
      BY <2>1 DEF TickedAll
    <3>2. a.left - 1 \in -1..Largest /\ a.waited + 1 \in 0..Largest + 1
      <4>1. a.left + a.waited = a.limit /\ a.left >= 0
        BY <1>1, <1>3, <2>1 DEF Nested
      <4> HIDE DEF a
      <4> QED BY <1>2, <4>1
    <3>3. /\ e \in SendRecord /\ e.op = a.op /\ e.total = a.total /\ e.off = a.off
          /\ e.len = a.len /\ e.n = a.n /\ e.taken = a.taken /\ e.limit = a.limit
          /\ e.armed = a.armed /\ e.outcome = a.outcome
          /\ e.left = a.left - 1 /\ e.waited = a.waited + 1
      BY <1>1, <3>2 DEF SendRecord
    <3> HIDE DEF a, b, e, ticks
    <3> QED BY <2>1, <3>1, <3>3
  <2>2. CASE ~ticks
    <3>1. b = a
      BY <2>2 DEF TickedAll
    <3> HIDE DEF a, b, ticks
    <3> QED BY <1>1, <2>2, <3>1
  <2> QED BY <2>1, <2>2
<1> HIDE DEF a, b, c, d, ticks
<1>6. Counted(b, d) /\ Owned(b, d)
  BY <1>1, <1>4, <1>5 DEF Counted, Uncounted, Owned
<1>7. Nested(b, d) /\ EndedSend(b)
  <2>1. CASE ticks
    <3>1. a.limit > 0 /\ a.left + a.waited = a.limit /\ a.armed /\ a.left >= 0 /\ a.op # "idle"
      BY <1>1, <1>3, <2>1 DEF Nested
    <3>2. b.left + b.waited = b.limit
      BY <1>2, <1>5, <2>1, <3>1
    <3>3. a.op = "sending" => d.limit > 0 /\ b.left + d.waited <= d.limit
      <4> SUFFICES ASSUME a.op = "sending"
                   PROVE  d.limit > 0 /\ b.left + d.waited <= d.limit
        OBVIOUS
      <4>1. c.limit > 0 /\ a.left + c.waited <= c.limit
        BY <1>1, <3>1 DEF Nested
      <4> QED BY <1>2, <1>4, <1>5, <2>1, <4>1
    <3>4. ~(b.limit <= 0)
      BY <1>2, <1>5, <3>1
    <3>5. b.outcome = "nothing"
      BY <1>1, <1>5, <3>1 DEF EndedSend
    <3> QED BY <1>5, <3>1, <3>2, <3>3, <3>4, <3>5 DEF Nested, EndedSend
  <2>2. CASE ~ticks
    <3>1. a.op = "sending" /\ a.limit > 0 => d.limit > 0 /\ a.left + d.waited <= d.limit
      <4> SUFFICES ASSUME a.op = "sending", a.limit > 0
                   PROVE  d.limit > 0 /\ a.left + d.waited <= d.limit
        OBVIOUS
      <4>1. a.armed /\ c.limit > 0 /\ a.left + c.waited <= c.limit
        BY <1>1 DEF Nested
      <4>2. a.left = -1
        BY <1>2, <1>3, <2>2, <4>1
      <4> QED BY <1>4, <4>1, <4>2
    <3> QED BY <1>1, <1>4, <1>5, <2>2, <3>1 DEF Nested
  <2> QED BY <2>1, <2>2
<1>8. WaitOf(b) = IF Whole!Counts(WaitOf(a))
                    THEN Whole!Since(WaitOf(a).waited + 1, WaitOf(a).limit)
                    ELSE WaitOf(a)
  <2>1. CASE ticks
    <3>1. a.limit > 0 /\ a.left + a.waited = a.limit /\ a.armed /\ a.left >= 0
            /\ a.op # "idle" /\ a.outcome = "nothing"
      BY <1>1, <1>3, <2>1 DEF Nested, EndedSend
    <3>2. WaitOf(a) = [on |-> TRUE, limit |-> a.limit, waited |-> a.waited,
                       outcome |-> "nothing"]
      BY <1>1, <3>1, SeenSend
    <3>3. WaitOf(b) = [on |-> TRUE, limit |-> a.limit, waited |-> a.waited + 1,
                       outcome |-> "nothing"]
      <4>1. WaitOf(b) = [on |-> TRUE, limit |-> b.limit, waited |-> b.waited,
                         outcome |-> b.outcome]
        BY <1>5, <3>1, SeenSend
      <4> QED BY <1>5, <2>1, <3>1, <4>1
    <3>4. Whole!Counts(WaitOf(a))
      BY <1>2, <3>1, <3>2 DEF Whole!Counts
    <3>5. WaitOf(a).waited = a.waited /\ WaitOf(a).limit = a.limit
      BY <3>2
    <3> QED BY <3>3, <3>4, <3>5, Zenon DEF Whole!Since
  <2>2. CASE ~ticks
    <3>1. ~Whole!Counts(WaitOf(a))
      <4> SUFFICES ASSUME Whole!Counts(WaitOf(a)) PROVE FALSE
        OBVIOUS
      <4>1. WaitOf(a).on /\ WaitOf(a).waited <= WaitOf(a).limit /\ WaitOf(a).limit > 0
        BY DEF Whole!Counts
      <4>2. a.op # "idle" /\ (a.armed \/ a.limit <= 0)
        BY <4>1 DEF WaitOf
      <4>3. a.waited <= a.limit /\ a.limit > 0
        BY <4>1, <4>2 DEF WaitOf
      <4>4. a.armed /\ ~(a.left >= 0)
        BY <1>2, <1>3, <2>2, <4>2, <4>3
      <4>5. a.left + a.waited = a.limit
        BY <1>1, <4>4 DEF Nested
      <4> QED BY <1>2, <4>3, <4>4, <4>5
    <3> QED BY <1>5, <2>2, <3>1, Zenon
  <2> QED BY <2>1, <2>2
<1>9. FineSend(b, d)
  BY <1>4, <1>5, <1>6, <1>7 DEF FineSend
<1> QED BY <1>8, <1>9 DEF a, b, d

\* A tick of the clock moves every wait that has a limit.
LEMMA TickFrameSend ==
    ASSUME AllFineSend, TickAll
    PROVE  AllFineSend' /\ Whole!Tick
<1>1. call' = [t \in Caller |-> Ticked(t)] /\ all' = [t \in Caller |-> TickedAll(t)]
  BY DEF TickAll, TickedAll
<1>2. \A t \in Caller :
        /\ FineSend(TickedAll(t), Ticked(t))
        /\ WaitOf(TickedAll(t)) =
             IF Whole!Counts(WaitOf(all[t]))
               THEN Whole!Since(WaitOf(all[t]).waited + 1, WaitOf(all[t]).limit)
               ELSE WaitOf(all[t])
  BY TickOneSend DEF AllFineSend
<1>3. \A t \in Caller : /\ TickedAll(t) \in SendRecord /\ Ticked(t) \in CallRecord
                        /\ Fine(Ticked(t))
  BY <1>2 DEF FineSend, Fine
<1>4. AllFineSend'
  BY <1>1, <1>2, <1>3 DEF AllFineSend, AllFine
<1>5. Sends' = [t \in Caller |-> WaitOf(TickedAll(t))]
  BY <1>1 DEF Sends
<1>6. Sends' = [t \in Caller |-> IF Whole!Counts(Sends[t])
                                   THEN Whole!Since(Sends[t].waited + 1, Sends[t].limit)
                                   ELSE Sends[t]]
  BY <1>2, <1>5 DEF Sends
<1> QED BY <1>4, <1>6 DEF Whole!Tick, Sends

\* Every step of a sender's own.
SenderStep(t) ==
    \/ \E len \in 0..MaxLen : StartAll(t, len) \/ Take(t, len)
    \/ Turn(t) \/ InCall(t) \/ Sent(t)

\* Every step of a thread is a step of its sendall, of its sock_call or of both.
LEMMA SenderSteps ==
    ASSUME AllFineSend, timeout \in Modes, NEW t \in Caller, SenderStep(t)
    PROVE  SendSteps(t)
<1>1. /\ FineSend(all[t], call[t]) /\ call \in [Caller -> CallRecord]
      /\ all \in [Caller -> SendRecord]
  BY DEF AllFineSend, AllFine
<1> QED BY <1>1, StartAllSteps, TakeSteps, TurnSteps, InCallSteps, SentSteps DEF SenderStep

\* The senders change nothing of the mode.
LEMMA SendStepMode == [AllNext]_allVars => [ModeNext]_modeVars
<1> SUFFICES ASSUME [AllNext]_allVars PROVE [ModeNext]_modeVars
  OBVIOUS
<1>1. ASSUME NEW t \in Thread, InSetter(t) \/ OthersRequest(t) PROVE ModeNext
  BY <1>1 DEF InSetter, OthersRequest, Request, ModeNext
<1>2. ASSUME NEW t \in Caller, SenderStep(t) PROVE UNCHANGED modeVars
  BY <1>2 DEF SenderStep, StartAll, Take, Turn, InCall, Sent, Test, PollTimeout, Succeeded,
              Failed, PollReady, PollInterrupted, PollFails, vars
<1>3. ASSUME TickAll \/ UNCHANGED allVars PROVE UNCHANGED modeVars
  BY <1>3 DEF TickAll, allVars, vars
<1> QED BY <1>1, <1>2, <1>3 DEF AllNext, SenderStep

\* The invariant holds at the start, where nobody waits.
LEMMA InitSendInv == AllInit => SendInv /\ Whole!Init
<1> SUFFICES ASSUME AllInit PROVE SendInv /\ Whole!Init
  OBVIOUS
<1>1. Inv /\ call = [t \in Caller |-> NoCall] /\ all = [t \in Caller |-> NoSend]
  BY InitInv DEF AllInit, Init
<1>2. NoSend \in SendRecord
  <2>1. 0 \in 0..MaxLen /\ 0 \in -1..Largest /\ 0 \in 0..Largest + 1 /\ 0 \in Modes
    BY MaxLenAssumption, ModeAssumption DEF MaxLenAssumption, ModeAssumption, Modes
  <2>2. <<>> \in Seq(1..MaxLen) /\ "nothing" \in Outcomes
    BY DEF Outcomes
  <2> QED BY <2>1, <2>2 DEF NoSend, SendRecord
<1>3. /\ NoSend.op = "idle" /\ NoSend.total = 0 /\ NoSend.off = 0 /\ NoSend.len = 0
      /\ ~NoSend.armed /\ NoSend.waited = 0 /\ NoSend.taken = <<>>
      /\ NoSend.outcome = "nothing"
  BY DEF NoSend
<1>4. NoCall.op = "idle"
  BY DEF NoCall
<1> HIDE DEF NoSend, NoCall
<1>5. FirstBytes(0) = <<>>
  BY DEF FirstBytes
<1>6. Counted(NoSend, NoCall) /\ Nested(NoSend, NoCall) /\ Owned(NoSend, NoCall)
        /\ EndedSend(NoSend)
  BY <1>3, <1>4, <1>5 DEF Counted, Uncounted, Nested, Owned, EndedSend
<1>7. AllFineSend
  BY <1>1, <1>2, <1>6 DEF AllFineSend, Inv, AllFine, FineSend
<1>8. WaitOf(NoSend) = Whole!Idle("nothing")
  BY <1>2, <1>3, SeenSend DEF Timed!Idle, Whole!Idle
<1>9. Whole!Init
  BY <1>1, <1>8 DEF Whole!Init
<1> QED BY <1>1, <1>7, <1>9 DEF SendInv, Inv

\* Every step keeps the invariant and is a step of TimedCall or of nothing in it.
LEMMA SendInvStep ==
    SendInv /\ [AllNext]_allVars => SendInv' /\ (Whole!Next \/ UNCHANGED Sends)
<1> SUFFICES ASSUME SendInv, [AllNext]_allVars
             PROVE  SendInv' /\ (Whole!Next \/ UNCHANGED Sends)
  OBVIOUS
<1>1. ModeInv'
  BY SendStepMode, ModeInvStep DEF SendInv
<1>2. ASSUME UNCHANGED <<call, all>> PROVE AllFineSend' /\ UNCHANGED Sends
  BY <1>2 DEF SendInv, AllFineSend, AllFine, Sends
<1>3. ASSUME NEW t \in Caller, SenderStep(t)
      PROVE  AllFineSend' /\ (Whole!Next \/ UNCHANGED Sends)
  <2>1. timeout \in Modes
    BY DEF SendInv, ModeInv, ModeTypeOK
  <2> QED BY <1>3, <2>1, SenderSteps, SendFrame DEF SendInv
<1>4. ASSUME TickAll PROVE AllFineSend' /\ Whole!Next
  BY <1>4, TickFrameSend DEF SendInv, Whole!Next
<1>5. \/ UNCHANGED <<call, all>> \/ TickAll
      \/ \E t \in Caller : SenderStep(t)
  BY DEF AllNext, SenderStep, InSetter, OthersRequest, Request, allVars, vars
<1> QED BY <1>1, <1>2, <1>3, <1>4, <1>5 DEF SendInv

\* Every state of the specification satisfies it.
LEMMA SpecSendInv == AllSpec => []SendInv
<1>1. SendInv /\ [AllNext]_allVars => SendInv'
  BY SendInvStep
<1> QED BY InitSendInv, <1>1, PTL DEF AllSpec

----------------------------------------------------------------------------
(* The theorems *)

\* Every variable keeps its type, for any threads, timeouts and lengths.
THEOREM SendAllTypeCorrect == AllSpec => []AllTypeOK
<1>1. SendInv => AllTypeOK
  BY DEF SendInv, ModeInv, AllFineSend, AllFine, CallRecord, SendRecord, TypeOK, AllTypeOK
<1> QED BY SpecSendInv, <1>1, PTL

\* The library takes the bytes in order, each once and none skipped.
THEOREM BytesInOrder == AllSpec => []SentInOrder
<1>1. SendInv => SentInOrder
  <2> SUFFICES ASSUME SendInv, NEW t \in Caller
               PROVE  all[t].taken = [i \in 1..Len(all[t].taken) |-> i]
    BY DEF SentInOrder
  <2>1. PICK n \in Nat : all[t].taken = FirstBytes(n)
    <3>1. Counted(all[t], call[t]) /\ all[t] \in SendRecord
      BY DEF SendInv, AllFineSend, FineSend
    <3>2. all[t].off \in Nat /\ all[t].off + all[t].n \in Nat
      BY <3>1, SendNumbers
    <3> QED BY <3>1, <3>2 DEF Counted
  <2>2. Len(FirstBytes(n)) = n
    BY DEF FirstBytes
  <2> QED BY <2>1, <2>2 DEF FirstBytes
<1> QED BY SpecSendInv, <1>1, PTL

\* None is returned only when the library has the whole buffer.
THEOREM NoneIsAll == AllSpec => []NoneMeansAll
<1>1. SendInv => NoneMeansAll
  <2> SUFFICES ASSUME SendInv, NEW t \in Caller, all[t].outcome = "None"
               PROVE  Len(all[t].taken) = all[t].total
    BY DEF NoneMeansAll
  <2> DEFINE a == all[t]
  <2>1. a \in SendRecord /\ Counted(a, call[t]) /\ EndedSend(a)
    BY DEF SendInv, AllFineSend, FineSend
  <2>2. a.op = "idle"
    BY <2>1 DEF EndedSend
  <2>3. a.taken = FirstBytes(a.off) /\ a.len = 0 /\ a.off + a.len = a.total
    BY <2>1, <2>2 DEF Counted, Uncounted
  <2> HIDE DEF a
  <2>4. a.off = a.total /\ a.off \in 0..MaxLen
    BY <2>1, <2>3, SendNumbers DEF SendRecord
  <2> QED BY <2>3, <2>4, FirstBytesTyped DEF a
<1> QED BY SpecSendInv, <1>1, PTL

\* The deadline of a sendall never moves, and it does not time out before it.
THEOREM SendsNotEarly == AllSpec => []NoEarlyEnd
<1>1. SendInv => NoEarlyEnd
  BY DEF SendInv, AllFineSend, FineSend, Nested, EndedSend, NoEarlyEnd
<1> QED BY SpecSendInv, <1>1, PTL

\* The calls that a sendall makes keep what sock_call promises of deadlines and
\* interrupts, though each is given what the one before has left.
THEOREM CallsOfSendsHold ==
    AllSpec => [](DeadlineFixed /\ NoEarlyTimeout /\ OthersRetryInterrupt)
<1>1. SendInv => DeadlineFixed /\ NoEarlyTimeout /\ OthersRetryInterrupt
  BY DEF SendInv, AllFineSend, AllFine, Fine, Dated, EndedWell, DeadlineFixed,
         NoEarlyTimeout, OthersRetryInterrupt, InterruptIsRetried
<1> QED BY SpecSendInv, <1>1, PTL

\* Setters repair the mode also while a sendall runs.
THEOREM SettersRepairUnderSends == AllSpec => []SetterRepairs
<1>1. SendInv => SetterRepairs
  BY DEF SendInv, ModeInv, ModeTypeOK, AloneIsAlone, SetterRepairs, Agree
<1> QED BY SpecSendInv, <1>1, PTL

\* A sendall, with all the calls it makes, is one wait with a limit.
THEOREM SendsAreTimed == AllSpec => SendAllIsTimedCall
<1>1. AllInit => Whole!Init
  BY InitSendInv
<1>2. SendInv /\ [AllNext]_allVars => [Whole!Next]_Sends
  BY SendInvStep
<1> QED BY SpecSendInv, <1>1, <1>2, PTL DEF AllSpec, SendAllIsTimedCall, Whole!Spec, Sends
============================================================================
