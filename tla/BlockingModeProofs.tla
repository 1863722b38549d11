------------------------ MODULE BlockingModeProofs -------------------------
(***************************************************************************)
(* Theorems of BlockingMode for any threads and timeouts.                  *)
(***************************************************************************)
EXTENDS BlockingMode, TLAPS

\* Nobody sets the mode of a socket that does not exist.
NoneYet == life = "none" => \A t \in Thread : setter[t].op = "idle"

\* A setter that is marked alone is: nobody else is at work, the timeout is the
\* one it wrote, and, once done, the flag is the one it wrote or found.
AloneIsAlone ==
    \A t \in Thread :
        setter[t].alone =>
            /\ \A u \in Thread \ {t} : setter[u].op = "idle"
            /\ setter[t].op \in {"getfl", "setfl", "done"}
            /\ setter[t].block <=> timeout = None
            /\ setter[t].op = "done" => (nonblock <=> ~setter[t].block)

SettingType == [Thread -> [op : SetterOps, block : BOOLEAN, saw : BOOLEAN,
                           force : BOOLEAN, alone : BOOLEAN]]

ModeInv == ModeTypeOK /\ NoneYet /\ AloneIsAlone

\* The invariant holds before the first step.
LEMMA InitModeInv == ModeInit => ModeInv
<1> SUFFICES ASSUME ModeInit PROVE ModeInv
  OBVIOUS
<1>1. setter = [t \in Thread |-> Rest]
  BY DEF ModeInit
<1>2. life \in Life /\ nonblock \in BOOLEAN /\ timeout \in Modes /\ defaulttimeout \in Modes
  BY DEF ModeInit, Life, Modes
<1>3. setter \in SettingType
  BY <1>1 DEF SettingType, Rest, Setting, SetterOps
<1>4. \A t \in Thread : setter[t].op = "idle" /\ ~setter[t].alone
  BY <1>1 DEF Rest, Setting
<1> QED  BY <1>2, <1>3, <1>4 DEF ModeInv, ModeTypeOK, SettingType, NoneYet, AloneIsAlone

\* A thread that is not setting anything has a well-typed record.
LEMMA RestTyped ==
  ASSUME NEW op \in SetterOps
  PROVE  /\ ~Setting(op, FALSE, FALSE, FALSE).alone
         /\ Setting(op, FALSE, FALSE, FALSE) \in
              [op : SetterOps, block : BOOLEAN, saw : BOOLEAN,
               force : BOOLEAN, alone : BOOLEAN]
  BY DEF Setting

\* A thread that starts to set the mode is alone only if it really is.
LEMMA StartIsAlone ==
  ASSUME ModeInv, NEW t \in Thread, NEW block \in BOOLEAN, NEW force \in BOOLEAN,
         StartSetting(t, block, force), timeout' \in Modes,
         block <=> timeout' = None
  PROVE  setter' \in SettingType /\ AloneIsAlone'
<1> USE DEF ModeInv, ModeTypeOK, SetterOps, SettingType
<1>1. setter' \in SettingType
  BY DEF StartSetting, Setting
<1>2. /\ setter'[t] = Setting("getfl", block, force, Setters \subseteq {t})
      /\ \A u \in Thread \ {t} : setter'[u].op = setter[u].op /\ ~setter'[u].alone
  BY DEF StartSetting
<1>3. setter'[t].alone => \A u \in Thread \ {t} : setter[u].op = "idle"
  <2>1. setter'[t].alone = (Setters \subseteq {t})
    BY <1>2 DEF Setting
  <2> QED  BY <2>1 DEF Setters
<1>4. setter'[t].op = "getfl" /\ setter'[t].block = block
  BY <1>2 DEF Setting
<1>5. \A u \in Thread : setter'[u].alone => u = t
  BY <1>2
<1>6. \A u \in Thread \ {t} : setter'[u].op = setter[u].op
  BY <1>2
<1> HIDE DEF SettingType, ModeInv
<1> QED  BY <1>1, <1>3, <1>4, <1>5, <1>6 DEF AloneIsAlone

\* Every step keeps the invariant.
LEMMA ModeInvStep ==
  ModeInv /\ [ModeNext]_modeVars => ModeInv'
<1> USE ModeAssumption
    DEF ModeAssumption, ModeInv, ModeTypeOK, NoneYet, AloneIsAlone, Life, SetterOps,
        SettingType
<1>1. ASSUME ModeInv, NEW t \in Thread, NEW n \in BOOLEAN, NEW flag \in BOOLEAN,
             NEW force \in BOOLEAN, Construct(t, n, flag, force)
      PROVE  ModeInv'
  <2>1. timeout' \in Modes /\ nonblock' \in BOOLEAN /\ defaulttimeout' \in Modes
    BY <1>1 DEF Construct, Modes, None
  <2>2. CASE ~n /\ defaulttimeout >= 0
    <3>1. StartSetting(t, FALSE, force) /\ life' = "init" /\ timeout' # None
      <4>1. n = FALSE /\ ~(defaulttimeout < 0) /\ defaulttimeout # None
        BY <1>1, <2>2 DEF None, Modes
      <4>2. timeout' = defaulttimeout
        BY <1>1, <4>1 DEF Construct
      <4> QED  BY <1>1, <4>1, <4>2 DEF Construct
    <3>2. AloneIsAlone' /\ setter' \in SettingType
      BY <1>1, <2>1, <3>1, StartIsAlone
    <3> QED  BY <2>1, <3>1, <3>2
  <2>3. CASE n \/ ~(defaulttimeout >= 0)
    <3>1. /\ life' \in {"init", "live"}
          /\ setter' = [setter EXCEPT ![t] =
                IF force THEN Setting("accepted", FALSE, FALSE, FALSE) ELSE @]
      BY <1>1, <2>3 DEF Construct
    <3>2. \A u \in Thread : ~setter[u].alone
      BY <1>1 DEF Construct
    <3>3. \A u \in Thread : ~setter'[u].alone
      BY <3>1, <3>2 DEF Setting
    <3> QED  BY <1>1, <2>1, <3>1, <3>3 DEF Setting
  <2> QED  BY <2>2, <2>3
<1>2. ASSUME ModeInv, NEW t \in Thread, AcceptMode(t) PROVE ModeInv'
  <2>1. CASE defaulttimeout = None
    <3>1. /\ timeout' = None /\ StartSetting(t, TRUE, FALSE)
          /\ UNCHANGED <<life, nonblock, defaulttimeout>>
      BY <1>2, <2>1 DEF AcceptMode
    <3>2. AloneIsAlone' /\ setter' \in SettingType
      BY <1>2, <3>1, StartIsAlone DEF Modes
    <3>3. life # "none"
      BY <1>2 DEF AcceptMode
    <3> QED  BY <1>2, <3>1, <3>2, <3>3 DEF Modes
  <2>2. CASE defaulttimeout # None
    <3>1. life' = "live" /\ setter' = [setter EXCEPT ![t] = Rest]
      BY <1>2, <2>2 DEF AcceptMode, SetterReturns
    <3>2. UNCHANGED <<timeout, nonblock, defaulttimeout>>
      BY <1>2, <2>2 DEF AcceptMode
    <3> QED  BY <1>2, <3>1, <3>2 DEF Rest, Setting
  <2> QED  BY <2>1, <2>2
<1>3. ASSUME ModeInv, NEW t \in Thread, NEW v \in Modes, SetMode(t, v)
      PROVE  ModeInv'
  <2>1. v < 0 <=> v = None
    BY DEF Modes, None
  <2>2. StartSetting(t, v < 0, FALSE) /\ timeout' = v
    BY <1>3 DEF SetMode
  <2>3. (v < 0) \in BOOLEAN
    OBVIOUS
  <2>4. ((v < 0) <=> timeout' = None) /\ timeout' \in Modes
    BY <2>1, <2>2
  <2>5. AloneIsAlone' /\ setter' \in SettingType
    BY <1>3, <2>2, <2>3, <2>4, StartIsAlone
  <2> QED  BY <1>3, <2>5 DEF SetMode
<1>4. ASSUME ModeInv, NEW n \in Asked, SetDefaultTimeout(n) PROVE ModeInv'
  BY <1>4 DEF SetDefaultTimeout, Valid, Modes, Asked
<1>5. ASSUME ModeInv, NEW t \in Thread, FcntlFails(t) PROVE ModeInv'
  BY <1>5 DEF FcntlFails, SetterReturns, Rest, Setting
<1>6. ASSUME ModeInv, NEW t \in Thread, GetFl(t) PROVE ModeInv'
  BY <1>6 DEF GetFl
<1>7. ASSUME ModeInv, NEW t \in Thread, SetFl(t) PROVE ModeInv'
  <2>1. setter' = [setter EXCEPT ![t].op = "done"] /\ nonblock' = ~setter[t].block
    BY <1>7 DEF SetFl
  <2>2. setter[t].op = "setfl" /\ UNCHANGED <<life, timeout, defaulttimeout>>
    BY <1>7 DEF SetFl
  <2>3. nonblock' \in BOOLEAN /\ setter' \in SettingType
    BY <1>7, <2>1
  <2>4. \A u \in Thread : /\ setter'[u].alone = setter[u].alone
                          /\ setter'[u].block = setter[u].block
                          /\ u # t => setter'[u] = setter[u]
    BY <2>1
  <2>5. nonblock' <=> ~setter'[t].block
    BY <2>1, <2>4
  <2>6. AloneIsAlone'
    <3> SUFFICES ASSUME NEW w \in Thread, setter'[w].alone
                 PROVE  /\ \A u \in Thread \ {w} : setter'[u].op = "idle"
                        /\ setter'[w].op \in {"getfl", "setfl", "done"}
                        /\ setter'[w].block <=> timeout' = None
                        /\ nonblock' <=> ~setter'[w].block
      BY DEF AloneIsAlone
    <3>1. w = t
      BY <1>7, <2>2, <2>4
    <3>2. setter[t].alone
      BY <2>4, <3>1
    <3>3. setter'[t].op = "done"
      BY <1>7, <2>1
    <3>4. setter[t].block <=> timeout = None
      BY <1>7, <3>2
    <3>5. setter'[t].block <=> timeout' = None
      BY <2>2, <2>4, <3>4
    <3>6. \A u \in Thread \ {t} : setter'[u].op = "idle"
      BY <1>7, <2>4, <3>2
    <3> QED  BY <2>5, <3>1, <3>3, <3>5, <3>6
  <2> QED  BY <1>7, <2>2, <2>3, <2>4, <2>6
<1>8. ASSUME ModeInv, NEW t \in Thread, SetterDone(t) PROVE ModeInv'
  <2>1. life' \in Life /\ (life' = "none" => life = "none")
    BY <1>8 DEF SetterDone
  <2>2. PICK r \in {Rest, Setting("accepted", FALSE, FALSE, FALSE)} :
          setter' = [setter EXCEPT ![t] = r]
    BY <1>8 DEF SetterDone, SetterReturns
  <2>3. life # "none" /\ UNCHANGED <<timeout, nonblock, defaulttimeout>>
    BY <1>8 DEF SetterDone
  <2>4. ~r.alone /\ r \in [op : SetterOps, block : BOOLEAN, saw : BOOLEAN,
                                 force : BOOLEAN, alone : BOOLEAN]
    BY RestTyped DEF Rest
  <2>5. setter' \in SettingType /\ ~setter'[t].alone
    BY <1>8, <2>2, <2>4
  <2>6. \A u \in Thread \ {t} : setter'[u] = setter[u]
    BY <2>2
  <2>7. \A u \in Thread : setter[u].alone => u = t
    BY <1>8 DEF SetterDone
  <2>8. \A u \in Thread : ~setter'[u].alone
    BY <2>5, <2>6, <2>7
  <2> QED  BY <1>8, <2>1, <2>3, <2>5, <2>8
<1>9. ASSUME ModeInv, NEW t \in Thread, Close(t) PROVE ModeInv'
  <2>1. \A u \in Thread : setter'[u] = [setter[u] EXCEPT !.alone = FALSE]
    BY <1>9 DEF Close
  <2>2. setter' \in SettingType /\ life' = "closed"
    BY <1>9 DEF Close
  <2>3. \A u \in Thread : ~setter'[u].alone
    BY <1>9, <2>1
  <2> QED  BY <1>9, <2>2, <2>3 DEF Close
<1>10. ASSUME ModeInv, UNCHANGED modeVars PROVE ModeInv'
  BY <1>10 DEF modeVars
<1>11. ASSUME ModeInv, NEW t \in Thread, ModeRequest(t) PROVE ModeInv'
  <2>1. ASSUME NEW n \in BOOLEAN, NEW flag \in BOOLEAN,
               NewSocket(t, n) \/ AdoptFd(t, n, flag)
        PROVE  ModeInv'
    BY <1>1, <1>11, <2>1 DEF NewSocket, AdoptFd
  <2>2. ASSUME NEW l \in Modes, NEW flag \in BOOLEAN, Accepted(t, l, flag)
        PROVE  ModeInv'
    <3>1. (l > 0) \in BOOLEAN
      OBVIOUS
    <3> QED  BY <1>1, <1>11, <2>2, <3>1 DEF Accepted
  <2>3. ASSUME NEW n \in Asked, SetTimeout(t, n) PROVE ModeInv'
    BY <1>3, <1>11, <2>3 DEF SetTimeout, Valid, Asked, Modes
  <2>4. ASSUME NEW b \in BOOLEAN, SetBlocking(t, b) PROVE ModeInv'
    BY <1>3, <1>11, <2>4 DEF SetBlocking, Modes
  <2> QED  BY <1>9, <1>11, <2>1, <2>2, <2>3, <2>4 DEF ModeRequest
<1> HIDE DEF ModeInv
<1> QED
  BY <1>2, <1>4, <1>5, <1>6, <1>7, <1>8, <1>10, <1>11 DEF ModeNext, SetterStep

\* The mode, the timeouts and the setters keep their types.
THEOREM ModeTypeCorrect == ModeSpec => []ModeTypeOK
<1>1. ModeInv => ModeTypeOK
  BY DEF ModeInv
<1> QED  BY InitModeInv, ModeInvStep, <1>1, PTL DEF ModeSpec

\* A setter that succeeds while no other is at work makes timeout and descriptor
\* agree, for any overlap, failure and foreign descriptor before it.
THEOREM SettersRepair == ModeSpec => []SetterRepairs
<1>1. ModeInv => SetterRepairs
  BY DEF ModeInv, ModeTypeOK, AloneIsAlone, SetterRepairs, Agree
<1> QED  BY InitModeInv, ModeInvStep, <1>1, PTL DEF ModeSpec

----------------------------------------------------------------------------
(* The table, when setters do not overlap and descriptors are the library's *)

ModeDiscipline == ~Overlap /\ ~Foreign /\ ~FcntlMayFail

\* At most one thread sets the mode.
OneSetter ==
    \A t \in Thread :
        setter[t].op # "idle" => \A u \in Thread \ {t} : setter[u].op = "idle"

\* It is known to be alone once it has written the timeout.
Marked ==
    \A t \in Thread : setter[t].op \in {"getfl", "setfl", "done"} => setter[t].alone

\* Between setters, and between the two of an accept(), the halves agree.
Settled ==
    /\ life \in {"init", "live"}
    /\ \A t \in Thread : setter[t].op \in {"idle", "accepted"}
    => Agree

\* An accept() is still building its socket.
Accepting ==
    \A t \in Thread :
        setter[t].op = "accepted" \/ (setter[t].op # "idle" /\ setter[t].force)
            => life = "init"

Orderly == OneSetter /\ Marked /\ Settled /\ Accepting

\* Thread t starts when nobody else is at work.
LEMMA StartOrderly ==
  ASSUME ModeInv, NEW t \in Thread, NEW block \in BOOLEAN, NEW force \in BOOLEAN,
         \A u \in Thread \ {t} : setter[u].op = "idle",
         StartSetting(t, block, force), force => life' = "init"
  PROVE  Orderly'
<1> USE DEF ModeInv, ModeTypeOK
<1>1. Setters \subseteq {t}
  BY DEF Setters
<1>2. setter'[t] = Setting("getfl", block, force, TRUE)
  BY <1>1 DEF StartSetting
<1>3. \A u \in Thread \ {t} : setter'[u].op = "idle"
  BY DEF StartSetting
<1>4. setter'[t].op = "getfl" /\ setter'[t].alone /\ setter'[t].force = force
  BY <1>2 DEF Setting
<1> QED  BY <1>3, <1>4 DEF Orderly, OneSetter, Marked, Settled, Accepting

\* A step that leaves thread t idle, or about to look at the timeouts, with the
\* halves in agreement.
LEMMA StopOrderly ==
  ASSUME ModeInv, Orderly, NEW t \in Thread, NEW op \in {"idle", "accepted"},
         \A u \in Thread \ {t} : setter[u].op = "idle",
         setter' = [setter EXCEPT ![t] = Setting(op, FALSE, FALSE, FALSE)],
         life' \in {"init", "live"} => Agree',
         op = "accepted" => life' = "init"
  PROVE  Orderly'
<1> USE DEF ModeInv, ModeTypeOK
<1>1. setter'[t].op = op /\ ~setter'[t].force
  BY DEF Setting
<1>2. \A u \in Thread \ {t} : setter'[u].op = "idle"
  OBVIOUS
<1> QED  BY <1>1, <1>2 DEF Orderly, OneSetter, Marked, Settled, Accepting

\* Every step keeps the order.
LEMMA OrderlyStep ==
  ASSUME ModeDiscipline
  PROVE  ModeInv /\ Orderly /\ [ModeNext]_modeVars => Orderly'
<1> USE ModeDiscipline DEF ModeDiscipline
<1> DEFINE Quiet(t) == \A u \in Thread \ {t} : setter[u].op = "idle"
<1>1. ASSUME ModeInv, Orderly, NEW t \in Thread, NEW n \in BOOLEAN,
             NEW force \in BOOLEAN, Construct(t, n, n, force), force => ~n
      PROVE  Orderly'
  <2>1. Quiet(t) /\ setter[t] = Rest /\ life = "none"
    BY <1>1 DEF Construct, ModeInv, NoneYet
  <2>2. CASE ~n /\ defaulttimeout >= 0
    <3>1. ~(n \/ defaulttimeout < 0)
      BY <1>1, <2>2 DEF ModeInv, ModeTypeOK, Modes, None
    <3>2. StartSetting(t, FALSE, force) /\ life' = "init"
      BY <1>1, <3>1 DEF Construct
    <3> QED  BY <1>1, <2>1, <3>2, StartOrderly
  <2>3. CASE ~(~n /\ defaulttimeout >= 0)
    <3>1. /\ life' = IF force THEN "init" ELSE "live"
          /\ setter' = [setter EXCEPT ![t] =
                IF force THEN Setting("accepted", FALSE, FALSE, FALSE) ELSE @]
      BY <1>1, <2>3 DEF Construct
    <3>2. (nonblock' <=> n) /\ timeout' = IF n THEN 0 ELSE defaulttimeout
      BY <1>1 DEF Construct
    <3>3. ~n => defaulttimeout = None
      BY <1>1, <2>3 DEF ModeInv, ModeTypeOK, Modes, None
    <3>4. Agree'
      BY <3>2, <3>3 DEF Agree, None
    <3>5. \E op \in {"idle", "accepted"} :
            /\ setter' = [setter EXCEPT ![t] = Setting(op, FALSE, FALSE, FALSE)]
            /\ op = "accepted" => life' = "init"
      BY <2>1, <3>1 DEF Rest
    <3> QED  BY <1>1, <2>1, <3>4, <3>5, StopOrderly
  <2> QED  BY <2>2, <2>3
<1>2. ASSUME ModeInv, Orderly, NEW t \in Thread, AcceptMode(t) PROVE Orderly'
  <2>1. Quiet(t) /\ life = "init"
    BY <1>2 DEF AcceptMode, Orderly, OneSetter, Accepting
  <2>2. CASE defaulttimeout = None
    BY <1>2, <2>1, <2>2, StartOrderly DEF AcceptMode
  <2>3. CASE defaulttimeout # None
    <3>1. /\ setter' = [setter EXCEPT ![t] = Setting("idle", FALSE, FALSE, FALSE)]
          /\ UNCHANGED <<nonblock, timeout>>
      BY <1>2, <2>3 DEF AcceptMode, SetterReturns, Rest
    <3>2. Agree'
      BY <1>2, <2>1, <3>1 DEF AcceptMode, Orderly, Settled, Agree
    <3> QED  BY <1>2, <2>1, <3>1, <3>2, StopOrderly
  <2> QED  BY <2>2, <2>3
<1>3. ASSUME ModeInv, Orderly, NEW t \in Thread, NEW v, SetMode(t, v)
      PROVE  Orderly'
  <2>1. Setters = {} /\ StartSetting(t, v < 0, FALSE)
    BY <1>3 DEF SetMode
  <2>2. Quiet(t)
    BY <2>1 DEF Setters
  <2>3. (v < 0) \in BOOLEAN
    OBVIOUS
  <2> QED  BY <1>3, <2>1, <2>2, <2>3, StartOrderly
<1>4. ASSUME ModeInv, Orderly, NEW t \in Thread, FcntlFails(t) PROVE Orderly'
  <2>1. Quiet(t)
    BY <1>4 DEF FcntlFails, Orderly, OneSetter
  <2>2. /\ setter' = [setter EXCEPT ![t] = Setting("idle", FALSE, FALSE, FALSE)]
        /\ life' = "closed"
    BY <1>4 DEF FcntlFails, SetterReturns, Rest
  <2> QED  BY <1>4, <2>1, <2>2, StopOrderly
<1>5. ASSUME ModeInv, Orderly, NEW t \in Thread, GetFl(t) \/ SetFl(t)
      PROVE  Orderly'
  <2>1. /\ \A u \in Thread \ {t} : setter[u].op = "idle" /\ setter'[u] = setter[u]
        /\ setter'[t].alone /\ setter'[t].op \in {"setfl", "done"}
        /\ setter'[t].force = setter[t].force /\ setter[t].op # "idle"
        /\ life' = life
    BY <1>5 DEF GetFl, SetFl, Orderly, OneSetter, Marked, ModeInv, ModeTypeOK
  <2> QED
    BY <1>5, <2>1 DEF Orderly, OneSetter, Marked, Settled, Accepting
<1>6. ASSUME ModeInv, Orderly, NEW t \in Thread, SetterDone(t) PROVE Orderly'
  <2>1. Quiet(t) /\ setter[t].alone
    BY <1>6 DEF SetterDone, Orderly, OneSetter, Marked
  <2>2. Agree /\ UNCHANGED <<nonblock, timeout>>
    BY <1>6, <2>1 DEF SetterDone, ModeInv, ModeTypeOK, AloneIsAlone, Agree
  <2>3. CASE setter[t].force
    <3>1. life' = "init"
      BY <1>6, <2>3 DEF SetterDone, Orderly, Accepting
    <3>2. setter' = [setter EXCEPT ![t] = Setting("accepted", FALSE, FALSE, FALSE)]
      BY <1>6, <2>3 DEF SetterDone
    <3> QED  BY <1>6, <2>1, <2>2, <3>1, <3>2, StopOrderly DEF Agree
  <2>4. CASE ~setter[t].force
    <3>1. setter' = [setter EXCEPT ![t] = Setting("idle", FALSE, FALSE, FALSE)]
      BY <1>6, <2>4 DEF SetterDone, SetterReturns, Rest
    <3> QED  BY <1>6, <2>1, <2>2, <3>1, StopOrderly DEF Agree
  <2> QED  BY <2>3, <2>4
<1>7. ASSUME ModeInv, Orderly, NEW t \in Thread, Close(t) PROVE Orderly'
  <2>1. \A u \in Thread : setter[u].op = "idle"
    BY <1>7 DEF Close, Setters
  <2>2. \A u \in Thread : setter'[u].op = "idle"
    BY <1>7, <2>1 DEF Close, ModeInv, ModeTypeOK
  <2> QED  BY <1>7, <2>2 DEF Close, Orderly, OneSetter, Marked, Settled, Accepting
<1>8. ASSUME Orderly, NEW v, SetDefaultTimeout(v) \/ UNCHANGED modeVars
      PROVE  Orderly'
  BY <1>8 DEF SetDefaultTimeout, modeVars, Orderly, OneSetter, Marked, Settled,
              Accepting, Agree
<1>9. ASSUME ModeInv, Orderly, NEW t \in Thread, ModeRequest(t) PROVE Orderly'
  <2>1. ASSUME NEW n \in BOOLEAN, NewSocket(t, n) PROVE Orderly'
    BY <1>1, <1>9, <2>1 DEF NewSocket
  <2>2. ASSUME NEW n \in BOOLEAN, NEW flag \in BOOLEAN, AdoptFd(t, n, flag)
        PROVE  Orderly'
    BY <2>2 DEF AdoptFd
  <2>3. ASSUME NEW l \in Modes, NEW flag \in BOOLEAN, Accepted(t, l, flag)
        PROVE  Orderly'
    <3>1. ~flag /\ Construct(t, FALSE, flag, l > 0)
      BY <2>3 DEF Accepted
    <3>2. flag = FALSE
      BY <3>1
    <3>3. Construct(t, FALSE, FALSE, l > 0)
      BY <3>1, <3>2
    <3>4. (l > 0) \in BOOLEAN
      OBVIOUS
    <3> QED  BY <1>1, <1>9, <3>3, <3>4
  <2>4. ASSUME NEW n, SetTimeout(t, n) PROVE Orderly'
    BY <1>3, <1>9, <2>4 DEF SetTimeout
  <2>5. ASSUME NEW b, SetBlocking(t, b) PROVE Orderly'
    BY <1>3, <1>9, <2>5 DEF SetBlocking
  <2> QED
    BY <1>7, <1>9, <2>1, <2>2, <2>3, <2>4, <2>5 DEF ModeRequest
<1> HIDE DEF ModeInv, Orderly
<1> QED
  BY <1>2, <1>4, <1>5, <1>6, <1>8, <1>9 DEF ModeNext, SetterStep

\* The table of sock_settimeout holds whenever nobody is changing it, for any
\* number of threads and timeouts, if setters and closes do not overlap.
THEOREM TableHolds ==
  ASSUME ModeDiscipline PROVE ModeSpec => []ModeTable
<1>1. ModeInit => Orderly
  BY DEF ModeInit, Orderly, OneSetter, Marked, Settled, Accepting, Rest, Setting
<1>2. Orderly => ModeTable
  BY DEF Orderly, Settled, ModeTable, Setters
<1> QED
  BY ModeDiscipline, InitModeInv, ModeInvStep, OrderlyStep, <1>1, <1>2, PTL
     DEF ModeSpec
============================================================================
