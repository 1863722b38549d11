--------------------- MODULE SocketObjectsDisciplined ----------------------
(***************************************************************************)
(* What holds of SocketObjects when programs close a socket only while no  *)
(* other thread is in a call on it, and the constructor's fcntl succeeds.  *)
(***************************************************************************)
EXTENDS SocketObjectsProofs

Discipline == ~ConcurrentClose /\ ~FcntlMayFail

\* A closing thread is alone on its socket.
Alone ==
    \A t, u \in Thread :
        t # u /\ pc[t].op \in ClosingOps => pc[u].s # pc[t].s

\* The number in s->fd is the socket's own, but for the window in which
\* ioth_close has returned and sock_close has not yet forgotten it.
OwnNumber ==
    \A s \in Socket :
        /\ obj[s] # "failed"
        /\ fd[s] # NoFd => Forgetting(s) \/ owner[fd[s]] = s

\* What a thread has found out stays true: the close it decided on has
\* something to close, and the descriptor it accepted is still its own.
StillTrue ==
    \A t \in Thread :
        /\ pc[t].op = "release" => fd[pc[t].s] # NoFd
        /\ pc[t].op = "wrap" => owner[pc[t].fd] = t

Disciplined == Alone /\ OwnNumber /\ StillTrue

Base == TypeOK /\ PcShape /\ OneConstructor /\ ObjShape /\ Kept

\* Before the first step nobody closes and nothing is open.
LEMMA InitDisciplined == Init => Disciplined
  BY DEF Init, Disciplined, Alone, OwnNumber, StillTrue, Idle, Doing, ClosingOps

\* A closing thread stays alone: nobody may start a call on its socket.
LEMMA AloneStep ==
  Shape /\ Kept /\ Discipline /\ Alone /\ [Next]_vars => Alone'
<1> USE DEF ConstantsAssumption, Alone, Base, TypeOK, PcShape, ObjShape, Ops,
            Life, ClosingOps, Idle, Doing, sockVars, stackVars
<1>1. ASSUME Discipline, Base, Alone, NEW t \in Thread, NEW n \in Socket,
             NEW f \in Fd, NewSocket(t, n, f)
      PROVE  Alone'
  BY ConstantsAssumption, <1>1 DEF NewSocket, Construct
<1>2. ASSUME Discipline, Base, Alone, NEW t \in Thread, NEW n \in Socket,
             NEW f \in Fd, AdoptFd(t, n, f)
      PROVE  Alone'
  BY ConstantsAssumption, <1>2 DEF AdoptFd, Construct
<1>3. ASSUME Discipline, Base, Alone, NEW t \in Thread, InitDone(t)
      PROVE  Alone'
  BY ConstantsAssumption, <1>3 DEF InitDone, Return
<1>4. ASSUME Discipline, Base, Alone, NEW t \in Thread, InitFail(t)
      PROVE  Alone'
  BY ConstantsAssumption, <1>4 DEF InitFail, Return
<1>5. ASSUME Discipline, Base, Alone, NEW t \in Thread, NEW s \in Socket,
             NEW op, Call(t, s, op)
      PROVE  Alone'
  BY ConstantsAssumption, <1>5 DEF Call, MayUse, Discipline
<1>6. ASSUME Discipline, Base, Alone, NEW t \in Thread, IoCall(t)
      PROVE  Alone'
  BY ConstantsAssumption, <1>6 DEF IoCall, Return
<1>7. ASSUME Discipline, Base, Alone, NEW t \in Thread, NEW f \in Fd,
             AcceptCall(t, f)
      PROVE  Alone'
  BY ConstantsAssumption, <1>7 DEF AcceptCall
<1>8. ASSUME Discipline, Base, Alone, NEW t \in Thread, NEW n \in Socket,
             AcceptWrap(t, n)
      PROVE  Alone'
  BY ConstantsAssumption, <1>8 DEF AcceptWrap, Construct
<1>9. ASSUME Discipline, Base, Alone, NEW t \in Thread, AcceptAbandon(t)
      PROVE  Alone'
  BY ConstantsAssumption, <1>9 DEF AcceptAbandon, Return
<1>10. ASSUME Discipline, Base, Alone, NEW t \in Thread, AcceptLoses(t)
      PROVE  Alone'
  BY ConstantsAssumption, <1>10 DEF AcceptLoses, Return
<1>11. ASSUME Discipline, Base, Alone, NEW t \in Thread, NEW s \in Socket,
              FileClose(t, s)
      PROVE  Alone'
  BY ConstantsAssumption, <1>11 DEF FileClose, MayClose, Discipline
<1>12. ASSUME Discipline, Base, Alone, NEW t \in Thread, NEW s \in Socket,
              Close(t, s)
      PROVE  Alone'
  BY ConstantsAssumption, <1>12 DEF Close, CloseBody, MayClose, Discipline
<1>13. ASSUME Discipline, Base, Alone, NEW t \in Thread, FileCloses(t)
      PROVE  Alone'
  BY ConstantsAssumption, <1>13 DEF FileCloses, CloseBody
<1>14. ASSUME Discipline, Base, Alone, NEW t \in Thread, CloseTest(t)
      PROVE  Alone'
  BY ConstantsAssumption, <1>14 DEF CloseTest, Return, Goto
<1>15. ASSUME Discipline, Base, Alone, NEW t \in Thread, CloseRelease(t)
      PROVE  Alone'
  BY ConstantsAssumption, <1>15 DEF CloseRelease, Goto
<1>16. ASSUME Discipline, Base, Alone, NEW t \in Thread, CloseForget(t)
      PROVE  Alone'
  BY ConstantsAssumption, <1>16 DEF CloseForget, Return
<1>17. ASSUME Discipline, Base, Alone, NEW t \in Thread, NEW s \in Socket,
              Detach(t, s)
      PROVE  Alone'
  BY ConstantsAssumption, <1>17 DEF Detach, MayClose, Discipline
<1>18. ASSUME Discipline, Base, Alone, NEW t \in Thread, DetachTake(t)
      PROVE  Alone'
  BY ConstantsAssumption, <1>18 DEF DetachTake, Return
<1>19. ASSUME NEW f, NEW s, NEW t,
             \/ MakeFile(t, s) \/ UserClose(f) \/ Finalize(s)
             \/ FinalizeClose(s) \/ DropStack \/ NewStack \/ UNCHANGED vars
      PROVE  UNCHANGED pc
  BY ConstantsAssumption, <1>19
     DEF MakeFile, UserClose, Finalize, FinalizeClose, DropStack,
           NewStack, vars
<1>20. ASSUME Discipline, Base, Alone, UNCHANGED pc PROVE Alone'
  BY ConstantsAssumption, <1>20
<1> HIDE DEF Alone, TypeOK, PcShape, ObjShape
<1> QED
  BY <1>1, <1>2, <1>3, <1>4, <1>5, <1>6, <1>7, <1>8, <1>9, <1>10, <1>11, <1>12, <1>13,
     <1>14, <1>15, <1>16, <1>17, <1>18, <1>19, <1>20
     DEF Shape, Next, Request, LibraryReturns, Continue

\* A number in s->fd stays the own one of its socket.
LEMMA OwnNumberStep ==
  Shape /\ Kept /\ Discipline /\ Disciplined /\ [Next]_vars => OwnNumber'
<1> USE DEF ConstantsAssumption, Disciplined, OwnNumber, StillTrue, Base, Kept,
            LostByAcceptOnly, ForgottenOwnsNothing, TypeOK, PcShape, ObjShape,
            Ops, Life, ClosingOps, Idle, Doing, sockVars, stackVars, Closed,
            Forgetting
<1>1. ASSUME Discipline, Base, Disciplined, NEW t \in Thread, NEW n \in Socket,
             NEW f \in Fd, NewSocket(t, n, f)
      PROVE  OwnNumber'
  BY ConstantsAssumption, <1>1 DEF NewSocket, Construct
<1>2. ASSUME Discipline, Base, Disciplined, NEW t \in Thread, NEW n \in Socket,
             NEW f \in Fd, AdoptFd(t, n, f)
      PROVE  OwnNumber'
  BY ConstantsAssumption, <1>2 DEF AdoptFd, Construct
<1>3. ASSUME Discipline, Base, Disciplined, NEW t \in Thread, InitDone(t)
      PROVE  OwnNumber'
  BY ConstantsAssumption, <1>3 DEF InitDone, Return
<1>4. ASSUME Discipline, Base, Disciplined, NEW t \in Thread, InitFail(t)
      PROVE  OwnNumber'
  BY ConstantsAssumption, <1>4 DEF InitFail, Return, Discipline
<1>5. ASSUME Discipline, Base, Disciplined, NEW t \in Thread, NEW s \in Socket,
             NEW op, Call(t, s, op)
      PROVE  OwnNumber'
  BY ConstantsAssumption, <1>5 DEF Call
<1>6. ASSUME Discipline, Base, Disciplined, NEW t \in Thread, IoCall(t)
      PROVE  OwnNumber'
  BY ConstantsAssumption, <1>6 DEF IoCall, Return
<1>7. ASSUME Discipline, Base, Disciplined, NEW t \in Thread, NEW f \in Fd,
             AcceptCall(t, f)
      PROVE  OwnNumber'
  BY ConstantsAssumption, <1>7 DEF AcceptCall
<1>8. ASSUME Discipline, Base, Disciplined, NEW t \in Thread, NEW n \in Socket,
             AcceptWrap(t, n)
      PROVE  OwnNumber'
  BY ConstantsAssumption, <1>8 DEF AcceptWrap, Construct
<1>9. ASSUME Discipline, Base, Disciplined, NEW t \in Thread, AcceptAbandon(t)
      PROVE  OwnNumber'
  BY ConstantsAssumption, <1>9 DEF AcceptAbandon, Return
<1>10. ASSUME Discipline, Base, Disciplined, NEW t \in Thread, AcceptLoses(t)
      PROVE  OwnNumber'
  BY ConstantsAssumption, <1>10 DEF AcceptLoses, Return
<1>11. ASSUME Discipline, Base, Disciplined, NEW t \in Thread,
              NEW s \in Socket, FileClose(t, s)
      PROVE  OwnNumber'
  BY ConstantsAssumption, <1>11 DEF FileClose
<1>12. ASSUME Discipline, Base, Disciplined, NEW t \in Thread,
              NEW s \in Socket, Close(t, s)
      PROVE  OwnNumber'
  BY ConstantsAssumption, <1>12 DEF Close, CloseBody
<1>13. ASSUME Discipline, Base, Disciplined, NEW t \in Thread, FileCloses(t)
      PROVE  OwnNumber'
  BY ConstantsAssumption, <1>13 DEF FileCloses, CloseBody
<1>14. ASSUME Discipline, Base, Disciplined, NEW t \in Thread, CloseTest(t)
      PROVE  OwnNumber'
  BY ConstantsAssumption, <1>14 DEF CloseTest, Return, Goto
<1>15. ASSUME Discipline, Base, Disciplined, NEW t \in Thread, CloseRelease(t)
      PROVE  OwnNumber'
  <2> DEFINE r == pc[t].s
  <2>1. r \in Socket /\ fd[r] \in Fd
    BY ConstantsAssumption, <1>15 DEF CloseRelease
  <2>2. ~Forgetting(r)
    BY ConstantsAssumption, <1>15 DEF CloseRelease, Alone
  <2>3. owner[fd[r]] = r
    BY ConstantsAssumption, <1>15, <2>1, <2>2
  <2>4. /\ owner' = [owner EXCEPT ![fd[r]] = Free]
        /\ pc'[t].op = "reacquire" /\ pc'[t].s = r
        /\ \A u \in Thread \ {t} : pc'[u] = pc[u]
        /\ UNCHANGED <<obj, fd>>
    BY ConstantsAssumption, <1>15, <2>1 DEF CloseRelease, Goto
  <2>5. Forgetting(r)'
    BY <2>4
  <2>6. ASSUME NEW s \in Socket, s # r, fd[s] # NoFd
        PROVE  Forgetting(s)' \/ owner'[fd[s]] = s
    <3>1. CASE Forgetting(s)
      BY ConstantsAssumption, <1>15, <2>4, <3>1 DEF CloseRelease
    <3>2. CASE owner[fd[s]] = s
      BY ConstantsAssumption, <1>15, <2>3, <2>4, <2>6, <3>2
    <3> QED  BY ConstantsAssumption, <1>15, <2>6, <3>1, <3>2
  <2> HIDE DEF Forgetting
  <2> QED  BY ConstantsAssumption, <1>15, <2>4, <2>5, <2>6
<1>16. ASSUME Discipline, Base, Disciplined, NEW t \in Thread, CloseForget(t)
      PROVE  OwnNumber'
  BY ConstantsAssumption, <1>16 DEF CloseForget, Return, Alone
<1>17. ASSUME Discipline, Base, Disciplined, NEW t \in Thread,
              NEW s \in Socket, Detach(t, s)
      PROVE  OwnNumber'
  BY ConstantsAssumption, <1>17 DEF Detach
<1>18. ASSUME Discipline, Base, Disciplined, NEW t \in Thread, DetachTake(t)
      PROVE  OwnNumber'
  BY ConstantsAssumption, <1>18 DEF DetachTake, Return, Alone
<1>19. ASSUME Discipline, Base, Disciplined, NEW f \in Fd, UserClose(f)
      PROVE  OwnNumber'
  BY ConstantsAssumption, <1>19 DEF UserClose
<1>20. ASSUME Discipline, Base, Disciplined, NEW s \in Socket, Finalize(s)
      PROVE  OwnNumber'
  BY ConstantsAssumption, <1>20 DEF Finalize, Unused
<1>21. ASSUME Discipline, Base, Disciplined, NEW s \in Socket, FinalizeClose(s)
      PROVE  OwnNumber'
  BY ConstantsAssumption, <1>21 DEF FinalizeClose
<1>22. ASSUME NEW s, NEW t,
             \/ MakeFile(t, s) \/ DropStack \/ NewStack \/ UNCHANGED vars
      PROVE  UNCHANGED <<obj, fd, owner, pc>>
  BY ConstantsAssumption, <1>22 DEF MakeFile, DropStack, NewStack, vars
<1>23. ASSUME Discipline, Base, Disciplined, UNCHANGED <<obj, fd, owner, pc>>
       PROVE  OwnNumber'
  BY ConstantsAssumption, <1>23
<1> HIDE DEF Disciplined, OwnNumber, StillTrue, Kept, TypeOK, PcShape, ObjShape
<1> QED
  BY <1>1, <1>2, <1>3, <1>4, <1>5, <1>6, <1>7, <1>8, <1>9, <1>10, <1>11, <1>12, <1>13,
     <1>14, <1>15, <1>16, <1>17, <1>18, <1>19, <1>20, <1>21, <1>22, <1>23
     DEF Shape, Next, Request, LibraryReturns, Continue

\* What a thread has found out is not undone by another thread.
LEMMA StillTrueStep ==
  Shape /\ Kept /\ Discipline /\ Disciplined /\ [Next]_vars => StillTrue'
<1> USE DEF ConstantsAssumption, Disciplined, OwnNumber, StillTrue, Base, Kept,
            LostByAcceptOnly, ForgottenOwnsNothing, TypeOK, PcShape, ObjShape,
            Ops, Life, ClosingOps, Idle, Doing, sockVars, stackVars, Closed,
            Forgetting
<1>1. ASSUME Discipline, Base, Disciplined, NEW t \in Thread, NEW n \in Socket,
             NEW f \in Fd, NewSocket(t, n, f)
      PROVE  StillTrue'
  BY ConstantsAssumption, <1>1 DEF NewSocket, Construct
<1>2. ASSUME Discipline, Base, Disciplined, NEW t \in Thread, NEW n \in Socket,
             NEW f \in Fd, AdoptFd(t, n, f)
      PROVE  StillTrue'
  BY ConstantsAssumption, <1>2 DEF AdoptFd, Construct
<1>3. ASSUME Discipline, Base, Disciplined, NEW t \in Thread, InitDone(t)
      PROVE  StillTrue'
  BY ConstantsAssumption, <1>3 DEF InitDone, Return
<1>4. ASSUME Discipline, Base, Disciplined, NEW t \in Thread, InitFail(t)
      PROVE  StillTrue'
  BY ConstantsAssumption, <1>4 DEF InitFail, Return, Discipline
<1>5. ASSUME Discipline, Base, Disciplined, NEW t \in Thread, NEW s \in Socket,
             NEW op, Call(t, s, op)
      PROVE  StillTrue'
  BY ConstantsAssumption, <1>5 DEF Call
<1>6. ASSUME Discipline, Base, Disciplined, NEW t \in Thread, IoCall(t)
      PROVE  StillTrue'
  BY ConstantsAssumption, <1>6 DEF IoCall, Return
<1>7. ASSUME Discipline, Base, Disciplined, NEW t \in Thread, NEW f \in Fd,
             AcceptCall(t, f)
      PROVE  StillTrue'
  BY ConstantsAssumption, <1>7 DEF AcceptCall
<1>8. ASSUME Discipline, Base, Disciplined, NEW t \in Thread, NEW n \in Socket,
             AcceptWrap(t, n)
      PROVE  StillTrue'
  BY ConstantsAssumption, <1>8 DEF AcceptWrap, Construct
<1>9. ASSUME Discipline, Base, Disciplined, NEW t \in Thread, AcceptAbandon(t)
      PROVE  StillTrue'
  BY ConstantsAssumption, <1>9 DEF AcceptAbandon, Return
<1>10. ASSUME Discipline, Base, Disciplined, NEW t \in Thread, AcceptLoses(t)
      PROVE  StillTrue'
  BY ConstantsAssumption, <1>10 DEF AcceptLoses, Return
<1>11. ASSUME Discipline, Base, Disciplined, NEW t \in Thread,
              NEW s \in Socket, FileClose(t, s)
      PROVE  StillTrue'
  BY ConstantsAssumption, <1>11 DEF FileClose
<1>12. ASSUME Discipline, Base, Disciplined, NEW t \in Thread,
              NEW s \in Socket, Close(t, s)
      PROVE  StillTrue'
  BY ConstantsAssumption, <1>12 DEF Close, CloseBody
<1>13. ASSUME Discipline, Base, Disciplined, NEW t \in Thread, FileCloses(t)
      PROVE  StillTrue'
  BY ConstantsAssumption, <1>13 DEF FileCloses, CloseBody
<1>14. ASSUME Discipline, Base, Disciplined, NEW t \in Thread, CloseTest(t)
      PROVE  StillTrue'
  BY ConstantsAssumption, <1>14 DEF CloseTest, Return, Goto
<1>15. ASSUME Discipline, Base, Disciplined, NEW t \in Thread, CloseRelease(t)
      PROVE  StillTrue'
  <2> DEFINE r == pc[t].s
  <2>1. r \in Socket /\ fd[r] \in Fd
    BY ConstantsAssumption, <1>15 DEF CloseRelease
  <2>2. ~Forgetting(r)
    BY ConstantsAssumption, <1>15 DEF CloseRelease, Alone
  <2>3. owner[fd[r]] = r
    BY ConstantsAssumption, <1>15, <2>1, <2>2
  <2>4. /\ owner' = [owner EXCEPT ![fd[r]] = Free]
        /\ pc'[t].op = "reacquire" /\ pc'[t].s = r
        /\ \A u \in Thread \ {t} : pc'[u] = pc[u]
        /\ UNCHANGED <<obj, fd>>
    BY ConstantsAssumption, <1>15, <2>1 DEF CloseRelease, Goto
  <2>5. \A u \in Thread : u # t /\ pc[u].op = "wrap" => pc[u].fd # fd[r]
    BY ConstantsAssumption, <1>15, ConstantsAssumption, <2>1, <2>3
  <2> QED  BY ConstantsAssumption, <1>15, <2>1, <2>4, <2>5
<1>16. ASSUME Discipline, Base, Disciplined, NEW t \in Thread, CloseForget(t)
      PROVE  StillTrue'
  BY ConstantsAssumption, <1>16 DEF CloseForget, Return, Alone
<1>17. ASSUME Discipline, Base, Disciplined, NEW t \in Thread,
              NEW s \in Socket, Detach(t, s)
      PROVE  StillTrue'
  BY ConstantsAssumption, <1>17 DEF Detach
<1>18. ASSUME Discipline, Base, Disciplined, NEW t \in Thread, DetachTake(t)
      PROVE  StillTrue'
  BY ConstantsAssumption, <1>18 DEF DetachTake, Return, Alone
<1>19. ASSUME Discipline, Base, Disciplined, NEW f \in Fd, UserClose(f)
      PROVE  StillTrue'
  BY ConstantsAssumption, <1>19 DEF UserClose
<1>20. ASSUME Discipline, Base, Disciplined, NEW s \in Socket, Finalize(s)
      PROVE  StillTrue'
  BY ConstantsAssumption, <1>20 DEF Finalize, Unused
<1>21. ASSUME Discipline, Base, Disciplined, NEW s \in Socket, FinalizeClose(s)
      PROVE  StillTrue'
  BY ConstantsAssumption, <1>21 DEF FinalizeClose
<1>22. ASSUME NEW s, NEW t,
             \/ MakeFile(t, s) \/ DropStack \/ NewStack \/ UNCHANGED vars
      PROVE  UNCHANGED <<obj, fd, owner, pc>>
  BY ConstantsAssumption, <1>22 DEF MakeFile, DropStack, NewStack, vars
<1>23. ASSUME Discipline, Base, Disciplined, UNCHANGED <<obj, fd, owner, pc>>
       PROVE  StillTrue'
  BY ConstantsAssumption, <1>23
<1> HIDE DEF Disciplined, OwnNumber, StillTrue, Kept, TypeOK, PcShape, ObjShape
<1> QED
  BY <1>1, <1>2, <1>3, <1>4, <1>5, <1>6, <1>7, <1>8, <1>9, <1>10, <1>11, <1>12, <1>13,
     <1>14, <1>15, <1>16, <1>17, <1>18, <1>19, <1>20, <1>21, <1>22, <1>23
     DEF Shape, Next, Request, LibraryReturns, Continue

\* The second inductive invariant, on top of the shape.
LEMMA DisciplinedInvariant ==
  ASSUME Discipline PROVE Spec => []Disciplined
<1>1. Shape /\ Kept /\ Disciplined /\ [Next]_vars => Disciplined'
  BY Discipline, AloneStep, OwnNumberStep, StillTrueStep DEF Disciplined
<1> QED
  BY ShapeInvariant, InitShape, InitKept, KeptStep, InitDisciplined, <1>1, PTL
     DEF Spec

\* No call made for a socket reaches a descriptor that is no longer its own.
THEOREM CallsReachTheirOwn ==
  ASSUME Discipline PROVE Spec => []ReachesOwnFdOnly
<1>1. Shape /\ Disciplined => CallsReachOwnFd
  <2> SUFFICES ASSUME Shape, Disciplined, NEW t \in Thread,
                      pc[t].op \in {"io", "accept", "release"},
                        fd[pc[t].s] # NoFd
               PROVE  owner[fd[pc[t].s]] = pc[t].s
    BY DEF CallsReachOwnFd
  <2>1. pc[t].s \in Socket
    BY DEF Shape, PcShape
  <2>2. ~Forgetting(pc[t].s)
    BY DEF Disciplined, Alone, Forgetting, ClosingOps
  <2> QED  BY <2>1, <2>2 DEF Disciplined, OwnNumber
<1>2. Shape /\ Disciplined => ClosesNoForeignFd
  <2> SUFFICES ASSUME Shape, Disciplined, NEW s \in Socket, fd[s] # NoFd,
                      obj[s] = "dying" \/ \E t \in Thread : pc[t].s = s /\ pc[t].op = "release"
               PROVE  owner[fd[s]] = s
    BY DEF ClosesNoForeignFd
  <2>1. ~Forgetting(s)
    BY DEF Shape, PcShape, Disciplined, Alone, Forgetting, ClosingOps
  <2> QED  BY <2>1 DEF Disciplined, OwnNumber
<1>3. Shape /\ Disciplined => ReachesOwnFdOnly
  BY <1>1, <1>2 DEF ReachesOwnFdOnly
<1> QED  BY Discipline, ShapeInvariant, DisciplinedInvariant, <1>3, PTL

----------------------------------------------------------------------------
(***************************************************************************)
(* The refinement: each step is a step of Descriptors or changes none of   *)
(* the three variables.                                                    *)
(***************************************************************************)
Held(s) == IF Forgetting(s) THEN NoFd ELSE fd[s]

\* What the mapped variables depend on.
LEMMA SameTable ==
  ASSUME UNCHANGED <<fd, owner>>,
         \A s \in Socket : Forgetting(s)' <=> Forgetting(s)
  PROVE  UNCHANGED D!vars
<1>1. \A s \in Socket : Held(s)' = Held(s)
  BY DEF Held
<1> QED  BY <1>1 DEF D!vars, Held

\* A socket that is not in use by a closing thread holds its own descriptor.
LEMMA HeldOwn ==
  ASSUME Disciplined, NEW s \in Socket, Held(s) # NoFd
  PROVE  Held(s) = fd[s] /\ owner[fd[s]] = s
  BY DEF Disciplined, OwnNumber, Held

\* A socket nobody is closing, that owns f, gives f up: to nobody or to the
\* program.
LEMMA GiveUp ==
  ASSUME TypeOK, Disciplined, NEW s \in Socket, fd[s] # NoFd, owner[fd[s]] = s,
         ~Forgetting(s), NEW to \in {Free, User},
         owner' = [owner EXCEPT ![fd[s]] = to],
         Held(s)' = NoFd, \A r \in Socket \ {s} : Held(r)' = Held(r)
  PROVE  D!Release(s) \/ D!HandOver(s)
<1>1. fd[s] \in Fd /\ Held(s) = fd[s]
  BY DEF TypeOK, Held
<1>2. [r \in Socket |-> Held(r)]' = [[r \in Socket |-> Held(r)] EXCEPT ![s] = NoFd]
  OBVIOUS
<1>3. CASE to = Free
  <2>1. {f \in Fd : owner[f] # Free}' = {f \in Fd : owner[f] # Free} \ {fd[s]}
    BY <1>1, <1>3, ConstantsAssumption DEF TypeOK, ConstantsAssumption
  <2>2. {f \in Fd : owner[f] = User}' = {f \in Fd : owner[f] = User}
    BY <1>1, <1>3, ConstantsAssumption DEF TypeOK, ConstantsAssumption
  <2> QED  BY <1>1, <1>2, <2>1, <2>2 DEF D!Release, Held
<1>4. CASE to = User
  <2>1. {f \in Fd : owner[f] # Free}' = {f \in Fd : owner[f] # Free}
    BY <1>1, <1>4, ConstantsAssumption DEF TypeOK, ConstantsAssumption
  <2>2. {f \in Fd : owner[f] = User}' = {f \in Fd : owner[f] = User} \cup {fd[s]}
    BY <1>1, <1>4, ConstantsAssumption DEF TypeOK, ConstantsAssumption
  <2> QED  BY <1>1, <1>2, <2>1, <2>2 DEF D!HandOver, Held
<1> QED  BY <1>3, <1>4

\* Construct gives a new object a descriptor that no socket holds.
LEMMA TakeUp ==
  ASSUME TypeOK, PcShape, ObjShape, Disciplined,
         NEW t \in Thread, NEW n \in Socket, NEW f \in Fd, NEW from,
         Construct(t, n, f, from), pc[t].op # "reacquire",
         owner[f] \notin Socket, owner' = [owner EXCEPT ![f] = n]
  PROVE  D!OpenFor(n, f) \/ D!Claim(n, f)
<1>1. /\ fd' = [fd EXCEPT ![n] = f] /\ fd[n] = NoFd
      /\ \A s \in Socket : Forgetting(s)' <=> Forgetting(s)
  BY DEF Construct, TypeOK, ObjShape, Forgetting, Doing
<1>2. ~Forgetting(n)
  BY DEF Construct, PcShape, Forgetting
<1>3. Held(n) = NoFd /\ [r \in Socket |-> Held(r)]' = [[r \in Socket |-> Held(r)] EXCEPT ![n] = f]
  BY <1>1, <1>2 DEF Held, TypeOK
<1>4. \A s \in Socket : Held(s) # f
  BY HeldOwn, ConstantsAssumption DEF ConstantsAssumption
<1>5. /\ {g \in Fd : owner[g] # Free}' = {g \in Fd : owner[g] # Free} \cup {f}
      /\ {g \in Fd : owner[g] = User}' = {g \in Fd : owner[g] = User} \ {f}
  BY ConstantsAssumption DEF TypeOK, ConstantsAssumption
<1>6. CASE owner[f] = Free
  <2>1. {g \in Fd : owner[g] = User}' = {g \in Fd : owner[g] = User}
    BY <1>5, <1>6, ConstantsAssumption DEF ConstantsAssumption
  <2> QED  BY <1>3, <1>5, <1>6, <2>1 DEF D!OpenFor, Held
<1>7. CASE owner[f] # Free
  <2>1. {g \in Fd : owner[g] # Free}' = {g \in Fd : owner[g] # Free}
    BY <1>5, <1>7
  <2> QED  BY <1>3, <1>4, <1>5, <1>7, <2>1 DEF D!Claim, D!Holds, Held
<1> QED  BY <1>6, <1>7

\* A descriptor no socket holds is opened or closed.
LEMMA Unheld ==
  ASSUME TypeOK, Disciplined, NEW f \in Fd, NEW o,
         owner' = [owner EXCEPT ![f] = o],
         \A s \in Socket : Held(s)' = Held(s),
         \/ owner[f] = Free /\ o \in Thread
         \/ owner[f] \notin Socket \cup {Free} /\ o = Free
  PROVE  D!OpenUnclaimed(f) \/ D!CloseUnheld(f)
<1>1. \A s \in Socket : owner[f] \notin Socket => Held(s) # f
  BY HeldOwn, ConstantsAssumption DEF ConstantsAssumption
<1>2. [r \in Socket |-> Held(r)]' = [r \in Socket |-> Held(r)]
  OBVIOUS
<1>3. CASE owner[f] = Free /\ o \in Thread
  <2>1. /\ {g \in Fd : owner[g] # Free}' = {g \in Fd : owner[g] # Free} \cup {f}
        /\ {g \in Fd : owner[g] = User}' = {g \in Fd : owner[g] = User}
    BY <1>3, ConstantsAssumption DEF TypeOK, ConstantsAssumption
  <2> QED  BY <1>2, <1>3, <2>1 DEF D!OpenUnclaimed, Held
<1>4. CASE owner[f] \notin Socket \cup {Free} /\ o = Free
  <2>1. /\ {g \in Fd : owner[g] # Free}' = {g \in Fd : owner[g] # Free} \ {f}
        /\ {g \in Fd : owner[g] = User}' = {g \in Fd : owner[g] = User} \ {f}
    BY <1>4, ConstantsAssumption DEF TypeOK, ConstantsAssumption
  <2> QED  BY <1>1, <1>2, <1>4, <2>1 DEF D!CloseUnheld, D!Holds, Held
<1> QED  BY <1>3, <1>4

\* The first states map to first states of the table.
LEMMA InitRefines == Init => D!Init
<1> SUFFICES ASSUME Init PROVE D!Init
  OBVIOUS
<1>1. \A s \in Socket : ~Forgetting(s) /\ fd[s] = NoFd
  BY DEF Init, Forgetting, Idle, Doing
<1>2. {f \in Fd : owner[f] # Free} = {} /\ {f \in Fd : owner[f] = User} = {}
  BY ConstantsAssumption DEF Init, ConstantsAssumption
<1> QED  BY <1>1, <1>2 DEF D!Init

\* Every step maps to a step of the table or leaves it alone.
LEMMA NextRefines ==
  ASSUME Discipline
  PROVE  Shape /\ Kept /\ Disciplined /\ [Next]_vars => [D!Next]_(D!vars)
<1> USE DEF sockVars, stackVars, Idle, Doing
<1>1. ASSUME TypeOK, PcShape, ObjShape, Disciplined,
             NEW t \in Thread, NEW n \in Socket, NEW f \in Fd,
             NewSocket(t, n, f) \/ AdoptFd(t, n, f)
      PROVE  D!Next
  <2>1. /\ Construct(t, n, f, NoSocket) /\ pc[t].op # "reacquire"
        /\ owner[f] \notin Socket /\ owner' = [owner EXCEPT ![f] = n]
    BY <1>1, ConstantsAssumption DEF NewSocket, AdoptFd, ConstantsAssumption
  <2> QED  BY <1>1, <2>1, TakeUp DEF D!Next
<1>2. ASSUME TypeOK, PcShape, ObjShape, Disciplined,
             NEW t \in Thread, NEW n \in Socket, AcceptWrap(t, n)
      PROVE  D!Next
  <2> DEFINE f == pc[t].fd
  <2>1. f \in Fd /\ owner[f] = t
    BY <1>2 DEF AcceptWrap, PcShape, Disciplined, StillTrue
  <2>2. /\ Construct(t, n, f, pc[t].s) /\ pc[t].op # "reacquire"
        /\ owner[f] \notin Socket /\ owner' = [owner EXCEPT ![f] = n]
    BY <1>2, <2>1, ConstantsAssumption DEF AcceptWrap, ConstantsAssumption
  <2> QED  BY <1>2, <2>1, <2>2, TakeUp DEF D!Next
<1>3. ASSUME TypeOK, PcShape, Disciplined, NEW t \in Thread, NEW f \in Fd,
             AcceptCall(t, f)
      PROVE  D!Next
  <2>1. \A s \in Socket : Held(s)' = Held(s)
    BY <1>3 DEF AcceptCall, Held, Forgetting, TypeOK
  <2>2. owner[f] = Free /\ owner' = [owner EXCEPT ![f] = t]
    BY <1>3 DEF AcceptCall
  <2> QED  BY <1>3, <2>1, <2>2, Unheld DEF D!Next
<1>4. ASSUME TypeOK, PcShape, Disciplined, NEW t \in Thread, AcceptAbandon(t)
      PROVE  D!Next
  <2> DEFINE f == pc[t].fd
  <2>1. f \in Fd /\ owner[f] \notin Socket \cup {Free}
    BY <1>4, ConstantsAssumption
       DEF AcceptAbandon, PcShape, Disciplined, StillTrue, ConstantsAssumption
  <2>2. \A s \in Socket : Held(s)' = Held(s)
    BY <1>4 DEF AcceptAbandon, Return, Held, Forgetting, TypeOK
  <2>3. owner' = [owner EXCEPT ![f] = Free]
    BY <1>4, <2>1, ConstantsAssumption
       DEF AcceptAbandon, Closed, ConstantsAssumption
  <2> QED  BY <1>4, <2>1, <2>2, <2>3, Unheld DEF D!Next
<1>5. ASSUME TypeOK, PcShape, Disciplined, NEW t \in Thread, AcceptLoses(t)
      PROVE  UNCHANGED D!vars
  <2> DEFINE f == pc[t].fd
  <2>1. f \in Fd /\ owner[f] = t
    BY <1>5 DEF AcceptLoses, PcShape, Disciplined, StillTrue
  <2>2. \A s \in Socket : Held(s)' = Held(s)
    BY <1>5 DEF AcceptLoses, Return, Held, Forgetting, TypeOK
  <2>3. owner' = [owner EXCEPT ![f] = Lost]
    BY <1>5, <2>1 DEF AcceptLoses
  <2>4. /\ {g \in Fd : owner[g] # Free}' = {g \in Fd : owner[g] # Free}
        /\ {g \in Fd : owner[g] = User}' = {g \in Fd : owner[g] = User}
    BY <1>5, <2>1, <2>3, ConstantsAssumption DEF TypeOK, ConstantsAssumption
  <2> QED  BY <2>2, <2>4 DEF D!vars, Held
<1>6. ASSUME TypeOK, Disciplined, NEW f \in Fd, UserClose(f)
      PROVE  D!Next
  <2>1. \A s \in Socket : Held(s)' = Held(s)
    BY <1>6 DEF UserClose, Held, Forgetting
  <2>2. owner[f] \notin Socket \cup {Free} /\ owner' = [owner EXCEPT ![f] = Free]
    BY <1>6, ConstantsAssumption DEF UserClose, Closed, ConstantsAssumption
  <2> QED  BY <1>6, <2>1, <2>2, Unheld DEF D!Next
<1>7. ASSUME TypeOK, PcShape, Disciplined, NEW t \in Thread, CloseRelease(t)
      PROVE  D!Next
  <2> DEFINE s == pc[t].s
  <2>1. s \in Socket /\ fd[s] # NoFd
    BY <1>7 DEF CloseRelease, PcShape, Disciplined, StillTrue
  <2>2. ~Forgetting(s)
    BY <1>7 DEF CloseRelease, Disciplined, Alone, Forgetting, ClosingOps
  <2>3. owner[fd[s]] = s
    BY <1>7, <2>1, <2>2 DEF Disciplined, OwnNumber
  <2>4. /\ pc'[t].op = "reacquire" /\ pc'[t].s = s
        /\ \A u \in Thread \ {t} : pc'[u] = pc[u]
        /\ fd' = fd /\ owner' = [owner EXCEPT ![fd[s]] = Free]
    BY <1>7, <2>1 DEF CloseRelease, Goto, Closed, TypeOK
  <2>5. Forgetting(s)' /\ \A r \in Socket \ {s} : Forgetting(r)' <=> Forgetting(r)
    BY <1>7, <2>4 DEF Forgetting, CloseRelease
  <2>6. Held(s)' = NoFd /\ \A r \in Socket \ {s} : Held(r)' = Held(r)
    BY <2>1, <2>4, <2>5 DEF Held
  <2> QED  BY <1>7, <2>1, <2>2, <2>3, <2>4, <2>6, GiveUp DEF D!Next
<1>8. ASSUME TypeOK, PcShape, Disciplined, NEW t \in Thread, DetachTake(t)
      PROVE  [D!Next]_(D!vars)
  <2> PICK s \in Socket : s = pc[t].s
    BY <1>8 DEF DetachTake, PcShape
  <2>1. ~Forgetting(s)
    BY <1>8 DEF DetachTake, PcShape, Disciplined, Alone, Forgetting, ClosingOps
  <2>2. \A r \in Socket : Forgetting(r)' <=> Forgetting(r)
    BY <1>8 DEF DetachTake, Return, Forgetting, TypeOK
  <2>3. CASE fd[s] = NoFd
    <3>1. UNCHANGED <<fd, owner>>
      BY <1>8, <2>1, <2>3 DEF DetachTake, TypeOK
    <3> QED  BY <2>2, <3>1, SameTable
  <2>4. CASE fd[s] # NoFd
    <3>1. owner[fd[s]] = s
      BY <1>8, <2>1, <2>4 DEF Disciplined, OwnNumber
    <3>2. owner' = [owner EXCEPT ![fd[s]] = User] /\ fd' = [fd EXCEPT ![s] = NoFd]
      BY <1>8, <2>4, <3>1 DEF DetachTake
    <3>3. Held(s)' = NoFd /\ \A r \in Socket \ {s} : Held(r)' = Held(r)
      BY <1>8, <2>1, <2>2, <3>2 DEF Held, TypeOK
    <3> QED  BY <1>8, <2>1, <2>4, <3>1, <3>2, <3>3, GiveUp DEF D!Next
  <2> QED  BY <2>3, <2>4
<1>9. ASSUME TypeOK, PcShape, Disciplined, NEW s \in Socket, FinalizeClose(s)
      PROVE  [D!Next]_(D!vars)
  <2>1. ~Forgetting(s)
    BY <1>9 DEF FinalizeClose, PcShape, Forgetting
  <2>2. \A r \in Socket : Forgetting(r)' <=> Forgetting(r)
    BY <1>9 DEF FinalizeClose, Forgetting
  <2>3. CASE fd[s] = NoFd
    <3>1. UNCHANGED <<fd, owner>>
      BY <1>9, <2>3 DEF FinalizeClose, Closed, TypeOK
    <3> QED  BY <2>2, <3>1, SameTable
  <2>4. CASE fd[s] # NoFd
    <3>1. owner[fd[s]] = s
      BY <1>9, <2>1, <2>4 DEF Disciplined, OwnNumber
    <3>2. owner' = [owner EXCEPT ![fd[s]] = Free] /\ fd' = [fd EXCEPT ![s] = NoFd]
      BY <1>9, <2>4 DEF FinalizeClose, Closed
    <3>3. Held(s)' = NoFd /\ \A r \in Socket \ {s} : Held(r)' = Held(r)
      BY <1>9, <2>1, <2>2, <3>2 DEF Held, TypeOK
    <3> QED  BY <1>9, <2>1, <2>4, <3>1, <3>2, <3>3, GiveUp DEF D!Next
  <2> QED  BY <2>3, <2>4
<1>10. ASSUME TypeOK, PcShape, Disciplined, NEW t \in Thread, CloseForget(t)
      PROVE  UNCHANGED D!vars
  <2> DEFINE s == pc[t].s
  <2>1. s \in Socket /\ Forgetting(s)
    BY <1>10 DEF CloseForget, PcShape, Forgetting
  <2>2. /\ owner' = owner /\ fd' = [fd EXCEPT ![s] = NoFd]
        /\ \A r \in Socket \ {s} : Forgetting(r)' <=> Forgetting(r)
    BY <1>10 DEF CloseForget, Return, Forgetting, TypeOK
  <2>3. \A r \in Socket : Held(r)' = Held(r)
    BY <1>10, <2>1, <2>2 DEF Held, TypeOK
  <2> QED  BY <2>2, <2>3 DEF D!vars, Held
<1>11. ASSUME TypeOK, NEW t \in Thread, NEW s, NEW op,
             \/ InitDone(t) \/ Call(t, s, op) \/ IoCall(t) \/ FileClose(t, s)
             \/ Close(t, s) \/ FileCloses(t) \/ CloseTest(t) \/ Detach(t, s)
      PROVE  UNCHANGED D!vars
  <2>1. UNCHANGED <<fd, owner>>
    BY <1>11
       DEF InitDone, Call, IoCall, FileClose, Close, FileCloses, CloseBody,
                 CloseTest, Detach
  <2>2. /\ pc[t].op # "reacquire"
        /\ \E d : pc' = [pc EXCEPT ![t] = d] /\ d.op # "reacquire"
    BY <1>11
       DEF InitDone, Call, IoCall, FileClose, Close, FileCloses, CloseBody,
                 CloseTest, Detach, Return, Goto, TypeOK
  <2>3. \A r \in Socket : Forgetting(r)' <=> Forgetting(r)
    BY <1>11, <2>2 DEF Forgetting, TypeOK
  <2> QED  BY <2>1, <2>3, SameTable
<1>12. ASSUME NEW t, NEW s,
             MakeFile(t,
               s) \/ Finalize(s) \/ DropStack \/ NewStack \/ UNCHANGED vars
      PROVE  UNCHANGED D!vars
  <2>1. UNCHANGED <<fd, owner, pc>>
    BY <1>12 DEF MakeFile, Finalize, DropStack, NewStack, vars
  <2> QED  BY <2>1, SameTable DEF Forgetting
<1>13. \A t \in Thread : ~InitFail(t)
  BY Discipline DEF Discipline, InitFail
<1> HIDE DEF sockVars, stackVars, Idle, Doing
<1> QED
  BY <1>1, <1>2, <1>3, <1>4, <1>6, <1>7, <1>8, <1>9, <1>10, <1>5, <1>11, <1>12, <1>13
     DEF Shape, Next, Request, LibraryReturns, Continue

\* The interleaved code implements the table in which every close is one step.
THEOREM Refinement ==
  ASSUME Discipline PROVE Spec => ImplementsDescriptors
<1> QED
  BY Discipline, ShapeInvariant, InitKept, KeptStep, DisciplinedInvariant,
     InitRefines, NextRefines, PTL DEF Spec, ImplementsDescriptors, D!Spec

\* No descriptor has two holders: what a socket holds is open, is not the
\* program's, and no second socket holds it.
THEOREM OneHolderInvariant ==
  ASSUME Discipline PROVE Spec => []HeldByOne
<1>1. Shape /\ Disciplined => HeldByOne
  <2> SUFFICES ASSUME TypeOK, Disciplined PROVE D!OneHolder
    BY DEF Shape, HeldByOne
  <2>1. \A s \in Socket : Held(s) # NoFd =>
          Held(s) \in {f \in Fd : owner[f] # Free} \ {f \in Fd : owner[f] = User}
    BY HeldOwn, ConstantsAssumption DEF TypeOK, ConstantsAssumption
  <2>2. \A r, s \in Socket : Held(r) = Held(s) /\ Held(r) # NoFd => r = s
    BY HeldOwn
  <2>3. {f \in Fd : owner[f] = User} \subseteq {f \in Fd : owner[f] # Free}
    BY ConstantsAssumption DEF ConstantsAssumption
  <2> QED  BY <2>1, <2>2, <2>3 DEF D!OneHolder, Held
<1> QED  BY Discipline, ShapeInvariant, DisciplinedInvariant, <1>1, PTL

\* While a file made before the close is open, only detach() takes the
\* descriptor of its socket away.
THEOREM FilesKeepFd ==
  ASSUME Discipline PROVE Spec => FilesKeepFdOpen
<1> DEFINE Keeps == \A f \in Fd, s \in Socket :
      owner[f] = s /\ owner'[f] # s /\ early[s] > 0 => owner'[f] = User
<1> USE DEF TypeOK, PcShape, ObjShape, ConstantsAssumption, Closed
<1>1. ASSUME TypeOK, NEW t, NEW n, NEW g \in Fd,
             \/ NewSocket(t, n, g) \/ AdoptFd(t, n, g)
             \/ AcceptCall(t, g) \/ UserClose(g)
      PROVE  Keeps
  BY <1>1, ConstantsAssumption DEF NewSocket, AdoptFd, AcceptCall, UserClose
<1>2. ASSUME TypeOK, PcShape, Disciplined, NEW t \in Thread, NEW n,
             AcceptWrap(t, n) \/ AcceptAbandon(t) \/ AcceptLoses(t)
      PROVE  Keeps
  BY <1>2, ConstantsAssumption
     DEF AcceptWrap, AcceptAbandon, AcceptLoses, Disciplined, StillTrue
<1>3. ASSUME TypeOK, PcShape, Disciplined, FilesKept, NEW t \in Thread,
             CloseRelease(t)
      PROVE  Keeps
  <2>1. early[pc[t].s] = 0 /\ pc[t].s \in Socket
    BY <1>3 DEF CloseRelease, FilesKept, CloseWaitsForFiles
  <2>2. ~Forgetting(pc[t].s)
    BY <1>3 DEF CloseRelease, Disciplined, Alone, Forgetting, ClosingOps
  <2>3. fd[pc[t].s] # NoFd => owner[fd[pc[t].s]] = pc[t].s
    BY <1>3, <2>1, <2>2 DEF Disciplined, OwnNumber
  <2> QED  BY <1>3, <2>1, <2>3 DEF CloseRelease
<1>4. ASSUME TypeOK, PcShape, ObjShape, Disciplined, NEW s \in Socket,
             FinalizeClose(s)
      PROVE  Keeps
  <2>1. early[s] = 0 /\ ~Forgetting(s)
    BY <1>4 DEF FinalizeClose, Forgetting
  <2>2. fd[s] # NoFd => owner[fd[s]] = s
    BY <1>4, <2>1 DEF Disciplined, OwnNumber
  <2> QED  BY <1>4, <2>1, <2>2 DEF FinalizeClose
<1>5. ASSUME TypeOK, PcShape, NEW t \in Thread, DetachTake(t) PROVE Keeps
  BY <1>5 DEF DetachTake
<1>6. ASSUME NEW t, NEW s, NEW op,
             \/ InitDone(t) \/ Call(t, s, op) \/ IoCall(t) \/ MakeFile(t, s)
             \/ FileClose(t, s) \/ Close(t, s) \/ FileCloses(t) \/ CloseTest(t)
             \/ CloseForget(t) \/ Detach(t, s) \/ Finalize(s)
             \/ DropStack \/ NewStack \/ UNCHANGED vars
      PROVE  owner' = owner
  BY <1>6
     DEF InitDone, Call, IoCall, MakeFile, FileClose, Close, FileCloses,
         CloseBody,
              CloseTest, CloseForget, Detach, Finalize, DropStack, NewStack,
                vars
<1>7. owner' = owner => Keeps
  OBVIOUS
<1>8. \A t \in Thread : ~InitFail(t)
  BY Discipline DEF Discipline, InitFail
<1> HIDE DEF Keeps, TypeOK, PcShape, ObjShape, Closed
<1>9. Shape /\ Disciplined /\ FilesKept /\ [Next]_vars => Keeps
  BY <1>1, <1>2, <1>3, <1>4, <1>5, <1>6, <1>7, <1>8
     DEF Shape, Next, Request, LibraryReturns, Continue
<1>10. Keeps => [Keeps]_vars
  OBVIOUS
<1> QED
  BY Discipline, ShapeInvariant, DisciplinedInvariant, InitFilesKept,
     FilesKeptStep,
     <1>9, PTL DEF Spec, FilesKeepFdOpen, Keeps
=============================================================================
