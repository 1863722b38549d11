------------------------ MODULE SocketObjectsProofs ------------------------
(***************************************************************************)
(* Theorems of SocketObjects for any number of threads, sockets,           *)
(* descriptors and files.                                                  *)
(***************************************************************************)
EXTENDS SocketObjects, FiniteSetTheorems, TLAPS

\* The parts of a thread's record that its program counter determines.
PcShape ==
    \A t \in Thread :
        /\ pc[t].op = "idle" => pc[t].s = NoSocket /\ pc[t].new = NoSocket
        /\ pc[t].op \notin {"idle", "init"} =>
             pc[t].s \in Socket /\ obj[pc[t].s] = "live" /\ pc[t].new = NoSocket
        /\ pc[t].op = "init" =>
             /\ pc[t].new \in Socket /\ obj[pc[t].new] = "init"
             /\ pc[t].s \in Socket => obj[pc[t].s] = "live"
             /\ pc[t].s = NoSocket => stackHeld
        /\ pc[t].op = "wrap" => pc[t].fd \in Fd

\* A socket under construction is known to one thread only.
OneConstructor ==
    \A t, u \in Thread :
        pc[t].op = "init" /\ pc[u].op = "init" /\ pc[t].new = pc[u].new => t = u

\* What the life of an object says about its other fields.
ObjShape ==
    \A s \in Socket :
        /\ obj[s] = "none" => fd[s] = NoFd
        /\ obj[s] # "live" => early[s] = 0 /\ late[s] = 0
        /\ stackRef[s] <=> obj[s] = "live"

Shape == TypeOK /\ PcShape /\ OneConstructor /\ ObjShape /\ StackCountExact

\* The shape holds before the first step.
LEMMA InitShape == Init => Shape
<1> SUFFICES ASSUME Init PROVE Shape
  OBVIOUS
<1> USE DEF Init
<1>1. TypeOK
  BY DEF TypeOK, Life, Ops, Idle, Doing
<1>2. PcShape /\ OneConstructor
  BY DEF PcShape, OneConstructor, Idle, Doing
<1>3. ObjShape
  BY DEF ObjShape
<1>4. StackCountExact
  <2>1. StackRefs = {}
    BY DEF StackRefs
  <2> QED  BY <2>1, FS_EmptySet DEF StackCountExact
<1> QED  BY <1>1, <1>2, <1>3, <1>4 DEF Shape

\* There are finitely many sockets, so the references can be counted.
LEMMA RefsFinite == IsFiniteSet(StackRefs) /\ Cardinality(StackRefs) \in Nat
  BY ConstantsAssumption, FS_Subset, FS_CardinalityType
     DEF ConstantsAssumption, StackRefs

\* The count is at least one for each reference it stands for.
LEMMA CountPositive ==
  ASSUME Shape
  PROVE  /\ \A s \in Socket : stackRef[s] => stackCount \in Nat \ {0}
         /\ stackHeld => stackCount \in Nat \ {0}
<1>1. stackCount = Cardinality(StackRefs) + (IF stackHeld THEN 1 ELSE 0)
  BY DEF Shape, StackCountExact
<1>2. ASSUME NEW s \in Socket, stackRef[s] PROVE Cardinality(StackRefs) # 0
  BY <1>2, RefsFinite, FS_EmptySet DEF StackRefs
<1>3. ASSUME NEW s \in Socket, stackRef[s] PROVE stackCount \in Nat \ {0}
  BY <1>1, <1>2, <1>3, RefsFinite
<1>4. ASSUME stackHeld PROVE stackCount \in Nat \ {0}
  BY <1>1, <1>4, RefsFinite
<1> QED  BY <1>3, <1>4

\* Every step keeps the types.
LEMMA TypeStep ==
  Shape /\ [Next]_vars => TypeOK'
<1> USE DEF TypeOK, Life, Ops, Doing, sockVars, stackVars
<1>1. ASSUME TypeOK, PcShape, NEW t \in Thread, NEW n \in Socket, NEW f \in Fd,
             NewSocket(t, n, f)
      PROVE  TypeOK'
  BY <1>1 DEF NewSocket, Construct
<1>2. ASSUME TypeOK, PcShape, NEW t \in Thread, NEW n \in Socket, NEW f \in Fd,
             AdoptFd(t, n, f)
      PROVE  TypeOK'
  BY <1>2 DEF AdoptFd, Construct
<1>3. ASSUME TypeOK, PcShape, NEW t \in Thread, InitDone(t) PROVE TypeOK'
  BY <1>3 DEF InitDone, Return, Idle, PcShape
<1>4. ASSUME TypeOK, PcShape, NEW t \in Thread, InitFail(t) PROVE TypeOK'
  BY <1>4 DEF InitFail, Return, Idle, Closed, PcShape
<1>5. ASSUME TypeOK, PcShape, NEW t \in Thread, NEW s \in Socket, NEW op,
             Call(t, s, op)
      PROVE  TypeOK'
  BY <1>5 DEF Call
<1>6. ASSUME TypeOK, PcShape, NEW t \in Thread, IoCall(t) PROVE TypeOK'
  BY <1>6 DEF IoCall, Return, Idle
<1>7. ASSUME TypeOK, PcShape, NEW t \in Thread, NEW f \in Fd, AcceptCall(t, f)
      PROVE  TypeOK'
  BY <1>7 DEF AcceptCall
<1>8. ASSUME TypeOK, PcShape, NEW t \in Thread, NEW n \in Socket, AcceptWrap(t,
             n)
      PROVE  TypeOK'
  BY <1>8 DEF AcceptWrap, Construct, PcShape
<1>9. ASSUME TypeOK, PcShape, NEW t \in Thread, AcceptAbandon(t) PROVE TypeOK'
  BY <1>9 DEF AcceptAbandon, Return, Idle, Closed, PcShape
<1>10. ASSUME TypeOK, PcShape, NEW t \in Thread, AcceptLoses(t) PROVE TypeOK'
  BY <1>10 DEF AcceptLoses, Return, Idle, PcShape
<1>11. ASSUME TypeOK, PcShape, NEW t \in Thread, NEW s \in Socket, MakeFile(t,
              s)
       PROVE  TypeOK'
  BY <1>11 DEF MakeFile
<1>12. ASSUME TypeOK, PcShape, NEW t \in Thread, NEW s \in Socket, FileClose(t,
              s)
       PROVE  TypeOK'
  BY <1>12 DEF FileClose
<1>13. ASSUME TypeOK, PcShape, NEW t \in Thread, NEW s \in Socket, Close(t, s)
       PROVE  TypeOK'
  BY <1>13 DEF Close, CloseBody, Idle
<1>14. ASSUME TypeOK, PcShape, NEW t \in Thread, FileCloses(t) PROVE TypeOK'
  BY <1>14 DEF FileCloses, CloseBody, Idle
<1>15. ASSUME TypeOK, PcShape, NEW t \in Thread, CloseTest(t) PROVE TypeOK'
  <2>1. CASE fd[pc[t].s] = NoFd
    BY <1>15, <2>1 DEF CloseTest, Return, Idle
  <2>2. CASE fd[pc[t].s] # NoFd
    BY <1>15, <2>2 DEF CloseTest, Goto
  <2> QED  BY <2>1, <2>2
<1>16. ASSUME TypeOK, PcShape, NEW t \in Thread, CloseRelease(t) PROVE TypeOK'
  <2>1. pc[t].s \in Socket
    BY <1>16 DEF CloseRelease, PcShape
  <2> QED  BY <1>16, <2>1 DEF CloseRelease, Goto, Closed
<1>17. ASSUME TypeOK, PcShape, NEW t \in Thread, CloseForget(t) PROVE TypeOK'
  BY <1>17 DEF CloseForget, Return, Idle, PcShape
<1>18. ASSUME TypeOK, PcShape, NEW t \in Thread, NEW s \in Socket, Detach(t, s)
       PROVE  TypeOK'
  BY <1>18 DEF Detach
<1>19. ASSUME TypeOK, PcShape, NEW t \in Thread, DetachTake(t) PROVE TypeOK'
  BY <1>19 DEF DetachTake, Return, Idle, PcShape
<1>20. ASSUME TypeOK, PcShape, NEW f \in Fd, UserClose(f) PROVE TypeOK'
  BY <1>20 DEF UserClose, Closed
<1>21. ASSUME Shape, TypeOK, NEW s \in Socket, Finalize(s) PROVE TypeOK'
  BY <1>21, CountPositive DEF Finalize
<1>22. ASSUME TypeOK, PcShape, NEW s \in Socket, FinalizeClose(s) PROVE TypeOK'
  BY <1>22 DEF FinalizeClose, Closed
<1>23. ASSUME Shape, TypeOK, DropStack PROVE TypeOK'
  <2>1. stackHeld
    BY <1>23 DEF DropStack
  <2>2. stackCount \in Nat \ {0}
    BY <1>23, <2>1, CountPositive
  <2>3. stackCount' \in Nat
    BY <1>23, <2>2 DEF DropStack
  <2>4. stackHeld' \in BOOLEAN
    BY <1>23 DEF DropStack
  <2> QED  BY <1>23, <2>3, <2>4 DEF DropStack
<1>24. ASSUME TypeOK, PcShape, NewStack PROVE TypeOK'
  BY <1>24 DEF NewStack
<1>25. ASSUME TypeOK, UNCHANGED vars PROVE TypeOK'
  BY <1>25 DEF vars
<1> HIDE DEF TypeOK
<1> QED
  BY <1>1, <1>2, <1>3, <1>4, <1>5, <1>6, <1>7, <1>8, <1>9, <1>10, <1>11, <1>12, <1>13,
     <1>14, <1>15, <1>16, <1>17, <1>18, <1>19, <1>20, <1>21, <1>22, <1>23,
     <1>24, <1>25
     DEF Shape, Next, Request, LibraryReturns, Continue

\* Starting to construct a socket keeps the shape: the object was unknown.
LEMMA ConstructShape ==
  ASSUME TypeOK, PcShape, OneConstructor,
         NEW t \in Thread, NEW n \in Socket, NEW f \in Fd, NEW from,
         Construct(t, n, f, from), UNCHANGED stackHeld,
         from \in Socket \cup {NoSocket},
         from = NoSocket => stackHeld,
         from \in Socket => obj[from] = "live"
  PROVE  (PcShape /\ OneConstructor)'
<1>1. pc'[t] = Doing("init", from, n, NoFd) /\ \A u \in Thread \ {t} : pc'[u] = pc[u]
  BY DEF Construct, TypeOK
<1>2. obj[n] = "none" /\ obj'[n] = "init" /\ \A s \in Socket \ {n} : obj'[s] = obj[s]
  BY DEF Construct, TypeOK
<1>3. \A u \in Thread : pc[u].op = "init" => pc[u].new # n
  BY <1>2 DEF PcShape
<1>4. OneConstructor'
  BY <1>1, <1>3 DEF OneConstructor, Doing
<1>5. ASSUME NEW u \in Thread, u # t
      PROVE  /\ pc[u].op \notin {"idle", "init"} => obj'[pc[u].s] = "live"
             /\ pc[u].op = "init" => /\ obj'[pc[u].new] = "init"
                                     /\ pc[u].s \in Socket => obj'[pc[u].s] = "live"
  BY <1>2, <1>5 DEF PcShape
<1>6. from \in Socket => obj'[from] = "live"
  BY <1>2, ConstantsAssumption DEF ConstantsAssumption
<1>7. PcShape'
  <2> SUFFICES ASSUME NEW u \in Thread PROVE
        /\ pc'[u].op = "idle" => pc'[u].s = NoSocket /\ pc'[u].new = NoSocket
        /\ pc'[u].op \notin {"idle", "init"} =>
             pc'[u].s \in Socket /\ obj'[pc'[u].s] = "live" /\ pc'[u].new = NoSocket
        /\ pc'[u].op = "init" =>
             /\ pc'[u].new \in Socket /\ obj'[pc'[u].new] = "init"
             /\ pc'[u].s \in Socket => obj'[pc'[u].s] = "live"
             /\ pc'[u].s = NoSocket => stackHeld'
        /\ pc'[u].op = "wrap" => pc'[u].fd \in Fd
    BY DEF PcShape
  <2>1. CASE u = t
    <3>1. from = NoSocket => stackHeld'
      BY ConstantsAssumption DEF ConstantsAssumption
    <3> QED  BY <1>1, <1>2, <1>6, <2>1, <3>1 DEF Doing
  <2>2. CASE u # t
    BY <1>1, <1>5, <2>2 DEF PcShape
  <2> QED  BY <2>1, <2>2
<1> QED  BY <1>4, <1>7

\* Every step keeps what the program counters say about the objects.
LEMMA PcShapeStep ==
  Shape /\ [Next]_vars => (PcShape /\ OneConstructor)'
<1> USE DEF PcShape, OneConstructor, TypeOK, Ops, Life, Idle, Doing, sockVars,
            stackVars
<1>1. ASSUME TypeOK, PcShape, OneConstructor, NEW t \in Thread,
             NEW n \in Socket, NEW f \in Fd, NewSocket(t, n, f)
      PROVE  (PcShape /\ OneConstructor)'
  <2>1. Construct(t, n, f, NoSocket) /\ UNCHANGED stackHeld
    BY <1>1 DEF NewSocket
  <2>2. NoSocket \notin Socket /\ stackHeld
    BY <1>1, ConstantsAssumption DEF NewSocket, ConstantsAssumption
  <2> HIDE DEF PcShape, OneConstructor, TypeOK
  <2> QED  BY <1>1, <2>1, <2>2, ConstructShape
<1>2. ASSUME TypeOK, PcShape, OneConstructor, NEW t \in Thread,
             NEW n \in Socket, NEW f \in Fd, AdoptFd(t, n, f)
      PROVE  (PcShape /\ OneConstructor)'
  <2>1. Construct(t, n, f, NoSocket) /\ UNCHANGED stackHeld
    BY <1>2 DEF AdoptFd
  <2>2. NoSocket \notin Socket /\ stackHeld
    BY <1>2, ConstantsAssumption DEF AdoptFd, ConstantsAssumption
  <2> HIDE DEF PcShape, OneConstructor, TypeOK
  <2> QED  BY <1>2, <2>1, <2>2, ConstructShape
<1>3. ASSUME TypeOK, PcShape, OneConstructor, NEW t \in Thread, InitDone(t)
      PROVE  (PcShape /\ OneConstructor)'
  BY <1>3 DEF InitDone, Return
<1>4. ASSUME TypeOK, PcShape, OneConstructor, NEW t \in Thread, InitFail(t)
      PROVE  (PcShape /\ OneConstructor)'
  BY <1>4 DEF InitFail, Return
<1>5. ASSUME TypeOK, PcShape, OneConstructor, NEW t \in Thread,
             NEW s \in Socket, NEW op, Call(t, s, op)
      PROVE  (PcShape /\ OneConstructor)'
  BY <1>5 DEF Call
<1>6. ASSUME TypeOK, PcShape, OneConstructor, NEW t \in Thread, IoCall(t)
      PROVE  (PcShape /\ OneConstructor)'
  BY <1>6 DEF IoCall, Return
<1>7. ASSUME TypeOK, PcShape, OneConstructor, NEW t \in Thread, NEW f \in Fd,
             AcceptCall(t, f)
      PROVE  (PcShape /\ OneConstructor)'
  BY <1>7 DEF AcceptCall
<1>8. ASSUME TypeOK, PcShape, OneConstructor, NEW t \in Thread,
             NEW n \in Socket, AcceptWrap(t, n)
      PROVE  (PcShape /\ OneConstructor)'
  <2>1. Construct(t, n, pc[t].fd, pc[t].s) /\ UNCHANGED stackHeld
    BY <1>8 DEF AcceptWrap
  <2>2. pc[t].fd \in Fd /\ pc[t].s \in Socket /\ pc[t].s # NoSocket /\ obj[pc[t].s] = "live"
    BY <1>8, ConstantsAssumption DEF AcceptWrap, ConstantsAssumption
  <2> HIDE DEF PcShape, OneConstructor, TypeOK
  <2> QED  BY <1>8, <2>1, <2>2, ConstructShape
<1>9. ASSUME TypeOK, PcShape, OneConstructor, NEW t \in Thread, AcceptAbandon(t)
      PROVE  (PcShape /\ OneConstructor)'
  BY <1>9 DEF AcceptAbandon, Return
<1>10. ASSUME TypeOK, PcShape, OneConstructor, NEW t \in Thread, AcceptLoses(t)
      PROVE  (PcShape /\ OneConstructor)'
  BY <1>10 DEF AcceptLoses, Return
<1>11. ASSUME TypeOK, PcShape, OneConstructor, NEW t \in Thread,
              NEW s \in Socket, MakeFile(t, s)
      PROVE  (PcShape /\ OneConstructor)'
  BY <1>11 DEF MakeFile
<1>12. ASSUME TypeOK, PcShape, OneConstructor, NEW t \in Thread,
              NEW s \in Socket, FileClose(t, s)
      PROVE  (PcShape /\ OneConstructor)'
  BY <1>12 DEF FileClose
<1>13. ASSUME TypeOK, PcShape, OneConstructor, NEW t \in Thread,
              NEW s \in Socket, Close(t, s)
      PROVE  (PcShape /\ OneConstructor)'
  BY <1>13 DEF Close, CloseBody
<1>14. ASSUME TypeOK, PcShape, OneConstructor, NEW t \in Thread, FileCloses(t)
      PROVE  (PcShape /\ OneConstructor)'
  BY <1>14 DEF FileCloses, CloseBody
<1>15. ASSUME TypeOK, PcShape, OneConstructor, NEW t \in Thread, CloseTest(t)
      PROVE  (PcShape /\ OneConstructor)'
  BY <1>15 DEF CloseTest, Return, Goto
<1>16. ASSUME TypeOK, PcShape, OneConstructor, NEW t \in Thread, CloseRelease(t)
      PROVE  (PcShape /\ OneConstructor)'
  BY <1>16 DEF CloseRelease, Goto
<1>17. ASSUME TypeOK, PcShape, OneConstructor, NEW t \in Thread, CloseForget(t)
      PROVE  (PcShape /\ OneConstructor)'
  BY <1>17 DEF CloseForget, Return
<1>18. ASSUME TypeOK, PcShape, OneConstructor, NEW t \in Thread,
              NEW s \in Socket, Detach(t, s)
      PROVE  (PcShape /\ OneConstructor)'
  BY <1>18 DEF Detach
<1>19. ASSUME TypeOK, PcShape, OneConstructor, NEW t \in Thread, DetachTake(t)
      PROVE  (PcShape /\ OneConstructor)'
  BY <1>19 DEF DetachTake, Return
<1>20. ASSUME TypeOK, PcShape, OneConstructor, NEW f \in Fd, UserClose(f)
      PROVE  (PcShape /\ OneConstructor)'
  BY <1>20 DEF UserClose
<1>21. ASSUME TypeOK, PcShape, OneConstructor, NEW s \in Socket, Finalize(s)
      PROVE  (PcShape /\ OneConstructor)'
  BY <1>21 DEF Finalize, Unused
<1>22. ASSUME TypeOK, PcShape, OneConstructor, NEW s \in Socket,
              FinalizeClose(s)
      PROVE  (PcShape /\ OneConstructor)'
  BY <1>22 DEF FinalizeClose
<1>23. ASSUME TypeOK, PcShape, OneConstructor, DropStack
      PROVE  (PcShape /\ OneConstructor)'
  BY <1>23 DEF DropStack
<1>24. ASSUME TypeOK, PcShape, OneConstructor, NewStack
      PROVE  (PcShape /\ OneConstructor)'
  BY <1>24 DEF NewStack
<1>25. ASSUME TypeOK, PcShape, OneConstructor, UNCHANGED vars
       PROVE  (PcShape /\ OneConstructor)'
  BY <1>25 DEF vars
<1> HIDE DEF PcShape, OneConstructor
<1> QED
  BY <1>1, <1>2, <1>3, <1>4, <1>5, <1>6, <1>7, <1>8, <1>9, <1>10, <1>11, <1>12, <1>13,
     <1>14, <1>15, <1>16, <1>17, <1>18, <1>19, <1>20, <1>21, <1>22, <1>23,
     <1>24, <1>25
     DEF Shape, Next, Request, LibraryReturns, Continue

\* Every step keeps what the life of an object says about its fields.
LEMMA ObjShapeStep ==
  Shape /\ [Next]_vars => ObjShape'
<1> USE DEF ObjShape, PcShape, TypeOK, Ops, Life, Idle, Doing, sockVars,
            stackVars
<1>1. ASSUME TypeOK, PcShape, ObjShape, NEW t \in Thread, NEW n \in Socket,
             NEW f \in Fd, NewSocket(t, n, f)
      PROVE  ObjShape'
  BY <1>1 DEF NewSocket, Construct
<1>2. ASSUME TypeOK, PcShape, ObjShape, NEW t \in Thread, NEW n \in Socket,
             NEW f \in Fd, AdoptFd(t, n, f)
      PROVE  ObjShape'
  BY <1>2 DEF AdoptFd, Construct
<1>3. ASSUME TypeOK, PcShape, ObjShape, NEW t \in Thread, InitDone(t)
      PROVE  ObjShape'
  BY <1>3 DEF InitDone, Return
<1>4. ASSUME TypeOK, PcShape, ObjShape, NEW t \in Thread, InitFail(t)
      PROVE  ObjShape'
  BY <1>4 DEF InitFail, Return
<1>5. ASSUME TypeOK, PcShape, ObjShape, NEW t \in Thread, NEW n \in Socket,
             AcceptWrap(t, n)
      PROVE  ObjShape'
  BY <1>5 DEF AcceptWrap, Construct
<1>6. ASSUME TypeOK, PcShape, ObjShape, NEW t \in Thread, NEW s \in Socket,
             MakeFile(t, s)
      PROVE  ObjShape'
  BY <1>6 DEF MakeFile
<1>7. ASSUME TypeOK, PcShape, ObjShape, NEW t \in Thread, NEW s \in Socket,
             FileClose(t, s)
      PROVE  ObjShape'
  BY <1>7 DEF FileClose
<1>8. ASSUME TypeOK, PcShape, ObjShape, NEW t \in Thread, CloseForget(t)
      PROVE  ObjShape'
  BY <1>8 DEF CloseForget, Return
<1>9. ASSUME TypeOK, PcShape, ObjShape, NEW t \in Thread, DetachTake(t)
      PROVE  ObjShape'
  BY <1>9 DEF DetachTake, Return
<1>10. ASSUME TypeOK, PcShape, ObjShape, NEW s \in Socket, Finalize(s)
      PROVE  ObjShape'
  BY <1>10 DEF Finalize
<1>11. ASSUME TypeOK, PcShape, ObjShape, NEW s \in Socket, FinalizeClose(s)
      PROVE  ObjShape'
  BY <1>11 DEF FinalizeClose
<1>12. ASSUME NEW f, NEW op, NEW s, NEW t,
             \/ Call(t, s, op) \/ IoCall(t) \/ AcceptCall(t, f)
             \/ AcceptAbandon(t) \/ AcceptLoses(t) \/ Close(t, s) \/ FileCloses(t)
             \/ CloseTest(t) \/ CloseRelease(t) \/ Detach(t, s)
             \/ UserClose(f) \/ DropStack \/ NewStack \/ UNCHANGED vars
      PROVE  UNCHANGED <<obj, fd, early, late, stackRef>>
  BY <1>12 DEF Call, IoCall, AcceptCall, AcceptAbandon, AcceptLoses, Close, CloseBody,
           FileCloses, CloseTest, CloseRelease, Detach, UserClose,
           DropStack, NewStack, vars
<1>13. ASSUME TypeOK, PcShape, ObjShape, UNCHANGED <<obj, fd, early, late,
              stackRef>>
       PROVE  ObjShape'
  BY <1>13
<1> HIDE DEF ObjShape, PcShape, TypeOK
<1> QED
  BY <1>1, <1>2, <1>3, <1>4, <1>5, <1>6, <1>7, <1>8, <1>9, <1>10, <1>11, <1>12,
     <1>13
     DEF Shape, Next, Request, LibraryReturns, Continue

\* Every step changes the count and the references together.
LEMMA CountStep ==
  Shape /\ [Next]_vars => StackCountExact'
<1> USE DEF sockVars, stackVars
<1>1. ASSUME TypeOK, PcShape, ObjShape, StackCountExact, NEW t \in Thread,
             InitDone(t)
      PROVE  StackCountExact'
  <2> DEFINE n == pc[t].new
  <2>1. n \in Socket /\ ~stackRef[n]
    BY <1>1 DEF InitDone, PcShape, ObjShape
  <2>2. StackRefs' = StackRefs \cup {n}
    BY <1>1, <2>1 DEF InitDone, StackRefs, TypeOK
  <2>3. Cardinality(StackRefs') = Cardinality(StackRefs) + 1
    BY <2>1, <2>2, RefsFinite, FS_AddElement DEF StackRefs
  <2> QED  BY <1>1, <2>3, RefsFinite DEF InitDone, StackCountExact
<1>2. ASSUME TypeOK, PcShape, ObjShape, StackCountExact, NEW s \in Socket,
             Finalize(s)
      PROVE  StackCountExact'
  <2>1. CASE stackRef[s]
    <3>1. StackRefs' = StackRefs \ {s}
      BY <1>2 DEF Finalize, StackRefs, TypeOK
    <3>2. Cardinality(StackRefs') = Cardinality(StackRefs) - 1
      BY <2>1, <3>1, RefsFinite, FS_RemoveElement DEF StackRefs
    <3> QED  BY <1>2, <2>1, <3>2, RefsFinite DEF Finalize, StackCountExact
  <2>2. CASE ~stackRef[s]
    <3>1. StackRefs' = StackRefs
      BY <1>2, <2>2 DEF Finalize, StackRefs, TypeOK
    <3> QED  BY <1>2, <2>2, <3>1 DEF Finalize, StackCountExact
  <2> QED  BY <2>1, <2>2
<1>3. ASSUME TypeOK, PcShape, ObjShape, StackCountExact, DropStack
      PROVE  StackCountExact'
  <2>1. StackRefs' = StackRefs
    BY <1>3 DEF DropStack, StackRefs
  <2> QED  BY <1>3, <2>1, RefsFinite DEF DropStack, StackCountExact
<1>4. ASSUME TypeOK, PcShape, ObjShape, StackCountExact, NewStack
      PROVE  StackCountExact'
  <2>1. StackRefs' = StackRefs
    BY <1>4 DEF NewStack, StackRefs
  <2> QED  BY <1>4, <2>1, RefsFinite DEF NewStack, StackCountExact
<1>5. ASSUME NEW f, NEW n, NEW op, NEW s, NEW t,
             \/ NewSocket(t, n, f) \/ AdoptFd(t, n, f) \/ InitFail(t)
             \/ Call(t, s, op) \/ IoCall(t) \/ AcceptCall(t, f)
             \/ AcceptWrap(t, n) \/ AcceptAbandon(t) \/ AcceptLoses(t) \/ MakeFile(t, s)
             \/ FileClose(t, s) \/ Close(t, s) \/ FileCloses(t)
             \/ CloseTest(t) \/ CloseRelease(t) \/ CloseForget(t)
             \/ Detach(t, s) \/ DetachTake(t) \/ UserClose(f)
             \/ FinalizeClose(s) \/ UNCHANGED vars
      PROVE  UNCHANGED stackVars
  BY <1>5 DEF NewSocket, Construct, AdoptFd, InitFail, Call, IoCall,
           AcceptCall, AcceptWrap, AcceptAbandon, AcceptLoses, MakeFile, FileClose,
           Close, CloseBody, FileCloses, CloseTest, CloseRelease,
           CloseForget, Detach, DetachTake, UserClose, FinalizeClose, vars
<1>6. ASSUME TypeOK, PcShape, ObjShape, StackCountExact, UNCHANGED stackVars
      PROVE  StackCountExact'
  BY <1>6 DEF StackCountExact, StackRefs
<1> HIDE DEF stackVars, sockVars
<1> QED
  BY <1>1, <1>2, <1>3, <1>4, <1>5, <1>6
     DEF Shape, Next, Request, LibraryReturns, Continue

\* The inductive invariant the other proofs start from: types, program counters,
\* lives of objects and the reference count of the stack agree at all times.
THEOREM ShapeInvariant == Spec => []Shape
<1>1. Shape /\ [Next]_vars => Shape'
  BY TypeStep, PcShapeStep, ObjShapeStep, CountStep DEF Shape
<1> QED  BY InitShape, <1>1, PTL DEF Spec

\* Every variable keeps its type, for any threads, sockets and descriptors and
\* however calls overlap.
THEOREM TypeCorrect == Spec => []TypeOK
<1>1. Shape => TypeOK
  BY DEF Shape
<1> QED  BY ShapeInvariant, <1>1, PTL

----------------------------------------------------------------------------
\* A close that has returned leaves its socket without a descriptor.
ForgottenOwnsNothing ==
    \A t \in Thread, f \in Fd : pc[t].op = "reacquire" => owner[f] # pc[t].s

Kept == LostByAcceptOnly /\ ForgottenOwnsNothing

\* Before the first step no descriptor is open.
LEMMA InitKept == Init => Kept
  BY ConstantsAssumption
     DEF ConstantsAssumption, Init, Kept, LostByAcceptOnly,
         ForgottenOwnsNothing, Idle, Doing

\* No step leaves an open descriptor without an owner that knows it.
LEMMA KeptStep ==
  Shape /\ Kept /\ [Next]_vars => Kept'
<1> USE DEF ConstantsAssumption
<1> USE DEF Kept, LostByAcceptOnly, ForgottenOwnsNothing, TypeOK, PcShape,
            ObjShape, Ops, Life, Idle, Doing, sockVars, stackVars
<1>1. ASSUME TypeOK, PcShape, OneConstructor, ObjShape, Kept, NEW t \in Thread,
             NEW n \in Socket, NEW f \in Fd, NewSocket(t, n, f)
      PROVE  Kept'
  BY ConstantsAssumption, <1>1 DEF NewSocket, Construct
<1>2. ASSUME TypeOK, PcShape, OneConstructor, ObjShape, Kept, NEW t \in Thread,
             NEW n \in Socket, NEW f \in Fd, AdoptFd(t, n, f)
      PROVE  Kept'
  BY ConstantsAssumption, <1>2 DEF AdoptFd, Construct
<1>3. ASSUME TypeOK, PcShape, OneConstructor, ObjShape, Kept, NEW t \in Thread,
             InitDone(t)
      PROVE  Kept'
  BY ConstantsAssumption, <1>3 DEF InitDone, Return
<1>4. ASSUME TypeOK, PcShape, OneConstructor, ObjShape, Kept, NEW t \in Thread,
             InitFail(t)
      PROVE  Kept'
  BY ConstantsAssumption, <1>4 DEF InitFail, Return, Closed
<1>5. ASSUME TypeOK, PcShape, OneConstructor, ObjShape, Kept, NEW t \in Thread,
             NEW s \in Socket, NEW op, Call(t, s, op)
      PROVE  Kept'
  BY ConstantsAssumption, <1>5 DEF Call
<1>6. ASSUME TypeOK, PcShape, OneConstructor, ObjShape, Kept, NEW t \in Thread,
             IoCall(t)
      PROVE  Kept'
  BY ConstantsAssumption, <1>6 DEF IoCall, Return
<1>7. ASSUME TypeOK, PcShape, OneConstructor, ObjShape, Kept, NEW t \in Thread,
             NEW f \in Fd, AcceptCall(t, f)
      PROVE  Kept'
  BY ConstantsAssumption, <1>7 DEF AcceptCall
<1>8. ASSUME TypeOK, PcShape, OneConstructor, ObjShape, Kept, NEW t \in Thread,
             NEW n \in Socket, AcceptWrap(t, n)
      PROVE  Kept'
  BY ConstantsAssumption, <1>8 DEF AcceptWrap, Construct
<1>9. ASSUME TypeOK, PcShape, OneConstructor, ObjShape, Kept, NEW t \in Thread,
             AcceptAbandon(t)
      PROVE  Kept'
  BY ConstantsAssumption, <1>9 DEF AcceptAbandon, Return, Closed
<1>10. ASSUME TypeOK, PcShape, OneConstructor, ObjShape, Kept, NEW t \in Thread,
             AcceptLoses(t)
      PROVE  Kept'
  BY ConstantsAssumption, <1>10 DEF AcceptLoses, Return
<1>11. ASSUME TypeOK, PcShape, OneConstructor, ObjShape, Kept,
              NEW t \in Thread, NEW s \in Socket, FileClose(t, s)
      PROVE  Kept'
  BY ConstantsAssumption, <1>11 DEF FileClose
<1>12. ASSUME TypeOK, PcShape, OneConstructor, ObjShape, Kept,
              NEW t \in Thread, NEW s \in Socket, Close(t, s)
      PROVE  Kept'
  BY ConstantsAssumption, <1>12 DEF Close, CloseBody
<1>13. ASSUME TypeOK, PcShape, OneConstructor, ObjShape, Kept,
              NEW t \in Thread, FileCloses(t)
      PROVE  Kept'
  BY ConstantsAssumption, <1>13 DEF FileCloses, CloseBody
<1>14. ASSUME TypeOK, PcShape, OneConstructor, ObjShape, Kept,
              NEW t \in Thread, CloseTest(t)
      PROVE  Kept'
  BY ConstantsAssumption, <1>14 DEF CloseTest, Return, Goto
<1>15. ASSUME TypeOK, PcShape, OneConstructor, ObjShape, Kept,
              NEW t \in Thread, CloseRelease(t)
      PROVE  Kept'
  BY ConstantsAssumption, <1>15 DEF CloseRelease, Goto, Closed
<1>16. ASSUME TypeOK, PcShape, OneConstructor, ObjShape, Kept,
              NEW t \in Thread, CloseForget(t)
      PROVE  Kept'
  BY ConstantsAssumption, <1>16 DEF CloseForget, Return
<1>17. ASSUME TypeOK, PcShape, OneConstructor, ObjShape, Kept,
              NEW t \in Thread, NEW s \in Socket, Detach(t, s)
      PROVE  Kept'
  BY ConstantsAssumption, <1>17 DEF Detach
<1>18. ASSUME TypeOK, PcShape, OneConstructor, ObjShape, Kept,
              NEW t \in Thread, DetachTake(t)
      PROVE  Kept'
  BY ConstantsAssumption, <1>18 DEF DetachTake, Return
<1>19. ASSUME TypeOK, PcShape, OneConstructor, ObjShape, Kept, NEW f \in Fd,
              UserClose(f)
      PROVE  Kept'
  BY ConstantsAssumption, <1>19 DEF UserClose, Closed
<1>20. ASSUME TypeOK, PcShape, OneConstructor, ObjShape, Kept,
              NEW s \in Socket, Finalize(s)
      PROVE  Kept'
  BY ConstantsAssumption, <1>20 DEF Finalize, Unused
<1>21. ASSUME TypeOK, PcShape, OneConstructor, ObjShape, Kept,
              NEW s \in Socket, FinalizeClose(s)
      PROVE  Kept'
  BY ConstantsAssumption, <1>21 DEF FinalizeClose, Closed
<1>22. ASSUME NEW s, NEW t,
             \/ MakeFile(t, s) \/ DropStack \/ NewStack \/ UNCHANGED vars
      PROVE  UNCHANGED <<obj, fd, owner, pc>>
  BY ConstantsAssumption, <1>22 DEF MakeFile, DropStack, NewStack, vars
<1>23. ASSUME TypeOK, PcShape, OneConstructor, ObjShape, Kept, UNCHANGED <<obj,
              fd, owner, pc>>
       PROVE  Kept'
  BY ConstantsAssumption, <1>23
<1> HIDE DEF Kept, TypeOK, PcShape, ObjShape
<1> QED
  BY <1>1, <1>2, <1>3, <1>4, <1>5, <1>6, <1>7, <1>8, <1>9, <1>10, <1>11, <1>12, <1>13,
     <1>14, <1>15, <1>16, <1>17, <1>18, <1>19, <1>20, <1>21, <1>22, <1>23
     DEF Shape, Next, Request, LibraryReturns, Continue

\* No descriptor is lost but by an accept() that raises once it has one: every
\* other open one belongs to an object that will close it, to an accept() under
\* way or to the program, even if closes overlap other calls and constructors
\* fail.
THEOREM OnlyAcceptLoses == Spec => []LostByAcceptOnly
<1>1. Kept => LostByAcceptOnly
  BY DEF Kept
<1> QED  BY ShapeInvariant, InitKept, KeptStep, <1>1, PTL DEF Spec

----------------------------------------------------------------------------
\* Before the first step there is no file.
LEMMA InitFilesKept == Init => FilesKept
  BY DEF Init, FilesKept, CloseWaitsForFiles, IoRefsExact, Idle, Doing

\* Every step counts the files exactly and keeps closing threads waiting.
LEMMA FilesKeptStep ==
  Shape /\ FilesKept /\ [Next]_vars => FilesKept'
<1> USE DEF FilesKept, CloseWaitsForFiles, IoRefsExact, TypeOK, PcShape,
            ObjShape, Ops, Life, Idle, Doing, sockVars, stackVars
<1>1. ASSUME TypeOK, PcShape, ObjShape, FilesKept, NEW t \in Thread,
             NEW n \in Socket, NEW f \in Fd, NewSocket(t, n, f)
      PROVE  FilesKept'
  BY <1>1 DEF NewSocket, Construct
<1>2. ASSUME TypeOK, PcShape, ObjShape, FilesKept, NEW t \in Thread,
             NEW n \in Socket, NEW f \in Fd, AdoptFd(t, n, f)
      PROVE  FilesKept'
  BY <1>2 DEF AdoptFd, Construct
<1>3. ASSUME TypeOK, PcShape, ObjShape, FilesKept, NEW t \in Thread, InitDone(t)
      PROVE  FilesKept'
  BY <1>3 DEF InitDone, Return
<1>4. ASSUME TypeOK, PcShape, ObjShape, FilesKept, NEW t \in Thread, InitFail(t)
      PROVE  FilesKept'
  BY <1>4 DEF InitFail, Return
<1>5. ASSUME TypeOK, PcShape, ObjShape, FilesKept, NEW t \in Thread,
             NEW s \in Socket, NEW op, Call(t, s, op)
      PROVE  FilesKept'
  BY <1>5 DEF Call
<1>6. ASSUME TypeOK, PcShape, ObjShape, FilesKept, NEW t \in Thread, IoCall(t)
      PROVE  FilesKept'
  BY <1>6 DEF IoCall, Return
<1>7. ASSUME TypeOK, PcShape, ObjShape, FilesKept, NEW t \in Thread,
             NEW f \in Fd, AcceptCall(t, f)
      PROVE  FilesKept'
  BY <1>7 DEF AcceptCall
<1>8. ASSUME TypeOK, PcShape, ObjShape, FilesKept, NEW t \in Thread,
             NEW n \in Socket, AcceptWrap(t, n)
      PROVE  FilesKept'
  BY <1>8 DEF AcceptWrap, Construct
<1>9. ASSUME TypeOK, PcShape, ObjShape, FilesKept, NEW t \in Thread,
             AcceptAbandon(t)
      PROVE  FilesKept'
  BY <1>9 DEF AcceptAbandon, Return
<1>10. ASSUME TypeOK, PcShape, ObjShape, FilesKept, NEW t \in Thread,
             AcceptLoses(t)
      PROVE  FilesKept'
  BY <1>10 DEF AcceptLoses, Return
<1>11. ASSUME TypeOK, PcShape, ObjShape, FilesKept, NEW t \in Thread,
              NEW s \in Socket, MakeFile(t, s)
      PROVE  FilesKept'
  BY <1>11 DEF MakeFile
<1>12. ASSUME TypeOK, PcShape, ObjShape, FilesKept, NEW t \in Thread,
              NEW s \in Socket, FileClose(t, s)
      PROVE  FilesKept'
  BY <1>12 DEF FileClose
<1>13. ASSUME TypeOK, PcShape, ObjShape, FilesKept, NEW t \in Thread,
              NEW s \in Socket, Close(t, s)
      PROVE  FilesKept'
  BY <1>13 DEF Close, CloseBody
<1>14. ASSUME TypeOK, PcShape, ObjShape, FilesKept, NEW t \in Thread,
              FileCloses(t)
      PROVE  FilesKept'
  BY <1>14 DEF FileCloses, CloseBody
<1>15. ASSUME TypeOK, PcShape, ObjShape, FilesKept, NEW t \in Thread,
              CloseTest(t)
      PROVE  FilesKept'
  BY <1>15 DEF CloseTest, Return, Goto
<1>16. ASSUME TypeOK, PcShape, ObjShape, FilesKept, NEW t \in Thread,
              CloseRelease(t)
      PROVE  FilesKept'
  BY <1>16 DEF CloseRelease, Goto
<1>17. ASSUME TypeOK, PcShape, ObjShape, FilesKept, NEW t \in Thread,
              CloseForget(t)
      PROVE  FilesKept'
  BY <1>17 DEF CloseForget, Return
<1>18. ASSUME TypeOK, PcShape, ObjShape, FilesKept, NEW t \in Thread,
              NEW s \in Socket, Detach(t, s)
      PROVE  FilesKept'
  BY <1>18 DEF Detach
<1>19. ASSUME TypeOK, PcShape, ObjShape, FilesKept, NEW t \in Thread,
              DetachTake(t)
      PROVE  FilesKept'
  BY <1>19 DEF DetachTake, Return
<1>20. ASSUME TypeOK, PcShape, ObjShape, FilesKept, NEW s \in Socket,
              Finalize(s)
      PROVE  FilesKept'
  BY <1>20 DEF Finalize, Unused
<1>21. ASSUME TypeOK, PcShape, ObjShape, FilesKept, NEW s \in Socket,
              FinalizeClose(s)
      PROVE  FilesKept'
  BY <1>21 DEF FinalizeClose
<1>22. ASSUME NEW f,
             \/ UserClose(f) \/ DropStack \/ NewStack \/ UNCHANGED vars
      PROVE  UNCHANGED <<obj, closed, ioRefs, early, late, pc>>
  BY <1>22 DEF UserClose, DropStack, NewStack, vars
<1>23. ASSUME TypeOK, PcShape, ObjShape, FilesKept, UNCHANGED <<obj, closed,
              ioRefs, early, late, pc>>
       PROVE  FilesKept'
  BY <1>23
<1> HIDE DEF FilesKept, TypeOK, PcShape, ObjShape
<1> QED
  BY <1>1, <1>2, <1>3, <1>4, <1>5, <1>6, <1>7, <1>8, <1>9, <1>10, <1>11, <1>12, <1>13,
     <1>14, <1>15, <1>16, <1>17, <1>18, <1>19, <1>20, <1>21, <1>22, <1>23
     DEF Shape, Next, Request, LibraryReturns, Continue

\* close() never starts to close a descriptor while a file made before it is
\* open, because _io_refs counts the files exactly, for any overlap of calls.
THEOREM FilesAreWaitedFor == Spec => []FilesKept
<1> QED  BY ShapeInvariant, InitFilesKept, FilesKeptStep, PTL DEF Spec

----------------------------------------------------------------------------
\* An object under construction has a thread that constructs it.
Built ==
    \A s \in Socket :
        obj[s] = "init" => \E t \in Thread : pc[t].op = "init" /\ pc[t].new = s

\* Every step keeps the constructing thread with its object.
LEMMA BuiltStep ==
  Shape /\ Built /\ [Next]_vars => Built'
<1> USE DEF TypeOK, PcShape, Doing, Idle
<1>1. ASSUME TypeOK, PcShape, Built, NEW t \in Thread, NEW n \in Socket, NEW f,
             NEW from, Construct(t, n, f, from), pc[t].op \in {"idle", "wrap"}
      PROVE  Built'
  <2> SUFFICES ASSUME NEW s \in Socket, obj'[s] = "init"
               PROVE  \E u \in Thread : pc'[u].op = "init" /\ pc'[u].new = s
    BY DEF Built
  <2>1. CASE s = n
    BY <1>1, <2>1 DEF Construct
  <2>2. CASE s # n
    <3>1. PICK u \in Thread : pc[u].op = "init" /\ pc[u].new = s
      BY <1>1, <2>2 DEF Construct, Built
    <3> QED  BY <1>1, <3>1 DEF Construct
  <2> QED  BY <2>1, <2>2
<1>2. ASSUME TypeOK, PcShape, Built, NEW t \in Thread, NEW n \in Socket, NEW f,
             NewSocket(t, n, f) \/ AdoptFd(t, n, f)
      PROVE  Built'
  BY <1>1, <1>2 DEF NewSocket, AdoptFd
<1>3. ASSUME TypeOK, PcShape, Built, NEW t \in Thread, NEW n \in Socket,
             AcceptWrap(t, n)
      PROVE  Built'
  BY <1>1, <1>3 DEF AcceptWrap
<1>4. ASSUME TypeOK, PcShape, Built, NEW t \in Thread, InitDone(t) \/ InitFail(t)
      PROVE  Built'
  <2> SUFFICES ASSUME NEW s \in Socket, obj'[s] = "init"
               PROVE  \E u \in Thread : pc'[u].op = "init" /\ pc'[u].new = s
    BY DEF Built
  <2>1. s # pc[t].new /\ obj[s] = "init"
    BY <1>4 DEF InitDone, InitFail
  <2>2. PICK u \in Thread : pc[u].op = "init" /\ pc[u].new = s
    BY <1>4, <2>1 DEF Built
  <2> QED  BY <1>4, <2>1, <2>2 DEF InitDone, InitFail, Return
<1>5. ASSUME TypeOK, PcShape, Built, NEW t \in Thread, pc[t].op # "init",
             \A u \in Thread \ {t} : pc'[u] = pc[u], obj' = obj
      PROVE  Built'
  BY <1>5 DEF Built
<1>6. ASSUME TypeOK, PcShape, Built, NEW t \in Thread, NEW s, NEW f, NEW op,
             \/ Call(t, s, op) \/ IoCall(t) \/ AcceptCall(t, f) \/ AcceptAbandon(t)
             \/ AcceptLoses(t) \/ FileClose(t, s) \/ Close(t, s) \/ FileCloses(t) \/ CloseTest(t)
             \/ CloseRelease(t) \/ CloseForget(t) \/ Detach(t, s) \/ DetachTake(t)
      PROVE  Built'
  <2>1. pc[t].op # "init" /\ obj' = obj
    BY <1>6 DEF Call, IoCall, AcceptCall, AcceptAbandon, AcceptLoses, FileClose, Close,
                FileCloses, CloseBody, CloseTest, CloseRelease, CloseForget, Detach, DetachTake
  <2>2. \A u \in Thread \ {t} : pc'[u] = pc[u]
    BY <1>6 DEF Call, IoCall, AcceptCall, AcceptAbandon, AcceptLoses, FileClose, Close,
                FileCloses, CloseBody, CloseTest, CloseRelease, CloseForget, Detach, DetachTake,
                Return, Goto
  <2> QED  BY <1>5, <1>6, <2>1, <2>2
<1>7. ASSUME TypeOK, Built, NEW s, Finalize(s) \/ FinalizeClose(s)
      PROVE  Built'
  BY <1>7 DEF Finalize, FinalizeClose, Built
<1>8. ASSUME Built, NEW t, NEW s, NEW f,
             \/ MakeFile(t, s) \/ UserClose(f) \/ DropStack \/ NewStack
             \/ UNCHANGED vars
      PROVE  Built'
  BY <1>8 DEF MakeFile, UserClose, DropStack, NewStack, vars, Built
<1> HIDE DEF TypeOK, PcShape, Built
<1> QED
  BY <1>2, <1>3, <1>4, <1>6, <1>7, <1>8
     DEF Shape, Next, Request, LibraryReturns, Continue

\* Every socket that is usable or under construction finds its Stack alive, and
\* the Stack's count is exact, for any overlap of calls.
THEOREM StackAlive == Spec => []StackCounted
<1>1. Init => Built
  BY DEF Init, Built
<1>2. Shape /\ Built => StackAliveForSockets
  <2> SUFFICES ASSUME Shape, Built, NEW s \in Socket, obj[s] \in {"init", "live"}
               PROVE  stackCount > 0
    BY DEF StackAliveForSockets
  <2> USE DEF Shape, TypeOK, PcShape, ObjShape
  <2>1. \A r \in Socket : obj[r] = "live" => stackCount > 0
    BY CountPositive
  <2>2. CASE obj[s] = "init"
    <3>1. PICK t \in Thread : pc[t].op = "init" /\ pc[t].new = s
      BY <2>2 DEF Built
    <3>2. pc[t].s \in Socket \/ stackHeld
      BY <3>1
    <3> QED  BY <2>1, <3>1, <3>2, CountPositive
  <2> QED  BY <2>1, <2>2
<1>3. Shape /\ Built => StackCounted
  BY <1>2 DEF Shape, StackCounted
<1> QED  BY ShapeInvariant, BuiltStep, <1>1, <1>3, PTL DEF Spec
=============================================================================
