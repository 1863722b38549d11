--------------------------- MODULE SocketObjects ---------------------------
(***************************************************************************)
(* Who owns which descriptor: MSocket objects (msocket.py over the C type  *)
(* MSocketBase), the files made from them, the descriptors of the library, *)
(* and the reference each socket holds on its Stack.                       *)
(*                                                                         *)
(* One action is one stretch of code that runs with the GIL held, or one   *)
(* library call made with the GIL released.  The interpreter switches      *)
(* threads on entry to a Python function, after a call into C, and where   *)
(* the C code releases the GIL, so a method is cut exactly there.          *)
(***************************************************************************)
EXTENDS Naturals, FiniteSets

CONSTANTS
    Thread, Socket, Fd,
    NoFd,             \* s->fd == -1
    NoSocket,
    Free, User,       \* owners of a descriptor that are not sockets
    Lost,             \* owner of one that is open and that nobody knows any more
    MaxFiles,         \* bound: open files per socket
    ConcurrentClose,  \* may a close overlap another call on the same socket?
    FcntlMayFail      \* may the fcntl made by the constructor fail?

ASSUME ConstantsAssumption ==
    /\ NoFd \notin Fd /\ NoSocket \notin Socket
    /\ Free # User /\ Lost \notin {Free, User}
    /\ {Free, User, Lost} \cap (Socket \cup Thread) = {}
    /\ Socket \cap Thread = {}
    /\ MaxFiles \in Nat
    /\ IsFiniteSet(Socket)
    /\ ConcurrentClose \in BOOLEAN /\ FcntlMayFail \in BOOLEAN

VARIABLES
    obj,         \* life of each socket object
    fd,          \* s->fd
    closed,      \* MSocket._closed
    ioRefs,      \* MSocket._io_refs
    early, late, \* open SocketIO made before, after _closed was set
    owner,       \* the descriptor table: who each descriptor belongs to
    stackRef,    \* s->stack != NULL
    stackCount,  \* reference count of the Stack object
    stackHeld,   \* the program itself still refers to the Stack
    pc           \* what each thread is doing

sockVars  == <<closed, ioRefs, early, late>>
stackVars == <<stackRef, stackCount, stackHeld>>
vars == <<obj, fd, sockVars, owner, stackVars, pc>>

Ops == {"idle", "close", "cclose", "release", "reacquire", "detach",
        "io", "accept", "wrap", "init"}
ClosingOps == {"close", "cclose", "release", "reacquire", "detach"}
Life == {"none", "init", "failed", "live", "dying"}

Doing(op, s, new, f) == [op |-> op, s |-> s, new |-> new, fd |-> f]
Idle == Doing("idle", NoSocket, NoSocket, NoFd)
Goto(t, op) == pc' = [pc EXCEPT ![t] = [@ EXCEPT !.op = op]]
Return(t)   == pc' = [pc EXCEPT ![t] = Idle]

Init ==
    /\ obj = [s \in Socket |-> "none"]
    /\ fd = [s \in Socket |-> NoFd]
    /\ closed = [s \in Socket |-> FALSE]
    /\ ioRefs = [s \in Socket |-> 0]
    /\ early = [s \in Socket |-> 0]
    /\ late = [s \in Socket |-> 0]
    /\ owner = [f \in Fd |-> Free]
    /\ stackRef = [s \in Socket |-> FALSE]
    /\ stackCount = 1
    /\ stackHeld = TRUE
    /\ pc = [t \in Thread |-> Idle]

(***************************************************************************)
(* The GIL is free for another thread unless a finalizer is half-way: it   *)
(* never releases it.                                                      *)
(***************************************************************************)
Gil == \A s \in Socket : obj[s] # "dying"

\* Nothing refers to s but variables of the program.
Unused(s) == \A t \in Thread : pc[t].s # s /\ pc[t].new # s

(***************************************************************************)
(* The caller's discipline.  Without ConcurrentClose a program closes or   *)
(* detaches a socket only when no other thread is in a call on it; calls   *)
(* that do not close may always overlap.                                   *)
(***************************************************************************)
MayClose(t, s) ==
    ConcurrentClose \/ \A u \in Thread \ {t} : pc[u].s # s
MayUse(t, s) ==
    ConcurrentClose \/ \A u \in Thread : pc[u].s = s => pc[u].op \notin ClosingOps

\* The table once ioth_close(f) has returned; on -1 it only reports EBADF.
Closed(f) == IF f = NoFd THEN owner ELSE [owner EXCEPT ![f] = Free]

----------------------------------------------------------------------------
(* Construction *)

\* socket_initobj up to the fcntl of init_sockobject: s->fd is already set.
Construct(t, n, f, from) ==
    /\ obj[n] = "none"
    /\ obj' = [obj EXCEPT ![n] = "init"]
    /\ fd' = [fd EXCEPT ![n] = f]
    /\ pc' = [pc EXCEPT ![t] = Doing("init", from, n, NoFd)]

\* Stack.socket(): ioth_msocket returns any free descriptor.
NewSocket(t, n, f) ==
    /\ Gil /\ pc[t] = Idle /\ stackHeld
    /\ owner[f] = Free
    /\ Construct(t, n, f, NoSocket)
    /\ owner' = [owner EXCEPT ![f] = n]
    /\ UNCHANGED <<sockVars, stackVars>>

\* MSocket(stack, fileno=f) around a descriptor the program holds.
AdoptFd(t, n, f) ==
    /\ Gil /\ pc[t] = Idle /\ stackHeld
    /\ owner[f] = User
    /\ Construct(t, n, f, NoSocket)
    /\ owner' = [owner EXCEPT ![f] = n]
    /\ UNCHANGED <<sockVars, stackVars>>

\* Faulty variant: the constructor takes no reference on the stack.
InitDoneNoIncref(t) ==
    LET n == pc[t].new IN
    /\ Gil /\ pc[t].op = "init"
    /\ obj' = [obj EXCEPT ![n] = "live"]
    /\ closed' = [closed EXCEPT ![n] = FALSE]
    /\ ioRefs' = [ioRefs EXCEPT ![n] = 0]
    /\ stackRef' = [stackRef EXCEPT ![n] = TRUE]
    /\ Return(t)
    /\ UNCHANGED <<fd, early, late, owner, stackCount, stackHeld>>

\* The fcntl succeeded, or none was needed: the socket is usable.
InitDone(t) ==
    LET n == pc[t].new IN
    /\ Gil /\ pc[t].op = "init"
    /\ obj' = [obj EXCEPT ![n] = "live"]
    /\ closed' = [closed EXCEPT ![n] = FALSE]
    /\ ioRefs' = [ioRefs EXCEPT ![n] = 0]
    /\ stackRef' = [stackRef EXCEPT ![n] = TRUE]
    /\ stackCount' = stackCount + 1
    /\ Return(t)
    /\ UNCHANGED <<fd, early, late, owner, stackHeld>>

\* Faulty variant: the constructor fails without closing what it opened.
InitFailLeaks(t) ==
    /\ Gil /\ pc[t].op = "init" /\ FcntlMayFail
    /\ obj' = [obj EXCEPT ![pc[t].new] = "failed"]
    /\ Return(t)
    /\ UNCHANGED <<fd, sockVars, owner, stackVars>>

\* The fcntl failed: the descriptor is closed but s->fd keeps its number.
InitFail(t) ==
    LET n == pc[t].new IN
    /\ Gil /\ pc[t].op = "init" /\ FcntlMayFail
    /\ obj' = [obj EXCEPT ![n] = "failed"]
    /\ owner' = Closed(fd[n])
    /\ Return(t)
    /\ UNCHANGED <<fd, sockVars, stackVars>>

----------------------------------------------------------------------------
(* Calls that use the descriptor with the GIL released *)

\* recv, send, bind, settimeout, ... (io) and _accept, up to the release.
Call(t, s, op) ==
    /\ Gil /\ pc[t] = Idle /\ obj[s] = "live" /\ MayUse(t, s)
    /\ op \in {"io", "accept"}
    /\ pc' = [pc EXCEPT ![t] = Doing(op, s, NoSocket, NoFd)]
    /\ UNCHANGED <<obj, fd, sockVars, owner, stackVars>>

\* The library call, on the s->fd of this moment; then the method returns.
IoCall(t) ==
    /\ pc[t].op \in {"io", "accept"}
    /\ Return(t)
    /\ UNCHANGED <<obj, fd, sockVars, owner, stackVars>>

\* ioth_accept returns a new descriptor that only this thread knows.
AcceptCall(t, f) ==
    /\ pc[t].op = "accept" /\ fd[pc[t].s] # NoFd
    /\ owner[f] = Free
    /\ owner' = [owner EXCEPT ![f] = t]
    /\ pc' = [pc EXCEPT ![t] = Doing("wrap", pc[t].s, NoSocket, f)]
    /\ UNCHANGED <<obj, fd, sockVars, stackVars>>

\* MSocket.accept wraps it in a new socket on the stack of the listener.
AcceptWrap(t, n) ==
    LET f == pc[t].fd IN
    /\ Gil /\ pc[t].op = "wrap"
    /\ Construct(t, n, f, pc[t].s)
    /\ owner' = IF owner[f] = t THEN [owner EXCEPT ![f] = n] ELSE owner
    /\ UNCHANGED <<sockVars, stackVars>>

\* Faulty variant: it closes it a second time on its way out.
AcceptAbandonTwice(t) ==
    /\ Gil /\ pc[t].op = "wrap"
    /\ owner' = Closed(pc[t].fd)
    /\ UNCHANGED <<obj, fd, sockVars, stackVars, pc>>

\* sock_accept could not build the number or the address of its result: it
\* closes what it accepted.
AcceptAbandon(t) ==
    /\ Gil /\ pc[t].op = "wrap"
    /\ owner' = Closed(pc[t].fd)
    /\ Return(t)
    /\ UNCHANGED <<obj, fd, sockVars, stackVars>>

\* It could not build the tuple, or MSocket.accept was interrupted or failed
\* before the new socket had the number: nothing closes it.
AcceptLoses(t) ==
    LET f == pc[t].fd IN
    /\ Gil /\ pc[t].op = "wrap"
    /\ owner' = IF owner[f] = t THEN [owner EXCEPT ![f] = Lost] ELSE owner
    /\ Return(t)
    /\ UNCHANGED <<obj, fd, sockVars, stackVars>>

----------------------------------------------------------------------------
(* Files, close and detach *)

\* makefile() counts the new SocketIO, also on a socket already closed.
MakeFile(t, s) ==
    /\ Gil /\ pc[t] = Idle /\ obj[s] = "live"
    /\ early[s] + late[s] < MaxFiles
    /\ ioRefs' = [ioRefs EXCEPT ![s] = @ + 1]
    /\ IF closed[s]
         THEN late' = [late EXCEPT ![s] = @ + 1] /\ UNCHANGED early
         ELSE early' = [early EXCEPT ![s] = @ + 1] /\ UNCHANGED late
    /\ UNCHANGED <<obj, fd, closed, owner, stackVars, pc>>

\* Faulty variant: files are no longer counted once the socket is closed.
FileCloseMiscounts(t, s) ==
    /\ Gil /\ pc[t] = Idle /\ obj[s] = "live"
    /\ closed[s] => MayClose(t, s)
    /\ \/ early[s] > 0 /\ early' = [early EXCEPT ![s] = @ - 1] /\ UNCHANGED late
       \/ late[s] > 0 /\ late' = [late EXCEPT ![s] = @ - 1] /\ UNCHANGED early
    /\ ioRefs' = IF closed[s] THEN ioRefs ELSE [ioRefs EXCEPT ![s] = @ - 1]
    /\ pc' = IF closed[s]
               THEN [pc EXCEPT ![t] = Doing("close", s, NoSocket, NoFd)]
               ELSE pc
    /\ UNCHANGED <<obj, fd, closed, owner, stackVars>>

\* Faulty variant: the last file does not go on to close its socket.
FileCloseStops(t, s) ==
    /\ Gil /\ pc[t] = Idle /\ obj[s] = "live"
    /\ \/ early[s] > 0 /\ early' = [early EXCEPT ![s] = @ - 1] /\ UNCHANGED late
       \/ late[s] > 0 /\ late' = [late EXCEPT ![s] = @ - 1] /\ UNCHANGED early
    /\ ioRefs' = [ioRefs EXCEPT ![s] = @ - 1]
    /\ UNCHANGED <<obj, fd, closed, owner, stackVars, pc>>

\* SocketIO.close() calls _decref_socketios: the last file of a closed
\* socket goes on to close it.
FileClose(t, s) ==
    /\ Gil /\ pc[t] = Idle /\ obj[s] = "live"
    /\ closed[s] => MayClose(t, s)
    /\ \/ early[s] > 0 /\ early' = [early EXCEPT ![s] = @ - 1] /\ UNCHANGED late
       \/ late[s] > 0 /\ late' = [late EXCEPT ![s] = @ - 1] /\ UNCHANGED early
    /\ ioRefs' = IF ioRefs[s] > 0 THEN [ioRefs EXCEPT ![s] = @ - 1] ELSE ioRefs
    /\ pc' = IF closed[s]
               THEN [pc EXCEPT ![t] = Doing("close", s, NoSocket, NoFd)]
               ELSE pc
    /\ UNCHANGED <<obj, fd, closed, owner, stackVars>>

\* Faulty variant: close() does not wait for files.
CloseBodyIgnoresFiles(t, s) ==
    /\ closed' = [closed EXCEPT ![s] = TRUE]
    /\ pc' = [pc EXCEPT ![t] = Doing("cclose", s, NoSocket, NoFd)]
    /\ UNCHANGED <<obj, fd, ioRefs, early, late, owner, stackVars>>

\* MSocket.close(): the descriptor goes only when no file needs it.
CloseBody(t, s) ==
    /\ closed' = [closed EXCEPT ![s] = TRUE]
    /\ pc' = [pc EXCEPT ![t] =
                IF ioRefs[s] = 0 THEN Doing("cclose", s, NoSocket, NoFd) ELSE Idle]
    /\ UNCHANGED <<obj, fd, ioRefs, early, late, owner, stackVars>>

Close(t, s) ==
    /\ Gil /\ pc[t] = Idle /\ obj[s] = "live" /\ MayClose(t, s)
    /\ CloseBody(t, s)

FileCloses(t) == Gil /\ pc[t].op = "close" /\ CloseBody(t, pc[t].s)

\* sock_close: nothing to do when s->fd is -1, else release the GIL.
CloseTest(t) ==
    /\ Gil /\ pc[t].op = "cclose"
    /\ IF fd[pc[t].s] = NoFd THEN Return(t) ELSE Goto(t, "release")
    /\ UNCHANGED <<obj, fd, sockVars, owner, stackVars>>

\* ioth_close(s->fd): s->fd is read here, without the GIL.
CloseRelease(t) ==
    /\ pc[t].op = "release"
    /\ owner' = Closed(fd[pc[t].s])
    /\ Goto(t, "reacquire")
    /\ UNCHANGED <<obj, fd, sockVars, stackVars>>

\* Faulty variant: the number is kept.
CloseForgetKeepsNumber(t) ==
    /\ Gil /\ pc[t].op = "reacquire"
    /\ Return(t)
    /\ UNCHANGED <<obj, fd, sockVars, owner, stackVars>>

\* Only with the GIL back does sock_close forget the number.
CloseForget(t) ==
    /\ Gil /\ pc[t].op = "reacquire"
    /\ fd' = [fd EXCEPT ![pc[t].s] = NoFd]
    /\ Return(t)
    /\ UNCHANGED <<obj, sockVars, owner, stackVars>>

\* MSocket.detach sets _closed, then calls the base class.
Detach(t, s) ==
    /\ Gil /\ pc[t] = Idle /\ obj[s] = "live" /\ MayClose(t, s)
    /\ closed' = [closed EXCEPT ![s] = TRUE]
    /\ pc' = [pc EXCEPT ![t] = Doing("detach", s, NoSocket, NoFd)]
    /\ UNCHANGED <<obj, fd, ioRefs, early, late, owner, stackVars>>

\* sock_detach hands the descriptor, open or not, to the program.
DetachTake(t) ==
    LET s == pc[t].s IN
    /\ Gil /\ pc[t].op = "detach"
    /\ fd' = [fd EXCEPT ![s] = NoFd]
    /\ owner' = IF fd[s] # NoFd /\ owner[fd[s]] = s
                  THEN [owner EXCEPT ![fd[s]] = User] ELSE owner
    /\ Return(t)
    /\ UNCHANGED <<obj, sockVars, stackVars>>

\* The module function close(fd), on a descriptor the program holds.
UserClose(f) ==
    /\ Gil /\ owner[f] = User
    /\ owner' = Closed(f)
    /\ UNCHANGED <<obj, fd, sockVars, stackVars, pc>>

----------------------------------------------------------------------------
(* Finalization and the Stack *)

\* Faulty variant: the reference is dropped even if none was taken.
FinalizeDropsAlways(s) ==
    /\ Gil /\ obj[s] \in {"live", "failed"} /\ Unused(s)
    /\ early[s] = 0 /\ late[s] = 0
    /\ obj' = [obj EXCEPT ![s] = "dying"]
    /\ stackRef' = [stackRef EXCEPT ![s] = FALSE]
    /\ stackCount' = stackCount - 1
    /\ UNCHANGED <<fd, sockVars, owner, stackHeld, pc>>

\* socket_finalize first drops the reference on the stack ...
Finalize(s) ==
    /\ Gil /\ obj[s] \in {"live", "failed"} /\ Unused(s)
    /\ early[s] = 0 /\ late[s] = 0
    /\ obj' = [obj EXCEPT ![s] = "dying"]
    /\ stackRef' = [stackRef EXCEPT ![s] = FALSE]
    /\ stackCount' = IF stackRef[s] THEN stackCount - 1 ELSE stackCount
    /\ UNCHANGED <<fd, sockVars, owner, stackHeld, pc>>

\* ... and then closes s->fd.
FinalizeClose(s) ==
    /\ obj[s] = "dying"
    /\ owner' = Closed(fd[s])
    /\ fd' = [fd EXCEPT ![s] = NoFd]
    /\ obj' = [obj EXCEPT ![s] = "none"]
    /\ UNCHANGED <<sockVars, stackVars, pc>>

\* The program drops its Stack; a running Stack.socket() still holds it.
DropStack ==
    /\ Gil /\ stackHeld
    /\ \A t \in Thread : ~(pc[t].op = "init" /\ pc[t].s = NoSocket)
    /\ stackHeld' = FALSE
    /\ stackCount' = stackCount - 1
    /\ UNCHANGED <<obj, fd, sockVars, owner, stackRef, pc>>

\* When the old Stack is gone the program may build another.
NewStack ==
    /\ Gil /\ stackCount = 0
    /\ stackHeld' = TRUE
    /\ stackCount' = 1
    /\ UNCHANGED <<obj, fd, sockVars, owner, stackRef, pc>>

----------------------------------------------------------------------------
\* What a thread inside a method does next, whatever the program does.
\* Calls that may block in the library (io, accept) are not among them.
Continue(t) ==
    \/ InitDone(t) \/ InitFail(t) \/ AcceptAbandon(t) \/ AcceptLoses(t)
    \/ \E n \in Socket : AcceptWrap(t, n)
    \/ FileCloses(t) \/ CloseTest(t) \/ CloseRelease(t) \/ CloseForget(t)
    \/ DetachTake(t)

LibraryReturns(t) == IoCall(t) \/ \E f \in Fd : AcceptCall(t, f)

\* What the program may ask for.
Request(t) ==
    \/ \E n \in Socket, f \in Fd : NewSocket(t, n, f) \/ AdoptFd(t, n, f)
    \/ \E s \in Socket :
         \/ MakeFile(t, s) \/ FileClose(t, s) \/ Close(t, s) \/ Detach(t, s)
         \/ \E op \in {"io", "accept"} : Call(t, s, op)

Next ==
    \/ \E t \in Thread : Request(t) \/ LibraryReturns(t) \/ Continue(t)
    \/ \E f \in Fd : UserClose(f)
    \/ \E s \in Socket : Finalize(s) \/ FinalizeClose(s)
    \/ DropStack \/ NewStack

(***************************************************************************)
(* A method that is not waiting for the network runs on: the interpreter   *)
(* hands the GIL round, to every thread that waits for it, and ioth_close  *)
(* returns.  Strong fairness, because a finalizer in another thread keeps  *)
(* taking the GIL away and giving it back.                                 *)
(***************************************************************************)
Fairness ==
    /\ \A t \in Thread : SF_vars(Continue(t))
    /\ \A s \in Socket : WF_vars(FinalizeClose(s))

Spec == Init /\ [][Next]_vars /\ Fairness

----------------------------------------------------------------------------
(***************************************************************************)
(* The descriptors as the rest of the program sees them: a socket holds    *)
(* s->fd until the ioth_close made for it has returned.                    *)
(***************************************************************************)
Forgetting(s) == \E t \in Thread : pc[t].s = s /\ pc[t].op = "reacquire"

D == INSTANCE Descriptors WITH
       open <- {f \in Fd : owner[f] # Free},
       user <- {f \in Fd : owner[f] = User},
       held <- [s \in Socket |-> IF Forgetting(s) THEN NoFd ELSE fd[s]]

----------------------------------------------------------------------------
(* Properties *)

\* Every variable stays in the set of values its code gives it.
TypeOK ==
    /\ obj \in [Socket -> Life]
    /\ fd \in [Socket -> Fd \cup {NoFd}]
    /\ closed \in [Socket -> BOOLEAN]
    /\ ioRefs \in [Socket -> Nat]
    /\ early \in [Socket -> Nat]
    /\ late \in [Socket -> Nat]
    /\ owner \in [Fd -> {Free, User, Lost} \cup Socket \cup Thread]
    /\ stackRef \in [Socket -> BOOLEAN]
    /\ stackCount \in Nat
    /\ stackHeld \in BOOLEAN
    /\ pc \in [Thread -> [op : Ops, s : Socket \cup {NoSocket},
                          new : Socket \cup {NoSocket}, fd : Fd \cup {NoFd}]]

\* Every library call made for a socket reaches that socket's descriptor or
\* none (EBADF), never one that meanwhile became another socket's or the
\* program's: ioth_recv and the like read s->fd without the GIL.
CallsReachOwnFd ==
    \A t \in Thread :
        LET s == pc[t].s IN
        pc[t].op \in {"io", "accept", "release"} /\ fd[s] # NoFd => owner[fd[s]] = s

\* A close() past its test and a finalizer hold a number that is still their
\* socket's or is not open: they close nobody else's descriptor, even though
\* numbers are reused as soon as ioth_close returns.
ClosesNoForeignFd ==
    \A s \in Socket :
        /\ fd[s] # NoFd
        /\ obj[s] = "dying" \/ \E t \in Thread : pc[t].s = s /\ pc[t].op = "release"
        => owner[fd[s]] \in {s, Free}

\* No call and no close ever reaches a descriptor of somebody else.
ReachesOwnFdOnly == CallsReachOwnFd /\ ClosesNoForeignFd

\* Only an accept() that raises loses a descriptor (AcceptLoses): every other
\* open one is the fd of an object whose close or finalizer will close it, is
\* held by the accept() that made it, or was handed to the program by detach().
\* Holds for every overlap of calls and when constructors fail.
LostByAcceptOnly ==
    \A f \in Fd :
        /\ owner[f] \in Socket =>
             fd[owner[f]] = f /\ obj[owner[f]] \in {"init", "live", "dying"}
        /\ owner[f] \in Thread => pc[owner[f]].op = "wrap" /\ pc[owner[f]].fd = f

\* close() waits for the files made before it: a thread that is about to
\* close or is closing the descriptor proves that none of them is open.
CloseWaitsForFiles ==
    \A t \in Thread :
        pc[t].op \in {"cclose", "release", "reacquire"}
            => closed[pc[t].s] /\ early[pc[t].s] = 0

\* The count that makes it wait is exact: _io_refs is the number of open
\* SocketIO objects, however makefile(), file closes and close() interleave.
IoRefsExact == \A s \in Socket : obj[s] = "live" => ioRefs[s] = early[s] + late[s]

\* The two need each other: what is counted is what is waited for.
FilesKept == CloseWaitsForFiles /\ IoRefsExact

\* No step takes the descriptor of a socket away while a file made before the
\* close is open on it, except detach(), which gives it to the program.
FilesKeepFdOpen ==
    [][\A f \in Fd, s \in Socket :
         owner[f] = s /\ owner'[f] # s /\ early[s] > 0 => owner'[f] = User]_vars

StackRefs == {s \in Socket : stackRef[s]}

\* The stack's reference count is the program's reference plus one per
\* initialised socket, whatever path the constructor and finalizer took.
StackCountExact ==
    stackCount = Cardinality(StackRefs) + (IF stackHeld THEN 1 ELSE 0)

\* The Stack object is alive as long as a usable socket, or one being built,
\* refers to it.
StackAliveForSockets ==
    \A s \in Socket : obj[s] \in {"init", "live"} => stackCount > 0

\* The count is neither too high, which would keep the Stack for ever, nor too
\* low, which would free it under a socket.
StackCounted == StackCountExact /\ StackAliveForSockets

\* Once a socket is closed and no file needs it, its descriptor does go back,
\* unless yet another file is made from the closed socket.
ClosedIsReleased ==
    \A s \in Socket :
        obj[s] = "live" /\ closed[s] /\ ioRefs[s] = 0
            ~> fd[s] = NoFd \/ ioRefs[s] > 0

\* Seen from outside every close is one step: the interleaved code implements
\* the abstract table Descriptors, in which only its holder closes a
\* descriptor, and in which OneHolder holds.
ImplementsDescriptors == D!Spec
HeldByOne == D!OneHolder
=============================================================================
