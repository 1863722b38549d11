----------------------------- MODULE Ancillary -----------------------------
(***************************************************************************)
(* recvmsg and recvmsg_into: the buffer of ancillary data that they take   *)
(* apart, sized by what CMSG_SPACE and CMSG_LEN told the program, and what *)
(* a call must give back when one of its steps fails: the Py_buffers of    *)
(* its arguments, the descriptors that came with the message.              *)
(*                                                                         *)
(* One call at a time: all the state is local to the call.  sock_call is   *)
(* module SockCall; here it fails or succeeds.  The socket has a family    *)
(* that getsockaddrlen knows.                                              *)
(***************************************************************************)
EXTENDS ControlBlock, SequencesExt

CONSTANTS
    IntSize,   \* sizeof(int)
    MaxIn, MaxComing,   \* bounds: length and number of the items of a message
    MaxParts            \* bound: data buffers of a call

ASSUME AncillaryAssumption ==
    /\ IntSize \in Nat \ {0} /\ {MaxIn, MaxComing, MaxParts} \subseteq Nat
    /\ 2 * MaxIn < Word  \* a length is a Py_ssize_t

VARIABLES
    op,       \* where the call is
    api,      \* the method
    result,   \* of the call
    peeks,    \* the CMSG_NXTHDR of this build
    nbufs,    \* the buffers that finally will release
    held,     \* Py_buffers acquired and not released (history)
    items,    \* those of the message (history), each with what a program asks
              \* for it and those before it, as the doc of CMSG_SPACE says
    bufsize,  \* of the control buffer
    block, at,  \* the control buffer; cmsgh
    list,     \* cmsg_list
    opened,   \* descriptors that came with the message (history)
    closed    \* those that the call closed, in order (history)

given == <<api, peeks>>
buffers == <<nbufs, held>>
fds == <<opened, closed>>
vars == <<op, result, given, buffers, items, bufsize, block, at, list, fds>>

Type == {"rights", "other"}
Empty == [controllen |-> 0, heads |-> <<>>]
Init ==
    /\ op = "idle" /\ api = "recvmsg" /\ result = "none" /\ peeks = FALSE
    /\ nbufs = 0 /\ held = 0
    /\ items = <<>> /\ bufsize = 0 /\ block = Empty /\ at = NULL
    /\ list = <<>> /\ opened = {} /\ closed = <<>>

\* The sum of the CMSG_SPACEs of the items: more than any buffer once one of
\* them is refused (NoSize).
Asked == IF items = <<>> THEN 0 ELSE items[Len(items)].asked
WithItem(type, len) ==
    Append(items, [type |-> type, len |-> len, asked |-> Asked + socket_CMSG_SPACE(len)])

\* The headers of the buffer, with head written at o.
WithHead(o, head) ==
    [p \in Headers(block) \cup {o} |-> IF p = o THEN head ELSE block.heads[p]]

\* finally: what was counted is released.
Finally(r) ==
    /\ op' = "done" /\ result' = r
    /\ held' = held - nbufs

Raise(r) ==
    /\ Finally(r)
    /\ UNCHANGED <<given, nbufs, items, bufsize, block, at, list, fds>>

\* The state of another call is its own.
Done == op = "done" /\ UNCHANGED vars

----------------------------------------------------------------------------
(* The data buffers of recvmsg_into *)

Call(m, step) ==
    /\ op = "idle" /\ op' = step /\ api' = m /\ peeks' \in BOOLEAN
    /\ UNCHANGED <<result, buffers, items, bufsize, block, at, list, fds>>

Recvmsg == Call("recvmsg", "guts")
RecvmsgInto == Call("recvmsg_into", "parts")

\* Faulty variant: returns without going to finally.
PartFailsReturns ==
    /\ op = "parts" /\ op' = "done" /\ result' = "raised"
    /\ UNCHANGED <<given, buffers, items, bufsize, block, at, list, fds>>

\* Before the first buffer: the arguments, the memory.  After it: an argument
\* that is no read-write buffer.
PartFails == op = "parts" /\ Raise("raised")

Part ==
    /\ op = "parts" /\ nbufs < MaxParts
    /\ nbufs' = nbufs + 1 /\ held' = held + 1
    /\ UNCHANGED <<op, result, given, items, bufsize, block, at, list, fds>>

PartsDone ==
    /\ op = "parts"
    /\ op' = "guts"
    /\ UNCHANGED <<result, given, buffers, items, bufsize, block, at, list, fds>>

----------------------------------------------------------------------------
(* sock_recvmsg_guts: the system call.  The stack puts the items of the     *)
(* message in the control buffer as Linux does, and cuts what does not fit. *)
(* A foreign stack may leave the length of a cut item, or end with no valid *)
(* header.                                                                  *)

\* Faulty variant: SOCKLEN_T_LIMIT is not looked at.
ValidSizeAny(controllen) == controllen >= 0
ValidSize(controllen) == controllen >= 0 /\ controllen <= Limit

Guts ==
    /\ op = "guts"
    /\ \E ancbufsize \in -1..(Limit + 1) :
         \/ /\ ~ValidSize(ancbufsize) /\ Finally("ValueError")
            /\ UNCHANGED bufsize
         \/ /\ ValidSize(ancbufsize) /\ Finally("raised")  \* memory, or sock_call
            /\ UNCHANGED bufsize
         \/ /\ ValidSize(ancbufsize) /\ op' = "stack" /\ bufsize' = ancbufsize
            /\ UNCHANGED <<result, held>>
    /\ UNCHANGED <<given, nbufs, items, block, at, list, fds>>

Room == bufsize - block.controllen
AtMost(n) == IF n < Room THEN n ELSE Room

\* The stack writes a header that says cmsg_len, and has bytes of data.
Puts(type, len, cmsg_len, has) ==
    /\ items' = WithItem(type, len)
    /\ block' = [controllen |-> block.controllen + AtMost(Aligned(Header + has)),
                 heads |-> WithHead(block.controllen,
                    [cmsg_len |-> cmsg_len, item |-> Len(items) + 1, has |-> has])]
    /\ UNCHANGED <<op, result, given, buffers, bufsize, at, list, closed>>

Cuts(type, len) ==
    /\ items' = WithItem(type, len)
    /\ UNCHANGED <<op, result, given, buffers, bufsize, block, at, list, fds>>

Coming == op = "stack" /\ Len(items) < MaxComing

\* As many descriptors as fit are opened in the process.
Rights(n) ==
    LET fit == IF Room < Header THEN 0 ELSE (Room - Header) \div IntSize
        m == IF n < fit THEN n ELSE fit
    IN
    /\ Coming /\ n > 0 /\ n * IntSize <= MaxIn
    /\ IF m = 0 THEN Cuts("rights", n * IntSize)
       ELSE /\ Puts("rights", n * IntSize, Header + m * IntSize, m * IntSize)
            /\ opened' = opened \cup {<<Len(items) + 1, j>> : j \in 1..m}

Other(len) ==
    LET has == IF len < Room - Header THEN len ELSE Room - Header IN
    /\ Coming
    /\ \/ Room < Header /\ Cuts("other", len)
       \/ /\ Room >= Header /\ UNCHANGED opened
          /\ \/ Puts("other", len, Header + has, has)
             \/ Puts("other", len, Header + len, has)

\* No valid header; nothing follows it.
Malformed(len) ==
    /\ Coming /\ Room >= Header /\ len < Header
    /\ Puts("other", 0, len, Room - Header)
    /\ UNCHANGED opened

----------------------------------------------------------------------------
(* sock_recvmsg_guts: the list, and the descriptors when it fails *)

First == IF block.controllen > 0 THEN CMSG_FIRSTHDR(block) ELSE NULL
Following == CMSG_NXTHDR(block, at, peeks)
TypeAt == items[block.heads[at].item].type

GoTo(step, where) ==
    /\ op' = step /\ at' = where
    /\ UNCHANGED <<result, given, buffers, items, bufsize, block>>

\* Faulty variant: a failure goes to finally.
FailsToFinally == Raise("raised")
Fails == GoTo("close", First) /\ UNCHANGED <<list, fds>>

StackReturns == op = "stack" /\ GoTo("read", First) /\ UNCHANGED <<list, fds>>

\* One turn of the loop.  An item is never longer than the buffer, so never
\* "too long".
Read ==
    LET got == get_cmsg_data_len(block, at) IN
    /\ op = "read" /\ at # NULL
    /\ IF got.status < 0 THEN GoTo("read", NULL) /\ UNCHANGED list
       ELSE /\ list' = Append(list, [item |-> block.heads[at].item, len |-> got.len])
            /\ GoTo("read", IF got.status = 0 THEN Following ELSE NULL)
    /\ UNCHANGED fds

\* No memory for the list, the warning is an error, no memory for the item, or
\* none for the value returned.
ReadFails == op = "read" /\ Fails

ReadDone == op = "read" /\ at = NULL /\ Raise("returned")

\* The descriptors that the program closes, as int[] at the item.
Descriptors(len) == [j \in 1..(len \div IntSize) |-> <<block.heads[at].item, j>>]

Close ==
    LET got == get_cmsg_data_len(block, at) IN
    /\ op = "close" /\ at # NULL
    /\ closed' = IF got.status >= 0 /\ TypeAt = "rights"
                 THEN closed \o Descriptors(got.len) ELSE closed
    /\ GoTo("close", IF got.status = 0 THEN Following ELSE NULL)
    /\ UNCHANGED <<list, opened>>

CloseDone == op = "close" /\ at = NULL /\ Raise("raised")

Next ==
    \/ Recvmsg \/ RecvmsgInto \/ Done
    \/ PartFails \/ Part \/ PartsDone
    \/ Guts \/ StackReturns
    \/ \E n \in 0..MaxIn : Rights(n) \/ Other(n) \/ Malformed(n)
    \/ Read \/ ReadFails \/ ReadDone \/ Close \/ CloseDone

Spec == Init /\ [][Next]_vars

----------------------------------------------------------------------------
(* Properties *)

\* Types; neither the control buffer nor what it holds exceeds the limit of a
\* socklen_t (SOCKLEN_T_LIMIT).
TypeOK ==
    /\ op \in {"idle", "parts", "guts", "stack", "read", "close", "done"}
    /\ api \in {"recvmsg", "recvmsg_into"} /\ peeks \in BOOLEAN
    /\ result \in {"none", "raised", "returned", "ValueError"}
    /\ nbufs \in 0..MaxParts /\ held \in Nat
    /\ \A k \in DOMAIN items : items[k] \in [type : Type, len : 0..MaxIn, asked : Nat]
    /\ {block.controllen, bufsize} \subseteq 0..Limit
    /\ \A o \in Headers(block) : block.heads[o] \in
         [cmsg_len : Size, item : 1..MaxComing, has : 0..Limit]
    /\ at \in Size \cup {NULL}

\* A call that has ended holds no buffer of its arguments, wherever it failed,
\* and has released none twice.
BuffersReleased == op = "done" => held = 0

WellFormed == \A o \in Headers(block) : block.heads[o].cmsg_len >= Header

\* Enough by the docs of CMSG_SPACE and CMSG_LEN: the sum of the CMSG_SPACEs,
\* or the CMSG_LEN of the only item.
EnoughSpace ==
    \/ bufsize >= Asked
    \/ Len(items) = 1 /\ bufsize >= socket_CMSG_LEN(items[1].len)
Whole(k) == list[k] = [item |-> k, len |-> items[k].len]

Received == op = "done" /\ result = "returned"

\* The list has items of the message in order, each as long as the data that the
\* stack really put in the buffer; every item, whole, if the buffer is as large
\* as CMSG_SPACE or CMSG_LEN told the program.
ListAsReceived ==
    Received =>
      /\ \A k \in DOMAIN list : \E o \in Headers(block) :
           block.heads[o].item = list[k].item /\ block.heads[o].has = list[k].len
      /\ \A k \in DOMAIN list : k > 1 => list[k - 1].item < list[k].item
      /\ EnoughSpace /\ WellFormed =>
           Len(list) = Len(items) /\ \A k \in DOMAIN list : Whole(k)

\* The NXTHDR of an old glibc may hide a last item cut inside its padding.
SeesAll == peeks => bufsize % Align = 0

\* Every descriptor that came with the message is in the list of a call that
\* returns, still open, and is closed once by a call that raises (doc of recvmsg).
DescriptorsAccounted ==
    op = "done" /\ SeesAll =>
      IF Received
      THEN /\ closed = <<>>
           /\ \A fd \in opened : \E k \in DOMAIN list :
                list[k].item = fd[1] /\ fd[2] * IntSize <= list[k].len
      ELSE Len(closed) = Cardinality(opened) /\ ToSet(closed) = opened
============================================================================
