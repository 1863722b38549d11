# A verification project for iothpy

iothpy gives Python programs the stacks of libioth: `Stack` objects, and socket
objects that look like those of the standard library. This directory holds TLA+
models of its core, what TLC checks of them and what TLAPS proves. Paths below
are relative to the repository.

## 1. The system

| part | where | state | operations |
|---|---|---|---|
| socket objects | `iothpy/msocket.py`, `iothpy/iothpy_socket.c` | `s->fd`, `s->stack`, `_closed`, `_io_refs` | construction (new descriptor, `fileno=`, `accept`), `makefile`, close of a file, `close`, `detach`, finalization |
| blocking mode | `iothpy_socket.c`, `iothpy.c` | `s->sock_timeout`, `O_NONBLOCK` in the library, `defaulttimeout` | `settimeout`, `setblocking`, `setdefaulttimeout`, the constructor, `accept` |
| `sock_call` | `iothpy_socket.c` | locals of each call: deadline, timeout, errno | `recv*`, `send*`, `accept`, `connect`, `connect_ex` |
| `sendall` | `iothpy_socket.c` | its own deadline, position in the buffer | a loop of `sock_call` |
| ancillary data | `iothpy_socket.c`, `iothpy.c` | buffers of one call | `recvmsg`, `recvmsg_into`, `CMSG_LEN`, `CMSG_SPACE` |
| options, names and addresses | `iothpy_socket.c`, `utils.c` | `s->family` | `bind`, `connect`, `sendto`, `recvfrom`, `recvfrom_into`, `shutdown`, `getsockname`, `getpeername`, `getsockopt`, `setsockopt` |
| stacks | `iothpy_stack.c`, `stack.py` | the ioth stack, its DNS context, the global `stackName` | construction, links, addresses, routes, `ioth_config` |
| name resolution | `iothpy_stack.c`, `stack.py` | the DNS context | `getaddrinfo`, `getnameinfo`, `iothdns_update` |
| the rest | `override.py`, `const_linkadd.c`, `__init__.py` | names in modules | run once |

How they interact. Python threads share sockets. The GIL serialises them, except
while a C function has released it around a library call (`Py_BEGIN_ALLOW_THREADS`)
and wherever the interpreter may switch: at the entry of a Python function, after a
call into C, in a signal handler run by `PyErr_CheckSignals`. A socket holds a
reference on its `Stack`; files made by `makefile` hold the socket and are counted
in `_io_refs`; the library reuses the number of a closed descriptor at once.

What is hard here:
- `s->fd` is read again at each library call, without the GIL, and forgotten by
  `sock_close` only after the descriptor is gone;
- `close()`, file closes, `makefile()`, `detach()` and the finalizer may come in any
  order, and must together close each descriptor once;
- the blocking mode is in two places, written one after the other;
- retries by a deadline, against signals, false positives of `poll`, setters and
  closes of other threads;
- one global, `stackName`, says which plugin every `Stack` has;
- an address goes from the library to the program as a tuple, and back as another one:
  ports change their order of bytes, IPv6 has two fields more, and the room for an
  address comes from the object, not the descriptor;
- `recvmsg` takes apart a buffer whose size the program chose, and holds descriptors that
  nobody else knows of until it returns; so does `accept()`, in C and then in Python;
- a configuration call may fail halfway, or after it has changed something.

Every hazard, with its line, is in `PROJECT.json`.

## 2. The modules

| module | models | composed of |
|---|---|---|
| `Descriptors` | the promise of socket objects: each descriptor has one holder, which alone closes it | |
| `SocketObjects` | socket objects, files, the descriptor table, the reference on the Stack | refines `Descriptors` |
| `BlockingMode` | the timeout, the flag and their setters, for one socket | |
| `TimedCall` | the promise of a call with a limit: one wait, no early timeout | |
| `SockCall` | `sock_call` and its callers on that socket | extends `BlockingMode`, refines `TimedCall` |
| `SendAll` | `sendall` | extends `SockCall`, refines `TimedCall` |
| `SocketObjectsProofs`, `SocketObjectsDisciplined` | theorems about `SocketObjects` | |
| `BlockingModeProofs` | theorems about `BlockingMode` | |
| `SockCallProofs` | theorems about `SockCall` | extends `BlockingModeProofs` |
| `SendAllProofs` | theorems about `SendAll` | extends `SockCallProofs` |
| `StackConfig` | `Stack` objects, their configuration, `getaddrinfo` | |
| `StackConfigProofs` | theorems about `StackConfig` | |
| `ControlBlock` | the layout of ancillary data and the functions that measure it | |
| `Ancillary` | `recvmsg`, `recvmsg_into` | extends `ControlBlock` |
| `AncillaryProofs` | theorems about `Ancillary` and the functions of `ControlBlock` | |
| `Addresses` | datagram sockets, their addresses and options, `getnameinfo` | |
| `AddressesProofs` | theorems about `Addresses` | |
| `MC...` | the modules that TLC runs | |

### SocketObjects

One action is a stretch of code under the GIL or one library call without it. `pc[t]`
says what a thread is in the middle of: `cclose`, `release` and `reacquire` are
`sock_close` before its test, before `ioth_close` and before `s->fd = -1`; `wrap` is
`MSocket.accept` between `_accept()` and the constructor; `init` is the constructor
between `s->fd = fd` and its end. `owner` is the descriptor table of the library with a
history of whom each open descriptor was made for or given to: a socket, the `accept()`
that has just made it (a thread), or the program (after `detach()`); `Lost` is one that
nobody knows any more. An `accept()` that fails while it has a descriptor in hand closes it
where the C code does (`AcceptAbandon`) and loses it where nothing does (`AcceptLoses`). `early` and `late`
split the open files of a socket into those made before and after it was closed.
The finalizer never releases the GIL, so while an object is `dying` no other action that
needs the GIL happens (`Gil`).

The constant `ConcurrentClose` says whether a program may close or detach a socket
while another thread is in a call on it; `FcntlMayFail` whether the constructor's fcntl
may fail. What holds depends on them, and the runs differ in them. `MaxFiles` bounds the
open files per socket.

### BlockingMode

`timeout` is `s->sock_timeout` (`None` is -1, as in the code), `nonblock` the flag of the
descriptor. `setter[t]` follows `internal_setblocking` step by step: `getfl`, `setfl`,
`done`. `Overlap` allows setters, calls and a close to overlap on the socket; `Foreign`
allows descriptors that come in a mode the object is not told (`fileno=`, or inherited
from a listener); `FcntlMayFail` allows fcntl to fail. `alone` is a history bit: no other
setter and no close ran since this one began. The timeouts range over `0..Largest`;
`Largest + 1` and -2 stand for the numbers `socket_parse_timeout` rejects.

### SockCall

`call[t]` holds the locals of one call: the timeout it was given (`limit`), whether the
deadline is set (`armed`), the ticks `left` to it. `test` is the top of the outer loop,
`poll` and `func` the two calls made without the GIL. `waited`, `answer` are history.
The library answers as it likes, but: it says EWOULDBLOCK only on a non-blocking
descriptor and is interrupted only on a blocking one, and a closed socket gets an error.
`sock_accept_impl` has no return statement; the value `sock_call` sees is what
`ioth_accept` left in the return register, so that every result but 0 is a success
(`Succeeded`, `Errno`). `Outcome` is what each method makes of the result.

`TimedCall` says what is left of a call when its loops are forgotten: it is made, waits
from one moment on, and ends, by a timeout no sooner than its limit. `WaitOf` is the
refinement mapping: a call waits from the moment its deadline is set, or, when it has
none, from the top of the loop. A setter, a poll, a signal and a retry are stutters. That no call
times out early (`NoEarlyTimeout`) is part of `TimedCall`.

### SendAll

`all[t]` holds the locals of `sendall`; its inner calls are `SockCall`'s, begun with what
is left of the deadline. `taken` is the sequence of byte positions the library took.
`MaxLen` bounds the buffer. The module is used with `Calls = {}`: the thread that sends
makes no other call. `Whole` maps all the calls of one `sendall` together to one wait of
`TimedCall`, while each of them is one too.

### StackConfig

`cfg[s]` is what the library has for a stack: links with their MAC address and mtu,
addresses, routes, and the configuration of the resolver. `told[s]` is the account that
the calls give of it: as the stack started, changed as the methods that returned say, and
not at all by those that raised. Only an `ioth_config` that fails leaves it open what was done:
the addresses and routes it named go to `mayAddrs` and `mayRoutes`, may be there or not, and
stay open until they are deleted or their link is. The account differs from `cfg` when a method does
something else than it says. It is kept while the arguments are well formed. No method releases the GIL, so each is
one action, but for `getaddrinfo`, whose Python half makes two queries (`Lookup`,
`LookupAgain`). A library call may fail at any time and then changes nothing, except
`ioth_config`, which may have done part. An address is a model value, `BadText` any
string that is none; `Parsed` is what `inet_pton` leaves in the buffer, which for a bad
string is whatever was there, because its result 0 is not looked for. `stackName` is one
variable for all stacks; `Freed` is its value when the str it points into is gone.
`clean[s]` and `alone[s]` are history: every argument so far was well formed, and the
name was last set for this stack. `alive` is false after a NULL pointer was followed
(`iplink_add` with no name, or without `data`). What the conversion of `data` raised is not
looked at before `ioth_iplink_add` is called: the link may be there although the method raises
(`LinkAddedUntold`), or the library follows a NULL; such data is not well formed. `MaxCalls` bounds the method calls.

`UpgradeDns` takes what has a "/" in it for a path, as `IS_PATH` does, and all else for the
text of a configuration; the arguments are well formed when that is what they are.

### Addresses

`desc[s]` is the library's socket behind the object `s`, `family[s]` what the object takes
its family for: with `fileno=` the two may differ. `net` is the set of datagrams on their
way; `Lose` takes one, a received one may stay and come again, and any may be received
first. `heard` is the address a method told last, as the tuple it gave and as what the
library had; a program passes it back whole, or its first two items, or a pair of its
own (`Given`). `desc[s].asked`, the fields `asked`, `real` and `allowed` of a datagram,
and `last` are history.

A port is two digits of `Base`, kept in network order: a `htons` or `ntohs` left out
shows. The flow and scope of an IPv6 address are one field; what `get_sockaddr_from_tuple`
leaves in them is whatever was on the stack. The library has the usual rules (`Bindable`,
`Names`, `Sources`, `Receives`): one socket per port, port 0 is replaced by a free one, a
wildcard receives for every address, a connected socket from its peer only, broadcasts
need SO_BROADCAST; an IPv6 scope counts for link-local addresses only. Each method is one
step, since its waiting is `SockCall`; one that raises changes nothing and is left out,
but for a refused address that was told (`Refuse`). `setsockopt` and `getsockopt` stand
with SO_BROADCAST for the options; any other has no effect on what is modelled.

### ControlBlock and Ancillary

`ControlBlock` has the macros of `<sys/socket.h>` (external) with their width, `Word`,
and the functions around them with the source's names. A pointer is an offset in the
buffer, `NULL` and `NoSize` are no sizes. The numbers of a real build (header 16,
alignment 8, `SOCKLEN_T_LIMIT` 2^31-1) are scaled down for TLC; the proofs need of them only
that headers are aligned, and that twice the limit and twice the longest `Py_ssize_t`
fit in a `size_t` (`ControlBlockAssumption`, `AncillaryAssumption`).

In `Ancillary` one action is one turn of a loop: `Part` acquires a data buffer of
`recvmsg_into`, `Read` is the loop over the control messages, `Close` the one at
`err_closefds`; each has an action for its failures, which ends in `Finally`.
Between `Guts` and `StackReturns` the stack puts items into the buffer as Linux does
(whole, cut, or left out); a foreign stack may leave the length of a cut item as it was,
or end with an invalid header. `held`, `opened` and `closed` are history: Py_buffers,
descriptors that came, descriptors closed; so is the field `asked` of an item, the sum of
the `CMSG_SPACE`s of the items up to it, by which a program sizes its buffer. `peeks` is the
`CMSG_NXTHDR` of a glibc before 2.37, which also looks at the item it returns.

Definitions called a faulty variant are not part of the specification. Each is a
plausible mistake in the code it stands beside, in a form that can be put in its place;
with it one of the properties fails, which shows that the property is sensitive to that
code.

## 3. The runs

| run | constants | shows |
|---|---|---|
| `objects_quiet` | 2 threads, 2 sockets, 2 descriptors, 1 file per socket; closes do not overlap calls | `ReachesOwnFdOnly` (`CallsReachOwnFd` and `ClosesNoForeignFd`), `FilesKeepFdOpen`, `ClosedIsReleased`, and the refinement of `Descriptors` |
| `objects_racing` | the same sizes; any overlap, fcntl may fail | `LostByAcceptOnly`, `FilesKept` (`CloseWaitsForFiles`, `IoRefsExact`), `StackCounted` (`StackCountExact`, `StackAliveForSockets`) |
| `call_disciplined` | 2 threads, one of which calls; timeouts up to 2; no overlap | `ModeTable`, `TimedCallsDoNotBlock`, `OthersRetryWouldBlock`, and the refinement of `TimedCall` |
| `call_racing` | timeouts up to 1; any overlap, foreign descriptors, fcntl failures; no `recv` and `connect_ex`, which differ in their outcome only | `DeadlineFixed`, `OthersRetryInterrupt`, `SetterRepairs`, `TimedCallsEnd`, `ClosedCallsEnd` |
| `sendall` | 2 bytes, timeouts up to 1; overlap | `SentInOrder`, `NoneMeansAll`, `TimedSendEnds`, and the refinement of `TimedCall` |
| `stack_config` | 2 stacks, 2 plugins, interfaces and addresses; 2 calls | `ConfigAsTold`, `RefusalIsOwn`, `GatewaysAsked` |
| `ancillary` | `Word` 56, limit 27, header 8, alignment 4, an int of 2 bytes; up to 2 items of 0..20 bytes in a buffer of any size; up to 2 data buffers | `BuffersReleased`, `ListAsReceived`, `DescriptorsAccounted` |
| `addresses` | 2 sockets, 3 IPv4 and 3 IPv6 addresses, ports of 2 bits, buffers of at most 1 byte, 4 calls | `AddressAsAsked`, `RepliesReachSender`, `PairsPassBack`, `ResolverAskedExactly`, `BroadcastAsPermitted` |
| `double_close_race` | overlapping closes | a violation of `ClosesNoForeignFd` |
| `accept_interrupt` | one thread | a violation of `AcceptRetriesInterrupt` |
| `route_elsewhere` | as `stack_config` | a violation of `RoutesAsAsked` |
| `reply_address` | as `addresses` | a violation of `AddressesPassBack` |

Why the bounds are enough. Two sockets and two descriptors suffice for a number to be
closed, given to another socket and used by the first; two threads for every pair of
overlapping methods. One file per socket meets both orders of its close and the
socket's. A timeout of 1 has the states before, at and after the deadline, 2 also a
recomputed interval that is neither. Callers of one socket share only the mode,
which no call writes, so one caller and one setting thread meet what there is. Two bytes
have every pattern of partial sends. `cfg` and `told` of a stack are compared in each
state, so two calls suffice for one that makes something and one that takes it away or
meets it again; constructors, finalizers and the end of a name's str are not counted.
In `ancillary` the limit is met by one item and by the sum of two, and a buffer of every
size from -1 to beyond the limit ends before, in and after each header, each item and its
padding; `CMSG_SPACE` is asked for lengths on both sides of the last that it accepts (15), and
an item of 20 bytes needs more than any buffer; two items suffice for one that is whole and
one that is cut, in either order of their types. In `addresses` four calls suffice for a socket to bind, the
other to send, the first to receive and to answer; the ports passed are 0, one whose
digits are the same and one beyond the last, the library picks a port whose digits differ
and the last one. Of the IPv6 addresses one is link-local. The two sockets are
interchangeable, which the symmetry uses. Nothing but the calls bounds the network: it holds what
was sent and not lost. Deadlock is checked in every run.

Fairness. In `SocketObjects` a method that is not waiting for the network goes on: the
interpreter hands the GIL to every thread that waits for it. The fairness is strong
because finalizers in other threads take the GIL and give it back in between. Nothing is
assumed of calls that may block or of the program. In `SockCall` and `SendAll` the clock
ticks, code under the GIL goes on, `poll` returns when its time is up, and so does a
library call that cannot wait; the network, signals and the program may do anything or
nothing. That is why `TimedCallsEnd` and `TimedSendEnds` except a call that a setter of
another thread left in the library on a descriptor it made blocking (`Stuck`).

### What the violations show

- `double_close_race`: `sock_close` sets `s->fd = -1` only when `ioth_close` has returned
  and the GIL is back. A second close in that window closes a number that may be reused.
- `accept_interrupt`: because `sock_accept_impl` returns nothing, a failed `ioth_accept`
  passes for a success in `sock_call`, which therefore neither retries it after a signal
  nor polls again after EWOULDBLOCK. `sock_accept` then raises the error.
- `route_elsewhere`: `parse_iproute_args` converts the gateway's string for the
  destination and again for the gateway. The route goes to the gateway's own address.
- `reply_address`: `get_sockaddr_from_tuple` parses exactly a host and a port, whatever the
  family. For an IPv6 address `make_sockaddr` makes a tuple of four, which `bind`,
  `connect` and `sendto` refuse with TypeError, although it is "suitable for passing it
  back". A program has to cut it to a pair.

### Behaviour the model has and no run singles out

- When the constructor's fcntl fails, `socket_initobj` closes the descriptor and leaves its
  number in `s->fd`. The finalizer closes that number again; if another thread has opened
  a socket meanwhile, it loses its descriptor. `ClosesNoForeignFd` therefore needs
  `FcntlMayFail` to be false.
- `accept()` loses the descriptor that the library gave it when the tuple of its result cannot
  be built (`iothpy_socket.c:538`), or when `MSocket.accept` is interrupted or fails before
  the new object has the number (`msocket.py:122`). `LostByAcceptOnly` says that nothing
  else loses one.
- `accept()` takes a new descriptor 0 for a failure (the same missing return).
- `recv()` replaces every exception of `sock_call`, timeouts included, by `Exception`;
  `connect_ex()` returns None, not the errno, and leaves an exception pending when `poll`
  fails.
- Setters that overlap can leave the timeout of one and the flag of the other, and a call
  with a timeout that overlaps a setter can sit in a blocking library call. A socket made
  with `fileno=` does not look at the descriptor's mode; through `Stack.socket(fileno=fd)`
  the type is -1, whose SOCK_NONBLOCK bit makes the timeout 0 on a blocking descriptor.
  `ModeTable` therefore needs `Overlap`, `Foreign` and `FcntlMayFail` to be false.
- A call made on a non-blocking socket goes round without end when another thread sets a
  timeout meanwhile.
- A bad address string is never refused: `inet_pton` returns 0 for it and the methods look
  for -1. The library gets what the buffer held. `ConfigAsTold` is claimed for well-formed
  arguments.
- `Stack.getaddrinfo` asks once to see whether the answer is a list, and again for the list.
  An error of the second query is a tuple, whose first item cannot be unpacked: TypeError
  instead of `gaierror`.
- The scope of an IPv6 address that a program passes is what the C stack held. An answer
  to a link-local address may go out with another scope (`RepliesReachSender` leaves these
  out); `getnameinfo`, which takes four items, keeps the scope.
- An object made with `fileno=` of an IPv6 descriptor, but for AF_INET, offers 16 bytes for
  the address of a sender and tells what it finds in 28 as an address.
- `getsockopt` without a `buffersize` raises, so that it never returns an int.
- `connect` that waited asks the host's `getsockopt`, not `ioth_getsockopt`, for the error.
- `iplink_add` asks the library for the link although the conversion of its data failed, and
  raises afterwards; a tuple of one item, or none, makes it follow a NULL.
- After an `ioth_config` that failed, a program does not know which part was done, and no method
  of `Stack` tells the addresses and routes that are there. `ConfigAsTold` bounds it: parts of
  what was named and nothing else.
- `linksetaddr` raises ValueError for a MAC of a wrong length and calls the library all
  the same.
- A Stack whose constructor failed, or a second Stack, changes the plugin's name that
  `iplink_add` looks at for every other one, and after `Stack("stack=p,vnl=...")` the name
  is not the plugin's. `RefusalIsOwn` is claimed while the name is the stack's own.
- With the `CMSG_NXTHDR` of an old glibc `recvmsg` does not see a last item that the
  buffer ends inside the padding of, and neither lists nor closes its descriptors.
  `DescriptorsAccounted` leaves it out (`SeesAll`); a buffer as `CMSG_SPACE` says avoids it.
- `CMSG_SPACE` refuses a last few lengths that would still fit, fewer than an alignment
  from the limit (`SpaceSuffices`).
- The finalizer drops the Stack before it closes the descriptor, against the comment in
  `iothpy_socket.h`. Nothing comes of it as long as `ioth_delstack` is commented out.

## 4. What is proved

All theorems are about the modules above with any number of threads, sockets,
descriptors and any timeouts.

`SocketObjectsProofs`, with no assumption on the program:
- `ShapeInvariant`: the inductive core. `Shape` adds to `TypeOK` that what `pc` says fits
  the objects (a thread in a method has a live socket, an object in construction has
  exactly one builder), and that the Stack's count is the number of references. The count
  is what keeps `stackCount - 1` a natural number, so even `TypeCorrect` needs it.
- `OnlyAcceptLoses` (`LostByAcceptOnly`), `FilesAreWaitedFor` (`FilesKept`) and `StackAlive`
  (`StackCounted`), each by an invariant of its
  own on top of `Shape`.

`SocketObjectsDisciplined`, assuming `~ConcurrentClose` and `~FcntlMayFail`:
- `Disciplined` says that a closing thread is alone on its socket (`Alone`), that `s->fd`
  is the socket's own descriptor but for the window before it is forgotten (`OwnNumber`),
  and that what a thread has tested stays true (`StillTrue`). The three need one another:
  a number is the socket's own because nobody else is closing it.
- From it follow `CallsReachTheirOwn` (`ReachesOwnFdOnly`), `OneHolderInvariant`, `FilesKeepFd` and
  `Refinement`: the initial states map to initial states of `Descriptors` and every step
  to a step or a stutter. A close maps to `Release` when `ioth_close` returns; the
  mapping hides `s->fd` until it is forgotten.

`BlockingModeProofs`:
- `ModeTypeCorrect` and `SettersRepair`, with no assumption. The invariant of the latter
  says that a setter that is alone has the timeout it wrote, and that the flag it read
  has not changed.
- `TableHolds` (`ModeTable`), assuming no overlap, no foreign descriptors and no failing
  fcntl. `Orderly` says that at most one setter is at work, what it asks for is what the
  timeout says, and that the two halves agree when none is.

`SockCallProofs`, for any threads, timeouts and calls, on top of the invariant of
`BlockingModeProofs`, which a call never disturbs (`StepMode`):
- The invariant is about one caller at a time (`Fine`): the types of its record, that a
  call with a limit which is past its first turn is `Dated`, with `left + waited = limit`,
  that its place in the loop fits its kind (`Placed`), and what its outcome says of how it
  ended (`EndedWell`). Every action but the clock's is a step of one caller, so each has
  one lemma, and two (`StepFrame`, `TickFrame`) carry it to all callers.
- Without assumptions follow `CallTypeCorrect`, `DeadlinesHold`, `TimeoutsNotEarly`,
  `InterruptsRetried`, `SettersRepairUnderCalls` and `CallsAreTimed`, the refinement of
  `TimedCall`. The clause of `Dated` is what makes a timeout of the code one of `TimedCall`.
- `TimedCallsNeverBlock` and `WouldBlockRetried` assume `ModeDiscipline`: no overlap, no
  foreign descriptors, no failing fcntl. `Apart` says that then no setter is at work
  while a caller is in a call, so that `Orderly` gives the flag that its timeout asks for.

`StackConfigProofs`, for any number of stacks, interfaces, addresses and calls:
- `ConfigTypeCorrect`: what reaches the library is an address, whatever text was given.
- `ConfigurationKnown` (`ConfigAsTold`) says what of `cfg` and `told` agrees while the
  arguments are well formed. It is inductive with `TypeOK`: a well-formed text is parsed
  to itself, so that the same change is made to both, or to neither. Addresses agree up to
  `mayAddrs`: an address deleted leaves both sides of the bound.
- `GatewaysKnown` (`GatewaysAsked`) does not follow from what was asked and told, since a
  deleted route could leave another with its gateway. Its invariant says more: a route of
  the library goes to its own gateway or Anywhere, because both are parsed from one string.
- `RefusalsAreOwn` (`RefusalIsOwn`): while `alone[s]` holds of a live stack, `stackName`
  is its plugin, or no name it could be refused for.

`SendAllProofs`, for any threads, timeouts and lengths, on top of the invariant of
`SockCallProofs`:
- A `sendall` owns the call of its thread, so everything is said of the pair of the two
  records (`FineSend`). `Counted` says that what is counted and what is left make the buffer,
  and that the library took exactly what is counted, or what will be once the call has
  returned. `Nested` says that the deadline of the `sendall` is set once and that what is
  left to it is never more than what is left to its call. `Owned` says that the call is a send
  made by it. A step of either record turns such a pair into another (`SendSteps`), which two
  lemmas carry to all threads.
- From it follow `SendAllTypeCorrect`, `BytesInOrder` (`SentInOrder`), `NoneIsAll`
  (`NoneMeansAll`), and `SendsNotEarly`: a timeout of an inner call leaves nothing of the
  outer deadline. That makes `SendsAreTimed` (`SendAllIsTimedCall`): all calls of one `sendall`
  together are one wait of `TimedCall`, though each is a wait of its own.
- `CallsOfSendsHold` and `SettersRepairUnderSends` say that what holds of calls and setters
  under `SockCall`'s own specification holds under this one.

`AncillaryProofs`, for any number of items, parts and buffers and any sizes that meet the
two assumptions:
- `SpaceSuffices`, about the operators alone: `CMSG_LEN` and `CMSG_SPACE` never wrap, and
  what they give is enough. It rests on what `Aligned` does below the limit.
- The inductive invariant `Inv` has a part per concern. `Accounts`: the Py_buffers held are
  those counted. `Course`: what a call has not got to is as it was. `Placed`: what was asked
  for the items up to each is the sum of their spaces. `Blocks`: in the control
  buffer a header is where the one before ends, and only the last can be cut or
  malformed, and then the buffer is full (`Chain`); `opened` is what came with the headers; an
  item that ends inside the buffer is whole (`Fits`). `Reads`: the list is that of the headers
  before `at`. `Closes`: the descriptors of the headers before `at` are closed, each once.
- None of the properties is inductive. That no descriptor is lost (`DescriptorsKeptOrClosed`)
  and every item listed (`ListIsReceived`) needs the whole of `Chain`, because the loops find
  the headers by their lengths alone; that enough space means whole items needs `Placed` and
  `SpaceSuffices`.
- The other theorems are `AncillaryTypeCorrect` and `BuffersAllReleased`.

`AddressesProofs`, for any sockets, addresses, `Base`, ports and calls:
- `PortComesBack` and `BytesComeBack`: `ntohs` undoes `htons` for a port that fits, and
  `htons` undoes `ntohs` for any two digits. `HandedIs` says what `get_sockaddr_from_tuple`
  hands over, `TupleIs` what `make_sockaddr` tells, `NamesIs` and `SourcesIs` what the library picks.
- The inductive invariant says what is known of each place that holds an address:
  the names and peers of sockets (`SocketsAre`), what was told (`HeardIs`), the datagrams
  (`NetIs`) and the last result (`LastIs`). A name means the pair that was asked for, though
  the library may have replaced port 0 since; what was told is the whole of an address whose
  scope is that of its link; a socket may broadcast if and only if the program knows.
- From it follow `AddressesTypeCorrect`, `AskedAddressesReached` (`AddressAsAsked`),
  `RepliesReach` (`RepliesReachSender`), `PairsAccepted` (`PairsPassBack`), `QueriesExact`
  (`ResolverAskedExactly`) and `BroadcastsPermitted` (`BroadcastAsPermitted`).
- The assumption says of the constants what holds of addresses: the wildcards and the
  broadcast are different addresses of their families, and the texts that stand for them
  (`""`, `"<broadcast>"`) and a text that is no address are three texts that are no host.

The inductive invariants of `SendAllProofs`, `AncillaryProofs` and `AddressesProofs` were also
model-checked on the instances of section 3 before they were proved.

Only model-checked: `ClosedIsReleased`, `TimedCallsEnd`, `ClosedCallsEnd` and
`TimedSendEnds`. They are liveness under fairness, which is out of the prover's reach, and so is
ENABLED: that the system does not deadlock is TLC's result, too. Every safety property of a passing run and every
refinement is proved.

## 5. What is not modelled

- The data of sockets, but for the positions of bytes in `sendall`.
- `dup()` (it raises AttributeError: `_iothpy` has no `dup`) and `sendfile()` (it raises
  NameError: names it needs are not imported).
- `listen`, which is one library call, and streams: what they do with descriptors is in
  `SocketObjects`, what they wait for in `SockCall`. Other options than SO_BROADCAST.
- `override.py`, `const_linkadd.c` and module initialisation, which run once and keep no
  state of their own.
- Of `Stack`: `if_nameindex`, `if_nametoindex`, `if_indextoname` and `ioth_resolvconf`, which
  change nothing of the stack; of name resolution the conversion of the answers.
- `sendmsg`: its entry in `socket_methods` is commented out (`iothpy_socket.c:2348`) and nothing
  else calls `sock_sendmsg`, so that no program reaches it.
- Of `recvmsg`: the bytes moved, and sockets of a family that the address
  functions do not know. That ioth descriptors are closed by the host's `close` in
  `recvmsg` depends on the plugin; the model has one table.
- Other threads during a `Stack` method: the GIL is kept, so they wait with it.

## 6. The plan

1. (done) `Descriptors`, `SocketObjects`, their refinement and proofs; `BlockingMode` and
   its proofs; `TimedCall`, `SockCall` and its proofs; `SendAll` and its proofs; `StackConfig`
   and its proofs; `Ancillary` and its proofs; `Addresses` and its proofs.
2. `SockCallProofs`, `SendAllProofs`: the safety half of what ends a call, such as that a
   call which is `Stuck` had a setter beside it, so that the exception in
   `TimedCallsEnd` is no wider than it must be.
3. `StackConfigProofs`, `AddressesProofs`: under what condition the disagreements found
   (`RoutesAsAsked`, `AddressesPassBack`) do not show: routes whose destination is their
   gateway, addresses of IPv4.
