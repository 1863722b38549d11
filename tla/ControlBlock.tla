--------------------------- MODULE ControlBlock ---------------------------
(***************************************************************************)
(* A buffer of ancillary data: the macros of <sys/socket.h> (external) and *)
(* the functions of iothpy_socket.c that measure items in it.  A size_t    *)
(* wraps at Word; header, alignment and limits are scaled down with it.    *)
(***************************************************************************)
EXTENDS Integers

CONSTANTS
    Word,     \* 2^w: a size_t is 0..Word-1
    Limit,    \* SOCKLEN_T_LIMIT
    Header,   \* sizeof(struct cmsghdr)
    LenEnd,   \* the end of cmsg_len in it
    Align     \* of the items in the buffer

ASSUME ControlBlockAssumption ==
    /\ {Word, Limit, Header, LenEnd, Align} \subseteq Nat \ {0}
    /\ Header % Align = 0 /\ LenEnd <= Header
    /\ Header + Align <= Limit /\ 2 * (Limit + 1) <= Word

Size == 0..(Word - 1)
NoSize == Word  \* a function that returns 0 and leaves *result alone
NULL == Word    \* a null struct cmsghdr *, for pointers are offsets in the buffer

\* The macros.
Aligned(n) == (((n + Align - 1) % Word) \div Align) * Align
CMSG_LEN(n) == (Header + n) % Word
CMSG_SPACE(n) == (Header + Aligned(n)) % Word

InRange(n, tmp) == ~(tmp > Limit \/ tmp < n)

get_CMSG_LEN(length) ==
    IF length <= Limit - CMSG_LEN(0) /\ InRange(length, CMSG_LEN(length))
    THEN CMSG_LEN(length) ELSE NoSize

\* Faulty variant: no room for the padding after the data.
get_CMSG_SPACE_NoPad(length) ==
    IF length <= Limit - CMSG_LEN(0) /\ InRange(length, CMSG_LEN(length))
    THEN CMSG_LEN(length) ELSE NoSize

get_CMSG_SPACE(length) ==
    IF length <= Limit - CMSG_SPACE(1) /\ InRange(length, CMSG_SPACE(length))
    THEN CMSG_SPACE(length) ELSE NoSize

\* The functions of the module _iothpy; NoSize is an OverflowError.
socket_CMSG_LEN(length) == IF length < 0 THEN NoSize ELSE get_CMSG_LEN(length)
socket_CMSG_SPACE(length) == IF length < 0 THEN NoSize ELSE get_CMSG_SPACE(length)

----------------------------------------------------------------------------
\* A block: controllen (msg_controllen) and heads, the headers in the buffer by
\* their offset.
Headers(b) == DOMAIN b.heads

\* cmsg_len of the header at o: what malloc left in the buffer is never read.
LenAt(b, o) == b.heads[o].cmsg_len

CMSG_FIRSTHDR(b) == IF b.controllen >= Header THEN 0 ELSE NULL

\* peeks: glibc before 2.37, which wants the next item inside the buffer too.
CMSG_NXTHDR(b, o, peeks) ==
    LET next == o + Aligned(LenAt(b, o)) IN
    IF /\ LenAt(b, o) >= Header
       /\ next + Header <= b.controllen
       /\ peeks => next + Aligned(LenAt(b, next)) <= b.controllen
    THEN next ELSE NULL

cmsg_min_space(b, o, space) ==
    LET wanted == IF space < LenEnd THEN LenEnd ELSE space IN
    /\ o # NULL /\ b.controllen > 0
    /\ o <= Word - 1 - wanted
    /\ o + wanted <= b.controllen

\* Faulty variant: counted from the header instead of the data.
get_cmsg_data_space_head(b, o) ==
    IF o + Header > b.controllen THEN NoSize ELSE b.controllen - o

get_cmsg_data_space(b, o) ==
    IF o + Header > b.controllen THEN NoSize ELSE b.controllen - (o + Header)

\* -1: no valid header; 0: all the data is in the buffer; 1: a part of it is.
get_cmsg_data_len(b, o) ==
    LET long == LenAt(b, o) - Header
        space == get_cmsg_data_space(b, o)
    IN IF ~cmsg_min_space(b, o, CMSG_LEN(0)) \/ LenAt(b, o) < Header \/ space = NoSize
       THEN [status |-> -1, len |-> 0]
       ELSE IF space >= long THEN [status |-> 0, len |-> long]
       ELSE [status |-> 1, len |-> space]
============================================================================
