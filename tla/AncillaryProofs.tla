-------------------------- MODULE AncillaryProofs --------------------------
(***************************************************************************)
(* Theorems about Ancillary, for any bufsize and any number of items.        *)
(***************************************************************************)
EXTENDS Ancillary, FiniteSetTheorems, SequenceTheorems, TLAPS

----------------------------------------------------------------------------
(* Alignment *)

\* The quotient is the only one with a remainder below Align.
LEMMA DivIs ==
    ASSUME NEW m \in Nat, NEW a \in Nat \ {0}
    PROVE  /\ m \div a \in Nat
           /\ (m \div a) * a <= m /\ m < (m \div a) * a + a
OBVIOUS

\* The other way round.
LEMMA DivUnique ==
    ASSUME NEW m \in Nat, NEW a \in Nat \ {0}, NEW q \in Nat, q * a <= m, m < q * a + a
    PROVE  m \div a = q
OBVIOUS

\* The bufsize are small enough for a size_t.
LEMMA Sizes ==
    /\ Word \in Nat /\ Limit \in Nat /\ Header \in Nat /\ LenEnd \in Nat /\ Align \in Nat
    /\ Align >= 1 /\ Header >= 1 /\ LenEnd <= Header /\ Header + Align <= Limit
    /\ 2 * (Limit + 1) <= Word /\ IntSize \in Nat /\ IntSize >= 1
    /\ MaxIn \in Nat /\ 2 * MaxIn < Word
BY ControlBlockAssumption, AncillaryAssumption
   DEF ControlBlockAssumption, AncillaryAssumption

\* Those of them that have no product.
LEMMA Small ==
    /\ Header \in Nat /\ Header >= 1 /\ Limit \in Nat /\ Word \in Nat
    /\ Limit < Word
BY Sizes

\* Places in a buffer, in order.
LEMMA Between ==
    ASSUME NEW a \in Nat, NEW b \in Nat, NEW c \in Nat, a < b, b < c
    PROVE  a < c
OBVIOUS

Padded(n) == ((n + Align - 1) \div Align) * Align

\* Padding is the least that reaches a multiple of Align.
LEMMA PaddedIs ==
    ASSUME NEW n \in Nat
    PROVE  /\ Padded(n) \in Nat /\ n <= Padded(n) /\ Padded(n) < n + Align
           /\ \E q \in Nat : Padded(n) = q * Align
<1> DEFINE q == (n + Align - 1) \div Align
<1>1. n + Align - 1 \in Nat /\ Align \in Nat \ {0}
  BY Sizes
<1>2. q \in Nat /\ q * Align <= n + Align - 1 /\ n + Align - 1 < q * Align + Align
  BY <1>1, DivIs
<1> HIDE DEF q
<1>3. q * Align \in Nat
  BY <1>1, <1>2
<1>4. Padded(n) = q * Align
  BY DEF Padded, q
<1>5. n <= q * Align /\ q * Align < n + Align
  BY <1>1, <1>2, <1>3
<1> QED BY <1>2, <1>3, <1>4, <1>5

\* No multiple of Align lies between a length and its padding.
LEMMA LeastMultiple ==
    ASSUME NEW n \in Nat, NEW q \in Nat, n <= q * Align
    PROVE  Padded(n) <= q * Align
<1>1. PICK p \in Nat : Padded(n) = p * Align
  BY PaddedIs
<1>2. p * Align < q * Align + Align
  <2>1. q * Align \in Nat /\ Align \in Nat
    BY Sizes
  <2>2. p * Align < n + Align
    BY <1>1, PaddedIs
  <2>3. p * Align \in Nat
    BY <1>1, Sizes
  <2> QED BY <2>1, <2>2, <2>3
<1>3. p <= q
  <2> SUFFICES ASSUME p >= q + 1 PROVE FALSE
    OBVIOUS
  <2>1. p * Align >= (q + 1) * Align
    BY Sizes
  <2>2. (q + 1) * Align = q * Align + Align
    BY Sizes
  <2> QED BY <1>2, <2>1, <2>2, Sizes
<1>4. p * Align <= q * Align
  BY <1>3, Sizes
<1> QED BY <1>1, <1>4

\* The header is a multiple of Align.
LEMMA HeaderMultiple == \E h \in Nat : Header = h * Align
<1> DEFINE h == Header \div Align
<1>1. Header \in Nat /\ Align \in Nat \ {0} /\ Header % Align = 0
  BY Sizes, ControlBlockAssumption DEF ControlBlockAssumption
<1>2. h \in Nat /\ Header = h * Align
  BY <1>1
<1> QED BY <1>2

\* The header, a multiple of Align, may be padded with the data or apart from it.
LEMMA PaddedHeader ==
    ASSUME NEW n \in Nat
    PROVE  Padded(Header + n) = Header + Padded(n)
<1>1. PICK h \in Nat : Header = h * Align
  BY HeaderMultiple
<1>2. PICK p \in Nat : Padded(n) = p * Align
  BY PaddedIs
<1>3. /\ Header + n \in Nat /\ Header \in Nat /\ Align \in Nat
      /\ Padded(n) \in Nat /\ n <= Padded(n) /\ Padded(n) < n + Align
  BY PaddedIs, Sizes
<1>4. PICK r \in Nat : Padded(Header + n) = r * Align
  BY <1>3, PaddedIs
<1>5. /\ Padded(Header + n) \in Nat /\ Header + n <= Padded(Header + n)
       /\ Padded(Header + n) < Header + n + Align
  BY <1>3, PaddedIs
<1>6. (h + p) * Align = Header + Padded(n)
  BY <1>1, <1>2, Sizes
<1>7. Padded(Header + n) <= Header + Padded(n)
  <2>1. Header + n <= (h + p) * Align /\ Header + n \in Nat /\ h + p \in Nat
    BY <1>6, PaddedIs, Sizes
  <2>2. Padded(Header + n) <= (h + p) * Align
    BY <2>1, LeastMultiple
  <2> QED BY <1>6, <2>2
<1>8. r >= h
  <2> SUFFICES ASSUME r + 1 <= h PROVE FALSE
    OBVIOUS
  <2>1. (r + 1) * Align <= h * Align
    BY Sizes
  <2>2. (r + 1) * Align = r * Align + Align
    BY Sizes
  <2>3. Padded(Header + n) + Align <= Header
    BY <1>1, <1>4, <2>1, <2>2
  <2> QED BY <1>3, <1>5, <2>3, Sizes
<1>9. n <= (r - h) * Align
  <2>1. (r - h) * Align = Padded(Header + n) - Header
    BY <1>3, <1>1, <1>4
  <2> QED BY <1>3, <1>5, <2>1
<1>10. Padded(n) <= (r - h) * Align
  BY <1>8, <1>9, LeastMultiple
<1>11. Header + Padded(n) <= Padded(Header + n)
  <2>1. (r - h) * Align = Padded(Header + n) - Header
    BY <1>3, <1>1, <1>4
  <2> QED BY <1>3, <1>10, <1>5, <2>1
<1> QED BY <1>3, <1>7, <1>11, <1>5

\* CMSG_ALIGN pads, if its argument leaves it room to.
LEMMA AlignedPads ==
    ASSUME NEW n \in Nat, n + Align <= Word
    PROVE  Aligned(n) = Padded(n)
<1>1. n + Align - 1 \in 0..Word - 1 /\ Word \in Nat \ {0}
  BY Sizes
<1>2. (n + Align - 1) % Word = n + Align - 1
  BY <1>1
<1> QED BY <1>2 DEF Aligned, Padded

\* A place between two items, and what fits between two of them.
OnAlign(n) == n % Align = 0

\* Such a place is a multiple of Align.
LEMMA OnAlignIs ==
    ASSUME NEW n \in Nat
    PROVE  OnAlign(n) <=> \E q \in Nat : n = q * Align
<1>1. Align \in Nat \ {0}
  BY Sizes
<1>2. OnAlign(n) => n = (n \div Align) * Align /\ n \div Align \in Nat
  BY <1>1 DEF OnAlign
<1>3. ASSUME NEW q \in Nat, n = q * Align PROVE OnAlign(n)
  <2>1. n \div Align = q
    BY <1>1, <1>3, DivUnique
  <2> QED BY <1>1, <1>3, <2>1 DEF OnAlign
<1> QED BY <1>2, <1>3

\* So is what is so far after it.
LEMMA OnAlignSum ==
    ASSUME NEW m \in Nat, NEW n \in Nat, OnAlign(m), OnAlign(n)
    PROVE  OnAlign(m + n)
<1>1. PICK p \in Nat, q \in Nat : m = p * Align /\ n = q * Align
  BY OnAlignIs
<1>2. m + n = (p + q) * Align /\ p + q \in Nat /\ m + n \in Nat
  BY <1>1, Sizes
<1> QED BY <1>2, OnAlignIs

\* What fits between two such places fits with its padding.
LEMMA PaddedFits ==
    ASSUME NEW o \in Nat, NEW n \in Nat, NEW size \in Nat, OnAlign(o), OnAlign(size),
           o + n <= size
    PROVE  o + Padded(n) <= size
<1>1. PICK p \in Nat, q \in Nat : o = p * Align /\ size = q * Align
  BY OnAlignIs
<1>2. p <= q
  <2> SUFFICES ASSUME q + 1 <= p PROVE FALSE
    BY <1>1
  <2>1. (q + 1) * Align <= p * Align
    BY Sizes
  <2>2. (q + 1) * Align = q * Align + Align
    BY Sizes
  <2> QED BY <1>1, <2>1, <2>2, Sizes
<1>3. (q - p) * Align = size - o /\ q - p \in Nat
  BY <1>1, <1>2, Sizes
<1>4. n <= (q - p) * Align
  BY <1>3
<1>5. Padded(n) <= (q - p) * Align
  BY <1>3, <1>4, LeastMultiple
<1> QED BY <1>3, <1>5, PaddedIs

\* A padded item, a header and the start of the buffer are such places.
LEMMA PaddedOnAlign ==
    ASSUME NEW n \in Nat
    PROVE  OnAlign(Padded(n)) /\ OnAlign(Header) /\ OnAlign(0)
<1>1. 0 = 0 * Align /\ Header \in Nat /\ Padded(n) \in Nat
  BY Sizes, PaddedIs
<1> QED BY <1>1, PaddedIs, HeaderMultiple, OnAlignIs

----------------------------------------------------------------------------
(* The functions that measure items *)

\* What get_CMSG_SPACE and get_CMSG_LEN take from SOCKLEN_T_LIMIT.
LEMMA SpaceOfOne == CMSG_SPACE(1) = Header + Align /\ CMSG_LEN(0) = Header
<1>1. (1 + Align - 1) \div Align = 1
  BY Sizes
<1>2. Padded(1) = Align
  BY <1>1, Sizes DEF Padded
<1>3. Aligned(1) = Align
  BY <1>2, AlignedPads, Sizes
<1> QED BY <1>3, Sizes DEF CMSG_SPACE, CMSG_LEN

\* get_CMSG_SPACE gives the padded size, or refuses an item within an alignment
\* of the limit.
LEMMA GetSpace ==
    ASSUME NEW n \in Nat, 2 * n < Word
    PROVE  get_CMSG_SPACE(n) = IF n + Header + Align <= Limit THEN Header + Padded(n)
                                                              ELSE NoSize
<1>1. CMSG_SPACE(1) = Header + Align
  BY SpaceOfOne
<1>2. CASE n + Header + Align <= Limit
  <2>1. n + Align <= Word
    BY <1>2, Sizes
  <2>2. Padded(n) \in Nat /\ n <= Padded(n) /\ Padded(n) < n + Align
    BY PaddedIs
  <2>3. Aligned(n) = Padded(n)
    BY <2>1, AlignedPads
  <2>4. Header + Padded(n) \in 0..Word - 1 /\ Header + Padded(n) <= Limit
          /\ n <= Header + Padded(n)
    BY <1>2, <2>2, Sizes
  <2>5. CMSG_SPACE(n) = Header + Padded(n)
    BY <2>3, <2>4, Sizes DEF CMSG_SPACE
  <2>6. InRange(n, CMSG_SPACE(n)) /\ n <= Limit - CMSG_SPACE(1)
    BY <1>1, <1>2, <2>4, <2>5, Sizes DEF InRange
  <2> QED BY <1>2, <2>5, <2>6 DEF get_CMSG_SPACE
<1>3. CASE ~(n + Header + Align <= Limit)
  <2>1. ~(n <= Limit - CMSG_SPACE(1))
    BY <1>1, <1>3, Sizes
  <2> QED BY <1>3, <2>1 DEF get_CMSG_SPACE
<1> QED BY <1>2, <1>3

\* get_CMSG_LEN gives the length with its header, or refuses it beyond the limit.
LEMMA GetLen ==
    ASSUME NEW n \in Nat, 2 * n < Word
    PROVE  get_CMSG_LEN(n) = IF n + Header <= Limit THEN Header + n ELSE NoSize
<1>1. CMSG_LEN(0) = Header
  BY SpaceOfOne
<1>2. CASE n + Header <= Limit
  <2>1. Header + n \in 0..Word - 1 /\ Header + n <= Limit /\ n <= Header + n
    BY <1>2, Sizes
  <2>2. CMSG_LEN(n) = Header + n
    BY <2>1, Sizes DEF CMSG_LEN
  <2>3. InRange(n, CMSG_LEN(n)) /\ n <= Limit - CMSG_LEN(0)
    BY <1>1, <1>2, <2>1, <2>2, Sizes DEF InRange
  <2> QED BY <1>2, <2>2, <2>3 DEF get_CMSG_LEN
<1>3. CASE ~(n + Header <= Limit)
  <2>1. ~(n <= Limit - CMSG_LEN(0))
    BY <1>1, <1>3, Sizes
  <2> QED BY <1>3, <2>1 DEF get_CMSG_LEN
<1> QED BY <1>2, <1>3

\* CMSG_SPACE and CMSG_LEN give a program enough for an item of any length it
\* can have, or raise OverflowError; CMSG_SPACE gives as much as its padding.
THEOREM SpaceSuffices ==
    \A n \in 0..MaxIn :
        /\ socket_CMSG_SPACE(n) \in {Header + Padded(n), NoSize}
        /\ socket_CMSG_LEN(n) \in {Header + n, NoSize}
        /\ socket_CMSG_SPACE(n) # NoSize => socket_CMSG_LEN(n) # NoSize
<1> SUFFICES ASSUME NEW n \in 0..MaxIn
             PROVE  /\ socket_CMSG_SPACE(n) \in {Header + Padded(n), NoSize}
                    /\ socket_CMSG_LEN(n) \in {Header + n, NoSize}
                    /\ socket_CMSG_SPACE(n) # NoSize => socket_CMSG_LEN(n) # NoSize
  OBVIOUS
<1>1. n \in Nat /\ 2 * n < Word /\ ~(n < 0)
  BY Sizes
<1>2. socket_CMSG_SPACE(n) = get_CMSG_SPACE(n) /\ socket_CMSG_LEN(n) = get_CMSG_LEN(n)
  BY <1>1 DEF socket_CMSG_SPACE, socket_CMSG_LEN
<1>3. n + Header + Align <= Limit => n + Header <= Limit /\ Header + n # NoSize
  BY <1>1, Sizes DEF NoSize
<1> QED BY <1>1, <1>2, <1>3, GetSpace, GetLen

\* What a program asks for an item: no less than its padding, and no more in a
\* buffer that it can have.
Space(n) == socket_CMSG_SPACE(n)

\* CMSG_SPACE is exact, or more than any buffer.
LEMMA SpaceIs ==
    ASSUME NEW n \in 0..MaxIn
    PROVE  /\ Space(n) \in Nat /\ Header + Padded(n) <= Space(n)
           /\ Space(n) <= Limit => Space(n) = Header + Padded(n)
<1>1. n \in Nat /\ 2 * n < Word
  BY Sizes
<1>2. Padded(n) \in Nat /\ Padded(n) < n + Align
  BY <1>1, PaddedIs
<1>3. Header + Padded(n) \in Nat /\ Header + Padded(n) <= Word /\ Word \in Nat /\ ~(Word <= Limit)
  BY <1>1, <1>2, Sizes
<1>4. Space(n) = Header + Padded(n) \/ Space(n) = Word
  BY SpaceSuffices DEF Space, NoSize
<1> QED BY <1>3, <1>4

----------------------------------------------------------------------------
(* The inductive invariant *)

\* Where the space of item k starts, if the program could ask for those before.
Start(k) == IF k = 1 THEN 0 ELSE items[k - 1].asked

\* A header in the buffer: its data, its item, where the space of both ends.
Has(o) == block.heads[o].has
ItemAt(o) == block.heads[o].item
After(o) == o + Header + Padded(Has(o))

ItemRecord == [type : Type, len : 0..MaxIn, asked : Nat]
HeadRecord == [cmsg_len : Size, item : 1..MaxComing, has : 0..Limit]
Typed ==
    /\ TypeOK
    /\ items \in Seq(ItemRecord) /\ Len(items) <= MaxComing
    /\ block = [controllen |-> block.controllen, heads |-> block.heads]
    /\ Headers(block) \subseteq 0..Limit
    /\ list \in Seq([item : 1..MaxComing, len : 0..Limit])
    /\ closed \in Seq((1..MaxComing) \X Nat)

\* What is held is what is counted.
Accounts == held = (IF op = "done" THEN 0 ELSE nbufs)

\* What a call has not got to is as it was at its start.
Course ==
    /\ op = "done" <=> result # "none"
    /\ op \in {"idle", "parts", "guts"} =>
         items = <<>> /\ list = <<>> /\ block = Empty /\ at = NULL /\ opened = {} /\ bufsize = 0
    /\ op = "stack" => list = <<>> /\ at = NULL
    /\ op \notin {"close", "done"} \/ result = "returned" => closed = <<>>

\* The spaces of the items, one after another.
Placed ==
    /\ \A k \in DOMAIN items : items[k].asked = Start(k) + Space(items[k].len)
    /\ \A j, k \in DOMAIN items : j <= k => items[j].asked <= items[k].asked

\* A header is where the one before it ends; only the last is cut or
\* has a length that is not that of its data, and then the buffer is full.
Exact(o) == block.heads[o].cmsg_len = Header + Has(o)
Full(o) == block.controllen = bufsize /\ bufsize = o + Header + Has(o)
Odd(o) ==
    /\ Full(o) /\ items[ItemAt(o)].type = "other"
    /\ block.heads[o].cmsg_len < Header \/ block.heads[o].cmsg_len > Header + Has(o)
Lasts(o) ==
    /\ \A p \in Headers(block) : p <= o
    /\ \/ block.controllen = After(o)
       \/ block.controllen = bufsize /\ bufsize <= After(o)
GoodHead(o) ==
    /\ OnAlign(o) /\ o + Header + Has(o) <= block.controllen
    /\ ItemAt(o) \in DOMAIN items
    /\ After(o) \in Headers(block) \/ Lasts(o)
    /\ Exact(o) \/ Odd(o)
Chain ==
    /\ block.controllen <= bufsize
    /\ block.controllen = bufsize \/ OnAlign(block.controllen)
    /\ IF Headers(block) = {} THEN block.controllen = 0 ELSE 0 \in Headers(block)
    /\ \A o \in Headers(block) : GoodHead(o)
    /\ \A o, p \in Headers(block) : o < p => After(o) <= p /\ ItemAt(o) < ItemAt(p)

\* The descriptors that came with the headers before a place.
FdsOf(o) == {<<ItemAt(o), j>> : j \in 1..(Has(o) \div IntSize)}
RightsBefore(place) ==
    {o \in Headers(block) : o < place /\ items[ItemAt(o)].type = "rights"}
Came(place) == UNION {FdsOf(o) : o \in RightsBefore(place)}

\* An item that ends inside the buffer is whole, after well formed ones.
Fits ==
    WellFormed =>
      /\ Asked <= bufsize => block.controllen = Asked
      /\ \A k \in DOMAIN items : Start(k) + Header + items[k].len <= bufsize =>
           /\ Start(k) \in Headers(block)
           /\ block.heads[Start(k)] =
                [cmsg_len |-> Header + items[k].len, item |-> k, has |-> items[k].len]

Blocks == Chain /\ opened = Came(NULL) /\ Fits

\* A list of the headers before a place, with every one that brought
\* descriptors; of all of them if the buffer is enough.
InList(l, k, o) == ItemAt(o) = l[k].item /\ Has(o) = l[k].len
Listed(l, place) ==
    /\ place \in Headers(block) \cup {NULL}
    /\ \A k \in DOMAIN l : \E o \in Headers(block) : o < place /\ InList(l, k, o)
    /\ \A k \in DOMAIN l : k > 1 => l[k - 1].item < l[k].item
    /\ place # NULL \/ SeesAll =>
         \A o \in RightsBefore(place) : \E k \in DOMAIN l : InList(l, k, o)
    /\ EnoughSpace /\ WellFormed =>
         /\ \A k \in DOMAIN l : k \in DOMAIN items /\ l[k] = [item |-> k, len |-> items[k].len]
         /\ IF place = NULL THEN Len(l) = Len(items)
            ELSE Len(l) < Len(items) /\ place = Start(Len(l) + 1)

Reading == op = "read" \/ (op = "done" /\ result = "returned")
Reads == Reading => Listed(list, at)

\* The descriptors of the headers before a place are closed, none twice.
CameClosed(c, place) ==
    /\ place \in Headers(block) \cup {NULL}
    /\ IsInjective(c)
    /\ ToSet(c) \subseteq Came(place)
    /\ place # NULL \/ SeesAll => ToSet(c) = Came(place)

Closing == op = "close" \/ (op = "done" /\ result # "returned")
Closes == Closing => CameClosed(closed, at)

Ended == op = "done" => at = NULL

Inv == Typed /\ Accounts /\ Course /\ Placed /\ Blocks /\ Reads /\ Closes /\ Ended

----------------------------------------------------------------------------
(* The numbers of a state, and the items that arrive *)

\* It holds before a call.
LEMMA InitInv == Init => Inv
<1> SUFFICES ASSUME Init PROVE Inv
  OBVIOUS
<1> USE Sizes DEF Init, Empty
<1>1. items = <<>> /\ list = <<>> /\ closed = <<>> /\ Headers(block) = {}
  BY DEF Headers
<1>2. Typed
  <2>1. 0 \in Nat /\ 0 \in 0..MaxParts /\ 0 \in 0..Limit /\ MaxComing \in Nat
    BY AncillaryAssumption DEF AncillaryAssumption
  <2>2. TypeOK
    <3>1. \A k \in DOMAIN items : FALSE
      BY <1>1
    <3>2. nbufs \in 0..MaxParts /\ held \in Nat
      BY <2>1
    <3>3. {block.controllen, bufsize} \subseteq 0..Limit /\ at \in Size \cup {NULL}
      BY <2>1
    <3> QED BY <1>1, <3>1, <3>2, <3>3 DEF TypeOK
  <2>3. Len(items) <= MaxComing /\ block = [controllen |-> block.controllen, heads |-> block.heads]
    BY <1>1, <2>1
  <2> QED BY <1>1, <2>2, <2>3 DEF Typed
<1>3. Accounts /\ Course /\ Placed /\ Ended
  BY <1>1 DEF Accounts, Course, Placed, Ended
<1>4. Blocks /\ Reads /\ Closes
  <2>1. block.controllen = 0 /\ bufsize = 0 /\ DOMAIN items = {} /\ Asked = 0 /\ opened = {}
    BY DEF Asked
  <2>2. Chain
    BY <1>1, <2>1, PaddedOnAlign DEF Chain
  <2>3. Came(NULL) = {}
    BY <1>1 DEF Came, RightsBefore
  <2>4. Fits
    BY <2>1 DEF Fits
  <2> QED BY <2>1, <2>2, <2>3, <2>4 DEF Blocks, Reads, Closes, Reading, Closing
<1> QED BY <1>2, <1>3, <1>4 DEF Inv

\* What the type of a state says of an item.
LEMMA ItemNumbers ==
    ASSUME Typed, NEW k \in DOMAIN items
    PROVE  /\ k \in 1..Len(items) /\ Len(items) \in Nat
           /\ items[k] \in ItemRecord
           /\ items[k].len \in Nat /\ items[k].len <= MaxIn /\ 2 * items[k].len < Word
           /\ items[k].asked \in Nat /\ items[k].type \in Type
           /\ Padded(items[k].len) \in Nat /\ items[k].len <= Padded(items[k].len)
<1>1. items[k] \in ItemRecord /\ k \in 1..Len(items) /\ Len(items) \in Nat
  BY DEF Typed
<1>2. items[k].len \in 0..MaxIn /\ items[k].asked \in Nat /\ items[k].type \in Type
  BY <1>1 DEF ItemRecord
<1>3. items[k].len \in Nat /\ items[k].len <= MaxIn /\ 2 * items[k].len < Word
  BY <1>2, Sizes
<1> QED BY <1>1, <1>2, <1>3, PaddedIs

\* What the type of a state says of a header and of the bufsize.
LEMMA HeadNumbers ==
    ASSUME Typed
    PROVE  /\ {block.controllen, bufsize} \subseteq Nat
           /\ block.controllen <= Limit /\ bufsize <= Limit
           /\ \A o \in Headers(block) :
                /\ o \in Nat /\ o <= Limit /\ o < NULL
                /\ block.heads[o] \in HeadRecord
                /\ Has(o) \in Nat /\ Has(o) <= Limit /\ ItemAt(o) \in 1..MaxComing
                /\ block.heads[o].cmsg_len \in Size
                /\ After(o) \in Nat /\ o + Header + Has(o) <= After(o)
<1>1. /\ {block.controllen, bufsize} \subseteq Nat
      /\ block.controllen <= Limit /\ bufsize <= Limit
  BY Sizes DEF Typed, TypeOK
<1>2. ASSUME NEW o \in Headers(block)
      PROVE  /\ o \in Nat /\ o <= Limit /\ o < NULL
             /\ block.heads[o] \in HeadRecord
             /\ Has(o) \in Nat /\ Has(o) <= Limit /\ ItemAt(o) \in 1..MaxComing
             /\ block.heads[o].cmsg_len \in Size
             /\ After(o) \in Nat /\ o + Header + Has(o) <= After(o)
  <2>1. o \in 0..Limit
    BY DEF Typed
  <2>2. block.heads[o] \in HeadRecord
    BY DEF Typed, TypeOK, HeadRecord
  <2>3. Has(o) \in 0..Limit /\ ItemAt(o) \in 1..MaxComing /\ block.heads[o].cmsg_len \in Size
    BY <2>2 DEF HeadRecord, Has, ItemAt
  <2>4. o \in Nat /\ o <= Limit /\ o < NULL /\ Has(o) \in Nat /\ Has(o) <= Limit
    BY <2>1, <2>3, Sizes DEF NULL
  <2>5. Padded(Has(o)) \in Nat /\ Has(o) <= Padded(Has(o))
    BY <2>4, PaddedIs
  <2>6. After(o) \in Nat /\ o + Header + Has(o) <= After(o)
    BY <2>4, <2>5, Sizes DEF After
  <2> QED BY <2>2, <2>3, <2>4, <2>6
<1> QED BY <1>1, <1>2

\* The space of an item starts at the end of the one before, and holds the item.
LEMMA StartIs ==
    ASSUME Typed, Placed, NEW k \in DOMAIN items
    PROVE  /\ Start(k) \in Nat /\ Asked \in Nat
           /\ items[k].asked = Start(k) + Space(items[k].len)
           /\ Start(k) + Header + items[k].len <= items[k].asked
           /\ items[k].asked <= Asked
           /\ k < Len(items) => Start(k + 1) = items[k].asked /\ k + 1 \in DOMAIN items
           /\ k = Len(items) => Asked = items[k].asked
<1>1. k \in 1..Len(items) /\ Len(items) \in Nat /\ Len(items) \in DOMAIN items
  BY DEF Typed
<1>2. items # <<>>
  BY <1>1 DEF Typed
<1>3. Asked = items[Len(items)].asked
  BY <1>2 DEF Asked
<1>4. Asked \in Nat
  BY <1>1, <1>3, ItemNumbers
<1>5. Start(k) \in Nat
  <2>1. CASE k = 1
    BY <2>1 DEF Start
  <2>2. CASE k # 1
    <3>1. k - 1 \in DOMAIN items
      BY <1>1, <2>2 DEF Typed
    <3>2. items[k - 1].asked \in Nat
      BY <3>1, ItemNumbers
    <3> QED BY <2>2, <3>2 DEF Start
  <2> QED BY <2>1, <2>2
<1>6. items[k].asked = Start(k) + Space(items[k].len) /\ items[k].asked <= Asked
  BY <1>1, <1>3 DEF Placed
<1>7. Start(k) + Header + items[k].len <= items[k].asked
  <2>1. items[k].len \in 0..MaxIn
    BY DEF Typed, TypeOK
  <2>2. Space(items[k].len) \in Nat /\ Header + items[k].len <= Space(items[k].len)
    BY <2>1, SpaceIs, ItemNumbers, Small
  <2> QED BY <1>5, <1>6, <2>2, ItemNumbers, Small
<1>8. ASSUME k < Len(items) PROVE Start(k + 1) = items[k].asked /\ k + 1 \in DOMAIN items
  <2>1. k + 1 # 1 /\ k + 1 - 1 = k /\ k + 1 \in 1..Len(items)
    BY <1>1, <1>8
  <2> QED BY <2>1 DEF Start, Typed
<1> QED BY <1>3, <1>4, <1>5, <1>6, <1>7, <1>8

\* The sum of the spaces is a number.
LEMMA AskedIn == ASSUME Typed PROVE Asked \in Nat
<1>1. ASSUME items # <<>> PROVE items[Len(items)].asked \in Nat
  <2>1. Len(items) \in DOMAIN items
    BY <1>1 DEF Typed
  <2> QED BY <2>1, ItemNumbers
<1> QED BY <1>1 DEF Asked

\* What was asked for the items that fit in a buffer is what they take.
LEMMA AskedExact ==
    ASSUME Typed, Placed, Asked <= bufsize, NEW k \in DOMAIN items
    PROVE  items[k].asked = Start(k) + Header + Padded(items[k].len)
<1>1. items[k].len \in 0..MaxIn
  BY DEF Typed, TypeOK
<1>2. /\ items[k].asked = Start(k) + Space(items[k].len) /\ items[k].asked <= Asked
      /\ Start(k) \in Nat /\ Asked \in Nat /\ bufsize \in Nat /\ bufsize <= Limit
  BY StartIs, HeadNumbers
<1>3. Space(items[k].len) \in Nat /\ Space(items[k].len) <= Limit
  BY <1>1, <1>2, SpaceIs, Small
<1>4. Space(items[k].len) = Header + Padded(items[k].len)
  BY <1>1, <1>3, SpaceIs
<1>5. Padded(items[k].len) \in Nat /\ Header \in Nat
  BY ItemNumbers, Small
<1> QED BY <1>2, <1>4, <1>5

\* An item more: the others stay where they were.
LEMMA OneItemMore ==
    ASSUME Typed, Placed, NEW type \in Type, NEW len \in 0..MaxIn,
           items' = WithItem(type, len), Len(items) < MaxComing,
           NEW n \in Nat, n = Len(items) + 1
    PROVE  /\ items' \in Seq(ItemRecord) /\ Len(items') = n
           /\ Len(items') <= MaxComing /\ DOMAIN items' = DOMAIN items \cup {n}
           /\ \A k \in DOMAIN items :
                k \in Nat /\ k < n /\ items'[k] = items[k] /\ Start(k)' = Start(k)
           /\ items'[n] =
                [type |-> type, len |-> len, asked |-> Asked + Space(len)]
           /\ Start(n)' = Asked
           /\ Asked' = Asked + Space(len)
           /\ Placed'
<1> DEFINE i == [type |-> type, len |-> len, asked |-> Asked + Space(len)]
<1>1. len \in Nat /\ Space(len) \in Nat /\ Asked \in Nat
  BY SpaceIs, AskedIn
<1>2. i \in ItemRecord
  BY <1>1 DEF ItemRecord
<1>3. items \in Seq(ItemRecord) /\ items' = Append(items, i) /\ Len(items) \in Nat
  BY DEF Typed, WithItem, Space
<1>4. /\ items' \in Seq(ItemRecord) /\ Len(items') = n
      /\ Len(items') <= MaxComing /\ DOMAIN items' = DOMAIN items \cup {n}
      /\ \A k \in DOMAIN items : k \in Nat /\ k < n /\ items'[k] = items[k]
      /\ items'[n] = i
  <2> HIDE DEF i
  <2>1. items' \in Seq(ItemRecord) /\ Len(items') = n
    BY <1>2, <1>3
  <2>2. DOMAIN items' = 1..n /\ DOMAIN items = 1..Len(items)
    BY <1>3, <2>1
  <2>3. \A k \in DOMAIN items : items'[k] = items[k]
    BY <1>3, <2>2
  <2>4. items'[n] = i
    BY <1>3, <2>2
  <2> QED BY <1>3, <2>1, <2>2, <2>3, <2>4, AncillaryAssumption DEF AncillaryAssumption
<1>5. ASSUME NEW k \in DOMAIN items PROVE Start(k)' = Start(k)
  <2>1. k \in 1..Len(items)
    BY <1>3
  <2>2. CASE k = 1
    BY <2>2 DEF Start
  <2>3. CASE k # 1
    <3>1. k - 1 \in DOMAIN items
      BY <1>3, <2>1, <2>3
    <3> QED BY <1>4, <2>3, <3>1 DEF Start
  <2> QED BY <2>2, <2>3
<1>6. Start(n)' = Asked
  <2>1. CASE Len(items) = 0
    <3>1. items = <<>> /\ n = 1
      BY <1>3, <2>1
    <3> QED BY <3>1 DEF Start, Asked
  <2>2. CASE Len(items) # 0
    <3>1. Len(items) \in DOMAIN items /\ n # 1 /\ n - 1 = Len(items) /\ items # <<>>
      BY <1>3, <2>2
    <3> QED BY <1>4, <3>1 DEF Start, Asked
  <2> QED BY <2>1, <2>2
<1>7. Asked' = Asked + Space(len)
  <2>1. items' # <<>> /\ Len(items') = n
    BY <1>3, <1>4
  <2>2. items'[n].asked = Asked + Space(len)
    BY <1>4
  <2> QED BY <2>1, <2>2 DEF Asked
<1>8. Placed'
  <2>1. ASSUME NEW k \in DOMAIN items'
        PROVE  items'[k].asked = Start(k)' + Space(items'[k].len)
    <3>1. CASE k \in DOMAIN items
      BY <1>4, <1>5, <3>1 DEF Placed
    <3>2. CASE k = n
      <4>1. items'[k].asked = Asked + Space(len) /\ items'[k].len = len
        BY <1>4, <3>2
      <4> QED BY <1>6, <3>2, <4>1
    <3> QED BY <1>4, <3>1, <3>2
  <2>2. ASSUME NEW j \in DOMAIN items', NEW k \in DOMAIN items', j <= k
        PROVE  items'[j].asked <= items'[k].asked
    <3>1. \A m \in DOMAIN items : m < n /\ m \in Nat
      BY <1>3
    <3>2. CASE k \in DOMAIN items
      <4>1. j # n
        BY <1>3, <2>2, <3>1, <3>2
      <4>2. j \in DOMAIN items
        BY <1>4, <4>1
      <4> QED BY <1>4, <2>2, <3>2, <4>2 DEF Placed
    <3>3. CASE k = n /\ j \in DOMAIN items
      <4>1. items[j].asked <= Asked /\ items[j].asked \in Nat
        BY <3>3, StartIs, ItemNumbers
      <4>2. items'[k].asked = Asked + Space(len)
        BY <1>4, <3>3
      <4>3. items'[j].asked = items[j].asked
        BY <1>4, <3>3
      <4> QED BY <1>1, <4>1, <4>2, <4>3
    <3>4. CASE k = n /\ j = n
      <4>1. items'[k].asked = Asked + Space(len)
        BY <1>4, <3>4
      <4> QED BY <1>1, <3>4, <4>1
    <3> QED BY <1>4, <3>2, <3>3, <3>4
  <2> QED BY <2>1, <2>2 DEF Placed, Start
<1> QED BY <1>4, <1>5, <1>6, <1>7, <1>8

\* The quotient is the number of whole parts that fit.
LEMMA DivFits ==
    ASSUME NEW n \in Nat, NEW r \in Nat, NEW a \in Nat \ {0}
    PROVE  /\ n * a <= r <=> n <= r \div a
           /\ (n * a) \div a = n
<1> DEFINE q == r \div a
<1>1. q \in Nat /\ q * a <= r /\ r < q * a + a /\ n * a \in Nat
  BY DivIs
<1> HIDE DEF q
<1>2. ASSUME n <= q PROVE n * a <= r
  <2>1. n * a <= q * a
    BY <1>1, <1>2
  <2> QED BY <1>1, <2>1
<1>3. ASSUME n >= q + 1 PROVE n * a > r
  <2>1. (q + 1) * a <= n * a /\ (q + 1) * a = q * a + a
    BY <1>1, <1>3
  <2>2. q * a \in Nat
    BY <1>1
  <2> QED BY <1>1, <2>1, <2>2
<1>4. n <= q \/ n >= q + 1
  BY <1>1
<1>5. (n * a) \div a = n
  BY <1>1, DivUnique
<1> QED BY <1>1, <1>2, <1>3, <1>4, <1>5 DEF q

\* An item that comes with a message: what the stack writes of it, or that it
\* writes nothing.
Arrives(type, len, cmsg_len, has) ==
    /\ Coming /\ Puts(type, len, cmsg_len, has)
    /\ type \in Type /\ len \in 0..MaxIn /\ cmsg_len \in Size
    /\ has \in Nat /\ Header + has <= Room
    /\ \/ cmsg_len = Header + has
       \/ /\ type = "other" /\ Header + has = Room
          /\ cmsg_len < Header \/ cmsg_len > Header + has
    /\ cmsg_len >= Header => (Header + len <= Room => has = len /\ cmsg_len = Header + len)
    /\ opened' = IF type = "rights"
                 THEN opened \cup {<<Len(items) + 1, j>> : j \in 1..(has \div IntSize)}
                 ELSE opened

Misses(type, len) ==
    /\ Coming /\ Cuts(type, len)
    /\ type \in Type /\ len \in 0..MaxIn /\ Room < Header + len

Arrival ==
    \/ \E type, len, cmsg_len, has : Arrives(type, len, cmsg_len, has)
    \/ \E type, len : Misses(type, len)

\* What the stack has filled and what is left are the buffer.
LEMMA RoomIs ==
    ASSUME Typed, Chain
    PROVE  Room \in Nat /\ Room <= Limit /\ block.controllen + Room = bufsize
<1>1. /\ block.controllen \in Nat /\ bufsize \in Nat /\ bufsize <= Limit
      /\ block.controllen <= bufsize
  BY HeadNumbers DEF Chain
<1>2. Room = bufsize - block.controllen
  BY DEF Room
<1> QED BY <1>1, <1>2, Sizes

\* Descriptors arrive, all or those that fit, or do not.
LEMMA RightsArrive ==
    ASSUME Typed, Chain, NEW n \in 0..MaxIn, Rights(n)
    PROVE  Arrival
<1> DEFINE len == n * IntSize
           fit == IF Room < Header THEN 0 ELSE (Room - Header) \div IntSize
           m == IF n < fit THEN n ELSE fit
<1>1. /\ Room \in Nat /\ Room <= Limit /\ n \in Nat /\ IntSize \in Nat \ {0}
      /\ MaxIn \in Nat /\ n > 0 /\ len <= MaxIn /\ Coming
  BY RoomIs, Sizes, AncillaryAssumption DEF AncillaryAssumption, Rights
<1>2. fit \in Nat /\ m \in Nat /\ m <= fit /\ m <= n
  <2>1. Room >= Header => Room - Header \in Nat
    BY <1>1, Sizes
  <2>2. fit \in Nat
    BY <1>1, <2>1, DivIs, Sizes
  <2> HIDE DEF fit
  <2> QED BY <1>1, <2>2
<1>3. len \in Nat /\ len \in 0..MaxIn
  <2>1. len \in Nat
    BY <1>1
  <2> HIDE DEF len
  <2> QED BY <1>1, <2>1, Sizes
<1>4. /\ m = 0 => Cuts("rights", len)
      /\ m # 0 => /\ Puts("rights", len, Header + m * IntSize, m * IntSize)
                  /\ opened' = opened \cup {<<Len(items) + 1, j>> : j \in 1..m}
  BY DEF Rights
<1>5. CASE m = 0
  <2>1. ASSUME Room < Header PROVE Room < Header + len
    <3> HIDE DEF len
    <3> QED BY <1>1, <1>3, <2>1, Sizes
  <2>2. ASSUME Room >= Header PROVE Room < Header + len
    <3>1. Room - Header \in Nat /\ fit = (Room - Header) \div IntSize /\ fit = 0
      BY <1>1, <1>5, <2>2, Sizes
    <3>2. ~(n <= fit)
      BY <1>1, <3>1
    <3>3. ~(len <= Room - Header)
      BY <1>1, <3>1, <3>2, DivFits
    <3> HIDE DEF len, fit
    <3> QED BY <1>1, <1>3, <3>1, <3>3, Sizes
  <2>3. Room < Header + len
    BY <1>1, <2>1, <2>2, Sizes
  <2>4. Misses("rights", len)
    <3> HIDE DEF len, m
    <3> QED BY <1>1, <1>3, <1>4, <1>5, <2>3 DEF Misses, Type
  <2> QED BY <2>4 DEF Arrival
<1>6. CASE m # 0
  <2> DEFINE has == m * IntSize
  <2>1. Room >= Header /\ fit = (Room - Header) \div IntSize /\ Room - Header \in Nat
    BY <1>1, <1>2, <1>6, Sizes
  <2>2. has \in Nat /\ has <= Room - Header /\ has \div IntSize = m
    BY <1>1, <1>2, <2>1, DivFits
  <2>3. ASSUME Header + len <= Room PROVE has = len
    <3>1. len <= Room - Header
      BY <1>1, <1>3, <2>3, Sizes
    <3>2. n <= fit
      BY <1>1, <2>1, <3>1, DivFits
    <3>3. m = n
      BY <1>1, <1>2, <3>2
    <3> QED BY <3>3
  <2> HIDE DEF has
  <2>4. Puts("rights", len, Header + has, has)
    BY <1>4, <1>6 DEF has
  <2>5. opened' = opened \cup {<<Len(items) + 1, j>> : j \in 1..(has \div IntSize)}
    BY <1>4, <1>6, <2>2
  <2>6. Header + has \in Size /\ Header + has <= Room
    BY <1>1, <2>1, <2>2, Sizes DEF Size
  <2>7. Arrives("rights", len, Header + has, has)
    <3> HIDE DEF len
    <3> QED BY <1>1, <1>3, <2>2, <2>3, <2>4, <2>5, <2>6 DEF Arrives, Type
  <2> QED BY <2>7 DEF Arrival
<1> QED BY <1>5, <1>6

\* So does other data, with the length of what fits or of all of it.
LEMMA OtherArrives ==
    ASSUME Typed, Chain, NEW len \in 0..MaxIn, Other(len)
    PROVE  Arrival
<1> DEFINE has == IF len < Room - Header THEN len ELSE Room - Header
<1>1. /\ Room \in Nat /\ Room <= Limit /\ len \in Nat /\ len \in 0..MaxIn /\ Coming
      /\ len <= MaxIn
  BY RoomIs, Sizes, AncillaryAssumption DEF AncillaryAssumption, Other
<1>2. CASE Room < Header /\ Cuts("other", len)
  <2>1. Room < Header + len
    BY <1>1, <1>2, Sizes
  <2>2. Misses("other", len)
    BY <1>1, <1>2, <2>1 DEF Misses, Type
  <2> QED BY <2>2 DEF Arrival
<1>3. CASE /\ Room >= Header /\ opened' = opened
           /\ \/ Puts("other", len, Header + has, has)
              \/ Puts("other", len, Header + len, has)
  <2>1. /\ has \in Nat /\ Header + has <= Room /\ has <= len
        /\ has = len \/ Header + has = Room
        /\ Header + len <= Room => has = len
    BY <1>1, <1>3, Sizes
  <2> HIDE DEF has
  <2>2. Header + has \in Size /\ Header + len \in Size
    BY <1>1, <2>1, Sizes DEF Size
  <2>3. ASSUME Puts("other", len, Header + has, has)
        PROVE  Arrives("other", len, Header + has, has)
    BY <1>1, <1>3, <2>1, <2>2, <2>3, Sizes DEF Arrives, Type
  <2>4. ASSUME Puts("other", len, Header + len, has), has # len
        PROVE  Arrives("other", len, Header + len, has)
    BY <1>1, <1>3, <2>1, <2>2, <2>4, Sizes DEF Arrives, Type
  <2> QED BY <1>3, <2>3, <2>4 DEF Arrival
<1> QED BY <1>2, <1>3 DEF Other

\* A header that is not valid arrives at the end of the buffer.
LEMMA MalformedArrives ==
    ASSUME Typed, Chain, NEW len \in 0..MaxIn, Malformed(len)
    PROVE  Arrival
<1>1. /\ Room \in Nat /\ Room <= Limit /\ len \in Nat /\ Coming /\ Room >= Header
      /\ len < Header /\ Puts("other", 0, len, Room - Header) /\ opened' = opened
  BY RoomIs DEF Malformed
<1>2. /\ Room - Header \in Nat /\ Header + (Room - Header) = Room /\ len \in Size
      /\ 0 \in 0..MaxIn /\ ~(len >= Header)
  BY <1>1, Sizes DEF Size
<1>3. Arrives("other", 0, len, Room - Header)
  BY <1>1, <1>2 DEF Arrives, Type
<1> QED BY <1>3 DEF Arrival

\* The steps, with what the stack does in one.
Calls == Recvmsg \/ RecvmsgInto
Ends ==
    /\ op \in {"parts", "read", "close"}
    /\ op \in {"read", "close"} => at = NULL
    /\ \E r \in {"raised", "returned"} :
         /\ Raise(r)
         /\ op = "read" => r = "returned"
         /\ op \in {"parts", "close"} => r = "raised"
GutsFails ==
    /\ op = "guts" /\ \E r \in {"raised", "ValueError"} : Finally(r)
    /\ UNCHANGED <<given, nbufs, items, bufsize, block, at, list, fds>>
GutsGoes ==
    /\ op = "guts" /\ op' = "stack" /\ bufsize' \in 0..Limit
    /\ UNCHANGED <<result, held>>
    /\ UNCHANGED <<given, nbufs, items, block, at, list, fds>>

\* Every step is one of these.
LEMMA Steps ==
    ASSUME Inv, [Next]_vars
    PROVE  \/ UNCHANGED vars \/ Calls \/ Ends \/ Part \/ PartsDone
           \/ GutsFails \/ GutsGoes
           \/ Arrival \/ StackReturns \/ Read \/ ReadFails \/ Close
<1>1. ASSUME Guts PROVE GutsFails \/ GutsGoes
  <2>1. \A n \in -1..(Limit + 1) : ValidSize(n) => n \in 0..Limit
    BY Small DEF ValidSize
  <2> QED BY <1>1, <2>1 DEF Guts, GutsFails, GutsGoes
<1>2. ASSUME PartFails \/ CloseDone PROVE Ends
  <2>1. op \in {"parts", "close"} /\ Raise("raised") /\ (op = "close" => at = NULL)
    BY <1>2 DEF PartFails, CloseDone
  <2> QED BY <2>1 DEF Ends
<1>3. ASSUME ReadDone PROVE Ends
  BY <1>3 DEF Ends, ReadDone
<1>4. ASSUME NEW n \in 0..MaxIn, Rights(n) \/ Other(n) \/ Malformed(n) PROVE Arrival
  <2>1. op = "stack"
    BY <1>4 DEF Rights, Other, Malformed, Coming
  <2>2. Typed /\ Chain
    BY <2>1 DEF Inv, Course, Blocks
  <2> QED BY <1>4, <2>2, RightsArrive, OtherArrives, MalformedArrives
<1>5. CASE UNCHANGED vars
  BY <1>5
<1>6. CASE Next
  <2>1. ASSUME Done PROVE UNCHANGED vars
    BY <2>1 DEF Done
  <2> QED BY <1>1, <1>2, <1>3, <1>4, <1>6, <2>1 DEF Next, Calls
<1> QED BY <1>5, <1>6

\* finally gives back all that is held.
LEMMA EndsAre ==
    ASSUME Typed, Accounts, op # "done", NEW r, Finally(r)
    PROVE  held' = 0 /\ op' = "done" /\ result' = r
<1>1. held = nbufs /\ nbufs \in Nat
  BY DEF Accounts, Typed, TypeOK
<1> QED BY <1>1 DEF Finally

\* What is held is what is counted, at each step.
LEMMA AccountsStep == ASSUME Inv, [Next]_vars PROVE Accounts' /\ held' \in Nat
<1> USE DEF Inv
<1>1. nbufs \in Nat /\ held \in Nat
  BY DEF Typed, TypeOK
<1>2. CASE Ends \/ GutsFails
  <2>1. op # "done" /\ \E r : Finally(r)
    BY <1>2 DEF Ends, GutsFails, Raise
  <2> QED BY <2>1, EndsAre DEF Accounts
<1>3. CASE Part
  <2>1. nbufs' = nbufs + 1 /\ held' = held + 1 /\ op' = "parts" /\ op = "parts"
    BY <1>3 DEF Part
  <2> QED BY <1>1, <2>1 DEF Accounts
<1>4. CASE \/ UNCHANGED vars \/ Calls \/ PartsDone \/ GutsGoes
           \/ Arrival \/ StackReturns \/ Read \/ ReadFails \/ Close
  <2>1. UNCHANGED buffers /\ (op' = "done" <=> op = "done")
    <3>1. CASE UNCHANGED vars
      BY <3>1 DEF vars
    <3>2. CASE Calls
      BY <3>2 DEF Calls, Recvmsg, RecvmsgInto, Call
    <3>3. CASE PartsDone
      BY <3>3 DEF PartsDone
    <3>4. CASE GutsGoes
      BY <3>4 DEF GutsGoes, buffers
    <3>5. CASE Arrival
      BY <3>5 DEF Arrival, Arrives, Misses, Puts, Cuts
    <3>6. CASE StackReturns \/ Read \/ ReadFails \/ Close
      BY <3>6 DEF StackReturns, Read, ReadFails, Fails, Close, GoTo
    <3> QED BY <1>4, <3>1, <3>2, <3>3, <3>4, <3>5, <3>6
  <2> QED BY <1>1, <2>1 DEF Accounts, buffers
<1> QED BY <1>2, <1>3, <1>4, Steps

----------------------------------------------------------------------------
(* The buffer after a step *)

\* A header written: the others stay.
LEMMA WithHeadIs ==
    ASSUME NEW o, NEW head, block'.heads = WithHead(o, head)
    PROVE  /\ Headers(block)' = Headers(block) \cup {o} /\ block'.heads[o] = head
           /\ \A p \in Headers(block) \ {o} : block'.heads[p] = block.heads[p]
BY DEF WithHead, Headers

\* What a header that the stack writes changes.
ArrivedAt(c, cmsg_len, has) ==
    /\ OnAlign(c) /\ c \notin Headers(block) /\ c + Header + has <= bufsize
    /\ \A p \in Headers(block) : p + Header + Has(p) <= c /\ p < c /\ ~Full(p)
    /\ has \in Nat /\ has <= Limit /\ bufsize' = bufsize
    /\ block' = [controllen |-> block'.controllen, heads |-> block'.heads]
    /\ block'.controllen \in Nat /\ block'.controllen <= bufsize
    /\ c + Header + has <= block'.controllen
    /\ \/ block'.controllen = c + Header + Padded(has)
       \/ block'.controllen = bufsize /\ bufsize <= c + Header + Padded(has)
    /\ Header + has = Room => block'.controllen = bufsize /\ bufsize = c + Header + has
    /\ Headers(block)' = Headers(block) \cup {c}
    /\ block'.heads[c] = [cmsg_len |-> cmsg_len, item |-> Len(items) + 1, has |-> has]
    /\ \A p \in Headers(block) : block'.heads[p] = block.heads[p]

\* A header arrives after those that are there, which stay.
LEMMA Arrived ==
    ASSUME Typed, Chain, NEW type, NEW len, NEW cmsg_len, NEW has,
           Arrives(type, len, cmsg_len, has), NEW c \in Nat, c = block.controllen
    PROVE  ArrivedAt(c, cmsg_len, has)
<1> DEFINE head == [cmsg_len |-> cmsg_len, item |-> Len(items) + 1, has |-> has]
<1>1. /\ Room \in Nat /\ Room <= Limit /\ c + Room = bufsize /\ bufsize \in Nat
      /\ has \in Nat /\ Header + has <= Room
  BY RoomIs, HeadNumbers DEF Arrives
<1>2. /\ Header \in Nat /\ Header >= 1 /\ Align \in Nat /\ Limit \in Nat /\ Word \in Nat
      /\ Header + Align <= Limit /\ 2 * (Limit + 1) <= Word
  BY Sizes
<1>3. OnAlign(c) /\ c # bufsize
  BY <1>1, <1>2 DEF Chain
<1>4. ASSUME NEW p \in Headers(block) PROVE p + Header + Has(p) <= c /\ p < c /\ ~Full(p)
  <2>1. p \in Nat /\ Has(p) \in Nat /\ p + Header + Has(p) <= c
    BY HeadNumbers DEF Chain, GoodHead
  <2>2. p < c
    BY <1>2, <2>1
  <2> QED BY <1>3, <2>1, <2>2 DEF Full
<1>5. c \notin Headers(block)
  BY <1>4
<1>6. Aligned(Header + has) = Header + Padded(has)
  <2>1. Header + has \in Nat /\ Header + has + Align <= Word
    BY <1>1, <1>2
  <2> QED BY <1>1, <2>1, AlignedPads, PaddedHeader
<1>7. /\ block' = [controllen |-> c + AtMost(Header + Padded(has)), heads |-> WithHead(c, head)]
  BY <1>6 DEF Arrives, Puts
<1>8. Padded(has) \in Nat /\ has <= Padded(has)
  BY <1>1, PaddedIs
<1>9. /\ AtMost(Header + Padded(has)) \in Nat /\ AtMost(Header + Padded(has)) <= Room
      /\ Header + has <= AtMost(Header + Padded(has))
      /\ \/ AtMost(Header + Padded(has)) = Header + Padded(has)
         \/ AtMost(Header + Padded(has)) = Room /\ Room <= Header + Padded(has)
  BY <1>1, <1>2, <1>8 DEF AtMost
<1>10. block'.controllen = c + AtMost(Header + Padded(has))
  BY <1>7
<1> DEFINE more == AtMost(Header + Padded(has))
<1> HIDE DEF more
<1>11. /\ block'.controllen = c + more /\ more \in Nat /\ more <= Room /\ Header + has <= more
       /\ more = Header + Padded(has) \/ (more = Room /\ Room <= Header + Padded(has))
  BY <1>9, <1>10 DEF more
<1>12. /\ block'.controllen \in Nat /\ block'.controllen <= bufsize
       /\ c + Header + has <= block'.controllen
       /\ \/ block'.controllen = c + Header + Padded(has)
          \/ block'.controllen = bufsize /\ bufsize <= c + Header + Padded(has)
       /\ Header + has = Room => block'.controllen = bufsize /\ bufsize = c + Header + has
       /\ c + Header + has <= bufsize
  BY <1>1, <1>2, <1>8, <1>11
<1>13. block'.heads = WithHead(c, head)
  BY <1>7
<1>14. /\ Headers(block)' = Headers(block) \cup {c} /\ block'.heads[c] = head
       /\ \A p \in Headers(block) : block'.heads[p] = block.heads[p]
  <2> HIDE DEF head
  <2> QED BY <1>5, <1>13, WithHeadIs
<1>15. block' = [controllen |-> block'.controllen, heads |-> block'.heads]
  BY <1>7
<1>16. has <= Limit
  BY <1>1, <1>2
<1>17. bufsize' = bufsize
  BY DEF Arrives, Puts
<1> QED BY <1>1, <1>3, <1>4, <1>5, <1>12, <1>14, <1>15, <1>16, <1>17 DEF ArrivedAt, head

----------------------------------------------------------------------------
(* Types, and what a call has not got to *)

\* CMSG_ALIGN gives a number.
LEMMA AlignedIn == \A n \in Nat : Aligned(n) \in Nat
<1> SUFFICES ASSUME NEW n \in Nat PROVE Aligned(n) \in Nat
  OBVIOUS
<1>1. n + Align - 1 \in Nat /\ Word \in Nat \ {0} /\ Align \in Nat \ {0}
  BY Sizes
<1>2. (n + Align - 1) % Word \in Nat
  BY <1>1
<1>3. ((n + Align - 1) % Word) \div Align \in Nat
  BY <1>1, <1>2, DivIs
<1> QED BY <1>1, <1>3 DEF Aligned

\* The macros that go from header to header stay in the buffer, or give NULL.
LEMMA NextTyped ==
    ASSUME Typed
    PROVE  /\ First \in 0..Limit \cup {NULL}
           /\ at \in Headers(block) => Following \in 0..Limit \cup {NULL}
<1>1. 0 \in 0..Limit
  BY Sizes
<1>2. First \in 0..Limit \cup {NULL}
  BY <1>1 DEF First, CMSG_FIRSTHDR
<1>3. ASSUME at \in Headers(block) PROVE Following \in 0..Limit \cup {NULL}
  <2> DEFINE next == at + Aligned(LenAt(block, at))
  <2>1. LenAt(block, at) \in Nat /\ at \in Nat
    BY <1>3, HeadNumbers, Sizes DEF LenAt, Size
  <2>2. next \in Nat
    BY <2>1, AlignedIn
  <2>3. Following = NULL \/ (Following = next /\ next + Header <= block.controllen)
    BY DEF Following, CMSG_NXTHDR
  <2> HIDE DEF next
  <2>4. next + Header <= block.controllen => next \in 0..Limit
    BY <2>2, HeadNumbers, Sizes
  <2> QED BY <2>3, <2>4
<1> QED BY <1>2, <1>3

\* The length of the data, by the header and by the buffer.
LEMMA GotTyped ==
    ASSUME Typed, NEW o \in Headers(block)
    PROVE  get_cmsg_data_len(block, o) \in [status : {-1, 0, 1}, len : 0..Limit]
<1> DEFINE long == LenAt(block, o) - Header
           space == get_cmsg_data_space(block, o)
           got == get_cmsg_data_len(block, o)
<1>1. /\ o \in Nat /\ LenAt(block, o) \in Nat /\ block.controllen \in Nat
      /\ block.controllen <= Limit /\ Limit \in Nat /\ Header \in Nat
  BY HeadNumbers, Sizes DEF LenAt, Size
<1>2. space = NoSize \/ space \in 0..Limit
  <2>1. ~(o + Header > block.controllen) =>
          block.controllen - (o + Header) \in 0..Limit
    BY <1>1
  <2> QED BY <2>1 DEF get_cmsg_data_space
<1>3. \/ got = [status |-> -1, len |-> 0]
      \/ /\ LenAt(block, o) >= Header /\ space # NoSize
         /\ got = IF space >= long THEN [status |-> 0, len |-> long]
                  ELSE [status |-> 1, len |-> space]
  BY <1>1 DEF get_cmsg_data_len
<1>4. ASSUME LenAt(block, o) >= Header, space # NoSize, space >= long PROVE long \in 0..Limit
  <2>1. space \in 0..Limit
    BY <1>2, <1>4
  <2> HIDE DEF space
  <2> QED BY <1>1, <1>4, <2>1
<1>5. 0 \in 0..Limit
  BY Sizes
<1> HIDE DEF long, space
<1> QED BY <1>2, <1>3, <1>4, <1>5

\* A step that leaves the items, the buffer and the lists alone.
LEMMA TypedFrame ==
    ASSUME Typed, UNCHANGED <<given, items, block, list, closed>>,
           op' \in {"idle", "parts", "guts", "stack", "read", "close", "done"},
           result' \in {"none", "raised", "returned", "ValueError"},
           nbufs' \in 0..MaxParts, held' \in Nat,
           bufsize' \in 0..Limit, at' \in Size \cup {NULL}
    PROVE  Typed'
<1>1. TypeOK'
  BY DEF Typed, TypeOK, given, Headers
<1> QED BY <1>1 DEF Typed, given, Headers

\* What the stack puts in the buffer keeps the types.
LEMMA TypedArrival ==
    ASSUME Inv, Arrival
    PROVE  Typed'
<1> USE DEF Inv
<1>1. op = "stack" /\ Chain /\ Len(items) \in Nat /\ MaxComing \in Nat
  BY AncillaryAssumption
  DEF Arrival, Arrives, Misses, Coming, Course, Blocks, Typed, AncillaryAssumption
<1>2. PICK n \in Nat : n = Len(items) + 1
  BY <1>1
<1>3. PICK type \in Type, len \in 0..MaxIn :
        /\ Coming /\ items' = WithItem(type, len)
        /\ \/ Misses(type, len)
           \/ \E cmsg_len, has : Arrives(type, len, cmsg_len, has)
  BY DEF Arrival, Arrives, Misses, Puts, Cuts
<1>4. /\ items' \in Seq(ItemRecord) /\ Len(items') <= MaxComing /\ n \in 1..MaxComing
  <2>1. Len(items) < MaxComing
    BY <1>1, <1>3, AncillaryAssumption DEF Coming, AncillaryAssumption
  <2>2. n \in 1..MaxComing
    BY <1>1, <1>2, <2>1, AncillaryAssumption DEF AncillaryAssumption
  <2> QED BY <1>2, <1>3, <2>1, <2>2, OneItemMore
<1>5. \A k \in DOMAIN items' : items'[k] \in [type : Type, len : 0..MaxIn, asked : Nat]
  <2>1. \A k \in DOMAIN items' : items'[k] \in ItemRecord
    BY <1>4
  <2> QED BY <2>1 DEF ItemRecord
<1>6. CASE Misses(type, len)
  <2>1. UNCHANGED <<op, result, given, buffers, bufsize, block, at, list, fds>>
    BY <1>6 DEF Misses, Cuts
  <2>2. TypeOK'
    BY <1>5, <2>1 DEF TypeOK, Typed, given, buffers, Headers
  <2> QED BY <1>4, <2>1, <2>2 DEF Typed, given, fds, Headers
<1>7. ASSUME NEW cmsg_len, NEW has, Arrives(type, len, cmsg_len, has)
      PROVE  Typed'
  <2>1. PICK c \in Nat : c = block.controllen
    BY HeadNumbers
  <2>2. UNCHANGED <<op, result, given, buffers, bufsize, at, list, closed>>
         /\ cmsg_len \in Size /\ has \in Nat
    BY <1>7 DEF Arrives, Puts
  <2> DEFINE head == [cmsg_len |-> cmsg_len, item |-> Len(items) + 1, has |-> has]
  <2>3. /\ has <= Limit /\ c + Header + has <= bufsize
        /\ block' = [controllen |-> block'.controllen, heads |-> block'.heads]
        /\ block'.controllen \in Nat /\ block'.controllen <= bufsize
        /\ Headers(block)' = Headers(block) \cup {c}
        /\ block'.heads[c] = head
        /\ \A p \in Headers(block) : block'.heads[p] = block.heads[p]
    <3>1. ArrivedAt(c, cmsg_len, has)
      BY <1>1, <1>7, <2>1, Arrived
    <3> QED BY <3>1 DEF ArrivedAt
  <2>4. has \in 0..Limit /\ c \in 0..Limit /\ block'.controllen \in 0..Limit
    <3>1. bufsize \in Nat /\ bufsize <= Limit
      BY HeadNumbers
    <3> QED BY <2>2, <2>3, <3>1, Small
  <2>5. head \in HeadRecord
    BY <1>2, <1>4, <2>2, <2>4 DEF HeadRecord
  <2> HIDE DEF head
  <2>6. \A p \in Headers(block)' : block'.heads[p] \in HeadRecord
    BY <2>3, <2>5, HeadNumbers
  <2>7. Headers(block)' \subseteq 0..Limit
    BY <2>3, <2>4 DEF Typed
  <2>8. {block'.controllen, bufsize'} \subseteq 0..Limit
    BY <2>2, <2>4 DEF Typed, TypeOK
  <2>9. TypeOK'
    BY <1>5, <2>2, <2>6, <2>8 DEF TypeOK, Typed, given, buffers, HeadRecord
  <2> QED BY <1>4, <2>2, <2>3, <2>7, <2>9 DEF Typed, given
<1> QED BY <1>3, <1>6, <1>7

\* The header at cmsgh, while there is one.
LEMMA AtHeader ==
    ASSUME Inv, op \in {"read", "close"}, at # NULL
    PROVE  at \in Headers(block) /\ Chain
BY DEF Inv, Reads, Reading, Listed, Closes, Closing, CameClosed, Blocks

\* A turn of the loop of recvmsg keeps the types.
LEMMA TypedRead ==
    ASSUME Inv, Read
    PROVE  Typed'
<1> USE DEF Inv
<1> DEFINE got == get_cmsg_data_len(block, at)
           entry == [item |-> block.heads[at].item, len |-> got.len]
<1>1. at \in Headers(block)
  BY AtHeader DEF Read
<1>2. got \in [status : {-1, 0, 1}, len : 0..Limit]
  BY <1>1, GotTyped
<1>3. entry \in [item : 1..MaxComing, len : 0..Limit]
  BY <1>1, <1>2, HeadNumbers DEF ItemAt
<1>4. /\ op' = "read" /\ at' \in {NULL, Following} /\ list' \in {list, Append(list, entry)}
      /\ UNCHANGED <<result, given, buffers, items, bufsize, block, fds>>
  BY DEF Read, GoTo
<1> HIDE DEF entry
<1>5. list' \in Seq([item : 1..MaxComing, len : 0..Limit])
  <2>1. list \in Seq([item : 1..MaxComing, len : 0..Limit])
    BY DEF Typed
  <2>2. Append(list, entry) \in Seq([item : 1..MaxComing, len : 0..Limit])
    BY <1>3, <2>1, AppendProperties
  <2> QED BY <1>4, <2>1, <2>2
<1>6. at' \in Size \cup {NULL}
  BY <1>1, <1>4, NextTyped, Sizes DEF Size
<1>7. TypeOK'
  BY <1>4, <1>6 DEF TypeOK, Typed, given, buffers, Headers
<1> QED BY <1>1, <1>4, <1>5, <1>7 DEF Typed, given, fds, Headers

\* A turn of the loop that closes descriptors keeps the types.
LEMMA TypedClose ==
    ASSUME Inv, Close
    PROVE  Typed'
<1> USE DEF Inv
<1> DEFINE got == get_cmsg_data_len(block, at)
<1>1. at \in Headers(block)
  BY AtHeader DEF Close
<1>2. got \in [status : {-1, 0, 1}, len : 0..Limit]
  BY <1>1, GotTyped
<1>3. Descriptors(got.len) \in Seq((1..MaxComing) \X Nat)
  <2>1. got.len \in Nat /\ IntSize \in Nat \ {0}
    BY <1>2, Sizes
  <2>2. got.len \div IntSize \in Nat
    BY <2>1, DivIs
  <2>3. block.heads[at].item \in 1..MaxComing
    BY <1>1, HeadNumbers DEF ItemAt
  <2> HIDE DEF got
  <2> QED BY <2>2, <2>3 DEF Descriptors
<1>4. /\ op' = "close" /\ at' \in {NULL, Following}
      /\ closed' \in {closed, closed \o Descriptors(got.len)}
      /\ UNCHANGED <<result, given, buffers, items, bufsize, block, list, opened>>
  BY DEF Close, GoTo
<1>5. closed' \in Seq((1..MaxComing) \X Nat)
  <2>1. closed \in Seq((1..MaxComing) \X Nat)
    BY DEF Typed
  <2> DEFINE S == (1..MaxComing) \X Nat
             more == Descriptors(got.len)
  <2>2. closed \in Seq(S) /\ more \in Seq(S) /\ closed' \in {closed, closed \o more}
    BY <1>3, <1>4, <2>1
  <2> HIDE DEF S, more
  <2>3. closed \o more \in Seq(S)
    BY <2>2, ConcatProperties
  <2>4. closed' \in Seq(S)
    BY <2>2, <2>3
  <2> QED BY <2>4 DEF S
<1>6. at' \in Size \cup {NULL}
  BY <1>1, <1>4, NextTyped, Sizes DEF Size
<1>7. TypeOK'
  BY <1>4, <1>6 DEF TypeOK, Typed, given, buffers, Headers
<1> QED BY <1>4, <1>5, <1>7 DEF Typed, given, Headers

\* Every step keeps the types.
LEMMA TypedStep == ASSUME Inv, [Next]_vars PROVE Typed'
<1> USE DEF Inv
<1>1. /\ op \in {"idle", "parts", "guts", "stack", "read", "close", "done"}
      /\ result \in {"none", "raised", "returned", "ValueError"}
      /\ nbufs \in 0..MaxParts /\ bufsize \in 0..Limit
      /\ at \in Size \cup {NULL} /\ held' \in Nat
  BY AccountsStep DEF Typed, TypeOK
<1>2. CASE UNCHANGED vars
  BY <1>1, <1>2, TypedFrame DEF vars, given, buffers, fds
<1>3. CASE Calls
  <2>1. /\ op = "idle" /\ op' \in {"parts", "guts"}
        /\ api' \in {"recvmsg", "recvmsg_into"} /\ peeks' \in BOOLEAN
        /\ UNCHANGED <<result, buffers, items, bufsize, block, at, list, fds>>
    BY <1>3 DEF Calls, Recvmsg, RecvmsgInto, Call
  <2>2. TypeOK'
    BY <2>1 DEF Typed, TypeOK, buffers, Headers
  <2> QED BY <2>1, <2>2 DEF Typed, fds, Headers
<1>4. CASE Ends \/ GutsFails
  <2>1. /\ op' = "done" /\ result' \in {"raised", "returned", "ValueError"}
        /\ UNCHANGED <<given, nbufs, items, bufsize, block, at, list, fds>>
    BY <1>4 DEF Ends, GutsFails, Raise, Finally
  <2> QED BY <1>1, <2>1, TypedFrame DEF fds
<1>5. CASE Part
  <2>1. /\ op' = "parts" /\ nbufs' = nbufs + 1 /\ nbufs < MaxParts
        /\ UNCHANGED <<result, given, items, bufsize, block, at, list, fds>>
    BY <1>5 DEF Part
  <2>2. nbufs' \in 0..MaxParts
    BY <1>1, <2>1, AncillaryAssumption DEF AncillaryAssumption
  <2> QED BY <1>1, <2>1, <2>2, TypedFrame DEF fds
<1>6. CASE PartsDone
  <2>1. /\ op' = "guts"
        /\ UNCHANGED <<result, given, buffers, items, bufsize, block, at, list, fds>>
    BY <1>6 DEF PartsDone
  <2> QED BY <1>1, <2>1, TypedFrame DEF buffers, fds
<1>7. CASE GutsGoes
  BY <1>1, <1>7, TypedFrame DEF GutsGoes, fds
<1>8. CASE StackReturns \/ ReadFails
  <2>1. /\ op' \in {"read", "close"} /\ at' = First /\ UNCHANGED <<list, fds>>
        /\ UNCHANGED <<result, given, buffers, items, bufsize, block>>
    BY <1>8 DEF StackReturns, ReadFails, Fails, GoTo
  <2>2. at' \in Size \cup {NULL}
    BY <2>1, NextTyped, Small DEF Size
  <2> QED BY <1>1, <2>1, <2>2, TypedFrame DEF buffers, fds
<1> QED BY <1>2, <1>3, <1>4, <1>5, <1>6, <1>7, <1>8, Steps,
           TypedArrival, TypedRead, TypedClose

\* What a call has not got to stays as it was.
LEMMA CourseStep == ASSUME Inv, [Next]_vars PROVE Course' /\ Ended'
<1> USE DEF Inv
<1>1. CASE UNCHANGED vars
  BY <1>1 DEF vars, given, buffers, fds, Course, Ended, Headers
<1>2. CASE Calls
  <2>1. /\ op = "idle" /\ op' \in {"parts", "guts"}
        /\ UNCHANGED <<result, buffers, items, bufsize, block, at, list, fds>>
    BY <1>2 DEF Calls, Recvmsg, RecvmsgInto, Call
  <2> QED BY <2>1 DEF Course, Ended, buffers, fds, Headers
<1>3. CASE Ends \/ GutsFails
  <2>1. /\ op' = "done" /\ result' \in {"raised", "returned", "ValueError"}
        /\ op # "done"
        /\ result' = "returned" => op = "read"
        /\ at = NULL
        /\ UNCHANGED <<given, nbufs, items, bufsize, block, at, list, fds>>
    BY <1>3 DEF Ends, GutsFails, Raise, Finally, Course
  <2> QED BY <2>1 DEF Course, Ended, given, fds
<1>4. CASE Part
  BY <1>4 DEF Part, Course, Ended, given, fds, Typed, TypeOK
<1>5. CASE PartsDone
  <2>1. /\ op = "parts" /\ op' = "guts"
        /\ UNCHANGED <<result, given, buffers, items, bufsize, block, at, list, fds>>
    BY <1>5 DEF PartsDone
  <2> QED BY <2>1 DEF Course, Ended, given, buffers, fds, Headers
<1>6. CASE GutsGoes
  BY <1>6 DEF GutsGoes, Course, Ended, given, fds
<1>7. CASE Arrival
  <2>1. op = "stack" /\ UNCHANGED <<op, result, given, buffers, bufsize, at, list, closed>>
    BY <1>7 DEF Arrival, Arrives, Misses, Coming, Puts, Cuts, fds
  <2> QED BY <2>1 DEF Course, Ended, given
<1>8. CASE StackReturns \/ Read \/ ReadFails
  <2>1. /\ op \in {"stack", "read"} /\ op' \in {"read", "close"}
        /\ UNCHANGED <<result, given, buffers, items, bufsize, block, fds>>
    BY <1>8 DEF StackReturns, Read, ReadFails, Fails, GoTo
  <2> QED BY <2>1 DEF Course, Ended, given, fds
<1>9. CASE Close
  <2>1. /\ op = "close" /\ op' = "close"
        /\ UNCHANGED <<result, given, buffers, items, bufsize, block, list, opened>>
    BY <1>9 DEF Close, GoTo
  <2> QED BY <2>1 DEF Course, Ended, given
<1> QED BY <1>1, <1>2, <1>3, <1>4, <1>5, <1>6, <1>7, <1>8, <1>9, Steps

\* Items are added at the end.
LEMMA PlacedStep == ASSUME Inv, [Next]_vars PROVE Placed'
<1> USE DEF Inv
<1>1. CASE items' = items
  BY <1>1 DEF Placed, Start
<1>2. ASSUME NEW type \in Type, NEW len \in 0..MaxIn, items' = WithItem(type, len),
             Len(items) < MaxComing
      PROVE  Placed'
  <2>1. PICK n \in Nat : n = Len(items) + 1
    BY DEF Typed
  <2> QED BY <1>2, <2>1, OneItemMore
<1>3. CASE Arrival
  <2>1. PICK type \in Type, len \in 0..MaxIn : Coming /\ items' = WithItem(type, len)
    BY <1>3 DEF Arrival, Arrives, Misses, Puts, Cuts
  <2>2. Len(items) < MaxComing
    BY <2>1 DEF Coming
  <2> QED BY <1>2, <2>1, <2>2
<1>4. CASE \/ UNCHANGED vars \/ Calls \/ Ends \/ Part \/ PartsDone \/ GutsFails
           \/ GutsGoes \/ StackReturns \/ Read \/ ReadFails \/ Close
  <2>1. items' = items
    BY <1>4 DEF vars, Calls, Recvmsg, RecvmsgInto, Call, Ends, Raise, Part,
       PartsDone, GutsFails, GutsGoes, StackReturns, Read, ReadFails, Close, Fails, GoTo
  <2> QED BY <1>1, <2>1
<1> QED BY <1>3, <1>4, Steps

----------------------------------------------------------------------------
(* The buffer that the stack fills *)

\* A step that leaves the buffer and the items alone.
LEMMA HeadsFrame ==
    ASSUME UNCHANGED <<block, bufsize, items>>
    PROVE  /\ Headers(block)' = Headers(block) /\ Asked' = Asked
           /\ \A o : Has(o)' = Has(o) /\ ItemAt(o)' = ItemAt(o)
           /\ \A k : Start(k)' = Start(k)
BY DEF Headers, Asked, Has, ItemAt, Start

\* It brings no descriptors.
LEMMA CameFrame ==
    ASSUME UNCHANGED <<block, bufsize, items>>
    PROVE  \A place : RightsBefore(place)' = RightsBefore(place) /\ Came(place)' = Came(place)
<1>1. /\ \A o : FdsOf(o)' = FdsOf(o)
      /\ \A place : RightsBefore(place)' = RightsBefore(place)
  BY HeadsFrame DEF FdsOf, RightsBefore
<1>2. \A place : Came(place)' = Came(place)
  BY <1>1 DEF Came
<1> QED BY <1>1, <1>2

\* It leaves the buffer enough, or not, and its headers well formed, or not.
LEMMA EnoughFrame ==
    ASSUME UNCHANGED <<block, bufsize, items>>
    PROVE  (WellFormed' <=> WellFormed) /\ (EnoughSpace' <=> EnoughSpace)
BY HeadsFrame DEF WellFormed, EnoughSpace

\* It leaves whole what is whole.
LEMMA FitsFrame ==
    ASSUME UNCHANGED <<block, bufsize, items>>, Fits
    PROVE  Fits'
BY HeadsFrame, EnoughFrame DEF Fits, Start

\* It leaves the headers as they are.
LEMMA ChainFrame ==
    ASSUME UNCHANGED <<block, bufsize, items>>, Chain
    PROVE  Chain'
<1>1. \A o : /\ After(o)' = After(o) /\ (Exact(o)' <=> Exact(o)) /\ (Full(o)' <=> Full(o))
  BY HeadsFrame DEF After, Exact, Full
<1>2. \A o : (Odd(o)' <=> Odd(o)) /\ (Lasts(o)' <=> Lasts(o))
  BY <1>1, HeadsFrame DEF Odd, Lasts
<1>3. \A o : GoodHead(o)' <=> GoodHead(o)
  BY <1>1, <1>2, HeadsFrame DEF GoodHead
<1> QED BY <1>1, <1>3, HeadsFrame DEF Chain, Has, ItemAt, After, GoodHead

\* An item that the stack writes at c, the n-th, next to those it wrote.
Written(c, n, type, cmsg_len, has) ==
    /\ Headers(block)' = Headers(block) \cup {c} /\ c \notin Headers(block)
    /\ \A p \in Headers(block) :
         /\ p \in Nat /\ p < c /\ p + Header + Has(p) <= c /\ Exact(p)
         /\ After(p) \in Nat /\ After(p) <= c
         /\ After(p) \in Headers(block) \/ After(p) = c
         /\ block'.heads[p] = block.heads[p]
         /\ Has(p)' = Has(p) /\ ItemAt(p)' = ItemAt(p) /\ After(p)' = After(p)
         /\ ItemAt(p) \in DOMAIN items /\ ItemAt(p) \in Nat /\ ItemAt(p) < n
         /\ items'[ItemAt(p)] = items[ItemAt(p)]
    /\ Has(c)' = has /\ ItemAt(c)' = n /\ After(c)' = c + Header + Padded(has)
    /\ block'.heads[c].cmsg_len = cmsg_len
    /\ DOMAIN items' = DOMAIN items \cup {n} /\ items'[n].type = type

\* That is what the stack does with an item that it does not drop.
LEMMA WrittenIs ==
    ASSUME Typed, Chain, Placed, NEW type \in Type, NEW len \in 0..MaxIn, NEW cmsg_len, NEW has,
           Arrives(type, len, cmsg_len, has), Len(items) < MaxComing,
           NEW c \in Nat, c = block.controllen, NEW n \in Nat, n = Len(items) + 1
    PROVE  Written(c, n, type, cmsg_len, has)
<1>1. ArrivedAt(c, cmsg_len, has)
  BY Arrived
<1>2. /\ Headers(block)' = Headers(block) \cup {c} /\ c \notin Headers(block)
      /\ block'.heads[c] = [cmsg_len |-> cmsg_len, item |-> Len(items) + 1, has |-> has]
      /\ \A p \in Headers(block) :
           p + Header + Has(p) <= c /\ p < c /\ ~Full(p) /\ block'.heads[p] = block.heads[p]
      /\ c + Header + has <= bufsize /\ has \in Nat
  BY <1>1 DEF ArrivedAt
<1>3. c # bufsize
  BY <1>2, HeadNumbers, Small
<1>4. items' = WithItem(type, len)
  BY DEF Arrives, Puts
<1>5. /\ DOMAIN items' = DOMAIN items \cup {n}
      /\ \A k \in DOMAIN items : k \in Nat /\ k < n /\ items'[k] = items[k]
      /\ items'[n] = [type |-> type, len |-> len, asked |-> Asked + Space(len)]
  BY <1>4, OneItemMore
<1>6. Has(c)' = has /\ ItemAt(c)' = n /\ block'.heads[c].cmsg_len = cmsg_len
  BY <1>2 DEF Has, ItemAt
<1>7. After(c)' = c + Header + Padded(has)
  BY <1>6 DEF After
<1>8. ASSUME NEW p \in Headers(block)
      PROVE  /\ p \in Nat /\ Exact(p) /\ After(p) \in Nat /\ After(p) <= c
             /\ After(p) \in Headers(block) \/ After(p) = c
             /\ Has(p)' = Has(p) /\ ItemAt(p)' = ItemAt(p) /\ After(p)' = After(p)
             /\ ItemAt(p) \in DOMAIN items
  <2>1. p \in Nat /\ After(p) \in Nat /\ ItemAt(p) \in DOMAIN items /\ (Exact(p) \/ Odd(p))
    BY HeadNumbers DEF Chain, GoodHead
  <2>2. Exact(p)
    BY <1>2, <2>1 DEF Odd
  <2>3. After(p) \in Headers(block) \/ After(p) = c
    BY <1>3 DEF Chain, GoodHead, Lasts
  <2>4. After(p) <= c
    BY <1>2, <2>1, <2>3
  <2>5. Has(p)' = Has(p) /\ ItemAt(p)' = ItemAt(p)
    BY <1>2 DEF Has, ItemAt
  <2>6. After(p)' = After(p)
    BY <2>5 DEF After
  <2> QED BY <2>1, <2>2, <2>3, <2>4, <2>5, <2>6
<1>9. items'[n].type = type
  BY <1>5
<1> QED BY <1>2, <1>5, <1>6, <1>7, <1>8, <1>9 DEF Written

\* Then the headers are still one after another, and only the last may be cut.
LEMMA ChainArrives ==
    ASSUME Typed, Chain, Placed, NEW type \in Type, NEW len \in 0..MaxIn, NEW cmsg_len, NEW has,
           Arrives(type, len, cmsg_len, has), Len(items) < MaxComing
    PROVE  Chain'
<1>1. PICK c \in Nat, n \in Nat : c = block.controllen /\ n = Len(items) + 1
  BY HeadNumbers DEF Typed
<1>2. Written(c, n, type, cmsg_len, has)
  BY <1>1, WrittenIs
<1>3. ArrivedAt(c, cmsg_len, has)
  BY <1>1, Arrived
<1>4. c \in Nat /\ OnAlign(c) /\ c <= block'.controllen /\ block'.controllen \in Nat
       /\ has \in Nat /\ Header \in Nat
  BY <1>3, Small DEF ArrivedAt
<1>5. block'.controllen = bufsize' \/ OnAlign(block'.controllen)
  <2>1. OnAlign(c + Header) /\ c + Header \in Nat
    BY <1>4, OnAlignSum, PaddedOnAlign
  <2>2. OnAlign(Padded(has)) /\ Padded(has) \in Nat
    BY <1>4, PaddedOnAlign, PaddedIs
  <2>3. OnAlign(c + Header + Padded(has))
    BY <2>1, <2>2, OnAlignSum
  <2> QED BY <1>3, <2>3 DEF ArrivedAt
<1>6. 0 \in Headers(block)'
  BY <1>1, <1>2 DEF Chain, Written
<1>7. ASSUME NEW o \in Headers(block)
      PROVE  GoodHead(o)'
  <2>1. OnAlign(o)
    BY DEF Chain, GoodHead
  <2>2. o + Header + Has(o) <= block'.controllen
    <3>1. Has(o) \in Nat /\ o \in Nat
      BY HeadNumbers
    <3>2. o + Header + Has(o) \in Nat
      BY <1>4, <3>1
    <3>3. o + Header + Has(o) <= c
      BY <1>2 DEF Written
    <3> QED BY <1>4, <3>2, <3>3
  <2>3. Exact(o)'
    BY <1>2 DEF Exact, Written
  <2> QED BY <1>2, <2>1, <2>2, <2>3 DEF Written, GoodHead
<1>8. GoodHead(c)'
  <2>1. ASSUME NEW p \in Headers(block)' PROVE p <= c
    <3>1. p = c \/ (p \in Nat /\ p < c)
      BY <1>2 DEF Written
    <3> QED BY <1>4, <3>1
  <2>2. Lasts(c)'
    BY <1>2, <1>3, <2>1 DEF Lasts, Written, ArrivedAt
  <2>3. c + Header + Has(c)' <= block'.controllen /\ ItemAt(c)' \in DOMAIN items'
    BY <1>2, <1>3 DEF Written, ArrivedAt
  <2>4. CASE cmsg_len = Header + has
    <3>1. Exact(c)'
      BY <1>2, <2>4 DEF Exact, Written
    <3> QED BY <1>4, <2>2, <2>3, <3>1 DEF GoodHead
  <2>5. CASE /\ type = "other" /\ Header + has = Room
             /\ cmsg_len < Header \/ cmsg_len > Header + has
    <3>1. Full(c)'
      BY <1>2, <1>3, <2>5 DEF Full, Written, ArrivedAt
    <3>2. Odd(c)'
      BY <1>2, <2>5, <3>1 DEF Odd, Written
    <3> QED BY <1>4, <2>2, <2>3, <3>2 DEF GoodHead
  <2> QED BY <2>4, <2>5 DEF Arrives
<1>9. ASSUME NEW o \in Headers(block)', NEW p \in Headers(block)', o < p
      PROVE  After(o)' <= p /\ ItemAt(o)' < ItemAt(p)'
  <2>1. CASE o \in Headers(block) /\ p \in Headers(block)
    BY <1>2, <1>9, <2>1 DEF Chain, Written
  <2>2. CASE o \in Headers(block) /\ p = c
    BY <1>2, <2>2 DEF Written
  <2>3. ASSUME o = c PROVE FALSE
    <3>1. p = c \/ (p \in Nat /\ p < c)
      BY <1>2 DEF Written
    <3> QED BY <1>9, <1>4, <2>3, <3>1
  <2> QED BY <1>2, <2>1, <2>2, <2>3 DEF Written
<1>10. \A o \in Headers(block)' : GoodHead(o)'
  BY <1>2, <1>7, <1>8 DEF Written
<1>11. block'.controllen <= bufsize'
  BY <1>3 DEF ArrivedAt
<1> QED BY <1>5, <1>6, <1>9, <1>10, <1>11 DEF Chain, Has, ItemAt, After, GoodHead

\* The descriptors that came are those of the headers.
LEMMA CameArrives ==
    ASSUME Typed, Chain, Placed, NEW type \in Type, NEW len \in 0..MaxIn, NEW cmsg_len, NEW has,
           Arrives(type, len, cmsg_len, has), Len(items) < MaxComing, opened = Came(NULL)
    PROVE  opened' = Came(NULL)'
<1>1. PICK c \in Nat, n \in Nat : c = block.controllen /\ n = Len(items) + 1
  BY HeadNumbers DEF Typed
<1>2. /\ Headers(block)' = Headers(block) \cup {c} /\ c \notin Headers(block)
      /\ \A p \in Headers(block) :
           /\ Has(p)' = Has(p) /\ ItemAt(p)' = ItemAt(p) /\ p < NULL
           /\ items'[ItemAt(p)] = items[ItemAt(p)]
      /\ Has(c)' = has /\ ItemAt(c)' = n /\ items'[n].type = type
  <2>1. \A p \in Headers(block) : p < NULL
    BY HeadNumbers
  <2>2. Written(c, n, type, cmsg_len, has)
    BY <1>1, WrittenIs
  <2> QED BY <2>1, <2>2 DEF Written
<1>3. c < NULL
  BY <1>1, HeadNumbers, Small DEF NULL
<1>4. /\ \A p \in Headers(block) : FdsOf(p)' = FdsOf(p)
      /\ FdsOf(c)' = {<<n, j>> : j \in 1..(has \div IntSize)}
  BY <1>2 DEF FdsOf
<1>5. RightsBefore(NULL)' = RightsBefore(NULL) \cup (IF type = "rights" THEN {c} ELSE {})
  BY <1>2, <1>3 DEF RightsBefore
<1>6. RightsBefore(NULL) \subseteq Headers(block)
  BY DEF RightsBefore
<1>7. Came(NULL)' = Came(NULL) \cup (IF type = "rights" THEN FdsOf(c)' ELSE {})
  <2>1. Came(NULL)' = UNION {FdsOf(o)' : o \in RightsBefore(NULL)'}
    BY DEF Came
  <2>2. CASE type = "rights"
    <3>1. {FdsOf(o)' : o \in RightsBefore(NULL)'} =
            {FdsOf(o) : o \in RightsBefore(NULL)} \cup {FdsOf(c)'}
      BY <1>4, <1>5, <1>6, <2>2
    <3> QED BY <2>1, <2>2, <3>1 DEF Came
  <2>3. CASE type # "rights"
    <3>1. {FdsOf(o)' : o \in RightsBefore(NULL)'} = {FdsOf(o) : o \in RightsBefore(NULL)}
      BY <1>4, <1>5, <1>6, <2>3
    <3> QED BY <2>1, <2>3, <3>1 DEF Came
  <2> QED BY <2>2, <2>3
<1> QED BY <1>1, <1>4, <1>7 DEF Arrives

\* An item that ends inside the buffer is written whole.
LEMMA FitsArrives ==
    ASSUME Typed, Chain, Placed, NEW type \in Type, NEW len \in 0..MaxIn, NEW cmsg_len, NEW has,
           Arrives(type, len, cmsg_len, has), Len(items) < MaxComing, Fits
    PROVE  Fits'
<1>1. PICK c \in Nat, n \in Nat : c = block.controllen /\ n = Len(items) + 1
  BY HeadNumbers DEF Typed
<1>2. Written(c, n, type, cmsg_len, has) /\ ArrivedAt(c, cmsg_len, has)
  BY <1>1, WrittenIs, Arrived
<1>3. items' = WithItem(type, len) /\ cmsg_len \in Size /\ bufsize' = bufsize
  BY DEF Arrives, Puts
<1>4. /\ DOMAIN items' = DOMAIN items \cup {n} /\ Start(n)' = Asked
      /\ \A k \in DOMAIN items : items'[k] = items[k] /\ Start(k)' = Start(k)
      /\ items'[n] = [type |-> type, len |-> len, asked |-> Asked + Space(len)]
  BY <1>1, <1>3, OneItemMore
<1>5. Asked' = Asked + Space(len)
  BY <1>1, <1>3, OneItemMore
<1>6. /\ Asked \in Nat /\ len \in Nat /\ Padded(len) \in Nat /\ len <= Padded(len)
      /\ Space(len) \in Nat /\ Header + Padded(len) <= Space(len)
      /\ Header \in Nat /\ bufsize \in Nat /\ Room \in Nat /\ c + Room = bufsize
  BY <1>1, AskedIn, SpaceIs, PaddedIs, Small, HeadNumbers, RoomIs
<1> SUFFICES ASSUME WellFormed'
             PROVE  /\ Asked' <= bufsize => block'.controllen = Asked'
                    /\ \A k \in DOMAIN items' :
                         Start(k)' + Header + items'[k].len <= bufsize =>
                           /\ Start(k)' \in Headers(block)'
                           /\ block'.heads[Start(k)'] =
                                [cmsg_len |-> Header + items'[k].len, item |-> k,
                                 has |-> items'[k].len]
  BY <1>3 DEF Fits, Start
<1>7. WellFormed
  <2>1. \A o \in Headers(block) : o \in Headers(block)' /\ block'.heads[o] = block.heads[o]
    BY <1>2 DEF Written
  <2> QED BY <2>1 DEF WellFormed
<1>8. cmsg_len >= Header
  BY <1>2 DEF WellFormed, Written
<1>9. Asked <= bufsize => c = Asked
  BY <1>1, <1>7 DEF Fits
<1>10. ASSUME Asked + Header + len <= bufsize
       PROVE  c = Asked /\ has = len /\ cmsg_len = Header + len
  <2>1. c = Asked
    BY <1>6, <1>9, <1>10
  <2>2. Header + len <= Room
    BY <1>6, <1>10, <2>1
  <2> QED BY <1>8, <2>1, <2>2 DEF Arrives
<1>11. ASSUME Asked' <= bufsize PROVE block'.controllen = Asked'
  <2>1. c = Asked /\ has = len
    BY <1>5, <1>6, <1>10, <1>11
  <2>2. bufsize <= Limit /\ Limit \in Nat
    BY HeadNumbers, Small
  <2>3. Space(len) = Header + Padded(len)
    BY <1>5, <1>6, <1>11, <2>2, SpaceIs
  <2>4. \/ block'.controllen = Asked'
        \/ block'.controllen = bufsize /\ bufsize <= Asked'
    BY <1>2, <1>5, <1>6, <2>1, <2>3 DEF ArrivedAt
  <2> QED BY <1>5, <1>6, <1>11, <2>4
<1>12. ASSUME NEW k \in DOMAIN items, Start(k)' + Header + items'[k].len <= bufsize
       PROVE  /\ Start(k)' \in Headers(block)'
              /\ block'.heads[Start(k)'] =
                   [cmsg_len |-> Header + items'[k].len, item |-> k, has |-> items'[k].len]
  <2>1. Start(k) + Header + items[k].len <= bufsize /\ Start(k)' = Start(k) /\ items'[k] = items[k]
    BY <1>4, <1>12
  <2>2. /\ Start(k) \in Headers(block)
        /\ block.heads[Start(k)] =
             [cmsg_len |-> Header + items[k].len, item |-> k, has |-> items[k].len]
    BY <1>7, <2>1 DEF Fits
  <2> QED BY <1>2, <2>1, <2>2 DEF Written
<1>13. ASSUME Start(n)' + Header + items'[n].len <= bufsize
       PROVE  /\ Start(n)' \in Headers(block)'
              /\ block'.heads[Start(n)'] =
                   [cmsg_len |-> Header + items'[n].len, item |-> n, has |-> items'[n].len]
  <2>1. items'[n].len = len
    BY <1>4
  <2>2. Start(n)' = Asked
    BY <1>4
  <2>3. Asked + Header + len <= bufsize
    BY <1>13, <2>1, <2>2
  <2>4. Start(n)' = c /\ has = len /\ cmsg_len = Header + len
    BY <1>10, <2>2, <2>3
  <2>5. c \in Headers(block)' /\ block'.heads[c] = [cmsg_len |-> cmsg_len, item |-> n, has |-> has]
    BY <1>1, <1>2 DEF ArrivedAt
  <2> QED BY <2>1, <2>4, <2>5
<1> QED BY <1>4, <1>11, <1>12, <1>13

\* An item that the stack drops had no room for its data.
LEMMA FitsMisses ==
    ASSUME Typed, Chain, Placed, NEW type \in Type, NEW len \in 0..MaxIn,
           Misses(type, len), Len(items) < MaxComing, Fits
    PROVE  Fits'
<1>1. PICK n \in Nat : n = Len(items) + 1
  BY DEF Typed
<1>2. items' = WithItem(type, len) /\ bufsize' = bufsize /\ block' = block
  BY DEF Misses, Cuts
<1>3. /\ DOMAIN items' = DOMAIN items \cup {n} /\ Start(n)' = Asked
      /\ \A k \in DOMAIN items : items'[k] = items[k] /\ Start(k)' = Start(k)
      /\ items'[n] = [type |-> type, len |-> len, asked |-> Asked + Space(len)]
  BY <1>1, <1>2, OneItemMore
<1>4. Asked' = Asked + Space(len)
  BY <1>1, <1>2, OneItemMore
<1>5. /\ Asked \in Nat /\ len \in Nat /\ Padded(len) \in Nat /\ len <= Padded(len)
      /\ Space(len) \in Nat /\ Header + Padded(len) <= Space(len)
      /\ Header \in Nat /\ bufsize \in Nat /\ Room \in Nat /\ block.controllen + Room = bufsize
      /\ Room < Header + len
  BY AskedIn, SpaceIs, PaddedIs, Small, HeadNumbers, RoomIs DEF Misses
<1>6. Headers(block)' = Headers(block) /\ WellFormed' = WellFormed
  BY <1>2 DEF Headers, WellFormed
<1>7. ASSUME WellFormed, Asked + Header + len <= bufsize PROVE FALSE
  <2>1. block.controllen = Asked
    BY <1>5, <1>7 DEF Fits
  <2> QED BY <1>5, <1>7, <2>1
<1>8. WellFormed => ~(Asked' <= bufsize)
  BY <1>4, <1>5, <1>7
<1>9. WellFormed => ~(Start(n)' + Header + items'[n].len <= bufsize)
  <2>1. items'[n].len = len
    BY <1>3
  <2> QED BY <1>3, <1>7, <2>1
<1>10. ASSUME NEW k \in DOMAIN items', WellFormed, Start(k)' + Header + items'[k].len <= bufsize
       PROVE  /\ Start(k)' \in Headers(block)
              /\ block.heads[Start(k)'] =
                   [cmsg_len |-> Header + items'[k].len, item |-> k, has |-> items'[k].len]
  <2>1. k \in DOMAIN items
    BY <1>3, <1>9, <1>10
  <2> QED BY <1>3, <1>10, <2>1 DEF Fits
<1> QED BY <1>2, <1>6, <1>8, <1>10 DEF Fits, Start

\* Before the message comes there is nothing in the buffer.
LEMMA BlocksStart ==
    ASSUME items' = <<>>, block' = Empty, opened' = {}, bufsize' \in Nat
    PROVE  Blocks'
<1>1. Headers(block)' = {} /\ block'.controllen = 0 /\ Asked' = 0 /\ DOMAIN items' = {}
  BY DEF Headers, Empty, Asked
<1>2. Chain'
  <2>1. 0 <= bufsize' /\ OnAlign(0)
    BY PaddedOnAlign
  <2> QED BY <1>1, <2>1 DEF Chain
<1>3. Came(NULL)' = {}
  BY <1>1 DEF Came, RightsBefore
<1>4. Fits'
  BY <1>1 DEF Fits
<1> QED BY <1>2, <1>3, <1>4 DEF Blocks

\* Every step keeps what is said of the buffer.
LEMMA BlocksStep == ASSUME Inv, [Next]_vars PROVE Blocks'
<1> USE DEF Inv
<1>1. CASE UNCHANGED <<block, bufsize, items, opened>>
  <2>1. UNCHANGED <<block, bufsize, items>>
    BY <1>1
  <2>2. (Chain => Chain') /\ (Fits => Fits')
    BY <2>1, ChainFrame, FitsFrame
  <2>3. Came(NULL)' = Came(NULL)
    BY <2>1, CameFrame
  <2> QED BY <1>1, <2>2, <2>3 DEF Blocks
<1>2. CASE Calls \/ GutsGoes
  <2>1. /\ op \in {"idle", "guts"} /\ items' = items /\ block' = block /\ opened' = opened
        /\ bufsize' \in {bufsize} \cup 0..Limit
    BY <1>2 DEF Calls, Recvmsg, RecvmsgInto, Call, GutsGoes, fds
  <2>2. items' = <<>> /\ block' = Empty /\ opened' = {}
    BY <2>1 DEF Course
  <2>3. bufsize' \in Nat
    BY <2>1, HeadNumbers, Small
  <2> QED BY <2>2, <2>3, BlocksStart
<1>3. CASE Arrival
  <2>1. Len(items) < MaxComing
    BY <1>3 DEF Arrival, Arrives, Misses, Coming
  <2>2. Chain /\ opened = Came(NULL) /\ Fits
    BY DEF Blocks
  <2>3. ASSUME NEW type \in Type, NEW len \in 0..MaxIn, NEW cmsg_len, NEW has,
               Arrives(type, len, cmsg_len, has)
        PROVE  Blocks'
    BY <2>1, <2>2, <2>3, ChainArrives, CameArrives, FitsArrives DEF Blocks
  <2>4. ASSUME NEW type \in Type, NEW len \in 0..MaxIn, Misses(type, len)
        PROVE  Blocks'
    <3>1. PICK n \in Nat : n = Len(items) + 1
      BY DEF Typed
    <3>2. items' = WithItem(type, len) /\ UNCHANGED <<bufsize, block, opened>>
      BY <2>4 DEF Misses, Cuts, fds
    <3>3. /\ DOMAIN items' = DOMAIN items \cup {n}
          /\ \A k \in DOMAIN items : items'[k] = items[k]
      BY <2>1, <3>1, <3>2, OneItemMore
    <3>4. /\ Headers(block)' = Headers(block)
          /\ \A o : Has(o)' = Has(o) /\ ItemAt(o)' = ItemAt(o) /\ FdsOf(o)' = FdsOf(o)
          /\ \A o : After(o)' = After(o) /\ Exact(o)' = Exact(o) /\ Full(o)' = Full(o)
                    /\ Lasts(o)' = Lasts(o)
      BY <3>2 DEF Headers, Has, ItemAt, FdsOf, After, Exact, Full, Lasts
    <3>5. \A o \in Headers(block) :
            ItemAt(o) \in DOMAIN items /\ items'[ItemAt(o)] = items[ItemAt(o)]
      BY <2>2, <3>3 DEF Chain, GoodHead
    <3>6. \A o \in Headers(block) : Odd(o)' = Odd(o)
      BY <3>2, <3>4, <3>5 DEF Odd
    <3>7. \A o \in Headers(block) : GoodHead(o)'
      BY <2>2, <3>2, <3>3, <3>4, <3>6 DEF GoodHead, Chain
    <3>8. Chain'
      BY <2>2, <3>2, <3>4, <3>7 DEF Chain, Has, ItemAt, After, GoodHead
    <3>9. RightsBefore(NULL)' = RightsBefore(NULL)
      BY <3>4, <3>5 DEF RightsBefore
    <3>10. Came(NULL)' = Came(NULL)
      BY <3>4, <3>9 DEF Came
    <3>11. Fits'
      BY <2>1, <2>2, <2>4, FitsMisses
    <3> QED BY <2>2, <3>2, <3>8, <3>10, <3>11 DEF Blocks
  <2> QED BY <1>3, <2>3, <2>4 DEF Arrival, Arrives, Misses
<1>4. CASE \/ UNCHANGED vars \/ Ends \/ Part \/ PartsDone \/ GutsFails
           \/ StackReturns \/ Read \/ ReadFails \/ Close
  <2>1. UNCHANGED <<block, bufsize, items, opened>>
    BY <1>4 DEF vars, Ends, Raise, Part, PartsDone, GutsFails, StackReturns, Read,
       ReadFails, Close, Fails, GoTo, given, fds
  <2> QED BY <1>1, <2>1
<1> QED BY <1>2, <1>3, <1>4, Steps

----------------------------------------------------------------------------
(* Taking the buffer apart *)

\* The first header, if the buffer has any.
LEMMA FirstIs ==
    ASSUME Typed, Chain
    PROVE  First = IF Headers(block) = {} THEN NULL ELSE 0
<1>1. CASE Headers(block) = {}
  BY <1>1 DEF Chain, First
<1>2. CASE Headers(block) # {}
  <2>1. 0 \in Headers(block) /\ 0 + Header + Has(0) <= block.controllen
    BY <1>2 DEF Chain, GoodHead
  <2>2. Has(0) \in Nat /\ block.controllen \in Nat
    BY <2>1, HeadNumbers
  <2>3. block.controllen >= Header /\ block.controllen > 0
    BY <2>1, <2>2, Small
  <2> QED BY <1>2, <2>3 DEF First, CMSG_FIRSTHDR
<1> QED BY <1>1, <1>2

\* A header whose length is not that of its data is the last one.
LEMMA OddLast ==
    ASSUME Typed, Chain, NEW o \in Headers(block), Full(o)
    PROVE  \A p \in Headers(block) : p <= o
<1> SUFFICES ASSUME NEW p \in Headers(block), o < p PROVE FALSE
  BY HeadNumbers
<1>1. After(o) <= p /\ p + Header + Has(p) <= block.controllen
  BY DEF Chain, GoodHead
<1>2. /\ o \in Nat /\ p \in Nat /\ After(o) \in Nat /\ Has(o) \in Nat /\ Has(p) \in Nat
      /\ o + Header + Has(o) <= After(o) /\ block.controllen = o + Header + Has(o)
  BY HeadNumbers DEF Full
<1> QED BY <1>1, <1>2, Small

\* get_cmsg_data_len: the data that the stack put in the buffer, whatever the
\* header says; all of it by the header only if the header says so.
LEMMA GotLen ==
    ASSUME Typed, Chain, NEW o \in Headers(block)
    PROVE  LET got == get_cmsg_data_len(block, o) IN
           /\ Exact(o) => got = [status |-> 0, len |-> Has(o)]
           /\ Odd(o) => \/ got = [status |-> 1, len |-> Has(o)]
                        \/ got = [status |-> -1, len |-> 0]
           /\ Odd(o) /\ WellFormed => got = [status |-> 1, len |-> Has(o)]
<1> DEFINE l == LenAt(block, o)
           long == l - Header
           space == get_cmsg_data_space(block, o)
           got == get_cmsg_data_len(block, o)
<1>1. /\ o \in Nat /\ Has(o) \in Nat /\ l \in Nat /\ l = block.heads[o].cmsg_len
      /\ o + Header + Has(o) <= block.controllen
      /\ block.controllen \in Nat /\ block.controllen <= Limit /\ o # NULL
  BY HeadNumbers, Small DEF LenAt, Size, Chain, GoodHead
<1>2. space = block.controllen - (o + Header) /\ space \in Nat /\ space # NoSize /\ Has(o) <= space
  <2>1. ~(o + Header > block.controllen)
    BY <1>1, Small
  <2>2. space = block.controllen - (o + Header)
    BY <2>1 DEF get_cmsg_data_space
  <2> HIDE DEF space
  <2>3. space \in Nat /\ space # Word /\ Has(o) <= space
    BY <1>1, <2>2, Small
  <2> QED BY <2>2, <2>3 DEF NoSize
<1>3. cmsg_min_space(block, o, CMSG_LEN(0))
  <2>1. CMSG_LEN(0) = Header /\ ~(Header < LenEnd)
    BY SpaceOfOne, Sizes
  <2>2. o <= Word - 1 - Header /\ o + Header <= block.controllen /\ block.controllen > 0
    BY <1>1, Small
  <2> QED BY <1>1, <2>1, <2>2 DEF cmsg_min_space
<1>4. got = IF l < Header THEN [status |-> -1, len |-> 0]
            ELSE IF space >= long THEN [status |-> 0, len |-> long]
            ELSE [status |-> 1, len |-> space]
  BY <1>2, <1>3 DEF get_cmsg_data_len
<1> HIDE DEF l, space, got
<1>5. ASSUME Exact(o) PROVE got = [status |-> 0, len |-> Has(o)]
  <2>1. l = Header + Has(o)
    BY <1>1, <1>5 DEF Exact
  <2>2. ~(l < Header) /\ long = Has(o)
    BY <1>1, <2>1, Small
  <2> QED BY <1>2, <1>4, <2>2
<1>6. ASSUME Odd(o)
      PROVE  \/ got = [status |-> 1, len |-> Has(o)]
             \/ got = [status |-> -1, len |-> 0] /\ l < Header
  <2>1. block.controllen = o + Header + Has(o)
    BY <1>6 DEF Odd, Full
  <2>2. space = Has(o)
    BY <1>1, <1>2, <2>1, Small
  <2>3. l < Header \/ l > Header + Has(o)
    BY <1>1, <1>6 DEF Odd
  <2>4. ASSUME l > Header + Has(o) PROVE ~(l < Header) /\ ~(space >= long)
    BY <1>1, <2>2, <2>4, Small
  <2> QED BY <1>4, <2>2, <2>3, <2>4
<1>7. WellFormed => l >= Header
  BY <1>1 DEF WellFormed
<1>8. ~(l < Header /\ l >= Header)
  BY <1>1, Small
<1> QED BY <1>5, <1>6, <1>7, <1>8 DEF got

\* CMSG_NXTHDR of a header with the length of its data: the next header, or
\* NULL, and that only after the last, or before one that SeesAll tells apart.
LEMMA NextHeader ==
    ASSUME Typed, Chain, at \in Headers(block), Exact(at)
    PROVE  /\ Following # NULL => Following = After(at) /\ After(at) \in Headers(block)
           /\ /\ After(at) \in Headers(block)
              /\ peeks => After(at) + Aligned(LenAt(block, After(at))) <= block.controllen
              => Following = After(at)
           /\ Following = NULL /\ SeesAll =>
                \A p \in Headers(block) : at < p => items[ItemAt(p)].type = "other"
<1> DEFINE next == After(at)
<1>1. /\ at \in Nat /\ Has(at) \in Nat /\ Has(at) <= Limit /\ next \in Nat
      /\ at + Header + Has(at) <= block.controllen
      /\ block.controllen \in Nat /\ block.controllen <= Limit
      /\ LenAt(block, at) = Header + Has(at)
  BY HeadNumbers DEF Chain, GoodHead, LenAt, Exact
<1>2. LenAt(block, at) >= Header
  BY <1>1, Small
<1>3. at + Aligned(LenAt(block, at)) = next
  <2>1. Header + Has(at) \in Nat /\ Header + Has(at) + Align <= Word
    <3>1. Has(at) <= Limit /\ Header + Align <= Limit /\ 2 * (Limit + 1) <= Word
          /\ Header \in Nat /\ Align \in Nat /\ Limit \in Nat /\ Word \in Nat
      BY <1>1, Sizes
    <3> QED BY <1>1, <3>1
  <2>2. Aligned(Header + Has(at)) = Header + Padded(Has(at))
    BY <1>1, <2>1, AlignedPads, PaddedHeader
  <2>3. at + (Header + Padded(Has(at))) = next
    BY <1>1, PaddedIs, Small DEF After
  <2> QED BY <1>1, <2>2, <2>3
<1> HIDE DEF next
<1>4. Following = IF /\ next + Header <= block.controllen
                     /\ peeks => next + Aligned(LenAt(block, next)) <= block.controllen
                  THEN next ELSE NULL
  BY <1>2, <1>3 DEF Following, CMSG_NXTHDR
<1>5. next + Header <= block.controllen => next \in Headers(block)
  <2>1. next \in Headers(block) \/ block.controllen <= next
    BY <1>1 DEF next, Chain, GoodHead, Lasts
  <2> QED BY <1>1, <2>1, Small
<1>6. next \in Headers(block) => next + Header <= block.controllen
  <2> SUFFICES ASSUME next \in Headers(block) PROVE next + Header <= block.controllen
    OBVIOUS
  <2>1. next + Header + Has(next) <= block.controllen /\ Has(next) \in Nat
    BY HeadNumbers DEF Chain, GoodHead
  <2> QED BY <1>1, <2>1, Small
<1>7. ASSUME Following = NULL, SeesAll, NEW p \in Headers(block), at < p
      PROVE  items[ItemAt(p)].type = "other"
  <2>1. next \in Headers(block)
    <3>1. ~Lasts(at)
      BY <1>1, <1>7, HeadNumbers DEF Lasts
    <3> QED BY <3>1 DEF next, Chain, GoodHead
  <2>2. next # NULL
    BY <2>1, HeadNumbers
  <2>3. peeks /\ ~(next + Aligned(LenAt(block, next)) <= block.controllen)
    BY <1>4, <1>6, <1>7, <2>1, <2>2
  <2>4. ~Exact(next)
    <3> SUFFICES ASSUME Exact(next) PROVE FALSE
      OBVIOUS
    <3>1. /\ Has(next) \in Nat /\ Has(next) <= Limit
          /\ next + Header + Has(next) <= block.controllen
          /\ LenAt(block, next) = Header + Has(next) /\ After(next) \in Nat
          /\ OnAlign(next)
      BY <2>1, HeadNumbers DEF Chain, GoodHead, LenAt, Exact
    <3>2. Header + Has(next) \in Nat /\ Header + Has(next) + Align <= Word
      <4>1. Has(next) <= Limit /\ Header + Align <= Limit /\ 2 * (Limit + 1) <= Word
            /\ Header \in Nat /\ Align \in Nat /\ Limit \in Nat /\ Word \in Nat
        BY <3>1, Sizes
      <4> QED BY <3>1, <4>1
    <3>3. Aligned(LenAt(block, next)) = Header + Padded(Has(next))
      BY <3>1, <3>2, AlignedPads, PaddedHeader
    <3>4. next + Aligned(LenAt(block, next)) = After(next)
      BY <1>1, <3>1, <3>3, PaddedIs, Small DEF After
    <3>5. CASE After(next) \in Headers(block)
      <4>1. After(next) + Header + Has(After(next)) <= block.controllen
            /\ Has(After(next)) \in Nat
        BY <3>5, HeadNumbers DEF Chain, GoodHead
      <4> QED BY <1>1, <2>3, <3>1, <3>4, <4>1, Small
    <3>6. CASE Lasts(next)
      <4>1. block.controllen = bufsize /\ bufsize <= After(next)
        BY <1>1, <2>3, <3>1, <3>4, <3>6 DEF Lasts
      <4>2. OnAlign(bufsize) /\ bufsize \in Nat
        BY <1>7, <2>3, HeadNumbers DEF SeesAll, OnAlign
      <4>3. next + (Header + Has(next)) <= bufsize
        BY <1>1, <3>1, <4>1, Small
      <4>4. next + Padded(Header + Has(next)) <= bufsize
        BY <1>1, <3>1, <3>2, <4>2, <4>3, PaddedFits
      <4>5. next + Aligned(LenAt(block, next)) <= block.controllen
        BY <3>1, <3>3, <4>1, <4>4, PaddedHeader
      <4> QED BY <2>3, <4>5
    <3> QED BY <2>1, <3>5, <3>6 DEF Chain, GoodHead
  <2>5. Odd(next)
    BY <2>1, <2>4 DEF Chain, GoodHead
  <2>6. next <= p
    BY <1>7 DEF next, Chain
  <2>7. p <= next
    BY <2>1, <2>5, OddLast DEF Odd
  <2>8. p = next
    BY <1>1, <2>6, <2>7, HeadNumbers
  <2> QED BY <2>5, <2>8 DEF Odd
<1> QED BY <1>4, <1>5, <1>6, <1>7 DEF next

----------------------------------------------------------------------------
(* The list *)

\* The buffer stays while the program reads it.
LEMMA ListedFrame ==
    ASSUME UNCHANGED <<block, bufsize, items, peeks>>, NEW l, NEW place,
           l = list', place = at', Listed(l, place)
    PROVE  Listed(list, at)'
<1>1. UNCHANGED <<block, bufsize, items>> /\ (SeesAll' <=> SeesAll)
  BY DEF SeesAll
<1>2. RightsBefore(at)' = RightsBefore(place)
  BY <1>1, HeadsFrame DEF RightsBefore
<1>3. \A k, o : InList(list, k, o)' <=> InList(l, k, o)
  BY <1>1, HeadsFrame DEF InList
<1>4. (WellFormed' <=> WellFormed) /\ (EnoughSpace' <=> EnoughSpace)
  BY <1>1, EnoughFrame
<1>5. Headers(block)' = Headers(block)
  BY <1>1, HeadsFrame
<1>6. place # NULL => Start(Len(list) + 1)' = Start(Len(l) + 1)
  BY DEF Start
<1> QED BY <1>1, <1>2, <1>3, <1>4, <1>5, <1>6 DEF Listed

\* Enough by the docs is enough for each item.
LEMMA EnoughFits ==
    ASSUME Typed, Placed, EnoughSpace, NEW k \in DOMAIN items
    PROVE  /\ Start(k) + Header + items[k].len <= bufsize
           /\ k < Len(items) => Asked <= bufsize
<1>1. /\ Start(k) \in Nat /\ items[k].len \in Nat /\ items[k].asked \in Nat /\ Asked \in Nat
      /\ Start(k) + Header + items[k].len <= items[k].asked /\ items[k].asked <= Asked
      /\ bufsize \in Nat /\ bufsize <= Limit /\ 2 * items[k].len < Word
      /\ k \in 1..Len(items) /\ Len(items) \in Nat
  BY StartIs, ItemNumbers, HeadNumbers
<1>2. CASE bufsize >= Asked
  BY <1>1, <1>2, Small
<1>3. CASE Len(items) = 1 /\ bufsize >= socket_CMSG_LEN(items[1].len)
  <2>1. k = 1 /\ Start(k) = 0
    BY <1>1, <1>3 DEF Start
  <2>2. socket_CMSG_LEN(items[k].len) = get_CMSG_LEN(items[k].len)
    BY <1>1 DEF socket_CMSG_LEN
  <2>3. get_CMSG_LEN(items[k].len) = NoSize \/ get_CMSG_LEN(items[k].len) = Header + items[k].len
    BY <1>1, GetLen
  <2>4. ~(bufsize >= NoSize)
    BY <1>1, Small DEF NoSize
  <2>5. bufsize >= Header + items[k].len
    BY <1>3, <2>1, <2>2, <2>3, <2>4
  <2> QED BY <1>1, <1>3, <2>1, <2>5, Small
<1> QED BY <1>2, <1>3 DEF EnoughSpace

\* At the start of the loop nothing is listed, and nothing is to be.
LEMMA FirstListed ==
    ASSUME Typed, Placed, Chain, Fits
    PROVE  Listed(<<>>, First)
<1>1. First = IF Headers(block) = {} THEN NULL ELSE 0
  BY FirstIs
<1>2. Headers(block) # {} => 0 \in Headers(block)
  BY DEF Chain
<1>3. RightsBefore(First) = {}
  <2>1. \A o \in Headers(block) : o \in Nat /\ ~(o < 0)
    BY HeadNumbers
  <2> QED BY <1>1, <2>1 DEF RightsBefore
<1>4. Len(items) \in Nat /\ DOMAIN items = 1..Len(items) /\ Len(<<>>) = 0
  BY DEF Typed
<1>5. ASSUME EnoughSpace, WellFormed
      PROVE  IF First = NULL THEN Len(<<>>) = Len(items)
             ELSE Len(<<>>) < Len(items) /\ First = Start(Len(<<>>) + 1)
  <2>1. Start(1) = 0 /\ 0 # NULL
    BY Small DEF Start, NULL
  <2>2. CASE Headers(block) = {}
    <3>1. ASSUME Len(items) # 0 PROVE FALSE
      <4>1. 1 \in DOMAIN items
        BY <1>4, <3>1
      <4>2. Start(1) + Header + items[1].len <= bufsize
        BY <1>5, <4>1, EnoughFits
      <4>3. Start(1) \in Headers(block)
        BY <1>5, <4>1, <4>2 DEF Fits
      <4> QED BY <2>2, <4>3
    <3> QED BY <1>1, <1>4, <2>2, <3>1
  <2>3. CASE Headers(block) # {}
    <3>1. ItemAt(0) \in DOMAIN items
      BY <1>2, <2>3 DEF Chain, GoodHead
    <3> QED BY <1>1, <1>4, <2>1, <2>3, <3>1
  <2> QED BY <2>2, <2>3
<1> QED BY <1>1, <1>2, <1>3, <1>5 DEF Listed

\* A turn of the loop, on a header.
Turned(l, place) ==
    \/ /\ Exact(at) /\ place = Following
       /\ l = Append(list, [item |-> ItemAt(at), len |-> Has(at)])
    \/ /\ Odd(at) /\ place = NULL
       /\ l = Append(list, [item |-> ItemAt(at), len |-> Has(at)])
    \/ Odd(at) /\ ~WellFormed /\ place = NULL /\ l = list

\* Nothing that brought descriptors is between cmsgh and the next place.
LEMMA NextPlace ==
    ASSUME Typed, Chain, at \in Headers(block), NEW place,
           (Exact(at) /\ place = Following) \/ (Odd(at) /\ place = NULL)
    PROVE  /\ place \in Headers(block) \cup {NULL} /\ at < place
           /\ place # NULL => place = After(at)
           /\ place # NULL \/ SeesAll =>
                \A o \in RightsBefore(place) :
                  o < at \/ (o = at /\ items[ItemAt(at)].type = "rights" /\ Exact(at))
<1>1. /\ at \in Nat /\ at < NULL /\ After(at) \in Nat /\ Has(at) \in Nat
      /\ at + Header + Has(at) <= After(at)
  BY HeadNumbers
<1>2. at < After(at)
  BY <1>1, Small
<1>3. place # NULL => place = After(at) /\ place \in Headers(block) /\ Exact(at)
  BY NextHeader
<1>4. ASSUME place # NULL \/ SeesAll, NEW o \in RightsBefore(place)
      PROVE  o < at \/ (o = at /\ items[ItemAt(at)].type = "rights" /\ Exact(at))
  <2>1. o \in Headers(block) /\ o \in Nat /\ o < place /\ items[ItemAt(o)].type = "rights"
    BY HeadNumbers DEF RightsBefore
  <2>2. CASE at < o
    <3>1. CASE place # NULL
      <4>1. After(at) <= o
        BY <2>1, <2>2 DEF Chain
      <4> QED BY <1>1, <1>3, <2>1, <3>1, <4>1
    <3>2. CASE place = NULL /\ Exact(at) /\ place = Following
      BY <1>4, <2>1, <2>2, <3>2, NextHeader
    <3>3. CASE place = NULL /\ Odd(at)
      <4>1. o <= at
        BY <2>1, <3>3, OddLast DEF Odd
      <4> QED BY <1>1, <2>1, <2>2, <4>1
    <3> QED BY <3>1, <3>2, <3>3
  <2>3. CASE o = at
    <3>1. ~Odd(at)
      BY <2>1, <2>3 DEF Odd
    <3> QED BY <2>1, <2>3, <3>1
  <2> QED BY <1>1, <2>1, <2>2, <2>3
<1> QED BY <1>1, <1>2, <1>3, <1>4

\* It is what Read does.
LEMMA ReadTurns ==
    ASSUME Inv, Read, NEW l, NEW place, l = list', place = at'
    PROVE  Turned(l, place)
<1> USE DEF Inv
<1> DEFINE got == get_cmsg_data_len(block, at)
<1>1. at \in Headers(block) /\ Chain
  BY AtHeader DEF Read
<1>2. Exact(at) \/ Odd(at)
  BY <1>1 DEF Chain, GoodHead
<1>3. /\ got.status < 0 => l = list /\ place = NULL
      /\ ~(got.status < 0) =>
           /\ l = Append(list, [item |-> ItemAt(at), len |-> got.len])
           /\ place = IF got.status = 0 THEN Following ELSE NULL
  BY DEF Read, GoTo, ItemAt
<1>4. CASE Exact(at)
  <2>1. got.status = 0 /\ got.len = Has(at)
    BY <1>1, <1>4, GotLen
  <2> HIDE DEF got
  <2> QED BY <1>3, <1>4, <2>1 DEF Turned
<1>5. CASE Odd(at)
  <2>1. got = [status |-> 1, len |-> Has(at)] \/ (got = [status |-> -1, len |-> 0] /\ ~WellFormed)
    BY <1>1, <1>5, GotLen
  <2> HIDE DEF got
  <2>2. CASE got = [status |-> 1, len |-> Has(at)]
    BY <1>3, <1>5, <2>2 DEF Turned
  <2>3. CASE got = [status |-> -1, len |-> 0] /\ ~WellFormed
    BY <1>3, <1>5, <2>3 DEF Turned
  <2> QED BY <2>1, <2>2, <2>3
<1> QED BY <1>2, <1>4, <1>5

\* The header of an item that the buffer is enough for.
LEMMA WholeHeader ==
    ASSUME Typed, Placed, Chain, Fits, EnoughSpace, WellFormed, NEW k \in DOMAIN items,
           at = Start(k)
    PROVE  /\ at \in Headers(block) /\ Exact(at) /\ ItemAt(at) = k /\ Has(at) = items[k].len
           /\ Following = IF k = Len(items) THEN NULL ELSE Start(k + 1)
<1>1. /\ at \in Headers(block)
      /\ block.heads[at] = [cmsg_len |-> Header + items[k].len, item |-> k, has |-> items[k].len]
  BY EnoughFits DEF Fits
<1>2. Exact(at) /\ ItemAt(at) = k /\ Has(at) = items[k].len
  BY <1>1 DEF Exact, ItemAt, Has
<1>3. k \in 1..Len(items) /\ Len(items) \in Nat /\ DOMAIN items = 1..Len(items)
  BY DEF Typed
<1>4. ASSUME k = Len(items) PROVE Following = NULL
  <2>1. ASSUME Following # NULL PROVE FALSE
    <3>1. After(at) \in Headers(block)
      BY <1>1, <1>2, <2>1, NextHeader
    <3>2. at < After(at)
      BY <1>1, <1>2, <2>1, <3>1, NextPlace, NextHeader
    <3>3. ItemAt(After(at)) \in DOMAIN items /\ k < ItemAt(After(at))
      BY <1>1, <1>2, <3>1, <3>2 DEF Chain, GoodHead
    <3> QED BY <1>3, <1>4, <3>3
  <2> QED BY <2>1
<1>5. ASSUME k # Len(items) PROVE Following = Start(k + 1)
  <2>1. /\ k + 1 \in DOMAIN items /\ Start(k + 1) = items[k].asked /\ Asked <= bufsize
        /\ k < Len(items)
    BY <1>3, <1>5, StartIs, EnoughFits
  <2>2. \A i \in DOMAIN items :
           items[i].asked = Start(i) + Header + Padded(items[i].len)
    BY <2>1, AskedExact
  <2>3. After(at) = items[k].asked
    BY <1>2, <2>2 DEF After
  <2>4. PICK j \in DOMAIN items : j = k + 1
    BY <2>1
  <2>5. /\ After(at) \in Headers(block)
        /\ block.heads[After(at)] =
             [cmsg_len |-> Header + items[j].len, item |-> j, has |-> items[j].len]
    BY <2>1, <2>4, <2>3, EnoughFits DEF Fits
  <2>6. LenAt(block, After(at)) = Header + items[j].len
    BY <2>5 DEF LenAt
  <2>7. /\ Has(After(at)) = items[j].len /\ items[j].len \in Nat /\ items[j].len <= Limit
    BY <2>5, HeadNumbers DEF Has
  <2>8. Aligned(Header + items[j].len) = Header + Padded(items[j].len)
    <3>1. Header + items[j].len \in Nat /\ Header + items[j].len + Align <= Word
      <4>1. Header + Align <= Limit /\ 2 * (Limit + 1) <= Word
            /\ Header \in Nat /\ Align \in Nat /\ Limit \in Nat /\ Word \in Nat
        BY Sizes
      <4> QED BY <2>7, <4>1
    <3> QED BY <2>7, <3>1, AlignedPads, PaddedHeader
  <2>9. After(at) + Aligned(LenAt(block, After(at))) = items[j].asked
    <3>1. items[j].asked = Start(j) + Header + Padded(items[j].len) /\ Start(j) \in Nat
          /\ Padded(items[j].len) \in Nat
      BY <2>2, StartIs, ItemNumbers
    <3>2. After(at) = Start(j)
      BY <2>1, <2>4, <2>3
    <3> QED BY <2>6, <2>8, <3>1, <3>2, Small
  <2>10. items[j].asked <= block.controllen
    BY <2>1, StartIs DEF Fits
  <2>11. Following = After(at)
    BY <1>1, <1>2, <2>5, <2>9, <2>10, NextHeader
  <2> QED BY <2>1, <2>11, <2>3
<1> QED BY <1>1, <1>2, <1>4, <1>5

\* A turn of the loop lists what is before the next place.
LEMMA TurnListed ==
    ASSUME Typed, Placed, Chain, Fits, at \in Headers(block), Listed(list, at),
           list \in Seq([item : 1..MaxComing, len : 0..Limit]),
           NEW l, NEW place, Turned(l, place)
    PROVE  Listed(l, place)
<1> DEFINE entry == [item |-> ItemAt(at), len |-> Has(at)]
           n == Len(list) + 1
           more == l = Append(list, entry)
<1>1. /\ place \in Headers(block) \cup {NULL} /\ at < place
      /\ place # NULL => place = After(at)
      /\ place # NULL \/ SeesAll =>
           \A o \in RightsBefore(place) :
             o < at \/ (o = at /\ items[ItemAt(at)].type = "rights" /\ Exact(at))
  BY NextPlace DEF Turned
<1>2. /\ more \/ l = list
      /\ Exact(at) => more /\ place = Following
  <2>1. Exact(at) => ~Odd(at)
    BY HeadNumbers, Small DEF Exact, Odd, Size
  <2> QED BY <2>1 DEF Turned
<1>3. /\ at \in Nat /\ at # NULL /\ place \in Nat /\ \A o \in Headers(block) : o \in Nat
      /\ ItemAt(at) \in Nat
  BY <1>1, HeadNumbers, Small DEF NULL
<1>4. entry \in [item : 1..MaxComing, len : 0..Limit]
  BY HeadNumbers
<1>5. Len(list) \in Nat /\ DOMAIN list = 1..Len(list)
  OBVIOUS
<1>6. more => /\ Len(l) = n /\ DOMAIN l = DOMAIN list \cup {n} /\ l[n] = entry
              /\ \A k \in DOMAIN list : l[k] = list[k]
  <2> SUFFICES ASSUME more
               PROVE  /\ Len(l) = n /\ DOMAIN l = DOMAIN list \cup {n} /\ l[n] = entry
                      /\ \A k \in DOMAIN list : l[k] = list[k]
    OBVIOUS
  <2> HIDE DEF entry
  <2>1. /\ Len(l) = n /\ l \in Seq([item : 1..MaxComing, len : 0..Limit])
        /\ l[n] = entry /\ \A k \in 1..Len(list) : l[k] = list[k]
    BY <1>4, AppendProperties
  <2>2. DOMAIN l = 1..n
    BY <2>1
  <2> QED BY <1>5, <2>1, <2>2
<1>7. \A k \in DOMAIN list : k \in DOMAIN l /\ l[k] = list[k]
  BY <1>2, <1>6
<1>8. \A k \in DOMAIN l : k \in DOMAIN list \/ (k = n /\ more)
  BY <1>2, <1>6
<1>9. more => l[n].item = ItemAt(at) /\ l[n].len = Has(at)
  BY <1>6
<1> HIDE DEF entry, more
<1>10. ASSUME NEW k \in DOMAIN l
       PROVE  \E o \in Headers(block) : o < place /\ InList(l, k, o)
  <2>1. CASE k \in DOMAIN list
    <3>1. PICK o \in Headers(block) : o < at /\ InList(list, k, o)
      BY <2>1 DEF Listed
    <3>2. o < place
      <4>1. o \in Nat /\ at \in Nat /\ place \in Nat /\ at < place
        BY <1>1, <1>3
      <4> QED BY <3>1, <4>1, Between
    <3> QED BY <1>7, <2>1, <3>1, <3>2 DEF InList
  <2>2. CASE k = n /\ more
    BY <1>1, <1>9, <2>2 DEF InList
  <2> QED BY <1>8, <2>1, <2>2
<1>11. ASSUME NEW k \in DOMAIN l, k > 1
       PROVE  l[k - 1].item < l[k].item
  <2>1. CASE k \in DOMAIN list
    <3>1. k - 1 \in DOMAIN list
      BY <1>5, <1>11, <2>1
    <3> QED BY <1>7, <1>11, <2>1, <3>1 DEF Listed
  <2>2. CASE k = n /\ more
    <3>1. k - 1 \in DOMAIN list
      BY <1>5, <1>11, <2>2
    <3>2. PICK o \in Headers(block) : o < at /\ InList(list, k - 1, o)
      BY <3>1 DEF Listed
    <3>3. ItemAt(o) < ItemAt(at)
      BY <3>2 DEF Chain
    <3> QED BY <1>7, <1>9, <2>2, <3>1, <3>2, <3>3 DEF InList
  <2> QED BY <1>8, <2>1, <2>2
<1>12. ASSUME place # NULL \/ SeesAll, NEW o \in RightsBefore(place)
       PROVE  \E k \in DOMAIN l : InList(l, k, o)
  <2>1. o \in Headers(block) /\ items[ItemAt(o)].type = "rights"
    BY DEF RightsBefore
  <2>2. CASE o < at
    <3>1. o \in RightsBefore(at)
      BY <2>1, <2>2 DEF RightsBefore
    <3>2. PICK k \in DOMAIN list : InList(list, k, o)
      BY <1>3, <3>1 DEF Listed
    <3> QED BY <1>7, <3>2 DEF InList
  <2>3. CASE o = at /\ Exact(at)
    BY <1>2, <1>6, <1>9, <2>3 DEF InList
  <2> QED BY <1>1, <1>12, <2>2, <2>3
<1>13. ASSUME EnoughSpace, WellFormed
       PROVE  /\ \A k \in DOMAIN l : k \in DOMAIN items /\ l[k] = [item |-> k, len |-> items[k].len]
              /\ IF place = NULL THEN Len(l) = Len(items)
                 ELSE Len(l) < Len(items) /\ place = Start(Len(l) + 1)
  <2>1. /\ Len(list) < Len(items) /\ at = Start(n)
        /\ \A k \in DOMAIN list : k \in DOMAIN items /\ list[k] = [item |-> k, len |-> items[k].len]
    BY <1>3, <1>13 DEF Listed
  <2>2. Len(items) \in Nat /\ DOMAIN items = 1..Len(items)
    BY DEF Typed
  <2>3. n \in DOMAIN items
    BY <1>5, <2>1, <2>2
  <2>4. /\ Exact(at) /\ ItemAt(at) = n /\ Has(at) = items[n].len
        /\ Following = IF n = Len(items) THEN NULL ELSE Start(n + 1)
    BY <1>13, <2>1, <2>3, WholeHeader
  <2>5. more /\ place = Following
    BY <1>2, <2>4
  <2>6. l[n] = [item |-> n, len |-> items[n].len]
    BY <1>6, <2>4, <2>5 DEF entry
  <2>7. n # Len(items) => Start(n + 1) # NULL /\ n < Len(items)
    <3> SUFFICES ASSUME n # Len(items) PROVE Start(n + 1) # NULL /\ n < Len(items)
      OBVIOUS
    <3>1. n < Len(items) /\ n + 1 \in DOMAIN items
      <4> HIDE DEF n
      <4> QED BY <2>2, <2>3
    <3>2. PICK j \in DOMAIN items : j = n + 1
      BY <3>1
    <3>3. Start(j) \in Headers(block)
      BY <1>13, EnoughFits DEF Fits
    <3> QED BY <3>1, <3>2, <3>3, HeadNumbers, Small DEF NULL
  <2> QED BY <1>6, <1>7, <1>8, <2>1, <2>3, <2>4, <2>5, <2>6, <2>7
<1> QED BY <1>1, <1>10, <1>11, <1>12, <1>13 DEF Listed

\* Every step keeps what is said of the list.
LEMMA ReadsStep == ASSUME Inv, [Next]_vars PROVE Reads'
<1> USE DEF Inv
<1>1. PICK l, place : l = list' /\ place = at'
  OBVIOUS
<1>2. ASSUME UNCHANGED <<block, bufsize, items, peeks>>, Listed(l, place) PROVE Reads'
  BY <1>1, <1>2, ListedFrame DEF Reads
<1>3. CASE UNCHANGED vars
  <2>1. /\ UNCHANGED <<block, bufsize, items, peeks, op, result, api>>
        /\ l = list /\ place = at
    BY <1>1, <1>3 DEF vars, given
  <2>2. Reading' => Listed(l, place)
    BY <2>1 DEF Reads, Reading
  <2> QED BY <1>2, <2>1, <2>2 DEF Reads
<1>4. CASE Ends
  <2>1. /\ op' = "done" /\ UNCHANGED <<block, bufsize, items, peeks, api>>
        /\ l = list /\ place = at /\ op \in {"parts", "read", "close"}
        /\ result' = "returned" => op = "read"
    BY <1>1, <1>4 DEF Ends, Raise, Finally, given
  <2>2. Reading' => op = "read"
    BY <2>1 DEF Reading
  <2>3. Reading' => Listed(l, place)
    BY <2>1, <2>2 DEF Reads, Reading
  <2> QED BY <1>2, <2>1, <2>3 DEF Reads
<1>5. CASE StackReturns
  <2>1. /\ op = "stack" /\ l = <<>> /\ place = First
        /\ UNCHANGED <<block, bufsize, items, peeks>>
    BY <1>1, <1>5 DEF StackReturns, GoTo, given, Course
  <2>2. Listed(<<>>, First)
    BY FirstListed DEF Blocks
  <2> QED BY <1>2, <2>1, <2>2
<1>6. CASE Read
  <2>1. /\ at \in Headers(block) /\ Chain /\ op = "read"
        /\ UNCHANGED <<block, bufsize, items, peeks>>
    BY <1>6, AtHeader DEF Read, GoTo, given
  <2>2. Turned(l, place)
    BY <1>1, <1>6, ReadTurns
  <2>3. Listed(list, at) /\ Fits
    BY <2>1 DEF Reads, Reading, Blocks
  <2>4. list \in Seq([item : 1..MaxComing, len : 0..Limit])
    BY DEF Typed
  <2>5. Listed(l, place)
    BY <2>1, <2>2, <2>3, <2>4, TurnListed
  <2> QED BY <1>2, <2>1, <2>5
<1>7. CASE \/ Calls \/ Part \/ PartsDone \/ GutsFails
           \/ GutsGoes \/ Arrival \/ ReadFails \/ Close
  <2>1. op' # "read" /\ (op' = "done" => result' # "returned")
    <3>1. CASE Calls \/ Part \/ PartsDone \/ GutsGoes \/ ReadFails \/ Close
      BY <3>1 DEF Calls, Recvmsg, RecvmsgInto, Call, Part, PartsDone,
         GutsGoes, ReadFails, Fails, GoTo, Close
    <3>2. CASE GutsFails
      BY <3>2 DEF GutsFails, Finally
    <3>3. CASE Arrival
      BY <3>3 DEF Arrival, Arrives, Misses, Coming, Puts, Cuts
    <3> QED BY <1>7, <3>1, <3>2, <3>3
  <2> QED BY <2>1 DEF Reads, Reading
<1> QED BY <1>3, <1>4, <1>5, <1>6, <1>7, Steps

----------------------------------------------------------------------------
(* The descriptors *)

\* The descriptors that came with the header at cmsgh.
FdsHere == IF items[ItemAt(at)].type = "rights" THEN FdsOf(at) ELSE {}

\* The next place has them behind it, and no others that SeesAll tells of.
LEMMA NextRights ==
    ASSUME Typed, Chain, at \in Headers(block), NEW place,
           (Exact(at) /\ place = Following) \/ (Odd(at) /\ place = NULL)
    PROVE  /\ Came(at) \cup FdsHere \subseteq Came(place)
           /\ place # NULL \/ SeesAll => Came(place) = Came(at) \cup FdsHere
<1>1. /\ place \in Headers(block) \cup {NULL} /\ at < place
      /\ place # NULL \/ SeesAll =>
           \A o \in RightsBefore(place) :
             o < at \/ (o = at /\ items[ItemAt(at)].type = "rights" /\ Exact(at))
  BY NextPlace
<1>2. at \in Nat /\ place \in Nat /\ \A o \in Headers(block) : o \in Nat
  BY <1>1, HeadNumbers, Small DEF NULL
<1>3. /\ RightsBefore(at) \subseteq RightsBefore(place)
      /\ items[ItemAt(at)].type = "rights" => at \in RightsBefore(place)
  <2>1. ASSUME NEW o \in RightsBefore(at) PROVE o \in RightsBefore(place)
    <3>1. o \in Headers(block) /\ o < at /\ items[ItemAt(o)].type = "rights"
      BY DEF RightsBefore
    <3>2. o < place
      <4>1. o \in Nat /\ at \in Nat /\ place \in Nat /\ at < place
        BY <1>1, <1>2, <3>1
      <4> QED BY <3>1, <4>1, Between
    <3> QED BY <3>1, <3>2 DEF RightsBefore
  <2>2. items[ItemAt(at)].type = "rights" => at \in RightsBefore(place)
    BY <1>1 DEF RightsBefore
  <2> QED BY <2>1, <2>2
<1>4. ASSUME place # NULL \/ SeesAll, NEW o \in RightsBefore(place)
      PROVE  o \in RightsBefore(at) \/ (o = at /\ items[ItemAt(at)].type = "rights")
  BY <1>1, <1>4 DEF RightsBefore
<1>5. Came(at) \cup FdsHere \subseteq Came(place)
  BY <1>3 DEF Came, FdsHere
<1>6. ASSUME place # NULL \/ SeesAll PROVE Came(place) \subseteq Came(at) \cup FdsHere
  BY <1>4, <1>6 DEF Came, FdsHere
<1> QED BY <1>5, <1>6

\* The descriptors before cmsgh are not those at it.
LEMMA FdsApart ==
    ASSUME Typed, Chain, at \in Headers(block)
    PROVE  Came(at) \cap FdsOf(at) = {}
<1> SUFFICES ASSUME NEW fd \in Came(at), fd \in FdsOf(at) PROVE FALSE
  OBVIOUS
<1>1. PICK o \in RightsBefore(at) : fd \in FdsOf(o)
  BY DEF Came
<1>2. ItemAt(o) < ItemAt(at) /\ o \in Headers(block)
  BY <1>1 DEF RightsBefore, Chain
<1>3. fd[1] = ItemAt(o) /\ fd[1] = ItemAt(at)
  BY <1>1 DEF FdsOf
<1>4. ItemAt(at) \in Nat
  BY HeadNumbers
<1> QED BY <1>2, <1>3, <1>4

\* Two sequences without repetitions, of different things.
LEMMA ConcatInjective ==
    ASSUME NEW S, NEW s \in Seq(S), NEW u \in Seq(S), IsInjective(s), IsInjective(u),
           ToSet(s) \cap ToSet(u) = {}
    PROVE  IsInjective(s \o u) /\ ToSet(s \o u) = ToSet(s) \cup ToSet(u)
<1> DEFINE c == s \o u
           m == Len(s)
           n == Len(u)
<1>1. /\ c \in Seq(S) /\ Len(c) = m + n /\ m \in Nat /\ n \in Nat
      /\ \A i \in 1..m + n : c[i] = IF i <= m THEN s[i] ELSE u[i - m]
      /\ DOMAIN s = 1..m /\ DOMAIN u = 1..n
  BY ConcatProperties
<1>2. DOMAIN c = 1..m + n
  BY <1>1
<1> HIDE DEF c, m, n
<1>3. \A i \in DOMAIN c : \/ i \in DOMAIN s /\ c[i] = s[i]
                          \/ i \notin DOMAIN s /\ i - m \in DOMAIN u /\ c[i] = u[i - m]
  BY <1>1, <1>2
<1>4. \A i \in DOMAIN s : i \in DOMAIN c /\ c[i] = s[i]
  BY <1>1, <1>2
<1>5. \A i \in DOMAIN u : m + i \in DOMAIN c /\ c[m + i] = u[i]
  <2> SUFFICES ASSUME NEW i \in DOMAIN u PROVE m + i \in DOMAIN c /\ c[m + i] = u[i]
    OBVIOUS
  <2>1. i \in 1..n /\ m + i \in 1..m + n /\ ~(m + i <= m) /\ m + i - m = i
    BY <1>1
  <2> QED BY <1>1, <1>2, <2>1
<1>6. ToSet(c) = ToSet(s) \cup ToSet(u)
  <2>1. ToSet(c) \subseteq ToSet(s) \cup ToSet(u)
    BY <1>3 DEF ToSet
  <2>2. ToSet(s) \subseteq ToSet(c)
    BY <1>4 DEF ToSet
  <2>3. ToSet(u) \subseteq ToSet(c)
    BY <1>5 DEF ToSet
  <2> QED BY <2>1, <2>2, <2>3
<1>7. ASSUME NEW i \in DOMAIN c, NEW j \in DOMAIN c, c[i] = c[j] PROVE i = j
  <2>1. CASE i \in DOMAIN s /\ j \in DOMAIN s
    BY <1>3, <1>7, <2>1 DEF IsInjective
  <2>2. CASE i \notin DOMAIN s /\ j \notin DOMAIN s
    <3>1. i - m \in DOMAIN u /\ j - m \in DOMAIN u /\ u[i - m] = u[j - m]
      BY <1>3, <1>7, <2>2
    <3>2. i - m = j - m /\ i \in Int /\ j \in Int
      BY <1>1, <1>2, <3>1 DEF IsInjective
    <3> QED BY <1>1, <3>2
  <2>3. CASE i \in DOMAIN s /\ j \notin DOMAIN s
    BY <1>3, <1>7, <2>3 DEF ToSet
  <2>4. CASE i \notin DOMAIN s /\ j \in DOMAIN s
    BY <1>3, <1>7, <2>4 DEF ToSet
  <2> QED BY <2>1, <2>2, <2>3, <2>4
<1>8. IsInjective(c)
  BY <1>7 DEF IsInjective
<1> QED BY <1>6, <1>8 DEF c

\* What the program closes at a header is what came with it.
LEMMA DescriptorsAre ==
    ASSUME Typed, at \in Headers(block), NEW d, d = Descriptors(Has(at))
    PROVE  /\ d \in Seq((1..MaxComing) \X Nat) /\ IsInjective(d) /\ ToSet(d) = FdsOf(at)
<1> DEFINE n == Has(at) \div IntSize
<1>1. n \in Nat /\ ItemAt(at) \in 1..MaxComing
  BY HeadNumbers, DivIs, Sizes
<1> HIDE DEF n
<1>2. d = [j \in 1..n |-> <<ItemAt(at), j>>]
  BY DEF Descriptors, ItemAt, n
<1>3. d \in Seq((1..MaxComing) \X Nat)
  BY <1>1, <1>2
<1>4. IsInjective(d)
  BY <1>2 DEF IsInjective
<1>5. ToSet(d) = FdsOf(at)
  BY <1>2 DEF ToSet, FdsOf, n
<1> QED BY <1>3, <1>4, <1>5

\* The buffer stays while the program closes what came in it.
LEMMA CameClosedFrame ==
    ASSUME UNCHANGED <<block, bufsize, items, peeks>>, NEW c, NEW place,
           c = closed', place = at', CameClosed(c, place)
    PROVE  CameClosed(closed, at)'
<1>1. SeesAll' <=> SeesAll
  BY DEF SeesAll
<1>2. Came(at)' = Came(place)
  BY CameFrame
<1>3. Headers(block)' = Headers(block)
  BY HeadsFrame
<1> QED BY <1>1, <1>2, <1>3 DEF CameClosed

\* At the start of the loop nothing is closed.
LEMMA FirstClosed ==
    ASSUME Typed, Chain
    PROVE  CameClosed(<<>>, First)
<1>1. First = IF Headers(block) = {} THEN NULL ELSE 0
  BY FirstIs
<1>2. Headers(block) # {} => 0 \in Headers(block)
  BY DEF Chain
<1>3. RightsBefore(First) = {}
  <2>1. \A o \in Headers(block) : o \in Nat /\ ~(o < 0)
    BY HeadNumbers
  <2> QED BY <1>1, <2>1 DEF RightsBefore
<1>4. Came(First) = {}
  BY <1>3 DEF Came
<1>5. IsInjective(<<>>) /\ ToSet(<<>>) = {}
  BY DEF IsInjective, ToSet
<1> QED BY <1>1, <1>2, <1>4, <1>5 DEF CameClosed

\* A turn of the loop, on a header.
LEMMA CloseTurns ==
    ASSUME Inv, Close, NEW c, NEW place, c = closed', place = at'
    PROVE  /\ (Exact(at) /\ place = Following) \/ (Odd(at) /\ place = NULL)
           /\ c = IF items[ItemAt(at)].type = "rights"
                  THEN closed \o Descriptors(Has(at)) ELSE closed
<1> USE DEF Inv
<1> DEFINE got == get_cmsg_data_len(block, at)
<1>1. at \in Headers(block) /\ Chain
  BY AtHeader DEF Close
<1>2. Exact(at) \/ Odd(at)
  BY <1>1 DEF Chain, GoodHead
<1>3. /\ c = IF got.status >= 0 /\ items[ItemAt(at)].type = "rights"
             THEN closed \o Descriptors(got.len) ELSE closed
      /\ place = IF got.status = 0 THEN Following ELSE NULL
  BY DEF Close, GoTo, ItemAt, TypeAt
<1>4. CASE Exact(at)
  <2>1. got.status = 0 /\ got.len = Has(at)
    BY <1>1, <1>4, GotLen
  <2> HIDE DEF got
  <2> QED BY <1>3, <1>4, <2>1
<1>5. CASE Odd(at)
  <2>1. got.status # 0
    BY <1>1, <1>5, GotLen
  <2>2. items[ItemAt(at)].type # "rights"
    BY <1>5 DEF Odd
  <2> HIDE DEF got
  <2> QED BY <1>3, <1>5, <2>1, <2>2
<1> QED BY <1>2, <1>4, <1>5

\* A turn of the loop closes what came before the next place, and nothing twice.
LEMMA TurnCloses ==
    ASSUME Typed, Chain, at \in Headers(block), CameClosed(closed, at), NEW c, NEW place,
           (Exact(at) /\ place = Following) \/ (Odd(at) /\ place = NULL),
           c = IF items[ItemAt(at)].type = "rights"
               THEN closed \o Descriptors(Has(at)) ELSE closed
    PROVE  CameClosed(c, place)
<1>1. place \in Headers(block) \cup {NULL}
  BY NextPlace
<1>2. /\ Came(at) \cup FdsHere \subseteq Came(place)
      /\ place # NULL \/ SeesAll => Came(place) = Came(at) \cup FdsHere
  BY NextRights
<1>3. ToSet(closed) = Came(at) /\ IsInjective(closed) /\ closed \in Seq((1..MaxComing) \X Nat)
  <2>1. at # NULL
    BY HeadNumbers, Small DEF NULL
  <2> QED BY <2>1 DEF CameClosed, Typed
<1>4. IsInjective(c) /\ ToSet(c) = Came(at) \cup FdsHere
  <2>1. CASE items[ItemAt(at)].type = "rights"
    <3>1. PICK d : d = Descriptors(Has(at))
      OBVIOUS
    <3>2. /\ d \in Seq((1..MaxComing) \X Nat) /\ IsInjective(d) /\ ToSet(d) = FdsOf(at)
          /\ c = closed \o d /\ FdsHere = FdsOf(at)
      BY <2>1, <3>1, DescriptorsAre DEF FdsHere
    <3>3. ToSet(closed) \cap ToSet(d) = {}
      BY <1>3, <3>2, FdsApart
    <3>4. PICK S : S = (1..MaxComing) \X Nat
      OBVIOUS
    <3>5. closed \in Seq(S) /\ d \in Seq(S) /\ IsInjective(closed) /\ IsInjective(d)
      BY <1>3, <3>2, <3>4
    <3>6. IsInjective(closed \o d) /\ ToSet(closed \o d) = ToSet(closed) \cup ToSet(d)
      <4> HIDE <3>2, <3>4
      <4> QED BY <3>3, <3>5, ConcatInjective, ZenonT(30)
    <3> QED BY <1>3, <3>2, <3>6
  <2>2. CASE items[ItemAt(at)].type # "rights"
    BY <1>3, <2>2 DEF FdsHere
  <2> QED BY <2>1, <2>2
<1> QED BY <1>1, <1>2, <1>4 DEF CameClosed

\* Every step keeps what is said of the descriptors closed.
LEMMA ClosesStep == ASSUME Inv, [Next]_vars PROVE Closes'
<1> USE DEF Inv
<1>1. PICK c, place : c = closed' /\ place = at'
  OBVIOUS
<1>2. ASSUME UNCHANGED <<block, bufsize, items, peeks>>, CameClosed(c, place) PROVE Closes'
  BY <1>1, <1>2, CameClosedFrame DEF Closes
<1>3. CASE UNCHANGED vars
  <2>1. /\ UNCHANGED <<block, bufsize, items, peeks, op, result, api>>
        /\ c = closed /\ place = at
    BY <1>1, <1>3 DEF vars, given, fds
  <2>2. Closing' => CameClosed(c, place)
    BY <2>1 DEF Closes, Closing
  <2> QED BY <1>2, <2>1, <2>2 DEF Closes
<1>4. CASE Ends \/ GutsFails
  <2>1. /\ op' = "done" /\ UNCHANGED <<block, bufsize, items, peeks, api>>
        /\ c = closed /\ place = at /\ op \in {"parts", "read", "close", "guts"}
        /\ op = "read" => result' = "returned"
    BY <1>1, <1>4 DEF Ends, GutsFails, Raise, Finally, given, fds
  <2>2. Closing' => op \in {"parts", "guts", "close"}
    BY <2>1 DEF Closing
  <2>3. ASSUME op \in {"parts", "guts"} PROVE First = at /\ closed = <<>>
    BY <2>3 DEF Course, First, Empty
  <2>4. Closing' => CameClosed(c, place)
    <3>1. ASSUME op \in {"parts", "guts"} PROVE CameClosed(closed, at)
      BY <2>3, <3>1, FirstClosed DEF Blocks
    <3>2. ASSUME op = "close" PROVE CameClosed(closed, at)
      BY <3>2 DEF Closes, Closing
    <3> QED BY <2>1, <2>2, <3>1, <3>2
  <2> QED BY <1>2, <2>1, <2>4 DEF Closes
<1>5. CASE ReadFails
  <2>1. /\ op = "read" /\ c = <<>> /\ place = First
        /\ UNCHANGED <<block, bufsize, items, peeks>>
    BY <1>1, <1>5 DEF ReadFails, Fails, GoTo, given, fds, Course
  <2>2. CameClosed(<<>>, First)
    BY <2>1, FirstClosed DEF Blocks
  <2> QED BY <1>2, <2>1, <2>2
<1>6. CASE Close
  <2>1. /\ at \in Headers(block) /\ Chain /\ op = "close"
        /\ UNCHANGED <<block, bufsize, items, peeks>>
    BY <1>6, AtHeader DEF Close, GoTo, given
  <2>2. CameClosed(closed, at)
    BY <2>1 DEF Closes, Closing
  <2>3. CameClosed(c, place)
    BY <1>1, <1>6, <2>1, <2>2, CloseTurns, TurnCloses
  <2> QED BY <1>2, <2>1, <2>3
<1>7. CASE Calls \/ Part \/ PartsDone \/ GutsGoes \/ Arrival \/ StackReturns \/ Read
  <2>1. op' # "close" /\ op' # "done"
    <3>1. CASE Calls \/ Part \/ PartsDone \/ GutsGoes \/ StackReturns \/ Read
      BY <3>1 DEF Calls, Recvmsg, RecvmsgInto, Call, Part, PartsDone,
         GutsGoes, StackReturns, Read, GoTo
    <3>2. CASE Arrival
      BY <3>2 DEF Arrival, Arrives, Misses, Coming, Puts, Cuts
    <3> QED BY <1>7, <3>1, <3>2
  <2> QED BY <2>1 DEF Closes, Closing
<1> QED BY <1>3, <1>4, <1>5, <1>6, <1>7, Steps

----------------------------------------------------------------------------
(* The theorems *)

\* Every step keeps the inductive invariant.
LEMMA InvStep == ASSUME Inv, [Next]_vars PROVE Inv'
BY AccountsStep, TypedStep, CourseStep, PlacedStep, BlocksStep, ReadsStep,
   ClosesStep DEF Inv

\* Every state of the specification satisfies it.
LEMMA SpecInv == Spec => []Inv
<1>1. Init => Inv
  BY InitInv
<1>2. Inv /\ [Next]_vars => Inv'
  BY InvStep
<1> QED BY <1>1, <1>2, PTL DEF Spec

\* The types, and the buffer within the limit of a socklen_t, in every state.
THEOREM AncillaryTypeCorrect == Spec => []TypeOK
<1>1. Inv => TypeOK
  BY DEF Inv, Typed
<1> QED BY <1>1, SpecInv, PTL

\* A call that has ended, on whichever path, has released every Py_buffer that
\* it had acquired, and none twice: what finally counts is what is held.
THEOREM BuffersAllReleased == Spec => []BuffersReleased
<1>1. Inv => BuffersReleased
  BY DEF Inv, Accounts, BuffersReleased
<1> QED BY <1>1, SpecInv, PTL

\* What recvmsg returns: items of the message, in order and as long as the data
\* that came, and all of them, whole, in a buffer that is enough by the docs.
THEOREM ListIsReceived == Spec => []ListAsReceived
<1>1. Inv => ListAsReceived
  <2> SUFFICES ASSUME Inv, Received PROVE ListAsReceived
    BY DEF ListAsReceived
  <2>1. Listed(list, at) /\ at = NULL
    BY DEF Inv, Received, Reads, Reading, Ended
  <2>2. \A k \in DOMAIN list : \E o \in Headers(block) :
           block.heads[o].item = list[k].item /\ block.heads[o].has = list[k].len
    BY <2>1 DEF Listed, InList, ItemAt, Has
  <2> QED BY <2>1, <2>2 DEF Listed, ListAsReceived, Whole
<1> QED BY <1>1, SpecInv, PTL

\* A sequence that repeats nothing is as long as the set of what is in it.
LEMMA InjectiveLength ==
    ASSUME NEW S, NEW s \in Seq(S), IsInjective(s)
    PROVE  Len(s) = Cardinality(ToSet(s))
<1>1. s \in Bijection(1..Len(s), ToSet(s))
  <2>1. Len(s) \in Nat /\ DOMAIN s = 1..Len(s)
    OBVIOUS
  <2>2. s \in [1..Len(s) -> ToSet(s)]
    BY <2>1 DEF ToSet
  <2>3. s \in Surjection(1..Len(s), ToSet(s))
    BY <2>1, <2>2 DEF Surjection, ToSet
  <2>4. s \in Injection(1..Len(s), ToSet(s))
    BY <2>1, <2>2 DEF Injection, IsInjective
  <2> QED BY <2>3, <2>4 DEF Bijection
<1>2. Len(s) \in Nat
  OBVIOUS
<1> QED BY <1>1, <1>2, FS_CountingElements DEF ExistsBijection

\* No descriptor that came with a message is lost or closed twice: a call that
\* returns has listed it and left it open, a call that raises has closed it once.
THEOREM DescriptorsKeptOrClosed == Spec => []DescriptorsAccounted
<1>1. Inv => DescriptorsAccounted
  <2> SUFFICES ASSUME Inv, op = "done", SeesAll PROVE DescriptorsAccounted
    BY DEF DescriptorsAccounted
  <2> USE DEF Inv
  <2>1. CASE Received
    <3>1. closed = <<>> /\ Listed(list, at) /\ at = NULL
      BY <2>1 DEF Received, Course, Reads, Reading, Ended
    <3>2. ASSUME NEW fd \in opened
          PROVE  \E k \in DOMAIN list : list[k].item = fd[1] /\ fd[2] * IntSize <= list[k].len
      <4>1. PICK o \in RightsBefore(NULL) : fd \in FdsOf(o)
        BY <3>1 DEF Blocks, Came
      <4>2. PICK k \in DOMAIN list : InList(list, k, o)
        BY <3>1 DEF Listed
      <4>3. o \in Headers(block) /\ Has(o) \in Nat
        BY HeadNumbers DEF RightsBefore
      <4>4. PICK j \in 1..(Has(o) \div IntSize) : fd = <<ItemAt(o), j>>
        BY <4>1 DEF FdsOf
      <4>5. j * IntSize <= Has(o)
        <5>1. /\ Has(o) \div IntSize \in Nat /\ (Has(o) \div IntSize) * IntSize <= Has(o)
              /\ IntSize \in Nat
          BY <4>3, DivIs, Sizes
        <5>2. PICK q \in Nat : q = Has(o) \div IntSize
          BY <5>1
        <5>3. j \in Nat /\ j <= q
          BY <4>4, <5>2
        <5>4. j * IntSize <= q * IntSize
          BY <5>1, <5>3
        <5> QED BY <4>3, <5>1, <5>2, <5>3, <5>4
      <4> QED BY <4>2, <4>4, <4>5 DEF InList
    <3> QED BY <2>1, <3>1, <3>2 DEF DescriptorsAccounted
  <2>2. CASE ~Received
    <3>1. at = NULL /\ CameClosed(closed, at) /\ opened = Came(NULL)
      BY <2>2 DEF Received, Ended, Closes, Closing, Blocks
    <3>2. ToSet(closed) = opened /\ IsInjective(closed)
      BY <3>1 DEF CameClosed
    <3>3. Len(closed) = Cardinality(opened)
      BY <3>2, InjectiveLength DEF Typed
    <3> QED BY <2>2, <3>2, <3>3 DEF DescriptorsAccounted
  <2> QED BY <2>1, <2>2
<1> QED BY <1>1, SpecInv, PTL

============================================================================
