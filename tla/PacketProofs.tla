---------------------------- MODULE PacketProofs ----------------------------
(***************************************************************************)
(* Whatever a program does with its DataPackets, each block of memory has  *)
(* one owner and whoever reads an extension stays inside its block; and    *)
(* what handleClient makes of the bytes of a connection is what was sent:  *)
(* for any number of packets, addresses, sizes and any width of int.       *)
(*                                                                         *)
(* The arguments: an operation on the packet at o leaves it with a block   *)
(* that was free, with none, or with the one it had; the old one is freed  *)
(* in the first two cases.  Each of the three keeps the invariant if the   *)
(* size in the packet fits what it has then.  And as long as every size    *)
(* fits an int, the stream is at every moment the packets that are due,    *)
(* one behind the other: serialize adds one of them, recvAll cuts off      *)
(* exactly one, and deserialize undoes serialize.                          *)
(***************************************************************************)
EXTENDS PacketStream, SequenceTheorems, TLAPS

\* The cells the program handles: no header announces more than payloadSize
\* holds.  That such a size is read back from one needs it.
Held == {c \in Cell : c.kind = "header" => c.num <= UINT_MAX}

MemoryTypes ==
    /\ object \in [Objects -> Packet]
    /\ DOMAIN heap = Blocks
    /\ \A b \in Blocks : heap[b] \in Seq(Held) \/ heap[b] = Freed

Memory == MemoryTypes /\ OwnedOnce /\ ExtensionFits

MemoryInv == Memory /\ stream \in Seq(Held)

\* The size a packet may have when n cells are in its block.
Fits(r, n) == r.state # "torn" /\ r.payloadSize > 1 => n >= r.payloadSize - 1

-----------------------------------------------------------------------------
(***************************************************************************)
(* Cells and sizes.                                                        *)
(***************************************************************************)
LEMMA Widths == UINT_MAX \in Nat /\ UINT_MAX >= 1 /\ INT_MAX \in Nat /\ INT_MAX < UINT_MAX
BY DataPacketAssumption DEF UINT_MAX

LEMMA Cells ==
    /\ Given \in Held /\ Zero \in Held /\ Junk \in Held
    /\ \A n \in Nat : FuelCell(n) \in Held
    /\ \A n \in 0..UINT_MAX : HeaderCell(n) \in Held
BY Widths DEF Given, Zero, Junk, HeaderCell, FuelCell, Held, Cell

LEMMA FreedIsNoBlock == \A s \in Seq(Held) : s # Freed
<1> SUFFICES ASSUME NEW s \in Seq(Held), s = Freed PROVE FALSE
    OBVIOUS
<1>1. Len(Freed) = 1 /\ Freed[1].kind = "freed" BY DEF Freed
<1>2. s[1] \in Held BY <1>1
<1> QED BY <1>1, <1>2 DEF Held, Cell

LEMMA Remainder ==
    ASSUME NEW n \in Nat, NEW k \in Nat, k > 0
    PROVE  n % k \in 0..(k - 1) /\ n % k <= n
OBVIOUS

LEMMA SizeFits ==
    ASSUME NEW size \in Nat
    PROVE  payloadSizeFor(size) \in 0..UINT_MAX /\ payloadSizeFor(size) - 1 <= size
<1>1. UINT_MAX + 1 \in Nat /\ UINT_MAX + 1 > 0 BY DataPacketAssumption DEF UINT_MAX
<1>2. uint32(size) \in Nat /\ uint32(size) <= size BY <1>1, Remainder DEF uint32
<1>3. /\ uint32(1 + uint32(size)) \in 0..UINT_MAX
      /\ uint32(1 + uint32(size)) <= 1 + uint32(size)
    <2> DEFINE n == 1 + uint32(size)
    <2>1. n \in Nat BY <1>2
    <2> HIDE DEF n
    <2>2. n % (UINT_MAX + 1) \in 0..UINT_MAX /\ n % (UINT_MAX + 1) <= n
        <3>1. \A k \in Nat : k > 0 => n % k \in 0..(k - 1) /\ n % k <= n
            BY <2>1, Remainder
        <3> DEFINE m == UINT_MAX + 1
        <3>2. m \in Nat /\ m > 0 /\ 0..(m - 1) = 0..UINT_MAX BY Widths
        <3> HIDE DEF m
        <3>3. n % m \in 0..UINT_MAX /\ n % m <= n BY <3>1, <3>2
        <3> QED BY <3>3 DEF m
    <2>3. uint32(n) \in 0..UINT_MAX /\ uint32(n) <= n BY <2>2 DEF uint32
    <2> QED BY <2>3 DEF n
<1> QED BY <1>2, <1>3 DEF payloadSizeFor, sizeofTelemetry

LEMMA CopiedCells ==
    ASSUME NEW s \in Seq(Held), NEW n \in Nat
    PROVE  Copied(s, n) \in Seq(Held) /\ Len(Copied(s, n)) = n
<1>1. \A i \in 1..n : i <= Len(s) => s[i] \in Held OBVIOUS
<1>2. \A i \in 1..n : (IF i <= Len(s) THEN s[i] ELSE Junk) \in Held BY <1>1, Cells
<1>3. Copied(s, n) \in [1..n -> Held] BY <1>2 DEF Copied
<1> QED BY <1>3 DEF Copied

LEMMA ZeroCells ==
    ASSUME NEW n \in Int
    PROVE  Zeros(n) \in Seq(Held)
<1>1. CASE n >= 0
    <2>1. Zeros(n) \in [1..n -> Held] BY Cells DEF Zeros
    <2> QED BY <1>1, <2>1
<1>2. CASE n < 0
    <2>1. 1..n = {} BY <1>2
    <2>2. Zeros(n) = <<>> BY <2>1 DEF Zeros
    <2> QED BY <2>2
<1> QED BY <1>1, <1>2

-----------------------------------------------------------------------------
(***************************************************************************)
(* The three things that can happen to the packet at o.                    *)
(***************************************************************************)
\* The blocks of the other packets are not touched when that of o is freed.
LEMMA OthersKeepTheirs ==
    ASSUME Memory, NEW o \in Objects, NEW p \in Objects, p # o, object[p].ext # NULL
    PROVE  /\ object[p].ext \in Blocks
           /\ Deleted(object[o].ext)[object[p].ext] = heap[object[p].ext]
           /\ heap[object[p].ext] # Freed
<1>1. object[p].ext \in Blocks BY DEF Memory, MemoryTypes, Packet
<1>2. object[p].ext # object[o].ext /\ heap[object[p].ext] # Freed
    BY DEF Memory, OwnedOnce
<1> QED BY <1>1, <1>2 DEF Deleted

\* What is left when the block of o has been freed.
LEMMA LeftBlocks ==
    ASSUME Memory, NEW o \in Objects
    PROVE  /\ DOMAIN Deleted(object[o].ext) = Blocks
           /\ \A b \in Blocks :
                /\ Deleted(object[o].ext)[b] \in Seq(Held) \/ Deleted(object[o].ext)[b] = Freed
                /\ Deleted(object[o].ext)[b] # Freed =>
                     \E p \in Objects : p # o /\ object[p].ext = b
BY DEF Deleted, Memory, MemoryTypes, OwnedOnce

\* h is the heap without the block of o, if it has one.
HeapWithout(o, h) ==
    DOMAIN h = Blocks /\ \A b \in Blocks : h[b] = Deleted(object[o].ext)[b]

LEMMA HeapsWithout ==
    ASSUME Memory, NEW o \in Objects
    PROVE  /\ HeapWithout(o, Deleted(object[o].ext))
           /\ object[o].ext = NULL => HeapWithout(o, heap)
           /\ ~object[o].alive => object[o].ext = NULL
BY DataPacketAssumption DEF HeapWithout, Deleted, Memory, MemoryTypes, OwnedOnce

\* ExtensionFits for one packet.
ExtFits(p) ==
    HasExtension(object[p]) /\ object[p].state # "torn"
        => Len(heap[object[p].ext]) >= ExtensionSize(object[p])

LEMMA EachExtFits == ExtensionFits <=> \A p \in Objects : ExtFits(p)
BY DEF ExtensionFits, ExtFits

\* A packet that is not touched and whose block is not touched.
LEMMA OtherFits ==
    ASSUME Memory, NEW p \in Objects, object'[p] = object[p],
           object[p].ext # NULL => heap'[object[p].ext] = heap[object[p].ext]
    PROVE  ExtFits(p)'
<1>1. ExtFits(p) BY EachExtFits DEF Memory
<1> QED BY <1>1 DEF ExtFits, HasExtension, ExtensionSize

LEMMA GetsBlock ==
    ASSUME Memory, NEW o \in Objects, NEW r \in Packet, r.alive,
           NEW cells \in Seq(Held), Fits(r, Len(cells)),
           NEW h, HeapWithout(o, h), NewBlock(o, r, h, cells)
    PROVE  Memory'
<1>1. PICK b \in Blocks : /\ h[b] = Freed
                         /\ heap' = [h EXCEPT ![b] = cells]
                         /\ object' = [object EXCEPT ![o] = [r EXCEPT !.ext = b]]
    BY DEF NewBlock
<1>2. /\ object \in [Objects -> Packet] /\ b # NULL
      /\ DOMAIN h = Blocks
      /\ \A c \in Blocks : h[c] \in Seq(Held) \/ h[c] = Freed
      /\ \A c \in Blocks : h[c] # Freed => \E p \in Objects : p # o /\ object[p].ext = c
    BY LeftBlocks, DataPacketAssumption DEF Memory, MemoryTypes, HeapWithout
<1>3. cells # Freed BY FreedIsNoBlock
<1>4. \A p \in Objects : p # o /\ object[p].ext # NULL =>
          /\ object[p].ext \in Blocks /\ h[object[p].ext] = heap[object[p].ext]
          /\ heap[object[p].ext] # Freed
    BY OthersKeepTheirs DEF HeapWithout
<1>5. [r EXCEPT !.ext = b] \in Packet /\ [r EXCEPT !.ext = b].ext = b
      /\ [r EXCEPT !.ext = b].alive /\ [r EXCEPT !.ext = b].state = r.state
      /\ [r EXCEPT !.ext = b].payloadSize = r.payloadSize
    BY DEF Packet
<1>6. /\ object' \in [Objects -> Packet]
      /\ object'[o].ext = b /\ object'[o].alive /\ object'[o].state = r.state
      /\ object'[o].payloadSize = r.payloadSize
      /\ \A p \in Objects : p # o => object'[p] = object[p]
    BY <1>1, <1>2, <1>5
<1>7. /\ DOMAIN heap' = Blocks /\ heap'[b] = cells
      /\ \A c \in Blocks : c # b => heap'[c] = h[c]
    BY <1>1, <1>2
<1>8. \A p \in Objects : p # o /\ object[p].ext # NULL =>
          object[p].ext # b /\ heap'[object[p].ext] = heap[object[p].ext]
    BY <1>1, <1>4, <1>7
<1>9. MemoryTypes' BY <1>2, <1>6, <1>7 DEF MemoryTypes
<1>10. OwnedOnce'
    <2>1. \A p \in Objects : object'[p].ext # NULL =>
              object'[p].alive /\ heap'[object'[p].ext] # Freed
        BY <1>3, <1>4, <1>6, <1>7, <1>8 DEF Memory, OwnedOnce
    <2>2. \A p, q \in Objects :
              p # q /\ object'[p].ext # NULL => object'[p].ext # object'[q].ext
        BY <1>2, <1>6, <1>8 DEF Memory, OwnedOnce
    <2>3. \A c \in Blocks : heap'[c] # Freed => \E p \in Objects : object'[p].ext = c
        BY <1>2, <1>6, <1>7
    <2> QED BY <1>7, <2>1, <2>2, <2>3 DEF OwnedOnce
<1>11. ASSUME NEW p \in Objects PROVE ExtFits(p)'
    <2>1. CASE p = o
        BY <1>6, <1>7, <2>1 DEF ExtFits, HasExtension, ExtensionSize, sizeofTelemetry, Fits
    <2>2. CASE p # o BY <1>6, <1>8, <2>2, OtherFits
    <2> QED BY <2>1, <2>2
<1> QED BY <1>9, <1>10, <1>11 DEF Memory, ExtensionFits, ExtFits

LEMMA HasNone ==
    ASSUME Memory, NEW o \in Objects, NEW r \in Packet, r.ext = NULL,
           HeapWithout(o, heap'), object' = [object EXCEPT ![o] = r]
    PROVE  Memory'
<1>1. /\ object \in [Objects -> Packet]
      /\ DOMAIN heap' = Blocks
      /\ \A c \in Blocks : heap'[c] \in Seq(Held) \/ heap'[c] = Freed
      /\ \A c \in Blocks : heap'[c] # Freed => \E p \in Objects : p # o /\ object[p].ext = c
    BY LeftBlocks DEF Memory, MemoryTypes, HeapWithout
<1>2. \A p \in Objects : p # o /\ object[p].ext # NULL =>
          /\ heap'[object[p].ext] = heap[object[p].ext]
          /\ heap[object[p].ext] # Freed
    BY OthersKeepTheirs DEF HeapWithout
<1>3. /\ object' \in [Objects -> Packet] /\ object'[o].ext = NULL
      /\ \A p \in Objects : p # o => object'[p] = object[p]
    BY <1>1
<1>4. MemoryTypes' BY <1>1, <1>3 DEF MemoryTypes
<1>5. OwnedOnce'
    <2>1. \A p \in Objects : object'[p].ext # NULL =>
              object'[p].alive /\ heap'[object'[p].ext] # Freed
        BY <1>2, <1>3 DEF Memory, OwnedOnce
    <2>2. \A p, q \in Objects :
              p # q /\ object'[p].ext # NULL => object'[p].ext # object'[q].ext
        BY <1>3 DEF Memory, OwnedOnce
    <2>3. \A c \in Blocks : heap'[c] # Freed => \E p \in Objects : object'[p].ext = c
        BY <1>1, <1>3
    <2> QED BY <1>1, <2>1, <2>2, <2>3 DEF OwnedOnce
<1>6. ASSUME NEW p \in Objects PROVE ExtFits(p)'
    <2>1. CASE p = o BY <1>3, <2>1 DEF ExtFits, HasExtension
    <2>2. CASE p # o BY <1>2, <1>3, <2>2, OtherFits
    <2> QED BY <2>1, <2>2
<1> QED BY <1>4, <1>5, <1>6 DEF Memory, ExtensionFits, ExtFits

\* p takes the place of the packet at o, and the heap stays as it is.
Becomes(o, p) == heap' = heap /\ object' = [object EXCEPT ![o] = p]

\* The packet keeps its block and its size; or its size announces no
\* extension; or it is torn.
LEMMA KeepsBlock ==
    ASSUME Memory, NEW o \in Objects, object[o].alive,
           NEW r \in Packet, r.alive, r.ext = object[o].ext,
           \/ r.payloadSize = object[o].payloadSize /\ r.state = object[o].state
           \/ r.payloadSize <= 1
           \/ r.state = "torn",
           Becomes(o, r)
    PROVE  Memory'
<1>1. object \in [Objects -> Packet] BY DEF Memory, MemoryTypes
<1>2. /\ object' \in [Objects -> Packet] /\ object'[o] = r
      /\ \A p \in Objects : p # o => object'[p] = object[p]
      /\ heap' = heap
    BY <1>1 DEF Becomes
<1>3. MemoryTypes' BY <1>2 DEF Memory, MemoryTypes
<1>4. OwnedOnce'
    <2>1. \A p \in Objects : object'[p].ext = object[p].ext BY <1>2
    <2>2. \A p \in Objects : object[p].alive => object'[p].alive BY <1>2
    <2> QED BY <1>2, <2>1, <2>2 DEF Memory, OwnedOnce
<1>5. ASSUME NEW p \in Objects PROVE ExtFits(p)'
    <2>1. CASE p # o BY <1>2, <2>1, OtherFits
    <2>2. CASE p = o /\ (r.payloadSize <= 1 \/ r.state = "torn")
        BY <1>2, <2>2 DEF ExtFits, HasExtension, sizeofTelemetry, Packet
    <2>3. CASE p = o /\ r.payloadSize = object[o].payloadSize /\ r.state = object[o].state
        <3>1. ExtFits(o) BY EachExtFits DEF Memory
        <3> QED BY <1>2, <2>3, <3>1 DEF ExtFits, HasExtension, ExtensionSize
    <2> QED BY <2>1, <2>2, <2>3
<1> QED BY <1>3, <1>4, <1>5 DEF Memory, ExtensionFits, ExtFits

-----------------------------------------------------------------------------
(***************************************************************************)
(* What is copied, sent and read are cells.                                *)
(***************************************************************************)
LEMMA ExtensionCells ==
    ASSUME Memory, NEW p \in Objects
    PROVE  /\ Extension(object[p]) \in Seq(Held)
           /\ HasExtension(object[p]) =>
                Len(Extension(object[p])) = object[p].payloadSize - 1
<1>1. object[p] \in Packet BY DEF Memory, MemoryTypes
<1>2. CASE ~HasExtension(object[p]) BY <1>2 DEF Extension
<1>3. CASE HasExtension(object[p])
    <2>1. object[p].ext \in Blocks /\ object[p].payloadSize - 1 \in Nat
        BY <1>1, <1>3 DEF HasExtension, Packet, sizeofTelemetry
    <2>2. heap[object[p].ext] \in Seq(Held)
        BY <1>3, <2>1 DEF HasExtension, Memory, MemoryTypes, OwnedOnce
    <2> QED BY <1>3, <2>1, <2>2, CopiedCells DEF Extension, ExtensionSize, sizeofTelemetry
<1> QED BY <1>2, <1>3

LEMMA SerializedCells ==
    ASSUME Memory, NEW p \in Objects
    PROVE  serialize(object[p]) \in Seq(Held)
<1> DEFINE r == object[p]
           payload == IF r.payloadSize >= sizeofTelemetry
                      THEN <<FuelCell(r.fuel)>> \o Extension(r) ELSE <<>>
<1>1. r.payloadSize \in 0..UINT_MAX /\ r.fuel \in Nat BY DEF Memory, MemoryTypes, Packet
<1>2. HeaderCell(r.payloadSize) \in Held /\ FuelCell(r.fuel) \in Held BY <1>1, Cells
<1>3. <<HeaderCell(r.payloadSize)>> \in Seq(Held) /\ <<FuelCell(r.fuel)>> \in Seq(Held)
    BY <1>2
<1>4. Extension(r) \in Seq(Held) BY ExtensionCells
<1>5. payload \in Seq(Held) BY <1>3, <1>4
<1> HIDE DEF payload
<1>6. Zeros(r.payloadSize - Len(payload)) \in Seq(Held)
    <2>1. r.payloadSize - Len(payload) \in Int BY <1>1, <1>5
    <2> QED BY <2>1, ZeroCells
<1>7. <<HeaderCell(r.payloadSize)>> \o payload \o Zeros(r.payloadSize - Len(payload)) \in Seq(Held)
    BY <1>3, <1>5, <1>6
<1> QED BY <1>7 DEF serialize, payload

LEMMA FirstCells ==
    ASSUME NEW s \in Seq(Held), NEW k \in 0..Len(s)
    PROVE  SubSeq(s, 1, k) \in Seq(Held) /\ Len(SubSeq(s, 1, k)) = k
BY SubSeqProperties

LEMMA ReplacedOrRead ==
    ASSUME Memory, NEW o \in Objects, NEW r \in Packet, r.alive,
           r = object[o] \/ (~object[o].alive /\ r = Fresh),
           NEW p \in Packet, p.alive, p.ext = r.ext, Becomes(o, p),
           \/ p.payloadSize = r.payloadSize /\ p.state = r.state
           \/ p.payloadSize <= 1
           \/ p.state = "torn"
    PROVE  Memory'
<1>1. CASE r = object[o] BY <1>1, KeepsBlock
<1>2. CASE ~object[o].alive /\ r = Fresh
    <2>1. object[o].ext = NULL BY <1>2, HeapsWithout
    <2>2. p.ext = NULL BY <1>2 DEF Fresh
    <2>3. HeapWithout(o, heap') BY <2>1, HeapsWithout DEF Becomes
    <2>4. object' = [object EXCEPT ![o] = p] BY DEF Becomes
    <2> QED BY <2>2, <2>3, <2>4, HasNone
<1> QED BY <1>1, <1>2

LEMMA DeserializeKeeps ==
    ASSUME Memory, NEW o \in Objects, NEW buf \in Seq(Held),
           NEW r \in Packet, r.alive,
           r = object[o] \/ (~object[o].alive /\ r = Fresh),
           DeserializeInto(o, r, buf)
    PROVE  Memory'
<1> DEFINE q == [r EXCEPT !.payloadSize = AsSize(buf[1])]
           read == [q EXCEPT !.state = "sound",
                             !.fuel = IF q.payloadSize >= sizeofTelemetry
                                      THEN AsFuel(buf[2]) ELSE @]
           torn == [q EXCEPT !.state = "torn"]
           cells == SubSeq(buf, 3, 2 + ExtensionSize(q))
           n == AsSize(buf[1])
<1>0. r.ext = object[o].ext BY HeapsWithout DEF Fresh
<1>1. IF Len(buf) < 1 THEN Becomes(o, r)
      ELSE IF Len(buf) < 1 + q.payloadSize THEN Becomes(o, torn)
      ELSE IF q.payloadSize > 1 THEN NewBlock(o, read, Deleted(q.ext), cells)
      ELSE Becomes(o, read)
    BY DEF DeserializeInto, sizeofHeader, TakesExtension, sizeofTelemetry, Becomes
<1>2. CASE Len(buf) < 1 BY <1>1, <1>2, ReplacedOrRead
<1>3. CASE Len(buf) >= 1
    <2>1. n \in Nat /\ n \in 0..UINT_MAX
        <3>1. buf[1] \in Held BY <1>3
        <3> QED BY <3>1, Widths DEF AsSize, Held, Cell
    <2> HIDE DEF n
    <2>2. q \in Packet /\ q.ext = r.ext /\ q.alive /\ q.payloadSize = n
        BY <2>1 DEF Packet, n
    <2> HIDE DEF q
    <2>3. torn \in Packet /\ torn.ext = r.ext /\ torn.alive /\ torn.state = "torn"
        BY <2>2 DEF Packet
    <2>4. CASE Len(buf) < 1 + n
        <3>1. Becomes(o, torn) BY <1>1, <1>3, <2>2, <2>4
        <3> HIDE DEF torn
        <3> QED BY <2>3, <3>1, ReplacedOrRead
    <2>5. CASE Len(buf) >= 1 + n
        <3>1. n >= 1 => AsFuel(buf[2]) \in Nat
            <4>1. n >= 1 => buf[2] \in Held BY <2>1, <2>5
            <4> QED BY <4>1 DEF AsFuel, Held, Cell
        <3>2. read \in Packet /\ read.ext = r.ext /\ read.alive /\ read.payloadSize = n
            BY <2>1, <2>2, <3>1 DEF Packet, sizeofTelemetry
        <3> HIDE DEF read
        <3>3. CASE n <= 1
            <4>1. Becomes(o, read) BY <1>1, <1>3, <2>1, <2>2, <2>5, <3>3
            <4> QED BY <3>2, <3>3, <4>1, ReplacedOrRead
        <3>4. CASE n > 1
            <4>1. NewBlock(o, read, Deleted(q.ext), cells)
                BY <1>1, <1>3, <2>1, <2>2, <2>5, <3>4
            <4>2. ExtensionSize(q) = n - 1 BY <2>2 DEF ExtensionSize, sizeofTelemetry
            <4>3. cells = SubSeq(buf, 3, 1 + n) BY <2>1, <4>2
            <4> HIDE DEF cells
            <4>4. 3 \in 1..Len(buf) + 1 /\ 1 + n \in 2..Len(buf) BY <2>1, <2>5, <3>4
            <4>5. cells \in Seq(Held) /\ Len(cells) = n - 1
                BY <2>1, <4>3, <4>4, SubSeqProperties
            <4>6. Fits(read, Len(cells)) BY <2>1, <3>2, <4>5 DEF Fits
            <4>7. HeapWithout(o, Deleted(q.ext)) BY <1>0, <2>2, HeapsWithout
            <4> QED BY <3>2, <4>1, <4>5, <4>6, <4>7, GetsBlock
        <3> QED BY <2>1, <3>3, <3>4
    <2> QED BY <2>1, <2>4, <2>5
<1> QED BY <1>2, <1>3
-----------------------------------------------------------------------------
(***************************************************************************)
(* The operations.                                                         *)
(***************************************************************************)
LEMMA FreshPacket == Fresh \in Packet /\ Fresh.alive /\ Fresh.ext = NULL
BY Widths DEF Fresh, Packet, sizeofTelemetry

LEMMA NoPacket ==
    [Fresh EXCEPT !.alive = FALSE] \in Packet /\ [Fresh EXCEPT !.alive = FALSE].ext = NULL
BY FreshPacket DEF Packet

LEMMA DuplicateKeeps ==
    ASSUME Memory, NEW o \in Objects, NEW p \in Objects, object[p].alive,
           NEW h, HeapWithout(o, h), Duplicate(o, object[p], h)
    PROVE  Memory'
<1>1. object[p] \in Packet BY DEF Memory, MemoryTypes
<1>2. CASE HasExtension(object[p])
    <2>1. NewBlock(o, object[p], h, Extension(object[p])) BY <1>2 DEF Duplicate
    <2>2. /\ Extension(object[p]) \in Seq(Held)
          /\ Fits(object[p], Len(Extension(object[p])))
        BY <1>1, <1>2, ExtensionCells DEF Fits, Packet
    <2> QED BY <1>1, <2>1, <2>2, GetsBlock
<1>3. CASE ~HasExtension(object[p])
    <2>1. /\ heap' = h
          /\ object' = [object EXCEPT ![o] = [object[p] EXCEPT !.ext = NULL]]
        BY <1>3 DEF Duplicate, Without
    <2>2. [object[p] EXCEPT !.ext = NULL] \in Packet BY <1>1 DEF Packet
    <2>3. [object[p] EXCEPT !.ext = NULL].ext = NULL BY <1>1 DEF Packet
    <2> QED BY <2>1, <2>2, <2>3, HasNone
<1> QED BY <1>2, <1>3

LEMMA ConstructKeeps ==
    ASSUME Memory, NEW o \in Objects, Construct(o)
    PROVE  Memory'
<1>1. HeapWithout(o, heap') BY HeapsWithout DEF Construct
<1> QED BY <1>1, FreshPacket, HasNone DEF Construct

LEMMA DestroyKeeps ==
    ASSUME Memory, NEW o \in Objects, Destroy(o)
    PROVE  Memory'
<1> DEFINE gone == [Fresh EXCEPT !.alive = FALSE]
<1>1. HeapWithout(o, heap') BY HeapsWithout DEF Destroy
<1>2. gone \in Packet /\ gone.ext = NULL BY NoPacket
<1>3. object' = [object EXCEPT ![o] = gone] BY DEF Destroy
<1> QED BY <1>1, <1>2, <1>3, HasNone

LEMMA CopyConstructKeeps ==
    ASSUME Memory, NEW o \in Objects, NEW p \in Objects, CopyConstruct(o, p)
    PROVE  Memory'
<1>1. HeapWithout(o, heap) BY HeapsWithout DEF CopyConstruct
<1> QED BY <1>1, DuplicateKeeps DEF CopyConstruct

LEMMA AssignKeeps ==
    ASSUME Memory, NEW o \in Objects, NEW p \in Objects, Assign(o, p)
    PROVE  Memory'
<1>1. HeapWithout(o, Deleted(object[o].ext)) BY HeapsWithout
<1> QED BY <1>1, DuplicateKeeps DEF Assign

LEMMA SetTelemetryKeeps ==
    ASSUME Memory, NEW o \in Objects, NEW f \in Fuels, SetTelemetry(o, f)
    PROVE  Memory'
<1> DEFINE r == [object[o] EXCEPT !.fuel = f]
<1>1. object \in [Objects -> Packet] /\ f \in Nat
    BY DataPacketAssumption DEF Memory, MemoryTypes
<1>2. /\ r \in Packet /\ r.alive /\ r.ext = object[o].ext
      /\ r.payloadSize = object[o].payloadSize /\ r.state = object[o].state
    BY <1>1 DEF Packet, SetTelemetry
<1>3. Becomes(o, r) /\ object[o].alive BY DEF SetTelemetry, Becomes
<1> HIDE DEF r
<1> QED BY <1>2, <1>3, KeepsBlock

LEMMA SetExtensionDataKeeps ==
    ASSUME Memory, NEW o \in Objects, NEW given \in BOOLEAN, NEW size \in Sizes,
           SetExtensionData(o, given, size)
    PROVE  Memory'
<1> DEFINE n == payloadSizeFor(size)
           r == [object[o] EXCEPT
                   !.payloadSize = n,
                   !.state = IF n = sizeofTelemetry + size THEN "sound" ELSE "cut"]
           h == Deleted(object[o].ext)
           cells == [i \in 1..size |-> Given]
           none == [r EXCEPT !.ext = NULL]
<1>1. /\ object[o].alive
      /\ IF size > 0 /\ given THEN NewBlock(o, r, h, cells) ELSE Without(o, r, h)
    BY DEF SetExtensionData
<1>2. size \in Nat BY DataPacketAssumption
<1>3. n \in Nat /\ n \in 0..UINT_MAX /\ n - 1 <= size BY <1>2, SizeFits, Widths
<1>4. HeapWithout(o, h) BY HeapsWithout
<1> HIDE DEF n, h
<1>5. r \in Packet /\ r.alive /\ r.payloadSize = n
    BY <1>1, <1>3 DEF Memory, MemoryTypes, Packet
<1> HIDE DEF r
<1>6. cells \in Seq(Held) /\ Len(cells) = size
    <2>1. cells \in [1..size -> Held] BY Cells
    <2> QED BY <1>2, <2>1
<1> HIDE DEF cells
<1>7. CASE size > 0 /\ given
    <2>1. NewBlock(o, r, h, cells) BY <1>1, <1>7
    <2>2. Fits(r, Len(cells)) BY <1>2, <1>3, <1>5, <1>6 DEF Fits
    <2> QED BY <1>4, <1>5, <1>6, <2>1, <2>2, GetsBlock
<1>8. CASE ~(size > 0 /\ given)
    <2>1. heap' = h /\ object' = [object EXCEPT ![o] = none] BY <1>1, <1>8 DEF Without
    <2>2. none \in Packet /\ none.ext = NULL BY <1>5 DEF Packet
    <2> HIDE DEF none
    <2> QED BY <1>4, <2>1, <2>2, HasNone
<1> QED BY <1>7, <1>8

\* deserialize of the first k bytes of a packet.
LEMMA DeserializePartKeeps ==
    ASSUME Memory, NEW o \in Objects, NEW p \in Objects,
           NEW k \in 0..Len(serialize(object[p])),
           Deserialize(o, SubSeq(serialize(object[p]), 1, k))
    PROVE  Memory'
<1>1. serialize(object[p]) \in Seq(Held) BY SerializedCells
<1> DEFINE buf == SubSeq(serialize(object[p]), 1, k)
<1>2. buf \in Seq(Held)
    <2> DEFINE s == serialize(object[p])
    <2>1. s \in Seq(Held) /\ k \in 0..Len(s) BY <1>1
    <2> HIDE DEF s
    <2>2. SubSeq(s, 1, k) \in Seq(Held) BY <2>1, FirstCells
    <2> QED BY <2>2 DEF s
<1>3. object[o].alive /\ DeserializeInto(o, object[o], buf) BY DEF Deserialize
<1>4. object[o] \in Packet BY DEF Memory, MemoryTypes
<1> HIDE DEF buf
<1> QED BY <1>2, <1>3, <1>4, DeserializeKeeps

LEMMA UseKeeps ==
    ASSUME MemoryInv, Use
    PROVE  MemoryInv'
<1>1. Memory BY DEF MemoryInv
<1>2. Memory'
    <2>1. ASSUME NEW o \in Objects, Construct(o) PROVE Memory' BY <1>1, <2>1, ConstructKeeps
    <2>2. ASSUME NEW o \in Objects, Destroy(o) PROVE Memory' BY <1>1, <2>2, DestroyKeeps
    <2>3. ASSUME NEW o \in Objects, NEW p \in Objects, CopyConstruct(o, p)
          PROVE  Memory'
        BY <1>1, <2>3, CopyConstructKeeps
    <2>4. ASSUME NEW o \in Objects, NEW p \in Objects, Assign(o, p)
          PROVE  Memory'
        BY <1>1, <2>4, AssignKeeps
    <2>5. ASSUME NEW o \in Objects, NEW f \in Fuels, SetTelemetry(o, f)
          PROVE  Memory'
        BY <1>1, <2>5, SetTelemetryKeeps
    <2>6. ASSUME NEW o \in Objects, NEW given \in BOOLEAN, NEW size \in Sizes,
                 SetExtensionData(o, given, size)
          PROVE  Memory'
        BY <1>1, <2>6, SetExtensionDataKeeps
    <2>7. ASSUME NEW o \in Objects, NEW p \in Objects,
                 NEW k \in 0..Len(serialize(object[p])),
                 Deserialize(o, SubSeq(serialize(object[p]), 1, k))
          PROVE  Memory'
        BY <1>1, <2>7, DeserializePartKeeps
    <2> QED BY <2>1, <2>2, <2>3, <2>4, <2>5, <2>6, <2>7 DEF Use
<1> QED BY <1>2 DEF Use, MemoryInv
-----------------------------------------------------------------------------
(***************************************************************************)
(* The connection.                                                         *)
(***************************************************************************)
\* A length as sendAll and recvAll get it.
LEMMA AsInt ==
    ASSUME NEW n \in Nat
    PROVE  int32(n) \in Int /\ int32(n) <= n
<1>1. UINT_MAX + 1 \in Nat /\ UINT_MAX + 1 > 0 BY DataPacketAssumption DEF UINT_MAX
<1>2. uint32(n) \in Nat /\ uint32(n) <= n BY <1>1, Remainder DEF uint32
<1> QED BY <1>1, <1>2 DEF int32

LEMMA UpTo ==
    ASSUME NEW s \in Seq(Held), NEW m \in Int, m <= Len(s)
    PROVE  /\ SubSeq(s, 1, m) \in Seq(Held)
           /\ Len(SubSeq(s, 1, m)) <= Len(s)
BY SubSeqProperties

LEMMA SendsKeeps ==
    ASSUME MemoryInv, NEW cells \in Seq(Held), NEW contents, NEW holds,
           Sends(cells, contents, holds)
    PROVE  MemoryInv'
BY DEF Sends, MemoryInv, packetVars, Memory, MemoryTypes, OwnedOnce, ExtensionFits,
       HasExtension, ExtensionSize

LEMMA SendDataPacketKeeps ==
    ASSUME MemoryInv, NEW o \in Objects, SendDataPacket(o)
    PROVE  MemoryInv'
<1> DEFINE buf == serialize(object[o])
           cells == SubSeq(buf, 1, int32(Len(buf)))
<1>1. buf \in Seq(Held) BY SerializedCells DEF MemoryInv
<1>2. Sends(cells, Contents(object[o]),
            object[o].state = "sound" /\ Len(buf) <= INT_MAX)
    BY DEF SendDataPacket
<1> HIDE DEF buf
<1>3. cells \in Seq(Held)
    <2>1. Len(buf) \in Nat BY <1>1
    <2>2. int32(Len(buf)) \in Int /\ int32(Len(buf)) <= Len(buf) BY <2>1, AsInt
    <2> QED BY <1>1, <2>2, UpTo
<1> HIDE DEF cells
<1> QED BY <1>2, <1>3, SendsKeeps

LEMMA PeerSendsKeeps ==
    ASSUME MemoryInv, NEW n \in PeerSizes, PeerSends(n)
    PROVE  MemoryInv'
<1> DEFINE rest == [i \in 1..(n - 1) |-> Given]
           cells == <<HeaderCell(n), FuelCell(0)>> \o rest
           contents == [size |-> n, fuel |-> 0, ext |-> rest]
<1>1. n \in Nat /\ n >= 1 BY PacketStreamAssumption, DataPacketAssumption DEF UINT_MAX
<1>2. rest \in Seq(Held)
    <2>1. rest \in [1..(n - 1) -> Held] BY Cells
    <2> QED BY <1>1, <2>1
<1>3. Sends(cells, contents, n <= INT_MAX) BY DEF PeerSends
<1> HIDE DEF rest
<1>4. cells \in Seq(Held)
    <2>1. HeaderCell(n) \in Held /\ FuelCell(0) \in Held
        BY <1>1, Cells, PacketStreamAssumption
    <2>2. <<HeaderCell(n), FuelCell(0)>> \in Seq(Held) BY <2>1
    <2> QED BY <1>2, <2>2
<1> HIDE DEF cells, contents
<1> QED BY <1>3, <1>4, SendsKeeps

LEMMA ReceiveTelemetryKeeps ==
    ASSUME MemoryInv, NEW o \in Objects, ReceiveTelemetry(o)
    PROVE  MemoryInv'
<1>1. stream \in Seq(Held) /\ stream # <<>> /\ Memory
    BY DEF MemoryInv, ReceiveTelemetry
<1>2. /\ Head(stream) \in Held /\ Tail(stream) \in Seq(Held)
      /\ Len(Tail(stream)) = Len(stream) - 1
    BY <1>1, HeadTailProperties
<1>3. PICK n \in IF Head(stream).kind = "header" THEN {Head(stream).num}
                 ELSE 0..UINT_MAX :
          /\ int32(n) <= Len(Tail(stream))
          /\ DeserializeInto(o, Fresh,
                <<HeaderCell(n)>> \o recvPayload(n) \o Zeros(n - Len(recvPayload(n))))
          /\ stream' = SubSeq(stream, 2 + Len(recvPayload(n)), Len(stream))
    BY DEF ReceiveTelemetry
<1>4. n \in Nat /\ n \in 0..UINT_MAX BY <1>2, <1>3, Widths DEF Held, Cell
<1>5. recvPayload(n) \in Seq(Held) /\ Len(recvPayload(n)) <= Len(stream) - 1
    <2>1. int32(n) \in Int BY <1>4, AsInt
    <2> QED BY <1>2, <1>3, <2>1, UpTo DEF recvPayload
<1> DEFINE payload == recvPayload(n)
           buf == <<HeaderCell(n)>> \o payload \o Zeros(n - Len(payload))
<1>6. buf \in Seq(Held)
    <2> HIDE DEF payload
    <2>1. payload \in Seq(Held) BY <1>5 DEF payload
    <2>2. n - Len(payload) \in Int BY <1>4, <2>1
    <2>3. Zeros(n - Len(payload)) \in Seq(Held) BY <2>2, ZeroCells
    <2>4. <<HeaderCell(n)>> \in Seq(Held) BY <1>4, Cells
    <2> QED BY <2>1, <2>3, <2>4
<1>7. Memory'
    <2>1. DeserializeInto(o, Fresh, buf) BY <1>3
    <2>2. ~object[o].alive BY DEF ReceiveTelemetry
    <2> HIDE DEF buf
    <2> QED BY <1>1, <1>6, <2>1, <2>2, FreshPacket, DeserializeKeeps
<1>8. stream' \in Seq(Held)
    <2> HIDE DEF payload
    <2>1. Len(payload) \in Nat /\ Len(stream) \in Nat BY <1>1, <1>5 DEF payload
    <2>2. \A i \in (2 + Len(payload))..Len(stream) : stream[i] \in Held BY <1>1, <2>1
    <2>3. SubSeq(stream, 2 + Len(payload), Len(stream)) \in Seq(Held)
        BY <2>1, <2>2, SubSeqProperties
    <2> QED BY <1>3, <2>3 DEF payload
<1> QED BY <1>7, <1>8 DEF MemoryInv

-----------------------------------------------------------------------------
\* What is freed and whose block is whose, at every step of a program that
\* uses, sends and receives packets: the inductive invariant.
THEOREM MemoryIsSound == Spec => []MemoryInv
<1>1. Init => MemoryInv
    <2> SUFFICES ASSUME Init PROVE MemoryInv
        OBVIOUS
    <2>1. /\ object = [o \in Objects |-> [Fresh EXCEPT !.alive = FALSE]]
          /\ heap = [b \in Blocks |-> Freed] /\ stream = <<>>
        BY DEF Init, PacketInit
    <2>2. [Fresh EXCEPT !.alive = FALSE] \in Packet /\ [Fresh EXCEPT !.alive = FALSE].ext = NULL
        BY NoPacket
    <2>3. MemoryTypes BY <2>1, <2>2 DEF MemoryTypes
    <2>4. OwnedOnce /\ ExtensionFits
        BY <2>1, <2>2 DEF OwnedOnce, ExtensionFits, HasExtension
    <2> QED BY <2>1, <2>3, <2>4 DEF MemoryInv, Memory
<1>2. MemoryInv /\ [Next]_vars => MemoryInv'
    <2> SUFFICES ASSUME MemoryInv, [Next]_vars PROVE MemoryInv'
        OBVIOUS
    <2>1. CASE Use BY <2>1, UseKeeps
    <2>2. ASSUME NEW o \in Objects, SendDataPacket(o) PROVE MemoryInv'
        BY <2>2, SendDataPacketKeeps
    <2>3. ASSUME NEW o \in Objects, ReceiveTelemetry(o) PROVE MemoryInv'
        BY <2>3, ReceiveTelemetryKeeps
    <2>4. ASSUME NEW n \in PeerSizes, PeerSends(n) PROVE MemoryInv'
        BY <2>4, PeerSendsKeeps
    <2>5. CASE UNCHANGED vars
        BY <2>5 DEF vars, packetVars, MemoryInv, Memory, MemoryTypes, OwnedOnce,
                    ExtensionFits, HasExtension, ExtensionSize
    <2> QED BY <2>1, <2>2, <2>3, <2>4, <2>5 DEF Next
<1> QED BY <1>1, <1>2, PTL DEF Spec

\* Every block belongs to exactly one packet that is alive: the copies, the
\* destructor, setExtensionData and deserialize neither leak, nor delete
\* twice, nor share, in whatever order a program calls them.
THEOREM MemoryHasOneOwner == Spec => []OwnedOnce
<1>1. MemoryInv => OwnedOnce BY DEF MemoryInv, Memory
<1> QED BY <1>1, MemoryIsSound, PTL

\* Whoever reads the extension of a packet that no deserialize has refused
\* stays inside its block, sizes beyond an int and those that wrap included.
THEOREM ReadersStayInside == Spec => []ExtensionFits
<1>1. MemoryInv => ExtensionFits BY DEF MemoryInv, Memory
<1> QED BY <1>1, MemoryIsSound, PTL

-----------------------------------------------------------------------------
(***************************************************************************)
(* What is under way.                                                      *)
(*                                                                         *)
(* As long as every size sent fits an int and no torn packet was sent, the *)
(* stream is the packets that are due, one behind the other, each as long  *)
(* as its header says: F[i] is where the i-th of them ends.                *)
(***************************************************************************)
LEMMA HeldCells ==
    /\ Held \subseteq Cell
    /\ \A s \in Seq(Held) : s \in Seq(Cell)
<1>1. Held \subseteq Cell BY DEF Held
<1>2. ASSUME NEW s \in Seq(Held) PROVE s \in Seq(Cell)
    <2>1. /\ s \in [1..Len(s) -> Held] /\ Len(s) \in Nat BY LenProperties
    <2>2. s \in [1..Len(s) -> Cell] BY <1>1, <2>1
    <2> QED BY <2>1, <2>2, SeqDef
<1> QED BY <1>1, <1>2

\* A message whose size an int holds.
Whole(m) ==
    /\ m \in Message /\ m.size <= INT_MAX
    /\ m.size = 0 => m.fuel = 0
    /\ Len(m.ext) = IF m.size = 0 THEN 0 ELSE m.size - 1

LEMMA WholeLength ==
    ASSUME NEW m, Whole(m)
    PROVE  /\ m.size \in Nat /\ m.ext \in Seq(Cell) /\ Len(m.ext) \in Nat
           /\ \A j \in 1..Len(m.ext) : 2 + j <= 1 + m.size
<1>1. m.size \in Nat /\ m.ext \in Seq(Cell) BY DEF Whole, Message
<1>2. Len(m.ext) \in Nat BY <1>1, LenProperties
<1> QED BY <1>1, <1>2 DEF Whole

\* m is spelled by the cells of w behind the first p.
FrameAt(w, p, m) ==
    /\ p + 1 + m.size <= Len(w)
    /\ w[p + 1] = HeaderCell(m.size)
    /\ m.size > 0 => w[p + 2] = FuelCell(m.fuel)
    /\ \A j \in 1..Len(m.ext) : w[p + 2 + j] = m.ext[j]

Framed(w, ms, F) ==
    /\ F \in [0..Len(ms) -> Nat] /\ F[0] = 0 /\ F[Len(ms)] = Len(w)
    /\ \A i, j \in 0..Len(ms) : i <= j => F[i] <= F[j]
    /\ \A i \in 1..Len(ms) :
          /\ Whole(ms[i]) /\ FrameAt(w, F[i - 1], ms[i])
          /\ F[i] = F[i - 1] + 1 + ms[i].size

StreamInv ==
    /\ due \in Seq(Message) /\ beyond \in BOOLEAN
    /\ ~beyond => \E F : Framed(stream, due, F)

\* One packet behind the others.
LEMMA FramedMore ==
    ASSUME NEW w \in Seq(Held), NEW ms \in Seq(Message), NEW F, Framed(w, ms, F),
           NEW cells \in Seq(Held), NEW m, Whole(m), Len(cells) = 1 + m.size,
           FrameAt(cells, 0, m)
    PROVE  \E G : Framed(w \o cells, Append(ms, m), G)
<1> DEFINE v == w \o cells
           ns == Append(ms, m)
           G == [i \in 0..Len(ns) |-> IF i <= Len(ms) THEN F[i] ELSE F[Len(ms)] + 1 + m.size]
<1>1. /\ Len(ms) \in Nat /\ Len(ns) = Len(ms) + 1 /\ ns[Len(ms) + 1] = m
      /\ \A i \in 1..Len(ms) : ns[i] = ms[i]
      /\ m \in Message
    BY AppendProperties, LenProperties DEF Whole
<1>2. /\ Len(w) \in Nat /\ Len(cells) \in Nat /\ Len(v) = Len(w) + Len(cells)
      /\ \A j \in 1..Len(w) : v[j] = w[j]
      /\ \A j \in 1..Len(cells) : v[Len(w) + j] = cells[j]
    BY ConcatProperties, LenProperties, SMTT(30)
<1>3. m.size \in Nat /\ m.ext \in Seq(Cell) /\ Len(m.ext) \in Nat
    BY <1>1, LenProperties DEF Message
<1> HIDE DEF v, ns
<1>4. /\ G \in [0..Len(ns) -> Nat] /\ G[0] = 0 /\ G[Len(ns)] = Len(v)
      /\ \A i \in 0..Len(ms) : G[i] = F[i]
      /\ G[Len(ms) + 1] = Len(w) + 1 + m.size
    BY <1>1, <1>2, <1>3, SMTT(30) DEF Framed
<1> HIDE DEF G
<1>5. ASSUME NEW i \in 1..Len(ms)
      PROVE  /\ Whole(ns[i]) /\ FrameAt(v, G[i - 1], ns[i])
             /\ G[i] = G[i - 1] + 1 + ns[i].size
    <2> DEFINE x == ms[i]
    <2>1. /\ Whole(x) /\ FrameAt(w, F[i - 1], x) /\ F[i] = F[i - 1] + 1 + x.size
          /\ F[i - 1] \in Nat
        BY <1>1, <1>5, SMTT(30) DEF Framed
    <2>2. G[i] = F[i] /\ G[i - 1] = F[i - 1] /\ ns[i] = x
        <3>1. i \in 0..Len(ms) /\ i - 1 \in 0..Len(ms) BY <1>1
        <3> QED BY <1>1, <1>4, <3>1
    <2> HIDE DEF x
    <2>3. x.size \in Nat /\ Len(x.ext) \in Nat /\ \A j \in 1..Len(x.ext) : 2 + j <= 1 + x.size
        BY <2>1, WholeLength
    <2>4. FrameAt(v, F[i - 1], x)
        <3> DEFINE p == F[i - 1]
        <3>1. p \in Nat /\ FrameAt(w, p, x) BY <2>1
        <3> HIDE DEF p
        <3>2. \A j \in 1..(1 + x.size) : v[p + j] = w[p + j]
            BY <1>2, <2>3, <3>1 DEF FrameAt
        <3>3. p + 1 + x.size <= Len(v) BY <1>2, <2>3, <3>1 DEF FrameAt
        <3>4. /\ v[p + 1] = HeaderCell(x.size)
              /\ x.size > 0 => v[p + 2] = FuelCell(x.fuel)
            <4>1. v[p + 1] = w[p + 1] /\ (x.size > 0 => v[p + 2] = w[p + 2])
                BY <2>3, <3>2
            <4> QED BY <3>1, <4>1 DEF FrameAt
        <3>5. ASSUME NEW j \in 1..Len(x.ext) PROVE v[p + 2 + j] = x.ext[j]
            <4>1. 2 + j \in 1..(1 + x.size) /\ p + 2 + j = p + (2 + j) BY <2>3, <3>1
            <4>2. w[p + 2 + j] = x.ext[j] BY <3>1 DEF FrameAt
            <4> QED BY <3>2, <4>1, <4>2
        <3>6. FrameAt(v, p, x) BY <3>3, <3>4, <3>5 DEF FrameAt
        <3> QED BY <3>6 DEF p
    <2> QED BY <2>1, <2>2, <2>4
<1>6. FrameAt(v, Len(w), m)
    <2>1. Len(m.ext) <= m.size /\ (m.size > 0 => Len(m.ext) + 1 = m.size)
          /\ (m.size = 0 => Len(m.ext) = 0)
        BY <1>3 DEF Whole
    <2>2. \A j \in 1..(1 + m.size) : v[Len(w) + j] = cells[j] BY <1>2
    <2>3. v[Len(w) + 1] = HeaderCell(m.size) /\ (m.size > 0 => v[Len(w) + 2] = FuelCell(m.fuel))
        BY <1>3, <2>2 DEF FrameAt
    <2>4. ASSUME NEW j \in 1..Len(m.ext) PROVE v[Len(w) + 2 + j] = m.ext[j]
        <3>1. 2 + j \in 1..(1 + m.size) BY <1>3, <2>1
        <3>2. cells[2 + j] = m.ext[j] BY <1>3 DEF FrameAt
        <3>3. Len(w) + 2 + j = Len(w) + (2 + j) BY <1>2, <1>3
        <3> QED BY <2>2, <3>1, <3>2, <3>3
    <2> QED BY <1>2, <1>3, <2>3, <2>4 DEF FrameAt
<1>7. G[Len(ms)] = Len(w) BY <1>1, <1>4 DEF Framed
<1>8. \A i, j \in 0..Len(ns) : i <= j => G[i] <= G[j]
    <2>1. \A i \in 0..Len(ms) : G[i] \in Nat /\ G[i] <= Len(w)
        <3>1. \A i \in 0..Len(ms) : i <= Len(ms) /\ Len(ms) \in 0..Len(ms) BY <1>1
        <3>2. \A i \in 0..Len(ms) : F[i] \in Nat /\ F[i] <= Len(w) BY <3>1 DEF Framed
        <3> QED BY <1>4, <3>2
    <2>2. \A i, j \in 0..Len(ms) : i <= j => G[i] <= G[j] BY <1>4 DEF Framed
    <2>3. \A i \in 0..Len(ns) : i \in 0..Len(ms) \/ i = Len(ms) + 1 BY <1>1
    <2>4. G[Len(ms) + 1] >= Len(w) /\ G[Len(ms) + 1] \in Nat BY <1>2, <1>3, <1>4
    <2>5. ASSUME NEW i \in 0..Len(ns), NEW j \in 0..Len(ns), i <= j PROVE G[i] <= G[j]
        <3>1. CASE j \in 0..Len(ms)
            <4>1. i \in 0..Len(ms) BY <1>1, <2>5, <3>1
            <4> QED BY <2>2, <2>5, <3>1, <4>1
        <3>2. CASE j = Len(ms) + 1 /\ i \in 0..Len(ms) BY <1>2, <2>1, <2>4, <3>2
        <3>3. CASE j = Len(ms) + 1 /\ i = Len(ms) + 1 BY <2>4, <3>3
        <3> QED BY <2>3, <3>1, <3>2, <3>3
    <2> QED BY <2>5
<1>9. Framed(v, ns, G)
    <2>1. ASSUME NEW i \in 1..Len(ns)
          PROVE  /\ Whole(ns[i]) /\ FrameAt(v, G[i - 1], ns[i])
                 /\ G[i] = G[i - 1] + 1 + ns[i].size
        <3>1. CASE i \in 1..Len(ms) BY <1>5, <3>1
        <3>2. CASE i = Len(ms) + 1
            <4>1. i - 1 = Len(ms) /\ ns[i] = m /\ G[i] = Len(w) + 1 + m.size
                BY <1>1, <1>4, <3>2
            <4> QED BY <1>6, <1>7, <4>1
        <3> QED BY <1>1, <3>1, <3>2
    <2> QED BY <1>4, <1>8, <2>1 DEF Framed
<1> QED BY <1>9 DEF v, ns

\* Without the first packet.
LEMMA FramedLess ==
    ASSUME NEW w \in Seq(Held), NEW ms \in Seq(Message), ms # <<>>, NEW F, Framed(w, ms, F)
    PROVE  \E G : Framed(SubSeq(w, 2 + ms[1].size, Len(w)), Tail(ms), G)
<1> DEFINE n == ms[1].size
           v == SubSeq(w, 2 + n, Len(w))
           ns == Tail(ms)
           G == [i \in 0..Len(ns) |-> F[i + 1] - (1 + n)]
<1>1. /\ Len(ms) \in Nat /\ Len(ms) >= 1 /\ Len(ns) = Len(ms) - 1
      /\ \A i \in 1..Len(ns) : ns[i] = ms[i + 1]
      /\ ms[1].size \in Nat
    <2>1. Len(ms) \in Nat /\ Len(ms) >= 1 BY LenProperties, EmptySeq
    <2>2. ms[1] \in Message BY <2>1, ElementOfSeq
    <2>3. Len(ns) = Len(ms) - 1 /\ \A i \in 1..Len(ns) : ns[i] = ms[i + 1]
        BY HeadTailProperties
    <2> QED BY <2>1, <2>2, <2>3 DEF Message
<1>2. n \in Nat /\ Len(w) \in Nat /\ 1 + n <= Len(w) /\ F[1] = 1 + n
    BY <1>1, LenProperties DEF Framed, FrameAt
<1> HIDE DEF n
<1>3. Len(v) = Len(w) - (1 + n) /\ \A j \in 1..Len(v) : v[j] = w[j + (1 + n)]
    BY <1>2, SubSeqProperties
<1> HIDE DEF v, ns
<1>4. \A i \in 0..Len(ms) : F[i] \in Nat /\ (i >= 1 => F[i] >= 1 + n)
    <2>1. 1 \in 0..Len(ms) BY <1>1
    <2>2. \A i \in 0..Len(ms) : F[i] \in Nat /\ (1 <= i => F[1] <= F[i])
        BY <2>1 DEF Framed
    <2> QED BY <1>2, <2>2
<1>5. /\ G \in [0..Len(ns) -> Nat] /\ G[0] = 0
      /\ \A i \in 0..Len(ns) : G[i] = F[i + 1] - (1 + n)
    BY <1>1, <1>2, <1>4
<1> HIDE DEF G
<1>6. G[Len(ns)] = Len(v) BY <1>1, <1>3, <1>5 DEF Framed
<1>7. \A i, j \in 0..Len(ns) : i <= j => G[i] <= G[j]
    BY <1>1, <1>2, <1>4, <1>5 DEF Framed
<1>8. ASSUME NEW i \in 1..Len(ns)
      PROVE  /\ Whole(ns[i]) /\ FrameAt(v, G[i - 1], ns[i])
             /\ G[i] = G[i - 1] + 1 + ns[i].size
    <2> DEFINE x == ms[i + 1]
               p == F[i]
    <2>1. /\ Whole(x) /\ FrameAt(w, p, x) /\ F[i + 1] = p + 1 + x.size
          /\ p \in Nat /\ p >= 1 + n
        <3>1. i + 1 \in 1..Len(ms) /\ (i + 1) - 1 = i BY <1>1
        <3> QED BY <1>1, <1>4, <3>1 DEF Framed
    <2>2. G[i] = F[i + 1] - (1 + n) /\ G[i - 1] = p - (1 + n) /\ ns[i] = x
        BY <1>1, <1>5
    <2> HIDE DEF x, p
    <2>3. x.size \in Nat /\ Len(x.ext) \in Nat /\ \A j \in 1..Len(x.ext) : 2 + j <= 1 + x.size
        BY <2>1, WholeLength
    <2>4. \A j \in 1..(1 + x.size) : v[(p - (1 + n)) + j] = w[p + j]
        BY <1>2, <1>3, <2>1, <2>3 DEF FrameAt
    <2>5. FrameAt(v, p - (1 + n), x)
        <3>1. (p - (1 + n)) + 1 + x.size <= Len(v) BY <1>2, <1>3, <2>1, <2>3 DEF FrameAt
        <3>2. v[(p - (1 + n)) + 1] = HeaderCell(x.size) BY <2>1, <2>3, <2>4 DEF FrameAt
        <3>3. x.size > 0 => v[(p - (1 + n)) + 2] = FuelCell(x.fuel)
            BY <2>1, <2>3, <2>4 DEF FrameAt
        <3>4. ASSUME NEW j \in 1..Len(x.ext) PROVE v[(p - (1 + n)) + 2 + j] = x.ext[j]
            <4>1. 2 + j \in 1..(1 + x.size) BY <2>3
            <4>2. w[p + (2 + j)] = x.ext[j]
                <5>1. p + (2 + j) = p + 2 + j BY <2>1, <2>3
                <5>2. w[p + 2 + j] = x.ext[j] BY <2>1 DEF FrameAt
                <5> QED BY <5>1, <5>2
            <4>3. v[(p - (1 + n)) + (2 + j)] = x.ext[j] BY <2>4, <4>1, <4>2
            <4> QED BY <1>2, <2>1, <2>3, <4>3
        <3> QED BY <3>1, <3>2, <3>3, <3>4 DEF FrameAt
    <2>6. (p + 1 + x.size) - (1 + n) = (p - (1 + n)) + 1 + x.size
        <3>1. \A a, b, c \in Int : (a + 1 + b) - (1 + c) = (a - (1 + c)) + 1 + b OBVIOUS
        <3>2. p \in Int /\ x.size \in Int /\ n \in Int BY <1>2, <2>1, <2>3
        <3> QED BY ONLY <3>1, <3>2, Zenon
    <2>7. F[i + 1] - (1 + n) = (p - (1 + n)) + 1 + x.size BY <2>1, <2>6
    <2> QED BY <2>1, <2>2, <2>5, <2>7
<1>9. Framed(v, ns, G) BY <1>5, <1>6, <1>7, <1>8 DEF Framed
<1> QED BY <1>9 DEF v, ns, n

-----------------------------------------------------------------------------
(***************************************************************************)
(* What is sent, and what is made of it.                                   *)
(***************************************************************************)
LEMMA SmallRemainder ==
    ASSUME NEW n \in Nat, NEW k \in Nat, n < k PROVE n % k = n
OBVIOUS

\* Sizes an int holds are not changed by the conversions.
LEMMA SmallAsInt ==
    ASSUME NEW n \in Nat, n <= INT_MAX PROVE int32(n) = n
<1> DEFINE k == UINT_MAX + 1
<1>1. k \in Nat /\ n < k BY Widths
<1> HIDE DEF k
<1>2. n % k = n BY <1>1, SmallRemainder
<1>3. uint32(n) = n BY <1>2 DEF uint32, k
<1> QED BY <1>3 DEF int32

LEMMA ZerosAre ==
    ASSUME NEW n \in Nat
    PROVE  /\ Zeros(n) \in Seq(Held) /\ Len(Zeros(n)) = n
           /\ \A i \in 1..n : Zeros(n)[i] = Zero
<1>1. Zeros(n) \in [1..n -> Held] BY Cells DEF Zeros
<1>2. Zeros(n) \in Seq(Held) /\ Len(Zeros(n)) = n BY <1>1
<1> QED BY <1>2 DEF Zeros

LEMMA NoZeros == Zeros(-1) = <<>>
<1>1. 1..(-1) = {} OBVIOUS
<1> QED BY <1>1 DEF Zeros

LEMMA Behind ==
    ASSUME NEW x \in Seq(Held), NEW y \in Seq(Held)
    PROVE  /\ x \o y \in Seq(Held) /\ Len(x \o y) = Len(x) + Len(y)
           /\ \A i \in 1..Len(x) : (x \o y)[i] = x[i]
           /\ \A i \in 1..Len(y) : (x \o y)[Len(x) + i] = y[i]
BY ConcatProperties, LenProperties

LEMMA Beginning ==
    ASSUME NEW s \in Seq(Held), NEW k \in Nat, k <= Len(s)
    PROVE  /\ SubSeq(s, 1, k) \in Seq(Held) /\ Len(SubSeq(s, 1, k)) = k
           /\ \A j \in 1..k : SubSeq(s, 1, k)[j] = s[j]
BY SubSeqProperties

LEMMA AllOf ==
    ASSUME NEW s \in Seq(Held) PROVE SubSeq(s, 1, Len(s)) = s
<1>1. Len(s) \in Nat BY LenProperties
<1> DEFINE t == SubSeq(s, 1, Len(s))
<1>2. /\ t \in Seq(Held) /\ Len(t) = Len(s)
      /\ \A j \in 1..Len(s) : t[j] = s[j]
    BY <1>1, Beginning
<1> HIDE DEF t
<1>3. t = s BY <1>2, SeqEqual
<1> QED BY <1>3 DEF t

\* A cell, cells and cells.
LEMMA Joined ==
    ASSUME NEW a \in Held, NEW s \in Seq(Held), NEW z \in Seq(Held)
    PROVE  /\ <<a>> \o s \o z \in Seq(Held)
           /\ Len(<<a>> \o s \o z) = 1 + Len(s) + Len(z)
           /\ (<<a>> \o s \o z)[1] = a
           /\ \A i \in 1..Len(s) : (<<a>> \o s \o z)[1 + i] = s[i]
           /\ \A i \in 1..Len(z) : (<<a>> \o s \o z)[1 + Len(s) + i] = z[i]
<1> DEFINE x == <<a>>
           y == x \o s
<1>1. x \in Seq(Held) /\ Len(x) = 1 /\ x[1] = a OBVIOUS
<1> HIDE DEF x
<1>2. /\ y \in Seq(Held) /\ Len(y) = 1 + Len(s) /\ y[1] = a
      /\ \A i \in 1..Len(s) : y[1 + i] = s[i]
      /\ Len(s) \in Nat /\ Len(z) \in Nat
    <2>1. 1 \in 1..Len(x) BY <1>1
    <2> QED BY <1>1, <2>1, Behind, LenProperties
<1> HIDE DEF y
<1>3. /\ y \o z \in Seq(Held) /\ Len(y \o z) = 1 + Len(s) + Len(z) /\ (y \o z)[1] = a
      /\ \A i \in 1..Len(s) : (y \o z)[1 + i] = s[i]
      /\ \A i \in 1..Len(z) : (y \o z)[1 + Len(s) + i] = z[i]
    <2> DEFINE v == y \o z
    <2>1. /\ v \in Seq(Held) /\ Len(v) = Len(y) + Len(z)
          /\ \A i \in 1..Len(y) : v[i] = y[i]
          /\ \A i \in 1..Len(z) : v[Len(y) + i] = z[i]
        BY <1>2, Behind
    <2> HIDE DEF v
    <2>2. 1 \in 1..Len(y) /\ \A i \in 1..Len(s) : 1 + i \in 1..Len(y) BY <1>2
    <2> QED BY <1>2, <2>1, <2>2 DEF v
<1> QED BY <1>3 DEF x, y

\* What a packet tells is a message.
LEMMA ContentsTypes ==
    ASSUME Memory, NEW o \in Objects
    PROVE  /\ Contents(object[o]) \in Message
           /\ Contents(object[o]).size = object[o].payloadSize
<1> DEFINE r == object[o]
<1>1. r.payloadSize \in Nat /\ r.fuel \in Nat BY Widths DEF Memory, MemoryTypes, Packet
<1>2. Extension(r) \in Seq(Cell) BY ExtensionCells, HeldCells
<1>3. Zeros(ExtensionSize(r)) \in Seq(Cell)
    <2>1. ExtensionSize(r) \in Int BY <1>1 DEF ExtensionSize, sizeofTelemetry
    <2> QED BY <2>1, ZeroCells, HeldCells
<1> HIDE DEF r
<1>4. Contents(r) \in Message /\ Contents(r).size = r.payloadSize
    BY <1>1, <1>2, <1>3 DEF Contents, Message
<1> QED BY <1>4 DEF r

\* serialize spells what the packet tells.
LEMMA SerializedFrame ==
    ASSUME Memory, NEW o \in Objects
    PROVE  /\ object[o].payloadSize <= INT_MAX => Whole(Contents(object[o]))
           /\ Len(serialize(object[o])) = 1 + object[o].payloadSize
           /\ FrameAt(serialize(object[o]), 0, Contents(object[o]))
<1> DEFINE r == object[o]
           n == object[o].payloadSize
           m == Contents(r)
           e == Extension(r)
           fuel == <<FuelCell(r.fuel)>>
           payload == IF r.payloadSize >= sizeofTelemetry THEN fuel \o e ELSE <<>>
           z == Zeros(n - Len(payload))
           b == serialize(r)
<1>1. n \in 0..UINT_MAX /\ n \in Nat /\ r.fuel \in Nat /\ r.payloadSize = n
    BY Widths DEF Memory, MemoryTypes, Packet
<1>2. m \in Message /\ m.size = n BY ContentsTypes
<1>3. /\ e \in Seq(Held) /\ Len(e) \in Nat
      /\ Len(e) = IF r.ext # NULL /\ n > 1 THEN n - 1 ELSE 0
      /\ ~(r.ext # NULL /\ n > 1) => e = <<>>
    <2>1. HasExtension(r) <=> r.ext # NULL /\ n > 1 BY DEF HasExtension, sizeofTelemetry
    <2>2. ~HasExtension(r) => e = <<>> BY DEF Extension
    <2>3. e \in Seq(Held) /\ (HasExtension(r) => Len(e) = n - 1) BY ExtensionCells
    <2>4. Len(e) \in Nat BY <2>3, LenProperties
    <2> QED BY <2>1, <2>2, <2>3, <2>4
<1>4. m = [size |-> n, fuel |-> IF n >= 1 THEN r.fuel ELSE 0,
           ext |-> IF r.ext = NULL THEN Zeros(n - 1) ELSE e]
    BY DEF Contents, ExtensionSize, sizeofTelemetry
<1>5. HeaderCell(n) \in Held /\ FuelCell(r.fuel) \in Held BY <1>1, Cells
<1>6. payload = IF n >= 1 THEN fuel \o e ELSE <<>> BY DEF sizeofTelemetry
<1>7. b = <<HeaderCell(n)>> \o payload \o z BY DEF serialize
<1>10. fuel \in Seq(Held) /\ Len(fuel) = 1 /\ fuel[1] = FuelCell(r.fuel) BY <1>5
<1>11. z = Zeros(n - Len(payload)) OBVIOUS
<1> HIDE DEF r, n, m, e, b, payload, fuel, z
<1>8. CASE n = 0
    <2>1. payload = <<>> /\ z = Zeros(0)
        <3>1. payload = <<>> BY <1>6, <1>8
        <3>2. Len(payload) = 0 BY <3>1
        <3>3. n - Len(payload) = 0 BY <1>8, <3>2
        <3> QED BY <1>11, <3>1, <3>3
    <2>2. /\ m.fuel = 0 /\ m.size = 0
          /\ m.ext = IF r.ext = NULL THEN Zeros(-1) ELSE e
        BY <1>4, <1>8
    <2>3. m.ext = <<>> BY <1>3, <1>8, <2>2, NoZeros
    <2>4. Whole(m) BY <1>2, <2>2, <2>3, Widths DEF Whole
    <2>5. Len(b) = 1 /\ b[1] = HeaderCell(0)
        <3>1. b = <<HeaderCell(0)>> \o <<>> \o Zeros(0) BY <1>7, <1>8, <2>1
        <3>2. Zeros(0) \in Seq(Held) /\ Len(Zeros(0)) = 0 BY ZerosAre
        <3>3. <<>> \in Seq(Held) /\ Len(<<>>) = 0 OBVIOUS
        <3>4. HeaderCell(0) \in Held BY <1>5, <1>8
        <3> QED BY <3>1, <3>2, <3>3, <3>4, Joined
    <2>6. FrameAt(b, 0, m) BY <2>2, <2>3, <2>5 DEF FrameAt
    <2> QED BY <1>8, <2>4, <2>5, <2>6 DEF r, n, m, b
<1>9. CASE n > 0
    <2>1. payload = fuel \o e BY <1>1, <1>6, <1>9
    <2>2. /\ payload \in Seq(Held) /\ Len(payload) = 1 + Len(e)
          /\ payload[1] = FuelCell(r.fuel)
          /\ \A j \in 1..Len(e) : payload[1 + j] = e[j]
        <3>1. 1 \in 1..Len(fuel) BY <1>10
        <3> DEFINE v == fuel \o e
        <3>2. /\ v \in Seq(Held) /\ Len(v) = Len(fuel) + Len(e)
              /\ \A i \in 1..Len(fuel) : v[i] = fuel[i]
              /\ \A i \in 1..Len(e) : v[Len(fuel) + i] = e[i]
            BY <1>3, <1>10, Behind
        <3>3. payload = v BY <2>1
        <3> HIDE DEF v
        <3> QED BY <1>10, <3>1, <3>2, <3>3
    <2>3. n - Len(payload) = n - 1 - Len(e) /\ n - Len(payload) \in Nat
        BY <1>1, <1>3, <1>9, <2>2
    <2>4. /\ z \in Seq(Held) /\ Len(z) = n - 1 - Len(e)
          /\ \A i \in 1..Len(z) : z[i] = Zero
        BY <1>11, <2>3, ZerosAre
    <2>5. /\ Len(b) = 1 + Len(payload) + Len(z) /\ b[1] = HeaderCell(n)
          /\ \A i \in 1..Len(payload) : b[1 + i] = payload[i]
          /\ \A i \in 1..Len(z) : b[1 + Len(payload) + i] = z[i]
        <3> DEFINE x == HeaderCell(n)
                   v == <<x>> \o payload \o z
        <3>1. x \in Held BY <1>5
        <3> HIDE DEF x
        <3>2. /\ Len(v) = 1 + Len(payload) + Len(z) /\ v[1] = x
              /\ \A i \in 1..Len(payload) : v[1 + i] = payload[i]
              /\ \A i \in 1..Len(z) : v[1 + Len(payload) + i] = z[i]
            <4>1. payload \in Seq(Held) /\ z \in Seq(Held) BY <2>2, <2>4
            <4>2. \A s, t \in Seq(Held) :
                    /\ Len(<<x>> \o s \o t) = 1 + Len(s) + Len(t) /\ (<<x>> \o s \o t)[1] = x
                    /\ \A i \in 1..Len(s) : (<<x>> \o s \o t)[1 + i] = s[i]
                    /\ \A i \in 1..Len(t) : (<<x>> \o s \o t)[1 + Len(s) + i] = t[i]
                BY ONLY <3>1, Joined, ZenonT(30)
            <4> QED BY ONLY <4>1, <4>2, Zenon
        <3> HIDE DEF v
        <3>3. b = v BY <1>7 DEF v, x
        <3> QED BY <3>2, <3>3 DEF x
    <2>6. Len(b) = 1 + n BY <1>1, <1>3, <2>2, <2>4, <2>5
    <2>7. b[2] = FuelCell(r.fuel)
        <3>1. 1 \in 1..Len(payload) BY <1>3, <2>2
        <3>2. b[1 + 1] = payload[1] BY <2>5, <3>1
        <3> QED BY <2>2, <3>2
    <2>8. \A j \in 1..Len(e) : b[2 + j] = e[j]
        <3> SUFFICES ASSUME NEW j \in 1..Len(e) PROVE b[2 + j] = e[j]
            OBVIOUS
        <3>1. 1 + j \in 1..Len(payload) /\ 1 + (1 + j) = 2 + j BY <1>3, <2>2
        <3>2. b[1 + (1 + j)] = payload[1 + j] BY <2>5, <3>1
        <3> QED BY <2>2, <3>1, <3>2
    <2>9. Len(e) = 0 => \A j \in 1..(n - 1) : b[2 + j] = Zero
        <3> SUFFICES ASSUME Len(e) = 0, NEW j \in 1..(n - 1) PROVE b[2 + j] = Zero
            OBVIOUS
        <3>1. j \in 1..Len(z) /\ 1 + Len(payload) + j = 2 + j BY <1>1, <2>2, <2>4
        <3> QED BY <2>4, <2>5, <3>1
    <2>10. /\ Len(m.ext) = n - 1
           /\ \A j \in 1..Len(m.ext) : b[2 + j] = m.ext[j]
        <3>1. CASE r.ext = NULL
            <4>1. m.ext = Zeros(n - 1) /\ Len(e) = 0 BY <1>3, <1>4, <3>1
            <4>2. n - 1 \in Nat BY <1>1, <1>9
            <4> QED BY <2>9, <4>1, <4>2, ZerosAre
        <3>2. CASE r.ext # NULL
            <4>1. m.ext = e BY <1>4, <3>2
            <4>2. Len(e) = n - 1 BY <1>1, <1>3, <1>9, <3>2
            <4> QED BY <2>8, <4>1, <4>2
        <3> QED BY <3>1, <3>2
    <2>11. m.fuel = r.fuel BY <1>1, <1>4, <1>9
    <2>12. n <= INT_MAX => Whole(m) BY <1>2, <1>9, <2>10 DEF Whole
    <2>13. FrameAt(b, 0, m)
        <3>1. 0 + 1 + m.size <= Len(b) BY <1>1, <1>2, <2>6
        <3>2. b[0 + 1] = HeaderCell(m.size) /\ b[0 + 2] = FuelCell(m.fuel)
            BY <1>2, <2>5, <2>7, <2>11
        <3>3. \A j \in 1..Len(m.ext) : b[0 + 2 + j] = m.ext[j] BY <2>10
        <3> QED BY <3>1, <3>2, <3>3 DEF FrameAt
    <2> QED BY <2>6, <2>12, <2>13 DEF r, n, m, b
<1> QED BY <1>1, <1>8, <1>9

\* deserialize makes of it a packet that tells the same.
LEMMA DeserializedFrame ==
    ASSUME Memory, NEW o \in Objects, ~object[o].alive,
           NEW m, Whole(m), NEW buf \in Seq(Held), Len(buf) = 1 + m.size, FrameAt(buf, 0, m),
           DeserializeInto(o, Fresh, buf)
    PROVE  Contents(object[o])' = m
<1> DEFINE n == m.size
           q == [Fresh EXCEPT !.payloadSize = AsSize(buf[1])]
           read == [q EXCEPT !.state = "sound",
                             !.fuel = IF q.payloadSize >= sizeofTelemetry
                                      THEN AsFuel(buf[2]) ELSE @]
           cells == SubSeq(buf, 3, 2 + ExtensionSize(q))
<1>1. n \in Nat /\ m.fuel \in Nat /\ m.ext \in Seq(Cell) /\ Len(m.ext) \in Nat
    BY WholeLength DEF Whole, Message
<1>2. m = [size |-> n, fuel |-> m.fuel, ext |-> m.ext] BY DEF Whole, Message
<1>3. AsSize(buf[1]) = n BY DEF FrameAt, HeaderCell, AsSize
<1>4. n > 0 => AsFuel(buf[2]) = m.fuel BY DEF FrameAt, FuelCell, AsFuel
<1>5. /\ q.payloadSize = n /\ q.ext = NULL
      /\ q = [Fresh EXCEPT !.payloadSize = n]
    BY <1>3 DEF Fresh
<1>6. read = [alive |-> TRUE, payloadSize |-> n, fuel |-> m.fuel, ext |-> NULL,
              state |-> "sound"]
    <2>1. (IF q.payloadSize >= sizeofTelemetry THEN AsFuel(buf[2]) ELSE q.fuel) = m.fuel
        <3>1. n = 0 => m.fuel = 0 BY DEF Whole
        <3>2. q.fuel = 0 BY <1>5 DEF Fresh
        <3> QED BY <1>1, <1>4, <1>5, <3>1, <3>2 DEF sizeofTelemetry
    <2> HIDE DEF q
    <2>2. read = [q EXCEPT !.state = "sound", !.fuel = m.fuel] BY <2>1
    <2>3. q = [alive |-> TRUE, payloadSize |-> n, fuel |-> 0, ext |-> NULL, state |-> "sound"]
        BY <1>5 DEF Fresh
    <2> HIDE DEF read
    <2> QED BY <2>2, <2>3
<1> HIDE DEF q, read
<1>7. IF n > 1 THEN NewBlock(o, read, Deleted(NULL), cells) ELSE Becomes(o, read)
    <2>1. Len(buf) >= 1 /\ ~(Len(buf) < 1 + n) BY <1>1
    <2> QED BY <1>1, <1>5, <2>1
            DEF DeserializeInto, sizeofHeader, TakesExtension, sizeofTelemetry, Becomes, q, read
<1>8. object \in [Objects -> Packet] BY DEF Memory, MemoryTypes
<1>9. CASE n > 1
    <2>1. PICK b \in Blocks : /\ heap' = [Deleted(NULL) EXCEPT ![b] = cells]
                             /\ object' = [object EXCEPT ![o] = [read EXCEPT !.ext = b]]
        BY <1>7, <1>9 DEF NewBlock
    <2>2. /\ object'[o].payloadSize = n /\ object'[o].fuel = m.fuel /\ object'[o].ext = b
          /\ b # NULL
        BY <1>6, <1>8, <2>1, DataPacketAssumption
    <2>3. heap'[b] = cells BY <2>1 DEF Deleted
    <2>4. cells = SubSeq(buf, 3, 1 + n)
        BY <1>1, <1>5 DEF ExtensionSize, sizeofTelemetry
    <2> HIDE DEF cells
    <2>5. Len(cells) = n - 1 /\ \A j \in 1..(n - 1) : cells[j] = buf[2 + j]
        <3>1. 3 \in 1..(Len(buf) + 1) /\ 1 + n \in 2..Len(buf) BY <1>1, <1>9
        <3> QED BY <1>1, <1>9, <2>4, <3>1, SubSeqProperties
    <2>6. Len(m.ext) = n - 1 /\ \A j \in 1..(n - 1) : cells[j] = m.ext[j]
        <3>1. Len(m.ext) = n - 1 BY <1>9 DEF Whole
        <3>2. \A j \in 1..Len(m.ext) : buf[2 + j] = m.ext[j] BY DEF FrameAt
        <3> QED BY <2>5, <3>1, <3>2
    <2>7. Copied(cells, n - 1) = m.ext
        <3>1. Copied(cells, n - 1) = [j \in 1..(n - 1) |-> m.ext[j]]
            BY <1>1, <2>5, <2>6 DEF Copied
        <3>2. m.ext = [j \in 1..(n - 1) |-> m.ext[j]] BY <1>1, <2>6, LenProperties
        <3> QED BY <3>1, <3>2
    <2>8. Extension(object[o])' = m.ext
        BY <1>9, <2>2, <2>3, <2>7 DEF Extension, HasExtension, ExtensionSize, sizeofTelemetry
    <2>9. Contents(object[o])' = [size |-> n, fuel |-> m.fuel, ext |-> m.ext]
        BY <1>1, <1>9, <2>2, <2>8 DEF Contents, sizeofTelemetry
    <2> QED BY <1>2, <2>9
<1>10. CASE ~(n > 1)
    <2>1. object'[o] = read BY <1>7, <1>8, <1>10 DEF Becomes
    <2>2. /\ object'[o].payloadSize = n /\ object'[o].fuel = m.fuel /\ object'[o].ext = NULL
        BY <1>6, <2>1
    <2>3. m.ext = <<>> /\ Zeros(n - 1) = <<>>
        <3>1. Len(m.ext) = 0 BY <1>1, <1>10 DEF Whole
        <3>2. CASE n = 1
            <4>1. Zeros(0) \in Seq(Held) /\ Len(Zeros(0)) = 0 BY ZerosAre
            <4> QED BY <1>1, <3>1, <3>2, <4>1, EmptySeq
        <3>3. CASE n = 0 BY <1>1, <3>1, <3>3, NoZeros, EmptySeq
        <3> QED BY <1>1, <1>10, <3>2, <3>3
    <2>4. n = 0 => m.fuel = 0 BY DEF Whole
    <2> QED BY <1>1, <1>2, <2>2, <2>3, <2>4 DEF Contents, ExtensionSize, sizeofTelemetry
<1> QED BY <1>9, <1>10

-----------------------------------------------------------------------------
(***************************************************************************)
(* The stream stays framed.                                                *)
(***************************************************************************)
\* A packet of the contents m is sent, whole where its size fits.
LEMMA SendsFramed ==
    ASSUME MemoryInv, StreamInv, NEW cells \in Seq(Held), NEW m \in Message, NEW holds \in BOOLEAN,
           Sends(cells, m, holds),
           holds => Whole(m) /\ Len(cells) = 1 + m.size /\ FrameAt(cells, 0, m)
    PROVE  StreamInv'
<1>1. /\ ~beyond /\ stream' = stream \o cells /\ due' = Append(due, m) /\ beyond' = ~holds
      /\ stream \in Seq(Held) /\ due \in Seq(Message)
    BY DEF Sends, MemoryInv, StreamInv
<1>2. due' \in Seq(Message) /\ beyond' \in BOOLEAN BY <1>1, AppendProperties
<1>3. ASSUME holds PROVE \E G : Framed(stream', due', G)
    <2>1. PICK F : Framed(stream, due, F) BY <1>1 DEF StreamInv
    <2>2. Whole(m) /\ Len(cells) = 1 + m.size /\ FrameAt(cells, 0, m) BY <1>3
    <2>3. \E G : Framed(stream \o cells, Append(due, m), G) BY <1>1, <2>1, <2>2, FramedMore
    <2> QED BY <1>1, <2>3
<1> QED BY <1>1, <1>2, <1>3 DEF StreamInv

LEMMA SendDataPacketFramed ==
    ASSUME MemoryInv, StreamInv, NEW o \in Objects, SendDataPacket(o)
    PROVE  StreamInv'
<1> DEFINE buf == serialize(object[o])
           cells == SubSeq(buf, 1, int32(Len(buf)))
           m == Contents(object[o])
           n == object[o].payloadSize
           holds == object[o].state = "sound" /\ Len(buf) <= INT_MAX
<1>1. Memory BY DEF MemoryInv
<1>2. buf \in Seq(Held) /\ Len(buf) \in Nat BY <1>1, SerializedCells, LenProperties
<1>3. /\ n <= INT_MAX => Whole(m)
      /\ Len(buf) = 1 + n /\ FrameAt(buf, 0, m) /\ m \in Message /\ m.size = n /\ n \in Nat
    BY <1>1, SerializedFrame, ContentsTypes, Widths DEF Memory, MemoryTypes, Packet
<1>4. Sends(cells, m, holds) BY DEF SendDataPacket
<1>5. holds \in BOOLEAN /\ (holds => Len(buf) <= INT_MAX) OBVIOUS
<1> HIDE DEF buf, m, n, holds
<1>6. cells \in Seq(Held)
    <2>1. int32(Len(buf)) \in Int /\ int32(Len(buf)) <= Len(buf) BY <1>2, AsInt
    <2> QED BY <1>2, <2>1, UpTo
<1>7. ASSUME holds PROVE Whole(m) /\ Len(cells) = 1 + m.size /\ FrameAt(cells, 0, m)
    <2>1. int32(Len(buf)) = Len(buf) BY <1>2, <1>5, <1>7, SmallAsInt
    <2>2. cells = buf BY <1>2, <2>1, AllOf
    <2>3. n <= INT_MAX BY <1>3, <1>5, <1>7, Widths
    <2> QED BY <1>3, <2>2, <2>3
<1> HIDE DEF cells
<1> QED BY <1>3, <1>4, <1>5, <1>6, <1>7, SendsFramed

LEMMA PeerSendsFramed ==
    ASSUME MemoryInv, StreamInv, NEW n \in PeerSizes, PeerSends(n)
    PROVE  StreamInv'
<1> DEFINE rest == [i \in 1..(n - 1) |-> Given]
           head == <<HeaderCell(n), FuelCell(0)>>
           cells == head \o rest
           m == [size |-> n, fuel |-> 0, ext |-> rest]
<1>1. n \in Nat /\ n >= 1 /\ n \in 0..UINT_MAX BY PacketStreamAssumption, Widths
<1>2. rest \in Seq(Held) /\ Len(rest) = n - 1
    <2>1. rest \in [1..(n - 1) -> Held] BY Cells
    <2> QED BY <1>1, <2>1
<1>3. /\ head \in Seq(Held) /\ Len(head) = 2
      /\ head[1] = HeaderCell(n) /\ head[2] = FuelCell(0)
    <2>1. HeaderCell(n) \in Held /\ FuelCell(0) \in Held BY <1>1, Cells
    <2> QED BY <2>1
<1>4. Sends(cells, m, n <= INT_MAX) BY DEF PeerSends
<1> HIDE DEF rest, head
<1>5. /\ cells \in Seq(Held) /\ Len(cells) = 2 + Len(rest)
      /\ \A j \in 1..2 : cells[j] = head[j]
      /\ \A j \in 1..Len(rest) : cells[2 + j] = rest[j]
    <2> DEFINE v == head \o rest
    <2>1. /\ v \in Seq(Held) /\ Len(v) = Len(head) + Len(rest)
          /\ \A j \in 1..Len(head) : v[j] = head[j]
          /\ \A j \in 1..Len(rest) : v[Len(head) + j] = rest[j]
        BY <1>2, <1>3, Behind
    <2>2. cells = v OBVIOUS
    <2> HIDE DEF v, cells
    <2> QED BY <1>2, <1>3, <2>1, <2>2
<1> HIDE DEF cells
<1>6. m \in Message /\ m.size = n /\ m.fuel = 0 /\ m.ext = rest
    BY <1>1, <1>2, HeldCells DEF Message
<1> HIDE DEF m
<1>7. n <= INT_MAX => Whole(m) BY <1>1, <1>2, <1>6 DEF Whole
<1>8. Len(cells) = 1 + m.size /\ FrameAt(cells, 0, m)
    BY <1>1, <1>2, <1>3, <1>5, <1>6 DEF FrameAt
<1>9. (n <= INT_MAX) \in BOOLEAN OBVIOUS
<1> QED BY <1>4, <1>5, <1>6, <1>7, <1>8, <1>9, SendsFramed

\* What is read of a framed stream is its first packet.
LEMMA FirstFrameRead ==
    ASSUME MemoryInv, StreamInv, NEW o \in Objects, ReceiveTelemetry(o), ~beyond
    PROVE  /\ due # <<>> /\ due' = Tail(due)
           /\ stream' = SubSeq(stream, 2 + due[1].size, Len(stream))
           /\ Contents(object[o])' = due[1]
<1>1. /\ stream \in Seq(Held) /\ stream # <<>> /\ Memory /\ due \in Seq(Message)
      /\ Len(due) \in Nat
    BY LenProperties DEF MemoryInv, StreamInv, ReceiveTelemetry
<1>2. PICK F : Framed(stream, due, F) BY DEF StreamInv
<1>3. due # <<>> /\ Len(due) >= 1
    <2>1. Len(stream) # 0 BY <1>1, EmptySeq
    <2>2. Len(due) # 0 BY <1>2, <2>1 DEF Framed
    <2> QED BY <1>1, <2>2
<1> DEFINE m == due[1]
           size == m.size
<1>4. Whole(m) /\ FrameAt(stream, 0, m)
    <2>1. 1 \in 1..Len(due) /\ 1 - 1 = 0 BY <1>1, <1>3
    <2> QED BY <1>2, <2>1 DEF Framed
<1> HIDE DEF m
<1>5. /\ size \in Nat /\ size <= INT_MAX /\ m.ext \in Seq(Cell) /\ Len(m.ext) \in Nat
      /\ \A j \in 1..Len(m.ext) : 2 + j <= 1 + size
    BY <1>4, WholeLength DEF Whole
<1>6. /\ Len(stream) \in Nat /\ 1 + size <= Len(stream)
      /\ stream[1] = HeaderCell(size)
    BY <1>1, <1>4, <1>5, LenProperties DEF FrameAt
<1>7. /\ Head(stream) = HeaderCell(size) /\ Tail(stream) \in Seq(Held)
      /\ Len(Tail(stream)) = Len(stream) - 1
      /\ \A j \in 1..Len(Tail(stream)) : Tail(stream)[j] = stream[j + 1]
    BY <1>1, <1>6, HeadTailProperties
<1>8. Head(stream).kind = "header" /\ Head(stream).num = size BY <1>7 DEF HeaderCell
<1>9. /\ DeserializeInto(o, Fresh,
              <<HeaderCell(size)>> \o recvPayload(size) \o Zeros(size - Len(recvPayload(size))))
      /\ stream' = SubSeq(stream, 2 + Len(recvPayload(size)), Len(stream))
      /\ ~object[o].alive
      /\ due' = Tail(due)
    BY <1>3, <1>8 DEF ReceiveTelemetry
<1> DEFINE payload == recvPayload(size)
           z == Zeros(size - Len(payload))
<1> HIDE DEF size
<1>10. /\ payload \in Seq(Held) /\ Len(payload) = size
       /\ \A j \in 1..size : payload[j] = stream[j + 1]
    <2>1. payload = SubSeq(Tail(stream), 1, size) BY <1>5, SmallAsInt DEF recvPayload
    <2> DEFINE t == Tail(stream)
    <2>2. /\ t \in Seq(Held) /\ size <= Len(t) /\ Len(t) \in Nat
          /\ \A j \in 1..size : t[j] = stream[j + 1]
        BY <1>5, <1>6, <1>7
    <2>3. payload = SubSeq(t, 1, size) BY <2>1
    <2> HIDE DEF t, payload
    <2>4. /\ SubSeq(t, 1, size) \in Seq(Held) /\ Len(SubSeq(t, 1, size)) = size
          /\ \A j \in 1..size : SubSeq(t, 1, size)[j] = t[j]
        BY <1>5, <2>2, Beginning
    <2> QED BY <2>2, <2>3, <2>4
<1>11. stream' = SubSeq(stream, 2 + size, Len(stream)) BY <1>9, <1>10
<1> DEFINE buf == <<HeaderCell(size)>> \o payload \o z
<1>12. DeserializeInto(o, Fresh, buf) BY <1>9
<1> HIDE DEF payload
<1>13. z \in Seq(Held) /\ Len(z) = 0
    <2>1. size - Len(payload) = 0 BY <1>5, <1>10
    <2>2. z = Zeros(0) BY <2>1
    <2> QED BY <2>2, ZerosAre
<1> HIDE DEF z
<1>14. /\ buf \in Seq(Held) /\ Len(buf) = 1 + size /\ buf[1] = HeaderCell(size)
       /\ \A i \in 1..size : buf[1 + i] = payload[i]
    <2> DEFINE x == HeaderCell(size)
               v == <<x>> \o payload \o z
    <2>1. x \in Held BY <1>5, Cells, Widths
    <2> HIDE DEF x
    <2>2. \A s, t \in Seq(Held) :
             /\ <<x>> \o s \o t \in Seq(Held)
             /\ Len(<<x>> \o s \o t) = 1 + Len(s) + Len(t) /\ (<<x>> \o s \o t)[1] = x
             /\ \A i \in 1..Len(s) : (<<x>> \o s \o t)[1 + i] = s[i]
        BY ONLY <2>1, Joined, ZenonT(30)
    <2>3. /\ v \in Seq(Held) /\ Len(v) = 1 + Len(payload) + Len(z) /\ v[1] = x
          /\ \A i \in 1..Len(payload) : v[1 + i] = payload[i]
        BY ONLY <1>10, <1>13, <2>2, Zenon
    <2> HIDE DEF v
    <2>4. buf = v BY DEF v, x
    <2> HIDE DEF buf
    <2> QED BY <1>5, <1>10, <1>13, <2>3, <2>4 DEF x
<1> HIDE DEF buf
<1>15. FrameAt(buf, 0, m)
    <2>1. \A j \in 1..(1 + size) : buf[j] = stream[j]
        <3> SUFFICES ASSUME NEW j \in 1..(1 + size) PROVE buf[j] = stream[j]
            OBVIOUS
        <3>1. CASE j = 1 BY <1>6, <1>14, <3>1
        <3>2. CASE j > 1
            <4>1. j - 1 \in 1..size /\ 1 + (j - 1) = j /\ (j - 1) + 1 = j BY <1>5, <3>2
            <4>2. buf[1 + (j - 1)] = payload[j - 1] /\ payload[j - 1] = stream[(j - 1) + 1]
                BY <1>10, <1>14, <4>1
            <4> QED BY <4>1, <4>2
        <3> QED BY <1>5, <3>1, <3>2
    <2>2. m.size = size BY DEF size
    <2>3. size > 0 => buf[2] = FuelCell(m.fuel)
        <3>1. size > 0 => stream[0 + 2] = FuelCell(m.fuel) BY <1>4, <2>2 DEF FrameAt
        <3> QED BY <1>5, <2>1, <3>1
    <2>4. ASSUME NEW j \in 1..Len(m.ext) PROVE buf[0 + 2 + j] = m.ext[j]
        <3>1. 0 + 2 + j \in 1..(1 + size) BY <1>5
        <3>2. stream[0 + 2 + j] = m.ext[j] BY <1>4 DEF FrameAt
        <3> QED BY <2>1, <3>1, <3>2
    <2> QED BY <1>5, <1>14, <2>2, <2>3, <2>4 DEF FrameAt
<1>16. Contents(object[o])' = m
    <2>1. Len(buf) = 1 + m.size BY <1>14 DEF size
    <2> QED BY <1>1, <1>4, <1>9, <1>12, <1>14, <1>15, <2>1, DeserializedFrame
<1> QED BY <1>3, <1>9, <1>11, <1>16 DEF m, size

LEMMA ReceiveTelemetryFramed ==
    ASSUME MemoryInv, StreamInv, NEW o \in Objects, ReceiveTelemetry(o)
    PROVE  StreamInv'
<1>1. /\ stream \in Seq(Held) /\ due \in Seq(Message) /\ beyond \in BOOLEAN
      /\ beyond' = beyond /\ due' = IF due = <<>> THEN due ELSE Tail(due)
    BY DEF MemoryInv, StreamInv, ReceiveTelemetry
<1>2. due' \in Seq(Message) BY <1>1, HeadTailProperties
<1>3. ASSUME ~beyond PROVE \E G : Framed(stream', due', G)
    <2>1. PICK F : Framed(stream, due, F) BY <1>3 DEF StreamInv
    <2>2. /\ due # <<>> /\ due' = Tail(due)
          /\ stream' = SubSeq(stream, 2 + due[1].size, Len(stream))
        BY <1>3, FirstFrameRead
    <2>3. \E G : Framed(SubSeq(stream, 2 + due[1].size, Len(stream)), Tail(due), G)
        BY <1>1, <2>1, <2>2, FramedLess
    <2> QED BY <2>2, <2>3
<1> QED BY <1>1, <1>2, <1>3 DEF StreamInv

\* As long as what is sent fits the widths of the code, the stream is the
\* packets that are due.
LEMMA StreamIsFramed == Spec => []StreamInv
<1>1. Init => StreamInv
    <2> SUFFICES ASSUME Init PROVE StreamInv
        OBVIOUS
    <2>1. stream = <<>> /\ due = <<>> /\ beyond = FALSE BY DEF Init
    <2> DEFINE F == [i \in {0} |-> 0]
    <2>2. Len(<<>>) = 0 /\ 0..0 = {0} /\ 1..0 = {} OBVIOUS
    <2>3. F \in [{0} -> Nat] /\ F[0] = 0 OBVIOUS
    <2> HIDE DEF F
    <2>4. Framed(<<>>, <<>>, F) BY <2>2, <2>3 DEF Framed
    <2>5. \E G : Framed(stream, due, G) BY <2>1, <2>4
    <2>6. <<>> \in Seq(Message) OBVIOUS
    <2> QED BY <2>1, <2>5, <2>6 DEF StreamInv
<1>2. MemoryInv /\ StreamInv /\ [Next]_vars => StreamInv'
    <2> SUFFICES ASSUME MemoryInv, StreamInv, [Next]_vars PROVE StreamInv'
        OBVIOUS
    <2>1. CASE UNCHANGED <<stream, due, beyond>> BY <2>1 DEF StreamInv
    <2>2. ASSUME NEW o \in Objects, SendDataPacket(o) PROVE StreamInv'
        BY <2>2, SendDataPacketFramed
    <2>3. ASSUME NEW o \in Objects, ReceiveTelemetry(o) PROVE StreamInv'
        BY <2>3, ReceiveTelemetryFramed
    <2>4. ASSUME NEW n \in PeerSizes, PeerSends(n) PROVE StreamInv'
        BY <2>4, PeerSendsFramed
    <2> QED BY <2>1, <2>2, <2>3, <2>4 DEF Next, Use, vars
<1> QED BY <1>1, <1>2, MemoryIsSound, PTL DEF Spec

\* What handleClient makes of the next bytes is the oldest packet still due:
\* size, fuel level and extension, for any size an int holds, whether it was
\* sent by sendDataPacket or by another program, and however the packets it
\* was made of were used before (REQ-PKT-020, REQ-PKT-030).
THEOREM PacketsAreDelivered == Spec => Delivered
<1> DEFINE Right == \A o \in Objects :
              ReceiveTelemetry(o) /\ ~beyond
                => due # <<>> /\ Contents(object[o])' = Head(due)
<1>1. MemoryInv /\ StreamInv /\ [Next]_vars => [Right]_vars
    <2> SUFFICES ASSUME MemoryInv, StreamInv, NEW o \in Objects, ReceiveTelemetry(o), ~beyond
                 PROVE  due # <<>> /\ Contents(object[o])' = Head(due)
        OBVIOUS
    <2>1. due # <<>> /\ Contents(object[o])' = due[1] BY FirstFrameRead
    <2>2. Head(due) = due[1] OBVIOUS
    <2> QED BY <2>1, <2>2
<1>2. Delivered <=> [][Right]_vars BY DEF Delivered
<1> HIDE DEF Right
<1> QED BY <1>1, <1>2, MemoryIsSound, StreamIsFramed, PTL DEF Spec

\* The receiver never loses its place: the stream is empty exactly when every
\* packet has been received, until a size is sent that an int cannot hold.
THEOREM StreamStaysInStep == Spec => []InStep
<1>1. MemoryInv /\ StreamInv => InStep
    <2> SUFFICES ASSUME MemoryInv, StreamInv, ~beyond PROVE stream = <<>> <=> due = <<>>
        BY DEF InStep
    <2>1. PICK F : Framed(stream, due, F) BY DEF StreamInv
    <2>2. /\ stream \in Seq(Held) /\ due \in Seq(Message)
          /\ Len(stream) \in Nat /\ Len(due) \in Nat
        BY LenProperties DEF MemoryInv, StreamInv
    <2>3. due = <<>> => Len(stream) = 0 BY <2>1 DEF Framed
    <2>4. ASSUME due # <<>> PROVE Len(stream) # 0
        <3>1. Len(due) # 0 BY <2>2, <2>4, EmptySeq
        <3>2. 1 \in 1..Len(due) /\ 1 - 1 = 0 BY <2>2, <3>1
        <3>3. Whole(due[1]) /\ FrameAt(stream, 0, due[1]) BY <2>1, <3>2 DEF Framed
        <3>4. due[1].size \in Nat BY <3>3, WholeLength
        <3> QED BY <2>2, <3>3, <3>4 DEF FrameAt
    <2> QED BY <2>2, <2>3, <2>4, EmptySeq
<1> QED BY <1>1, MemoryIsSound, StreamIsFramed, PTL

\* Types of the packets, their memory and the stream: payloadSize stays
\* within its width, whatever a buffer that is read claims.
THEOREM PacketTypesCorrect == Spec => []TypeOK
<1>1. MemoryInv /\ StreamInv => TypeOK
    BY HeldCells DEF MemoryInv, Memory, MemoryTypes, StreamInv, TypeOK, PacketTypeOK
<1> QED BY <1>1, MemoryIsSound, StreamIsFramed, PTL
=============================================================================
