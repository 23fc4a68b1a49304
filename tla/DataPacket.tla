----------------------------- MODULE DataPacket -----------------------------
(***************************************************************************)
(* The objects of class DataPacket and the memory they own                 *)
(* (Shared/DataPacket.h): constructor, copy constructor, assignment,       *)
(* destructor, setExtensionData, serialize, deserialize, in any order a    *)
(* program may call them.                                                  *)
(*                                                                         *)
(* Memory is counted in cells: a PacketHeader is one, TelemetryData is     *)
(* one, and extension data is one per unit of its size.  payloadSize is    *)
(* unsigned, and as wide as an int, whose largest value is INT_MAX.  Of    *)
(* the header only payloadSize is kept, the rest is copied along with it;  *)
(* of the telemetry, the fuel level.                                       *)
(***************************************************************************)
EXTENDS Integers, Sequences

CONSTANTS Objects,   \* where DataPackets can live
          Blocks,    \* addresses new char[n] may return
          NULL,
          INT_MAX,
          Sizes,     \* sizes passed to setExtensionData
          Fuels      \* fuel levels a program assigns

ASSUME DataPacketAssumption ==
    /\ NULL \notin Blocks
    /\ INT_MAX \in Nat
    /\ Sizes \subseteq Nat /\ Fuels \subseteq Nat

VARIABLES object,   \* of each place, its DataPacket:
                    \*   alive        constructed and not destroyed
                    \*   payloadSize  header.payloadSize
                    \*   fuel         telemetry.fuelLevel
                    \*   ext          extensionData
                    \*   state        torn: a deserialize that refused has
                    \*                overwritten its header; cut: payloadSize
                    \*                could not hold the size; or sound: a
                    \*                history, which the copies inherit
          heap      \* of each address, its cells, or Freed

packetVars == <<object, heap>>

sizeofHeader    == 1
sizeofTelemetry == 1

UINT_MAX == 2 * INT_MAX + 1

\* The conversions to uint32_t and to int.
uint32(n) == n % (UINT_MAX + 1)
int32(n)  == IF uint32(n) <= INT_MAX THEN uint32(n) ELSE uint32(n) - (UINT_MAX + 1)

\* What a cell holds: a header announcing n, a fuel level, a byte that was
\* given, the zero of a fresh buffer, or what lies behind the end of a block.
HeaderCell(n)  == [kind |-> "header",  num |-> n]
FuelCell(f)    == [kind |-> "fuel",    num |-> f]
Given          == [kind |-> "given",   num |-> 0]
Zero           == [kind |-> "zero",    num |-> 0]
Junk           == [kind |-> "outside", num |-> 0]
Cell == [kind : {"header", "fuel", "given", "zero", "outside"}, num : Nat]

\* In place of the cells of an address that is not allocated.
Freed == <<[kind |-> "freed", num |-> 0]>>

Packet == [alive : BOOLEAN, payloadSize : 0..UINT_MAX, fuel : Nat,
           ext : Blocks \cup {NULL}, state : {"sound", "torn", "cut"}]

PacketTypeOK ==
    /\ object \in [Objects -> Packet]
    /\ DOMAIN heap = Blocks
    /\ \A b \in Blocks : heap[b] \in Seq(Cell) \/ heap[b] = Freed

\* DataPacket::DataPacket.
Fresh == [alive |-> TRUE, payloadSize |-> sizeofTelemetry, fuel |-> 0,
          ext |-> NULL, state |-> "sound"]

PacketInit ==
    /\ object = [o \in Objects |-> [Fresh EXCEPT !.alive = FALSE]]
    /\ heap = [b \in Blocks |-> Freed]

-----------------------------------------------------------------------------
(***************************************************************************)
(* Memory.                                                                 *)
(***************************************************************************)
\* memcpy of n cells from the start of a block.
Copied(block, n) == [i \in 1..n |-> IF i <= Len(block) THEN block[i] ELSE Junk]

Zeros(n) == [i \in 1..n |-> Zero]

\* delete[] of a pointer, which may be null.
Deleted(p) == [b \in Blocks |-> IF b = p THEN Freed ELSE heap[b]]

\* new char[n] in a heap h, filled at once with the cells; the object at o
\* becomes r, pointing there.
NewBlock(o, r, h, cells) ==
    \E b \in Blocks :
        /\ h[b] = Freed
        /\ heap' = [h EXCEPT ![b] = cells]
        /\ object' = [object EXCEPT ![o] = [r EXCEPT !.ext = b]]

Without(o, r, h) ==
    heap' = h /\ object' = [object EXCEPT ![o] = [r EXCEPT !.ext = NULL]]

ExtensionSize(r) == r.payloadSize - sizeofTelemetry

\* The test every reader of the extension makes.
HasExtension(r) == r.ext # NULL /\ r.payloadSize > sizeofTelemetry

\* The extension its readers see: serialize, the copies and logPacket.
Extension(r) ==
    IF HasExtension(r) THEN Copied(heap[r.ext], ExtensionSize(r)) ELSE <<>>

-----------------------------------------------------------------------------
Construct(o) ==
    /\ ~object[o].alive
    /\ object' = [object EXCEPT ![o] = Fresh]
    /\ UNCHANGED heap

Destroy(o) ==
    /\ object[o].alive
    /\ heap' = Deleted(object[o].ext)
    /\ object' = [object EXCEPT ![o] = [Fresh EXCEPT !.alive = FALSE]]

\* The object at o becomes a copy of q, in a heap h.
Duplicate(o, q, h) ==
    IF HasExtension(q) THEN NewBlock(o, q, h, Extension(q)) ELSE Without(o, q, h)

CopyConstruct(o, p) ==
    /\ ~object[o].alive /\ object[p].alive
    /\ Duplicate(o, object[p], heap)

\* Faulty: the assignment the compiler would write.
AssignMemberwise(o, p) ==
    /\ object[o].alive /\ object[p].alive
    /\ object' = [object EXCEPT ![o] = object[p]]
    /\ UNCHANGED heap

Assign(o, p) ==
    /\ object[o].alive /\ object[p].alive
    /\ o # p
    /\ Duplicate(o, object[p], Deleted(object[o].ext))

\* header and telemetry are public: the client assigns the readings.
SetTelemetry(o, f) ==
    /\ object[o].alive
    /\ object' = [object EXCEPT ![o].fuel = f]
    /\ UNCHANGED heap

\* Faulty: the sum is not cut to the width of payloadSize.
payloadSizeUncut(size) == sizeofTelemetry + size

payloadSizeFor(size) == uint32(sizeofTelemetry + uint32(size))

\* setExtensionData(data, size): payloadSize is set whether or not there was
\* anything to copy.
SetExtensionData(o, given, size) ==
    LET n == payloadSizeFor(size)
        r == [object[o] EXCEPT
                !.payloadSize = n,
                !.state = IF n = sizeofTelemetry + size THEN "sound" ELSE "cut"]
        h == Deleted(object[o].ext)
    IN /\ object[o].alive
       /\ IF size > 0 /\ given THEN NewBlock(o, r, h, [i \in 1..size |-> Given])
          ELSE Without(o, r, h)

-----------------------------------------------------------------------------
\* Faulty: > for >= in the test for the telemetry.
serializeShort(r) ==
    LET payload == IF r.payloadSize > sizeofTelemetry
                   THEN <<FuelCell(r.fuel)>> \o Extension(r) ELSE <<>>
    IN <<HeaderCell(r.payloadSize)>> \o payload \o Zeros(r.payloadSize - Len(payload))

\* A vector of zeros as long as the packet, and what is copied over it.
serialize(r) ==
    LET payload == IF r.payloadSize >= sizeofTelemetry
                   THEN <<FuelCell(r.fuel)>> \o Extension(r) ELSE <<>>
    IN <<HeaderCell(r.payloadSize)>> \o payload \o Zeros(r.payloadSize - Len(payload))

\* What the bytes of a buffer read as when they are copied into a struct.
AsSize(cell) == IF cell.kind = "header" THEN cell.num ELSE 0
AsFuel(cell) == IF cell.kind = "fuel" THEN cell.num ELSE 0

\* Faulty: the block that is there is kept.
TakesExtensionOnce(r) == r.payloadSize > sizeofTelemetry /\ r.ext = NULL

TakesExtension(r) == r.payloadSize > sizeofTelemetry

\* deserialize into a packet r, to live at o: the header is overwritten
\* before the length of the buffer is checked against it; a payload too short
\* for TelemetryData leaves the telemetry, and one without extension the
\* block, as they were.
DeserializeInto(o, r, buf) ==
    LET q == [r EXCEPT !.payloadSize = AsSize(buf[1])]
        read == [q EXCEPT !.state = "sound",
                          !.fuel = IF q.payloadSize >= sizeofTelemetry
                                   THEN AsFuel(buf[2]) ELSE @]
        Become(p) == object' = [object EXCEPT ![o] = p] /\ UNCHANGED heap
    IN IF Len(buf) < sizeofHeader THEN Become(r)
       ELSE IF Len(buf) < sizeofHeader + q.payloadSize
            THEN Become([q EXCEPT !.state = "torn"])
       ELSE IF TakesExtension(q)
            THEN NewBlock(o, read, Deleted(q.ext), SubSeq(buf, 3, 2 + ExtensionSize(q)))
       ELSE Become(read)

Deserialize(o, buf) == object[o].alive /\ DeserializeInto(o, object[o], buf)

-----------------------------------------------------------------------------
\* Every block belongs to one packet and every packet that is alive has its
\* own: whatever is copied, assigned, read again or destroyed, in any order,
\* nothing leaks, no block is deleted twice and no two packets share one.
OwnedOnce ==
    /\ \A o \in Objects : object[o].ext # NULL =>
           object[o].alive /\ heap[object[o].ext] # Freed
    /\ \A o, p \in Objects :
           o # p /\ object[o].ext # NULL => object[o].ext # object[p].ext
    /\ DOMAIN heap = Blocks
    /\ \A b \in Blocks : heap[b] # Freed => \E o \in Objects : object[o].ext = b

\* Whoever reads an extension (serialize, the copies, logPacket) stays inside
\* its block, although payloadSize and the block are set at different places
\* and a packet may be used again for other data: only a packet whose
\* deserialize was refused, which handleClient throws away, is beyond that.
ExtensionFits ==
    \A o \in Objects :
        HasExtension(object[o]) /\ object[o].state # "torn"
            => Len(heap[object[o].ext]) >= ExtensionSize(object[o])
=============================================================================
