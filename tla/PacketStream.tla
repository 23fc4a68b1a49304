---------------------------- MODULE PacketStream ----------------------------
(***************************************************************************)
(* Packets on their way from sendDataPacket (Client/Client.cpp) to         *)
(* handleClient (Server/Server.cpp) over a connection that does not fail,  *)
(* with the sizes as wide as they are in the code: payloadSize is          *)
(* unsigned, the lengths of sendAll and recvAll are int, and either loop   *)
(* ends at once, with success, when its length is not positive.            *)
(***************************************************************************)
EXTENDS DataPacket

CONSTANTS PeerSizes,   \* payload sizes other clients announce
          MaxDue       \* bound: packets under way

ASSUME PacketStreamAssumption ==
    PeerSizes \subseteq 1..UINT_MAX /\ MaxDue \in Nat

VARIABLES stream,   \* the cells under way
          due,      \* what was sent and has not been received, a history
          beyond    \* a size has been sent that an int or payloadSize
                    \* cannot hold, or a packet that is torn: a history

vars == <<packetVars, stream, due, beyond>>

\* What a packet tells whoever receives it: one whose payload has no room for
\* the telemetry does not tell its fuel level.
Contents(r) ==
    [size |-> r.payloadSize,
     fuel |-> IF r.payloadSize >= sizeofTelemetry THEN r.fuel ELSE 0,
     ext |-> IF r.ext = NULL THEN Zeros(ExtensionSize(r)) ELSE Extension(r)]

Message == [size : Nat, fuel : Nat, ext : Seq(Cell)]

TypeOK ==
    /\ PacketTypeOK
    /\ stream \in Seq(Cell)
    /\ due \in Seq(Message)
    /\ beyond \in BOOLEAN

Init == PacketInit /\ stream = <<>> /\ due = <<>> /\ beyond = FALSE

\* What a program does with packets of its own.
Use ==
    /\ \E o \in Objects :
         \/ Construct(o) \/ Destroy(o)
         \/ \E p \in Objects : CopyConstruct(o, p) \/ Assign(o, p)
         \/ \E f \in Fuels : SetTelemetry(o, f)
         \/ \E given \in BOOLEAN, size \in Sizes : SetExtensionData(o, given, size)
         \/ \E p \in Objects :
              /\ object[p].alive
              /\ LET buf == serialize(object[p]) IN
                   \E k \in 0..Len(buf) : Deserialize(o, SubSeq(buf, 1, k))
    /\ UNCHANGED <<stream, due, beyond>>

\* A packet of the given contents is sent as the cells (bound: none after a
\* size that does not fit, the stream has lost its framing by then).
Sends(cells, contents, holds) ==
    /\ Len(due) < MaxDue /\ ~beyond
    /\ stream' = stream \o cells
    /\ due' = Append(due, contents)
    /\ beyond' = ~holds
    /\ UNCHANGED packetVars

\* Client::sendDataPacket.
SendDataPacket(o) ==
    LET buf == serialize(object[o]) IN
      /\ object[o].alive
      /\ Sends(SubSeq(buf, 1, int32(Len(buf))), Contents(object[o]),
               object[o].state = "sound" /\ Len(buf) <= INT_MAX)

\* A client that is not ours sends a reading with n cells of payload.
PeerSends(n) ==
    LET rest == [i \in 1..(n - 1) |-> Given] IN
      Sends(<<HeaderCell(n), FuelCell(0)>> \o rest,
            [size |-> n, fuel |-> 0, ext |-> rest], n <= INT_MAX)

\* Faulty: payloadSize counts the header, too.
recvPayloadLess(n) == SubSeq(Tail(stream), 1, int32(n) - sizeofHeader)

\* What recvAll reads when a payload of n cells is announced.
recvPayload(n) == SubSeq(Tail(stream), 1, int32(n))

\* handleClient reads a header, then its payload into a buffer of zeros, and
\* deserializes that into a packet of its own (bound: beyond, only as often
\* as packets were sent).
ReceiveTelemetry(o) ==
    /\ ~object[o].alive
    /\ stream # <<>> /\ (beyond => due # <<>>)
    /\ \E n \in IF Head(stream).kind = "header" THEN {Head(stream).num}
                ELSE 0..UINT_MAX :
         LET payload == recvPayload(n) IN
           /\ int32(n) <= Len(Tail(stream))
           /\ DeserializeInto(o, Fresh,
                <<HeaderCell(n)>> \o payload \o Zeros(n - Len(payload)))
           /\ stream' = SubSeq(stream, 2 + Len(payload), Len(stream))
    /\ due' = IF due = <<>> THEN due ELSE Tail(due)
    /\ UNCHANGED beyond

Next ==
    \/ Use
    \/ \E o \in Objects : SendDataPacket(o) \/ ReceiveTelemetry(o)
    \/ \E n \in PeerSizes : PeerSends(n)

Spec == Init /\ [][Next]_vars

-----------------------------------------------------------------------------
\* What arrives is what was sent (REQ-PKT-020, REQ-PKT-030): the packet
\* handleClient makes of the next bytes of the stream has the size, the fuel
\* level and the extension of the oldest packet still due, whatever its size
\* up to the largest an int can hold, with or without extension.
Delivered ==
    [][\A o \in Objects :
         ReceiveTelemetry(o) /\ ~beyond
           => due # <<>> /\ Contents(object[o])' = Head(due)]_vars

\* The stream stays in step: as long as every size sent fits an int, nothing
\* is left on the stream once all packets have been received, and there is
\* something on it as long as one has not.
InStep == ~beyond => (stream = <<>> <=> due = <<>>)
=============================================================================
