------------------------------ MODULE Packets ------------------------------
(***************************************************************************)
(* What travels on a connection (Shared/DataPacket.h).  A connection       *)
(* carries bytes; the unit here is a cell, the smallest run of bytes the   *)
(* program reads or writes for one purpose: a whole PacketHeader, the      *)
(* TelemetryData struct, or one other piece of a payload.  payloadSize     *)
(* counts the cells of the payload, so a payload still spans several       *)
(* calls of send and recv, and a header read where a payload is due reads  *)
(* the wrong bytes.                                                        *)
(*                                                                         *)
(* Every cell has the same three fields:                                   *)
(*   header      text is packetType, num is payloadSize                    *)
(*   telemetry   num is fuelLevel                                          *)
(*   bytes       text is the content: a token, a reply, dataset rows       *)
(***************************************************************************)
EXTENDS Naturals, Sequences

CONSTANTS DatasetSize,   \* cells in the payload sendLargeDataset builds
          GarbageSizes,  \* payload sizes misread bytes may spell
          INT_MAX,       \* the largest length sendAll and recvAll can be given
          Tokens         \* what may be presented as a token

\* What the two programs send themselves is short, header included.
ASSUME PacketsAssumption ==
    /\ DatasetSize \in Nat \ {0} /\ GarbageSizes \subseteq Nat
    /\ INT_MAX \in Nat /\ INT_MAX >= 3 /\ INT_MAX > DatasetSize

PacketTypes == {"PKT_TELEMETRY", "PKT_AUTH_REQUEST", "PKT_AUTH_ACK",
                "PKT_DATA_REQUEST", "PKT_DATA_RESPONSE", "PKT_OTHER"}

CellKinds == {"header", "telemetry", "bytes"}

Texts == PacketTypes \cup Tokens \cup {"", "OK", "FAIL", "ext", "row"}

Cell == [kind : CellKinds, text : Texts, num : Nat]

\* sizeof(TelemetryData) in cells: deserialize tests payloadSize against it.
TelemetrySize == 1

Header(type, size) == [kind |-> "header",    text |-> type, num |-> size]
Telemetry(fuel)    == [kind |-> "telemetry", text |-> "",   num |-> fuel]
Bytes(content)     == [kind |-> "bytes",     text |-> content, num |-> 0]

(***************************************************************************)
(* What the two sides send, header and payload in one buffer.              *)
(***************************************************************************)
AuthRequest(token) == <<Header("PKT_AUTH_REQUEST", 1), Bytes(token)>>

AuthAck(ok) == <<Header("PKT_AUTH_ACK", 1), Bytes(IF ok THEN "OK" ELSE "FAIL")>>

\* DataPacket::serialize of a telemetry packet with extension data.
TelemetryPacket(fuel) ==
    <<Header("PKT_TELEMETRY", TelemetrySize + 1), Telemetry(fuel), Bytes("ext")>>

DataRequest == <<Header("PKT_DATA_REQUEST", 0)>>

DataResponse ==
    <<Header("PKT_DATA_RESPONSE", DatasetSize)>>
        \o [i \in 1..DatasetSize |-> Bytes("row")]

(***************************************************************************)
(* recvAll of a payload: the cells it reads when size are announced.       *)
(* payloadSize is a uint32_t, the length of recvAll an int: from 2^31 on   *)
(* it is negative, the loop does not run and recvAll returns true.         *)
(***************************************************************************)
recvLength(size) == IF size <= INT_MAX THEN size ELSE 0

(***************************************************************************)
(* DataPacket::deserialize into a fresh DataPacket, whose telemetry the    *)
(* constructor has zeroed: the fuel level the packet then holds.  A        *)
(* payload shorter than TelemetryData leaves the zeros and still succeeds; *)
(* what recvAll has not read of a payload is zero, too.                    *)
(***************************************************************************)
DeserializedFuel(size, payload) ==
    IF size >= TelemetrySize /\ payload # <<>> THEN payload[1].num ELSE 0

(***************************************************************************)
(* What the next bytes of a stream read as when a PacketHeader is due:     *)
(* bytes that were not sent as a header may spell any type and size.       *)
(***************************************************************************)
HeadersIn(stream) ==
    IF stream = <<>> THEN {}
    ELSE IF Head(stream).kind = "header" THEN {Head(stream)}
    ELSE {Header(t, n) : t \in PacketTypes, n \in GarbageSizes}

(***************************************************************************)
(* Frames and sequences, for what the properties say.                      *)
(***************************************************************************)
IsReading(f) == f[1].text = "PKT_TELEMETRY" /\ Len(f) > TelemetrySize

IsRequest(f) == f[1].text = "PKT_DATA_REQUEST"

Prefix(s, t) == Len(s) <= Len(t) /\ \A i \in 1..Len(s) : s[i] = t[i]
=============================================================================
