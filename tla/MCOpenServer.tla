---------------------------- MODULE MCOpenServer ----------------------------
(***************************************************************************)
(* Instances of OpenServer for TLC.  Fuel levels: 1 is below the threshold *)
(* 2, 2 is exactly at it.                                                  *)
(***************************************************************************)
EXTENDS OpenServer, StateMachineTests

TelemetryOnly(fuel) == <<Header("PKT_TELEMETRY", 1), Telemetry(fuel)>>

\* Everything the handler distinguishes, well formed.
WellFormedFrames ==
    {AuthRequest(AUTH_TOKEN), AuthRequest("wrong"),
     <<Header("PKT_AUTH_REQUEST", 0)>>,
     TelemetryPacket(1), TelemetryOnly(2), DataRequest,
     <<Header("PKT_OTHER", 1), Bytes("ext")>>, <<Header("PKT_OTHER", 0)>>}

\* A payload longer than the length of recvAll can say.
TooLong == INT_MAX + 1

\* What no client of the repository sends: a request that announces a payload,
\* telemetry that is a bare header, and payloads that are too long.
OddFrames ==
    {<<Header("PKT_AUTH_REQUEST", TooLong)>> \o [i \in 1..TooLong |-> Bytes("ext")],
     <<Header("PKT_DATA_REQUEST", 1), Bytes("ext")>>,
     <<Header("PKT_TELEMETRY", 0)>>,
     <<Header("PKT_TELEMETRY", TooLong), Telemetry(1)>> \o [i \in 1..INT_MAX |-> Bytes("ext")],
     <<Header("PKT_OTHER", TooLong)>> \o [i \in 1..TooLong |-> Bytes("ext")]}

EveryFrame == WellFormedFrames \cup OddFrames
=============================================================================
