---------------------------- MODULE MCOpenClient ----------------------------
(***************************************************************************)
(* Instances of OpenClient for TLC.                                        *)
(***************************************************************************)
EXTENDS OpenClient

\* A payload longer than the length of recvAll can say.
TooLong == INT_MAX + 1

LongFrame(type) == <<Header(type, TooLong)>> \o [i \in 1..TooLong |-> Bytes("row")]

\* What authenticate and requestAndReceiveLargeDataset tell apart: both
\* verdicts, an empty one, one too long, a reply of another type, a dataset
\* of some length, one of none and one too long.
ServerFrames ==
    {AuthAck(TRUE), AuthAck(FALSE), <<Header("PKT_AUTH_ACK", 0)>>,
     LongFrame("PKT_AUTH_ACK"), <<Header("PKT_OTHER", 1), Bytes("ext")>>,
     DataResponse, <<Header("PKT_DATA_RESPONSE", 0)>>,
     LongFrame("PKT_DATA_RESPONSE")}

GoodFrames == {AuthAck(TRUE), DataResponse}
=============================================================================
