----------------------------- MODULE OpenClient -----------------------------
(***************************************************************************)
(* The client together with an arbitrary server: it listens and stops when *)
(* it likes, accepts, sends whichever frames it likes and closes when it   *)
(* likes, and the link may fail.  This exercises the branches of           *)
(* authenticate, main and requestAndReceiveLargeDataset that the           *)
(* repository's own server never takes.                                    *)
(***************************************************************************)
EXTENDS Client

CONSTANTS Frames,       \* what the server may send: header and payload cells
          MaxFrames,    \* bound: frames it sends on one connection
          MaxListens    \* bound: how often it starts to listen

ASSUME OpenClientAssumption ==
    /\ MaxFrames \in Nat
    /\ MaxListens \in Nat
    /\ \A f \in Frames :
         /\ f \in Seq(Cell) \ {<<>>}
         /\ f[1].kind = "header" /\ f[1].num = Len(f) - 1

VARIABLES pending,   \* cells of the current frame the server has not sent yet
          replied,   \* frames the server has begun to send, the history
          listens

envVars == <<pending, replied, listens>>
vars == <<netVars, proc, envVars>>

TypeOK ==
    /\ NetTypeOK
    /\ ClientTypeOK
    /\ pending \in [Conns -> Seq(Cell)]
    /\ replied \in [Conns -> Seq(Frames)]
    /\ listens \in 0..MaxListens

Init ==
    /\ NetInit
    /\ ClientInit
    /\ pending = [c \in Conns |-> <<>>]
    /\ replied = [c \in Conns |-> <<>>]
    /\ listens = 0

-----------------------------------------------------------------------------
EnvListen ==
    /\ ~listening
    /\ listens < MaxListens
    /\ listening' = TRUE
    /\ listens' = listens + 1
    /\ UNCHANGED <<conn, proc, pending, replied>>

EnvStops ==
    listening /\ ServerSocketsGone /\ UNCHANGED <<proc, envVars>>

EnvAccepts(c) == ServerAccepts(c) /\ UNCHANGED <<proc, envVars>>

EnvReads(c) == conn[c].serverOpen /\ ServerTakes(c) /\ UNCHANGED <<proc, envVars>>

EnvBegins(c, f) ==
    /\ conn[c].serverOpen
    /\ pending[c] = <<>>
    /\ Len(replied[c]) < MaxFrames
    /\ pending' = [pending EXCEPT ![c] = f]
    /\ replied' = [replied EXCEPT ![c] = Append(@, f)]
    /\ UNCHANGED <<netVars, proc, listens>>

EnvSends(c) ==
    /\ conn[c].serverOpen
    /\ pending[c] # <<>>
    /\ ServerSends(c, Head(pending[c]))
    /\ pending' = [pending EXCEPT ![c] = Tail(@)]
    /\ UNCHANGED <<proc, replied, listens>>

EnvCloses(c) == conn[c].serverOpen /\ ServerCloses(c) /\ UNCHANGED <<proc, envVars>>

LinkBreaks(c) == Break(c) /\ UNCHANGED <<proc, envVars>>

Env ==
    \/ EnvListen \/ EnvStops
    \/ \E c \in Conns :
         \/ EnvAccepts(c) \/ EnvReads(c) \/ EnvSends(c) \/ EnvCloses(c)
         \/ \E f \in Frames : EnvBegins(c, f)
         \/ LinkBreaks(c)

Quiescent == (\A p \in Clients : ClientEnded(p)) /\ UNCHANGED vars

Next ==
    \/ \E p \in Clients : (ClientStep(p) \/ ClientCrash(p)) /\ UNCHANGED envVars
    \/ Env
    \/ Quiescent

Spec == Init /\ [][Next]_vars

\* The operating system schedules main.  Nothing is promised of the server.
FairSpec ==
    /\ Spec
    /\ \A p \in Clients : WF_vars(ClientStep(p) /\ UNCHANGED envVars)

-----------------------------------------------------------------------------
\* The i-th frame was this one, sent to its last cell.
Replied(c, i, frame) ==
    /\ i <= Len(replied[c]) /\ replied[c][i] = frame
    /\ i = Len(replied[c]) => pending[c] = <<>>

\* The client reports fuel only where it has been accepted (REQ-SVR-020):
\* while main sends packets or asks for the dataset over a connection, the
\* first frame the server sent there was the whole reply OK, whatever else
\* it has sent since.
SendsOnlyWhenAccepted ==
    \A p \in Clients : LET c == proc[p].sock IN
        /\ proc[p].pc \in {"send", "log_send", "req_send", "resp_header",
                           "resp_data", "unexpected", "got_data"}
        /\ c \in Conns
        => Replied(c, 1, AuthAck(TRUE))

\* A dataset main believes complete is one the server has sent in full: the
\* second frame on the connection, read to its last cell and not cut off by
\* the end of the connection.  (Up to the size recvAll can read: of a larger
\* one nothing is read and Client.cpp:140 still succeeds.)
DatasetComplete ==
    \A p \in Clients : LET c == proc[p].sock IN
        MainAt(p, "got_data") /\ proc[p].size <= INT_MAX =>
            Replied(c, 2, <<Header("PKT_DATA_RESPONSE", proc[p].size)>> \o proc[p].buf)

Unserved(p) ==
    LET c == proc[p].sock IN
      ~listening /\ (c \in Conns => conn[c].link = "broken" \/ ServerGone(c))

\* A client does not hang on a server that is gone: when from some moment on
\* nobody listens and its connection, if it has one, is closed or broken,
\* main returns, whatever call it was in and however many packets remain.
EndsWithoutServer ==
    \A p \in Clients : <>[]Unserved(p) => <>ClientEnded(p)
=============================================================================
