------------------------------- MODULE Client -------------------------------
(***************************************************************************)
(* The client process (Client/Client.cpp, Client/main_client.cpp): main    *)
(* connects, authenticates, sends one telemetry packet per iteration,      *)
(* tries to reconnect when a send fails, asks for the dataset and leaves.  *)
(* Several such processes may run, one for each aircraft.                  *)
(*                                                                         *)
(* A step is one call of connect, send, recv or closesocket or one row of  *)
(* client_log.csv, with the local computation that follows.  The pauses of *)
(* one and two seconds are left out: a step may take any time.             *)
(***************************************************************************)
EXTENDS Network, Selections

CONSTANTS Clients,                 \* the client processes
          INVALID_SOCKET,
          Unconnected,             \* a socket() that no connect has served
          TOKEN,                   \* what main passes to authenticate
          MAX_RECONNECT_ATTEMPTS,
          NumPackets,              \* iterations of main's loop
          InitialFuel, BurnRate,   \* packet i reports InitialFuel - i*BurnRate
          OtherWsaRefs,            \* WSAStartups the rest of the process holds:
                                   \* none in main_client.cpp
          ClientFaults             \* what may go wrong besides the link

ASSUME ClientAssumption ==
    /\ INVALID_SOCKET \notin Conns
    /\ Unconnected \notin Conns \cup {INVALID_SOCKET}
    /\ TOKEN \in Tokens
    /\ MAX_RECONNECT_ATTEMPTS \in Nat /\ NumPackets \in Nat /\ OtherWsaRefs \in Nat
    /\ InitialFuel \in Nat /\ BurnRate \in Nat
    /\ NumPackets * BurnRate <= InitialFuel

VARIABLE proc   \* of each client:
                \*   pc            where main is
                \*   sock          clientSocket_
                \*   sockets       how many socket() has returned that
                \*                 closesocket has not been given
                \*   attempts      reconnectAttempts_
                \*   wsa           WSAStartups minus WSACleanups of the process
                \*   reconnecting  main is in the branch of a failed send
                \*   iter          i
                \*   out           what is left to sendAll
                \*   size, buf     payloadSize read last, the payload since
                \*   dataset       requestAndReceiveLargeDataset succeeded
                \*   exitCode      what main returned
                \*   log           the rows of client_log.csv

ClientPCs ==
    {"winsock", "connect", "log_connect", "auth_send", "auth_ack",
     "auth_reply", "check_reply", "not_authenticated", "packet", "send",
     "log_send", "send_failed", "cleanup", "resend", "req_send",
     "resp_header", "resp_data", "unexpected", "got_data", "bye", "leave",
     "exited", "crashed"}

FuelAt(i) == InitialFuel - i * BurnRate

ClientRow == {<<"CONNECT">>, <<"DISCONNECT">>, <<"ERROR">>} \cup ({"SEND"} \X Nat)

Process == [pc : ClientPCs, sock : Conns \cup {INVALID_SOCKET, Unconnected},
            sockets : Nat, attempts : 0..(MAX_RECONNECT_ATTEMPTS + 1), wsa : Nat,
            reconnecting : BOOLEAN, iter : 0..NumPackets, out : Seq(Cell),
            size : Nat, buf : Seq(Cell), dataset : BOOLEAN, exitCode : 0..3,
            log : Seq(ClientRow)]

ClientTypeOK == proc \in [Clients -> Process]

ClientInit ==
    proc = [p \in Clients |->
        [pc |-> "winsock", sock |-> INVALID_SOCKET, sockets |-> 0, attempts |-> 0,
         wsa |-> OtherWsaRefs, reconnecting |-> FALSE, iter |-> 0,
         out |-> <<>>, size |-> 0, buf |-> <<>>, dataset |-> FALSE,
         exitCode |-> 0, log |-> <<>>]]

-----------------------------------------------------------------------------
(***************************************************************************)
(* What the steps of main are made of.                                     *)
(***************************************************************************)
MainAt(p, place) == proc[p].pc = place

Becomes(p, r) == proc' = [proc EXCEPT ![p] = r]

\* A row of the log, and where main is afterwards.
Writing(r, row, after) == [r EXCEPT !.log = Append(@, row), !.pc = after]

\* Local computation, or a row appended to the log: the network is as before.
GoesOn(p, after) == Becomes(p, [proc[p] EXCEPT !.pc = after]) /\ UNCHANGED netVars
Writes(p, row, after) == Becomes(p, Writing(proc[p], row, after)) /\ UNCHANGED netVars

\* The end of an iteration of main's loop, and return, by way of ~Client.
NextIteration(r) == [r EXCEPT !.pc = "packet", !.iter = @ + 1, !.reconnecting = FALSE]
ReturnCode(r, code) == [r EXCEPT !.pc = "leave", !.exitCode = code]

\* connectToServer, or authenticate, returns false: main gives up, but in the
\* branch of a failed send it goes on to the next packet.
NotConnected(r) == IF r.reconnecting THEN NextIteration(r) ELSE ReturnCode(r, 2)
\* Faulty: main does not return.
RejectedGoesOn(r) == [r EXCEPT !.pc = "packet"]

Rejected(r) == IF r.reconnecting THEN NextIteration(r)
               ELSE ReturnCode(Writing(r, <<"ERROR">>, "leave"), 3)

\* One turn of sendAll's loop.  On a socket without connection send fails.
SendsNext(p, after) ==
    LET r == proc[p] IN
      /\ r.sock \in Conns
      /\ ClientSends(r.sock, Head(r.out))
      /\ Becomes(p, LET s == [r EXCEPT !.out = Tail(@)] IN
                      IF s.out # <<>> THEN s
                      ELSE IF after = "next" THEN NextIteration(s)
                      ELSE [s EXCEPT !.pc = after])

SendError(p) == proc[p].sock \in Conns => ClientSendFails(proc[p].sock)
\* Faulty: r < 0 for r <= 0, the end of the stream is not an error.
RecvErrorNegative(p) == proc[p].sock \in Conns => ClientSendFails(proc[p].sock)

RecvError(p) == proc[p].sock \in Conns => ClientRecvFails(proc[p].sock)

\* recvAll of a PacketHeader: one of the type main waits for leads to its
\* payload, or past it when recvAll has none to read, any other to refused.
ReadsHeader(p, type, payload, past, refused) ==
    LET r == proc[p] IN
      /\ r.sock \in Conns
      /\ ClientTakes(r.sock)
      /\ \E h \in HeadersIn(conn[r.sock].down) :
           Becomes(p, [r EXCEPT !.size = h.num, !.buf = <<>>,
                                !.pc = IF h.text # type THEN refused
                                       ELSE IF recvLength(h.num) > 0 THEN payload
                                       ELSE past])

\* Faulty: one recv for the whole payload.
ReadsPayloadOnce(p, after) ==
    LET r == proc[p] IN
      /\ r.sock \in Conns
      /\ ClientTakes(r.sock)
      /\ Becomes(p, [r EXCEPT !.buf = Append(@, Head(conn[r.sock].down)), !.pc = after])

\* One turn of recvAll's loop over a payload.
ReadsPayload(p, after) ==
    LET r == proc[p] IN
      /\ r.sock \in Conns
      /\ ClientTakes(r.sock)
      /\ Becomes(p, [r EXCEPT !.buf = Append(@, Head(conn[r.sock].down)),
                              !.pc = IF Len(r.buf) + 1 = r.size THEN after ELSE @])

\* closesocket(clientSocket_) and clientSocket_ = INVALID_SOCKET, where there
\* is a socket.
SocketClosed(p, after) ==
    /\ IF proc[p].sock \in Conns THEN ClientCloses(proc[p].sock) ELSE UNCHANGED netVars
    /\ Becomes(p, [after EXCEPT !.sock = INVALID_SOCKET,
                                !.sockets = IF proc[p].sock = INVALID_SOCKET THEN @ ELSE @ - 1])

\* cleanup(): closesocket, then WSACleanup, which undoes one WSAStartup.
CleanedUp(p, after) ==
    SocketClosed(p, [after EXCEPT !.wsa = IF @ > 0 THEN @ - 1 ELSE 0])

-----------------------------------------------------------------------------
(***************************************************************************)
(* initializeWinsock and connectToServer.                                  *)
(***************************************************************************)
ClientStartup(p) ==
    /\ MainAt(p, "winsock")
    /\ \/ Becomes(p, [proc[p] EXCEPT !.wsa = @ + 1, !.pc = "connect"])
       \/ /\ "startup" \in ClientFaults
          /\ Becomes(p, ReturnCode(Writing(proc[p], <<"ERROR">>, "leave"), 1))
    /\ UNCHANGED netVars

\* Faulty: one attempt fewer, one attempt more.
TryingLess(p) == MainAt(p, "connect") /\ proc[p].attempts < MAX_RECONNECT_ATTEMPTS
TryingMore(p) == MainAt(p, "connect") /\ proc[p].attempts <= MAX_RECONNECT_ATTEMPTS + 1

Trying(p) == MainAt(p, "connect") /\ proc[p].attempts <= MAX_RECONNECT_ATTEMPTS

\* Faulty: the socket of the attempt before is forgotten, not closed.
ForgetPrevious(p) ==
    /\ Trying(p)
    /\ proc[p].sock # INVALID_SOCKET
    /\ Becomes(p, [proc[p] EXCEPT !.sock = INVALID_SOCKET])
    /\ UNCHANGED netVars

\* An attempt begins with closing the socket of the one before.
ClosePrevious(p) ==
    /\ Trying(p)
    /\ proc[p].sock # INVALID_SOCKET
    /\ SocketClosed(p, proc[p])

\* Then it asks for a socket.
Attempting(p) == Trying(p) /\ proc[p].sock = INVALID_SOCKET

\* socket() fails: Winsock is not initialised any more.  No retry.
NoSocket(p) ==
    /\ Attempting(p)
    /\ proc[p].wsa = 0
    /\ Becomes(p, NotConnected(proc[p]))
    /\ UNCHANGED netVars

\* connect() succeeds.  main logs the first connection only.
ConnectSucceeds(p) ==
    /\ Attempting(p)
    /\ proc[p].wsa > 0
    /\ \E c \in Conns :
         /\ ClientConnects(c)
         /\ Becomes(p, [proc[p] EXCEPT
                !.sock = c, !.sockets = @ + 1, !.attempts = 0, !.out = AuthRequest(TOKEN),
                !.pc = IF proc[p].reconnecting THEN "auth_send" ELSE "log_connect"])

\* connect() fails: nobody listens, or the network does not get there.
ConnectFails(p) ==
    /\ Attempting(p)
    /\ proc[p].wsa > 0
    /\ ~listening \/ "connect" \in ClientFaults
    /\ Becomes(p, Writing([proc[p] EXCEPT !.sock = Unconnected, !.sockets = @ + 1,
                                          !.attempts = @ + 1],
                          <<"ERROR">>, "connect"))
    /\ UNCHANGED netVars

AttemptsExhausted(p) ==
    /\ MainAt(p, "connect") /\ ~Trying(p)
    /\ Becomes(p, NotConnected(Writing(proc[p], <<"ERROR">>, "connect")))
    /\ UNCHANGED netVars

ClientLogConnect(p) ==
    MainAt(p, "log_connect") /\ Writes(p, <<"CONNECT">>, "auth_send")

-----------------------------------------------------------------------------
(***************************************************************************)
(* authenticate.                                                           *)
(***************************************************************************)
\* Faulty: the reply is not awaited.
SendAuthOnly(p) == MainAt(p, "auth_send") /\ SendsNext(p, "packet")

SendAuth(p) == MainAt(p, "auth_send") /\ SendsNext(p, "auth_ack")

\* Faulty: a failed read of the reply is tried again.
AuthCallFailsSending(p) ==
    /\ MainAt(p, "auth_send") /\ SendError(p)
    /\ Writes(p, <<"ERROR">>, "not_authenticated")

AuthCallFails(p) ==
    /\ \/ MainAt(p, "auth_send") /\ SendError(p)
       \/ MainAt(p, "auth_ack") /\ RecvError(p)
    /\ Writes(p, <<"ERROR">>, "not_authenticated")

ReadAck(p) ==
    /\ MainAt(p, "auth_ack")
    /\ ReadsHeader(p, "PKT_AUTH_ACK", "auth_reply", "check_reply", "not_authenticated")

ReadReply(p) == MainAt(p, "auth_reply") /\ ReadsPayload(p, "check_reply")

ReadReplyFails(p) ==
    MainAt(p, "auth_reply") /\ RecvError(p) /\ GoesOn(p, "not_authenticated")

\* authenticate returns true: main enters its loop, or sends again the
\* packet whose send has failed.
ReplyOK(p) ==
    LET r == proc[p] IN
      /\ MainAt(p, "check_reply")
      /\ r.buf = <<Bytes("OK")>>
      /\ \/ ~r.reconnecting /\ Becomes(p, [r EXCEPT !.pc = "packet"])
         \/ /\ r.reconnecting
            /\ Becomes(p, [r EXCEPT !.pc = "resend",
                                    !.out = TelemetryPacket(FuelAt(r.iter))])
      /\ UNCHANGED netVars

ReplyRejected(p) ==
    /\ MainAt(p, "check_reply")
    /\ proc[p].buf # <<Bytes("OK")>>
    /\ Writes(p, <<"ERROR">>, "not_authenticated")

NotAuthenticated(p) ==
    /\ MainAt(p, "not_authenticated")
    /\ Becomes(p, Rejected(proc[p]))
    /\ UNCHANGED netVars

Connecting(p) ==
    \/ ClientStartup(p) \/ ClosePrevious(p) \/ NoSocket(p) \/ ConnectSucceeds(p) \/ ConnectFails(p)
    \/ AttemptsExhausted(p) \/ ClientLogConnect(p)
    \/ SendAuth(p) \/ AuthCallFails(p) \/ ReadAck(p) \/ ReadReply(p)
    \/ ReadReplyFails(p) \/ ReplyOK(p) \/ ReplyRejected(p) \/ NotAuthenticated(p)

-----------------------------------------------------------------------------
(***************************************************************************)
(* The loop of main: one packet per iteration, through sendDataPacket.     *)
(***************************************************************************)
\* Faulty: <= for < in the condition of the loop.
BuildPacketOneMore(p) ==
    /\ MainAt(p, "packet")
    /\ proc[p].iter <= NumPackets
    /\ proc[p].sock # INVALID_SOCKET
    /\ Becomes(p, [proc[p] EXCEPT !.out = TelemetryPacket(FuelAt(proc[p].iter)),
                                  !.pc = "send"])
    /\ UNCHANGED netVars

BuildPacket(p) ==
    /\ MainAt(p, "packet")
    /\ proc[p].iter < NumPackets
    /\ proc[p].sock # INVALID_SOCKET
    /\ Becomes(p, [proc[p] EXCEPT !.out = TelemetryPacket(FuelAt(proc[p].iter)),
                                  !.pc = "send"])
    /\ UNCHANGED netVars

SendPacket(p) == MainAt(p, "send") /\ SendsNext(p, "log_send")

\* sendDataPacket logs its failure, a missing socket included.
SendPacketFails(p) ==
    /\ \/ MainAt(p, "send") /\ SendError(p)
       \/ /\ MainAt(p, "packet")
          /\ proc[p].iter < NumPackets /\ proc[p].sock = INVALID_SOCKET
    /\ Writes(p, <<"ERROR">>, "send_failed")

LogSend(p) ==
    LET r == proc[p] IN
      /\ MainAt(p, "log_send")
      /\ Becomes(p, NextIteration(Writing(r, <<"SEND", FuelAt(r.iter)>>, "packet")))
      /\ UNCHANGED netVars

\* Faulty: main does not log which packet was lost.
LogSendFailedSilently(p) == MainAt(p, "send_failed") /\ GoesOn(p, "cleanup")

LogSendFailed(p) ==
    MainAt(p, "send_failed") /\ Writes(p, <<"ERROR">>, "cleanup")

\* client.cleanup(), then connectToServer.
CleanupAndReconnect(p) ==
    /\ MainAt(p, "cleanup")
    /\ CleanedUp(p, [proc[p] EXCEPT !.reconnecting = TRUE, !.pc = "connect"])

\* Faulty: the iteration starts again after its packet was sent again.
ResendAndRepeat(p) == MainAt(p, "resend") /\ SendsNext(p, "packet")

\* Sending the packet again: the result is ignored, and no SEND row written.
Resend(p) == MainAt(p, "resend") /\ SendsNext(p, "next")

ResendFails(p) ==
    /\ MainAt(p, "resend") /\ SendError(p)
    /\ Becomes(p, NextIteration(Writing(proc[p], <<"ERROR">>, "packet")))
    /\ UNCHANGED netVars

SendingTelemetry(p) ==
    \/ BuildPacket(p) \/ SendPacket(p) \/ SendPacketFails(p) \/ LogSend(p)
    \/ LogSendFailed(p) \/ CleanupAndReconnect(p) \/ Resend(p) \/ ResendFails(p)

-----------------------------------------------------------------------------
(***************************************************************************)
(* requestAndReceiveLargeDataset, then the end of main.                    *)
(***************************************************************************)
RequestDataset(p) ==
    /\ MainAt(p, "packet")
    /\ proc[p].iter = NumPackets
    /\ Becomes(p, IF proc[p].sock = INVALID_SOCKET
                  THEN [proc[p] EXCEPT !.pc = "bye"]
                  ELSE [proc[p] EXCEPT !.pc = "req_send", !.out = DataRequest])
    /\ UNCHANGED netVars

\* Faulty: the request is taken for the response.
SendRequestOnly(p) == MainAt(p, "req_send") /\ SendsNext(p, "got_data")

SendRequest(p) == MainAt(p, "req_send") /\ SendsNext(p, "resp_header")

\* Faulty: the wrong type is expected.
ReadResponseAsAck(p) ==
    /\ MainAt(p, "resp_header")
    /\ ReadsHeader(p, "PKT_AUTH_ACK", "resp_data", "got_data", "unexpected")

ReadResponse(p) ==
    /\ MainAt(p, "resp_header")
    /\ ReadsHeader(p, "PKT_DATA_RESPONSE", "resp_data", "got_data", "unexpected")

ReadDataset(p) == MainAt(p, "resp_data") /\ ReadsPayload(p, "got_data")

\* One of the calls has failed, or the response is of another type.
RequestFails(p) ==
    /\ \/ MainAt(p, "req_send") /\ SendError(p)
       \/ (MainAt(p, "resp_header") \/ MainAt(p, "resp_data")) /\ RecvError(p)
       \/ MainAt(p, "unexpected")
    /\ Writes(p, <<"ERROR">>, "bye")

GotDataset(p) ==
    /\ MainAt(p, "got_data")
    /\ Becomes(p, [proc[p] EXCEPT !.dataset = TRUE, !.pc = "bye"])
    /\ UNCHANGED netVars

Bye(p) ==
    /\ MainAt(p, "bye")
    /\ Becomes(p, ReturnCode(Writing(proc[p], <<"DISCONNECT">>, "leave"), 0))
    /\ UNCHANGED netVars

\* ~Client: cleanup() once more, and the process ends.
Leave(p) ==
    /\ MainAt(p, "leave")
    /\ CleanedUp(p, [proc[p] EXCEPT !.pc = "exited"])

Finishing(p) ==
    \/ RequestDataset(p) \/ SendRequest(p) \/ ReadResponse(p) \/ ReadDataset(p)
    \/ RequestFails(p) \/ GotDataset(p) \/ Bye(p) \/ Leave(p)

ClientStep(p) == Connecting(p) \/ SendingTelemetry(p) \/ Finishing(p)

ClientEnded(p) == proc[p].pc \in {"exited", "crashed"}

\* The process is killed: its connection is reset, its sockets are gone.
ClientCrash(p) ==
    /\ "crash" \in ClientFaults
    /\ ~ClientEnded(p)
    /\ IF proc[p].sock \in Conns THEN ClientDies(proc[p].sock) ELSE UNCHANGED netVars
    /\ Becomes(p, [proc[p] EXCEPT !.pc = "crashed", !.sockets = 0])
-----------------------------------------------------------------------------
(***************************************************************************)
(* Properties of a client whatever its server does.                        *)
(***************************************************************************)
\* Sockets are neither leaked nor shared, however often main reconnects and
\* at whatever call it fails: a process has the socket in clientSocket_ open
\* and no other, whether or not connect succeeded on it, and none when main
\* has returned; the open client ends are exactly the sockets of the processes
\* that still run; and no attempt to connect starts from a connection, so that
\* none is left behind that the server would wait for.
SocketOwned ==
    /\ \A p \in Clients :
         proc[p].sockets = IF ClientEnded(p) \/ proc[p].sock = INVALID_SOCKET
                           THEN 0 ELSE 1
    /\ \A c \in Conns : conn[c].clientOpen <=>
           \E p \in Clients : ~ClientEnded(p) /\ proc[p].sock = c
    /\ \A p, q \in Clients :
           p # q /\ ~ClientEnded(p) /\ ~ClientEnded(q) /\ proc[p].sock \in Conns
              => proc[p].sock # proc[q].sock
    /\ \A p \in Clients : MainAt(p, "connect") => proc[p].sock \notin Conns

\* Where the rows of an event are in the log of a client.
RowsOf(p, event) == {i \in DOMAIN proc[p].log : proc[p].log[i][1] = event}

SendRows(p) == Selected(proc[p].log, RowsOf(p, "SEND"))

\* No packet disappears from the client's own record (REQ-LOG-010): the SEND
\* rows are readings of different iterations in the order of the flight, and
\* each iteration that left none left the two ERROR rows of a failed send.
FlightRecorded ==
    \A p \in Clients : LET sends == SendRows(p) IN
        /\ \A i \in DOMAIN sends :
             \E j \in 0..(proc[p].iter - 1) :
               /\ sends[i][2] = FuelAt(j)
               /\ i > 1 /\ BurnRate > 0 => sends[i - 1][2] > sends[i][2]
        /\ Len(sends) <= proc[p].iter
        /\ Cardinality(RowsOf(p, "ERROR")) >= 2 * (proc[p].iter - Len(sends))

\* Nobody is given up before the retries are exhausted (REQ-COM-030): a main
\* that returns because it has not reached the server (exit code 2) has logged
\* a failed attempt MAX_RECONNECT_ATTEMPTS + 1 times and then that they are
\* exhausted, nothing else, whatever the process did with Winsock before.
GivesUpAfterRetries ==
    \A p \in Clients :
        proc[p].exitCode = 2 =>
            proc[p].log = [i \in 1..(MAX_RECONNECT_ATTEMPTS + 2) |-> <<"ERROR">>]

\* connectToServer "retries on failure" (Client.h:17, REQ-COM-030): no call of
\* it, main's reconnect included, comes back without a connection before its
\* counter has run past the bound.
GivesUpOnlyAfterRetries ==
    [][\A p \in Clients :
         MainAt(p, "connect") /\ proc'[p].pc # "connect" /\ ~ClientEnded(p)'
           => \/ proc'[p].sock \in Conns
              \/ proc'[p].attempts > MAX_RECONNECT_ATTEMPTS]_<<netVars, proc>>
=============================================================================
