------------------------------- MODULE Server -------------------------------
(***************************************************************************)
(* The server process (Server/Server.cpp, Server/main_server.cpp): the     *)
(* main thread that accepts connections, and the detached thread that runs *)
(* handleClient for each of them.                                          *)
(*                                                                         *)
(* Threads interleave between any two system calls: one action is one call *)
(* of send, recv, accept or closesocket, or one row appended to the log,   *)
(* with the local computation that follows it.  The log file is modelled   *)
(* per handler, as the rows that handler has appended so far; their        *)
(* interleaving in the file is the Logger's business.                      *)
(*                                                                         *)
(* A handler is named by its connection, which is clientSock.              *)
(***************************************************************************)
EXTENDS Network, StateMachine, Selections

CONSTANTS AUTH_TOKEN,            \* the token authenticateClient compares with
          FUEL_ALERT_THRESHOLD,
          Faults                 \* the calls of the environment that may fail

ASSUME ServerAssumption ==
    /\ AUTH_TOKEN \in Tokens
    /\ FUEL_ALERT_THRESHOLD \in Nat

VARIABLES mpc,      \* where the main thread is
          thread    \* of each handler:
                    \*   pc      where it is
                    \*   sm      StateMachine::current_
                    \*   hdr     the PacketHeader it read last
                    \*   buf     the payload cells it has read since
                    \*   out     what is left to sendAll
                    \*   authOK  the verdict of authenticateClient
                    \*   log     the rows it has appended to logFile_

serverVars == <<mpc, thread>>

MainPCs == {"winsock", "start", "accept", "cleanup", "return",
            "exited", "terminated"}

HandlerPCs ==
    {"none", "spawned", "log_connect", "auth_header", "auth_token",
     "check_token", "auth_ack", "auth_failed", "auth_close",
     "auth_disconnect", "authenticated", "receiving", "header",
     "transfer", "build_dataset", "send_dataset", "transferred", "payload", "log_receive",
     "alert", "unknown", "drain", "log_lost", "log_disconnect",
     "disconnect", "close", "done"}

\* Rows of the log, without their time stamps and wording.
Transitioned(from, to) == <<"STATE_TRANSITION", from, to>>
Received(fuel)         == <<"RECEIVE", fuel>>
FuelAlert(fuel)        == <<"FUEL_ALERT", fuel>>

Row == {<<"CONNECT">>, <<"DISCONNECT">>, <<"ERROR">>}
          \cup ({"STATE_TRANSITION"} \X ServerState \X ServerState)
          \cup ({"RECEIVE", "FUEL_ALERT"} \X Nat)

Thread == [pc : HandlerPCs, sm : ServerState, hdr : Cell, buf : Seq(Cell),
           out : Seq(Cell), authOK : BOOLEAN, log : Seq(Row)]

ServerTypeOK == mpc \in MainPCs /\ thread \in [Conns -> Thread]

ServerInit ==
    /\ mpc = "winsock"
    /\ thread = [c \in Conns |->
           [pc |-> "none", sm |-> "DISCONNECTED", hdr |-> Header("PKT_OTHER", 0),
            buf |-> <<>>, out |-> <<>>, authOK |-> FALSE, log |-> <<>>]]

ProcessAlive == mpc \notin {"exited", "terminated"}

-----------------------------------------------------------------------------
(***************************************************************************)
(* The main thread: initializeWinsock, startServer, runAcceptLoop,         *)
(* cleanup, return.                                                        *)
(***************************************************************************)
InitializeWinsock ==
    /\ mpc = "winsock"
    /\ mpc' \in {"start"} \cup IF "startup" \in Faults THEN {"exited"} ELSE {}
    /\ UNCHANGED <<netVars, thread>>

StartServer ==
    /\ mpc = "start"
    /\ \/ mpc' = "accept" /\ listening' = TRUE
       \/ "startup" \in Faults /\ mpc' = "exited" /\ UNCHANGED listening
    /\ UNCHANGED <<conn, thread>>

\* One turn of the loop: accept, then a detached thread for the handler.
Accept(c) ==
    /\ mpc = "accept"
    /\ ServerAccepts(c)
    /\ thread' = [thread EXCEPT ![c].pc = "spawned"]
    /\ UNCHANGED mpc

\* Whatever makes accept fail ends the loop.
AcceptFails ==
    /\ mpc = "accept"
    /\ "accept" \in Faults
    /\ mpc' = "cleanup"
    /\ UNCHANGED <<netVars, thread>>

\* closesocket(listenSocket_) and WSACleanup, which takes the sockets of the
\* handlers with it.
Cleanup ==
    /\ mpc = "cleanup"
    /\ mpc' = "return"
    /\ ServerSocketsGone
    /\ UNCHANGED thread

\* main returns: the process ends, and with it every detached thread,
\* wherever it is.
Return ==
    /\ mpc = "return"
    /\ mpc' = "exited"
    /\ UNCHANGED <<netVars, thread>>

MainThread ==
    \/ InitializeWinsock
    \/ StartServer
    \/ \E c \in Conns : Accept(c)
    \/ AcceptFails
    \/ Cleanup
    \/ Return

-----------------------------------------------------------------------------
(***************************************************************************)
(* What the handler's steps are made of.                                   *)
(***************************************************************************)
At(c, place) == ProcessAlive /\ thread[c].pc = place

Become(c, t) == thread' = [thread EXCEPT ![c] = t] /\ UNCHANGED mpc

\* Local computation or a failed call, between two steps that show.
Jump(c, after) ==
    Become(c, [thread[c] EXCEPT !.pc = after]) /\ UNCHANGED netVars

\* A row appended to the log.
LogRow(c, row, after) ==
    /\ Become(c, [thread[c] EXCEPT !.log = Append(@, row), !.pc = after])
    /\ UNCHANGED netVars

\* StateMachine::transition.  It logs, then assigns; when isValid refuses it
\* throws, nothing in the detached thread catches, and std::terminate ends
\* the process.
Transition(c, next, flightComplete, after) ==
    LET t == thread[c] IN
      IF isValid(t.sm, next, flightComplete)
      THEN /\ Become(c, [t EXCEPT !.log = Append(@, Transitioned(t.sm, next)),
                                  !.sm = next, !.pc = after])
           /\ UNCHANGED netVars
      ELSE mpc' = "terminated" /\ ServerSocketsGone /\ UNCHANGED thread

\* recvAll of a PacketHeader.
ReadHeader(c, h, after) ==
    /\ ServerTakes(c)
    /\ Become(c, [thread[c] EXCEPT !.hdr = h, !.buf = <<>>, !.pc = after])

\* One turn of recvAll's loop over a payload of hdr.payloadSize; the loop has
\* turns only where recvLength is positive.
ReadPayload(c, after) ==
    LET t == thread[c] IN
      /\ ServerTakes(c)
      /\ Become(c, [t EXCEPT !.buf = Append(@, Head(conn[c].up)),
                             !.pc = IF Len(t.buf) + 1 = t.hdr.num THEN after ELSE @])

\* Faulty: buf for buf + sent, the first cell goes out every time.
SendNextFromStart(c, after) ==
    LET t == thread[c] IN
      /\ ServerSends(c, Head(t.out))
      /\ Become(c, [t EXCEPT !.out = SubSeq(@, 1, Len(@) - 1),
                             !.pc = IF Len(t.out) = 1 THEN after ELSE @])

\* One turn of sendAll's loop; an error logs a row and gives up the rest.
SendNext(c, after) ==
    LET t == thread[c] IN
      \/ /\ ServerSends(c, Head(t.out))
         /\ Become(c, [t EXCEPT !.out = Tail(@),
                                !.pc = IF Len(t.out) = 1 THEN after ELSE @])
      \/ /\ ServerSendFails(c)
         /\ Become(c, [t EXCEPT !.out = <<>>, !.log = Append(@, <<"ERROR">>),
                                !.pc = after])
         /\ UNCHANGED netVars

-----------------------------------------------------------------------------
(***************************************************************************)
(* handleClient up to the verdict of authenticateClient.                   *)
(***************************************************************************)
Begin(c) ==
    At(c, "spawned") /\ Transition(c, "CONNECTED", FALSE, "log_connect")

LogConnect(c) ==
    At(c, "log_connect") /\ LogRow(c, <<"CONNECT">>, "auth_header")

\* A token too long for recvAll is not read; zeros are compared in its place.
PlaceAfterLogin(h) ==
    IF h.text # "PKT_AUTH_REQUEST" \/ h.num = 0 THEN "auth_failed"
    ELSE IF recvLength(h.num) > 0 THEN "auth_token" ELSE "check_token"

AuthHeader(c) ==
    /\ At(c, "auth_header")
    /\ \E h \in HeadersIn(conn[c].up) :
         ReadHeader(c, h, PlaceAfterLogin(h))

AuthToken(c) ==
    At(c, "auth_token") /\ ReadPayload(c, "check_token")

\* Either read fails: no reply is sent.
AuthReadFails(c) ==
    /\ At(c, "auth_header") \/ At(c, "auth_token")
    /\ ServerRecvFails(c)
    /\ Jump(c, "auth_failed")

\* Faulty: any token will do.
CheckTokenPresent(c) ==
    /\ At(c, "check_token")
    /\ Become(c, [thread[c] EXCEPT !.authOK = thread[c].buf # <<>>,
                                   !.out = AuthAck(thread[c].buf # <<>>),
                                   !.pc = "auth_ack"])
    /\ UNCHANGED netVars

CheckToken(c) ==
    LET ok == thread[c].buf = <<Bytes(AUTH_TOKEN)>> IN
      /\ At(c, "check_token")
      /\ Become(c, [thread[c] EXCEPT !.authOK = ok, !.out = AuthAck(ok),
                                     !.pc = "auth_ack"])
      /\ UNCHANGED netVars

\* The result of sendAll is ignored: the verdict stands without the reply.
SendAck(c) ==
    /\ At(c, "auth_ack")
    /\ SendNext(c, IF thread[c].authOK THEN "authenticated" ELSE "auth_failed")

\* Faulty: the early return forgets closesocket.
AuthFailedLeaks(c) ==
    At(c, "auth_failed") /\ LogRow(c, <<"ERROR">>, "auth_disconnect")

AuthFailed(c) ==
    At(c, "auth_failed") /\ LogRow(c, <<"ERROR">>, "auth_close")

AuthClose(c) ==
    /\ At(c, "auth_close")
    /\ ServerCloses(c)
    /\ Become(c, [thread[c] EXCEPT !.pc = "auth_disconnect"])

AuthDisconnect(c) ==
    At(c, "auth_disconnect") /\ Transition(c, "DISCONNECTED", TRUE, "done")

Authenticated(c) ==
    At(c, "authenticated") /\ Transition(c, "AUTHENTICATED", FALSE, "receiving")

StartReceiving(c) ==
    At(c, "receiving") /\ Transition(c, "DATA_RECEIVING", FALSE, "header")

-----------------------------------------------------------------------------
(***************************************************************************)
(* The loop of handleClient.                                               *)
(***************************************************************************)
\* Faulty: > for >= in the test of the payload against TelemetryData.
PlaceAfterExtended(h) ==
    CASE h.text = "PKT_DATA_REQUEST" -> "transfer"
      [] h.text = "PKT_TELEMETRY" -> IF h.num > TelemetrySize THEN "payload" ELSE "unknown"
      [] OTHER -> "unknown"

\* A payload of no cells makes no call of recv, nor does one that is too long.
PlaceAfter(h) ==
    CASE h.text = "PKT_DATA_REQUEST" -> "transfer"
      [] h.text = "PKT_TELEMETRY" ->
           IF recvLength(h.num) > 0 THEN "payload" ELSE "log_receive"
      [] OTHER -> "unknown"

NextHeader(c) ==
    /\ At(c, "header")
    /\ \E h \in HeadersIn(conn[c].up) : ReadHeader(c, h, PlaceAfter(h))

\* Faulty: continue for break.
HeaderFailsContinue(c) ==
    At(c, "header") /\ ServerRecvFails(c) /\ Jump(c, "header")

HeaderFails(c) ==
    At(c, "header") /\ ServerRecvFails(c) /\ Jump(c, "log_lost")

\* PKT_DATA_REQUEST.  A payload it announces is not read.
BeginTransfer(c) ==
    At(c, "transfer") /\ Transition(c, "DATA_TRANSFER", FALSE, "build_dataset")

BuildDataset(c) ==
    /\ At(c, "build_dataset")
    /\ Become(c, [thread[c] EXCEPT !.out = DataResponse, !.pc = "send_dataset"])
    /\ UNCHANGED netVars

\* The result of sendLargeDataset is ignored.
SendDataset(c) ==
    At(c, "send_dataset") /\ SendNext(c, "transferred")

EndTransfer(c) ==
    At(c, "transferred") /\ Transition(c, "DATA_RECEIVING", FALSE, "header")

\* PKT_TELEMETRY.  The buffer deserialize gets is as long as the header
\* says, so it never refuses it here.
TelemetryPayload(c) ==
    At(c, "payload") /\ ReadPayload(c, "log_receive")

PayloadFails(c) ==
    At(c, "payload") /\ ServerRecvFails(c) /\ Jump(c, "log_lost")

PacketFuel(c) == DeserializedFuel(thread[c].hdr.num, thread[c].buf)

\* Faulty: only the readings that raise an alert are logged.
LogReceiveLow(c) ==
    /\ At(c, "log_receive")
    /\ IF PacketFuel(c) < FUEL_ALERT_THRESHOLD
       THEN LogRow(c, Received(PacketFuel(c)), "alert")
       ELSE Jump(c, "alert")

LogReceive(c) ==
    At(c, "log_receive") /\ LogRow(c, Received(PacketFuel(c)), "alert")

\* Faulty: <= for <.
CheckFuelAlertAtThreshold(c) ==
    /\ At(c, "alert")
    /\ IF PacketFuel(c) <= FUEL_ALERT_THRESHOLD
       THEN LogRow(c, FuelAlert(PacketFuel(c)), "header")
       ELSE Jump(c, "header")

CheckFuelAlert(c) ==
    /\ At(c, "alert")
    /\ \/ /\ PacketFuel(c) < FUEL_ALERT_THRESHOLD
          /\ LogRow(c, FuelAlert(PacketFuel(c)), "header")
       \/ /\ PacketFuel(c) >= FUEL_ALERT_THRESHOLD
          /\ Jump(c, "header")

\* Faulty: the payload of an unknown packet stays in the stream.
UnknownTypeUndrained(c) == At(c, "unknown") /\ LogRow(c, <<"ERROR">>, "header")

\* Any other type: log it and read its payload away, if recvAll can.
UnknownType(c) ==
    /\ At(c, "unknown")
    /\ LogRow(c, <<"ERROR">>,
              IF recvLength(thread[c].hdr.num) > 0 THEN "drain" ELSE "header")

\* The result of recvAll is ignored: the next header read notices.
Drain(c) ==
    /\ At(c, "drain")
    /\ \/ ReadPayload(c, "header")
       \/ ServerRecvFails(c) /\ Jump(c, "header")

\* Out of the loop.
LogLost(c) ==
    At(c, "log_lost") /\ LogRow(c, <<"ERROR">>, "log_disconnect")

\* Faulty: a misspelt event.
LogDisconnectMisspelt(c) ==
    At(c, "log_disconnect") /\ LogRow(c, <<"DISCONNECTED">>, "disconnect")

LogDisconnect(c) ==
    At(c, "log_disconnect") /\ LogRow(c, <<"DISCONNECT">>, "disconnect")

\* Faulty: the default argument of transition.
DisconnectByDefault(c) ==
    At(c, "disconnect") /\ Transition(c, "DISCONNECTED", FALSE, "close")

Disconnect(c) ==
    At(c, "disconnect") /\ Transition(c, "DISCONNECTED", TRUE, "close")

Close(c) ==
    /\ At(c, "close")
    /\ ServerCloses(c)
    /\ Become(c, [thread[c] EXCEPT !.pc = "done"])

-----------------------------------------------------------------------------
Authenticating(c) ==
    \/ Begin(c) \/ LogConnect(c)
    \/ AuthHeader(c) \/ AuthToken(c) \/ AuthReadFails(c)
    \/ CheckToken(c) \/ SendAck(c)
    \/ AuthFailed(c) \/ AuthClose(c) \/ AuthDisconnect(c)
    \/ Authenticated(c) \/ StartReceiving(c)

Serving(c) ==
    \/ NextHeader(c) \/ HeaderFails(c)
    \/ BeginTransfer(c) \/ BuildDataset(c) \/ SendDataset(c) \/ EndTransfer(c)
    \/ TelemetryPayload(c) \/ PayloadFails(c)
    \/ LogReceive(c) \/ CheckFuelAlert(c)
    \/ UnknownType(c) \/ Drain(c)
    \/ LogLost(c) \/ LogDisconnect(c) \/ Disconnect(c) \/ Close(c)

Handler(c) == Authenticating(c) \/ Serving(c)

ServerNext == MainThread \/ \E c \in Conns : Handler(c)

-----------------------------------------------------------------------------
(***************************************************************************)
(* Properties of the server whatever its clients do.                       *)
(***************************************************************************)
\* No path through handleClient asks its state machine for a transition
\* isValid refuses: transition would throw in a detached thread and take the
\* whole server, every other aircraft's handler included, with it.
NoInvalidTransition == mpc # "terminated"

\* The state the machine is in while the handler is at a place.
StateOf(pc) ==
    CASE pc \in {"none", "spawned", "close", "done"} -> "DISCONNECTED"
      [] pc \in {"log_connect", "auth_header", "auth_token", "check_token",
                 "auth_ack", "auth_failed", "auth_close", "auth_disconnect",
                 "authenticated"} -> "CONNECTED"
      [] pc = "receiving" -> "AUTHENTICATED"
      [] pc \in {"build_dataset", "send_dataset", "transferred"} -> "DATA_TRANSFER"
      [] OTHER -> "DATA_RECEIVING"

\* Places at which the handler still has its socket.
HoldsSocket == HandlerPCs \ {"none", "auth_disconnect", "done"}

\* What the handler has fits the place it is at: the state of its machine
\* (it reads telemetry in DATA_RECEIVING and sends a dataset in
\* DATA_TRANSFER only), its socket (never used after closesocket, and closed
\* on both ways out), the part of the payload it has read, the part of the
\* reply it has left.
HandlerFits(t, r) ==
    /\ t.sm = StateOf(t.pc)
    /\ r.serverOpen <=> t.pc \in HoldsSocket
    /\ r.link \in {"none", "backlog"} => t.pc = "none"
    /\ t.pc = "unknown" => t.buf = <<>>
    /\ t.pc \in {"auth_token", "payload", "drain"} =>
         Len(t.buf) < t.hdr.num /\ t.hdr.num <= INT_MAX
    /\ t.pc \in {"log_receive", "alert"} => Len(t.buf) = recvLength(t.hdr.num)
    /\ t.pc \in {"auth_ack", "send_dataset"} => t.out # <<>>

HandlersFit == \A c \in Conns : HandlerFits(thread[c], conn[c])

IsReceived(row) == row[1] = "RECEIVE"

\* The fuel levels of the readings a handler has logged, in their order.
LoggedReadings(c) ==
    LET log == thread[c].log
        rows == Selected(log, {i \in DOMAIN log : IsReceived(log[i])})
    IN [k \in DOMAIN rows |-> rows[k][2]]

Low(row) == row[1] = "RECEIVE" /\ row[2] < FUEL_ALERT_THRESHOLD

\* Every low reading a handler has logged has its alert behind it.
Alerted(c) ==
    LET log == thread[c].log IN
      \A i \in DOMAIN log :
        Low(log[i]) => i < Len(log) /\ log[i + 1] = FuelAlert(log[i][2])

\* Alerts and readings go together (REQ-SVR-070): right after each reading
\* below the threshold, and nowhere else, the handler logs the alert with
\* that reading's fuel level.
AlertFollowsReading ==
    \A c \in Conns : LET log == thread[c].log IN
      \A i \in DOMAIN log :
        /\ Low(log[i]) =>
              IF i = Len(log) THEN thread[c].pc = "alert"
              ELSE log[i + 1] = FuelAlert(log[i][2])
        /\ log[i][1] = "FUEL_ALERT" =>
              i > 1 /\ Low(log[i - 1]) /\ log[i - 1][2] = log[i][2]
=============================================================================
