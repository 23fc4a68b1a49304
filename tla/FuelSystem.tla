----------------------------- MODULE FuelSystem -----------------------------
(***************************************************************************)
(* The system: the server process, its handlers and the client processes,  *)
(* which meet only on the network.                                         *)
(***************************************************************************)
EXTENDS Client, Server

VARIABLE user   \* of each connection, the client that opened it: a history

vars == <<netVars, serverVars, proc, user>>

Nobody == INVALID_SOCKET

ASSUME NobodyAssumption == Nobody \notin Clients

TypeOK ==
    /\ NetTypeOK
    /\ ServerTypeOK
    /\ ClientTypeOK
    /\ user \in [Conns -> Clients \cup {Nobody}]

Init ==
    /\ NetInit
    /\ ServerInit
    /\ ClientInit
    /\ user = [c \in Conns |-> Nobody]

LinkBreaks(c) ==
    "break" \in Faults /\ Break(c) /\ UNCHANGED <<serverVars, proc, user>>

ClientMoves(p) ==
    /\ ClientStep(p) \/ ClientCrash(p)
    /\ user' = [c \in Conns |-> IF proc'[p].sock = c THEN p ELSE user[c]]
    /\ UNCHANGED serverVars

ServerMoves == ServerNext /\ UNCHANGED <<proc, user>>

\* Nothing is left to do: the clients have ended and no handler runs.
Quiescent ==
    /\ \A p \in Clients : ClientEnded(p)
    /\ ~ProcessAlive \/ \A c \in Conns : thread[c].pc \in {"none", "done"}
    /\ UNCHANGED vars

Next ==
    \/ ServerMoves
    \/ \E p \in Clients : ClientMoves(p)
    \/ \E c \in Conns : LinkBreaks(c)
    \/ Quiescent

Spec == Init /\ [][Next]_vars

\* The operating systems schedule every client, every handler and the main
\* thread of the server.  Whether the network, a process or accept fails is
\* left open.
FairSpec ==
    /\ Spec
    /\ WF_vars(MainThread /\ UNCHANGED <<proc, user>>)
    /\ \A c \in Conns : WF_vars(Handler(c) /\ UNCHANGED <<proc, user>>)
    /\ \A p \in Clients : WF_vars(ClientStep(p) /\ ClientMoves(p))

-----------------------------------------------------------------------------
\* The fuel levels p has built packets for so far.
BuiltReadings(p) == {FuelAt(i) : i \in 0..proc[p].iter}

-----------------------------------------------------------------------------
\* Both sides agree about authentication: as soon as main goes on with its
\* flight on a connection, the handler at the other end, if its process still
\* runs, has accepted this connection and is on its way to the loop, in it
\* or on its way out of it, never back at the login.
AgreedOnAuthentication ==
    \A p \in Clients : LET c == proc[p].sock IN
        /\ proc[p].pc \in {"packet", "send", "log_send", "req_send",
                           "resp_header", "resp_data", "got_data"}
        /\ c \in Conns
        => /\ thread[c].authOK
           /\ thread[c].pc \notin {"none", "spawned", "log_connect", "auth_header",
                                   "auth_token", "check_token", "auth_failed",
                                   "auth_close", "auth_disconnect"}

\* The dataset is an acknowledgement of the flight: since the handler works
\* through its stream in order, a client that holds the dataset knows that
\* every packet it has logged as sent on this connection is in the server's
\* log, in the order of the flight, none missing and none twice.
DatasetMeansLogged ==
    \A p \in Clients : LET c == proc[p].sock IN
        MainAt(p, "got_data") =>
            LET sends == SendRows(p)
            IN LoggedReadings(c) = [i \in DOMAIN sends |-> sends[i][2]]

\* A retry delivers no reading twice (REQ-COM-030 with REQ-LOG-010): over all
\* the connections an aircraft has used, the handlers have logged each of its
\* readings at most once, and none that it has not reported.
LoggedAtMostOnce ==
    \A p \in Clients :
        LET mine == {c \in Conns : user[c] = p}
            logged == UNION {{<<c, i>> : i \in DOMAIN LoggedReadings(c)} : c \in mine}
        IN /\ \A e \in logged : LoggedReadings(e[1])[e[2]] \in BuiltReadings(p)
           /\ \A e, f \in logged :
                e # f /\ BurnRate > 0 =>
                    LoggedReadings(e[1])[e[2]] # LoggedReadings(f[1])[f[2]]

\* flightComplete (REQ-STM-030): a handler enters DISCONNECTED, once it has
\* served a client, only after the whole flight has been logged.
DisconnectedOnlyAfterFlight ==
    [][\A c \in Conns :
         thread[c].sm # "DISCONNECTED" /\ thread'[c].sm = "DISCONNECTED" /\ thread[c].authOK
           => Len(LoggedReadings(c)) = NumPackets]_vars

\* Every client process ends (REQ-COM-030 asks it to keep trying, never to
\* hang), whatever fails and whenever: no send, recv or connect of its waits
\* for a server that has stopped answering.
EveryClientEnds == \A p \in Clients : <>ClientEnded(p)

\* Never reached the server: main came up before it listened, and gave up.
NeverConnected(p) == ClientEnded(p) /\ proc[p].exitCode = 2

\* When nothing fails each aircraft that reaches the server completes its
\* flight: main returns 0 with the dataset, and its handler has logged all
\* the readings, every low one with its alert, and closed the connection.
FlightCompletes ==
    \A p \in Clients :
        <>(\/ NeverConnected(p)
           \/ /\ ClientEnded(p) /\ proc[p].exitCode = 0 /\ proc[p].dataset
              /\ \E c \in Conns :
                   /\ user[c] = p /\ thread[c].pc = "done"
                   /\ LoggedReadings(c) = [i \in 1..NumPackets |-> FuelAt(i - 1)]
                   /\ Alerted(c))

-----------------------------------------------------------------------------
(***************************************************************************)
(* The system implements Flight, for main_client.exe (OtherWsaRefs = 0):   *)
(* there a failed send leaves no connection for the rest of the flight.    *)
(***************************************************************************)
LoggedOf(p) ==
    LET mine == {c \in Conns : user[c] = p}
    IN IF mine = {} THEN <<>> ELSE LoggedReadings(CHOOSE c \in mine : TRUE)

Flights == INSTANCE Flight
    WITH Aircraft <- Clients,
         Readings <- [i \in 1..NumPackets |-> FuelAt(i - 1)],
         recorded <- [p \in Clients |-> Len(SendRows(p))],
         logged <- [p \in Clients |-> LoggedOf(p)],
         confirmed <- [p \in Clients |-> proc[p].dataset],
         over <- [p \in Clients |-> ClientEnded(p)]

\* The programs keep the promise of a flight (REQ-CLT-060 with REQ-LOG-010):
\* whatever fails and whenever, the server logs the readings in order, at most
\* one ahead of the client's own record, a client that holds the dataset has
\* recorded and the server has logged the whole flight, and every client ends.
KeepsFlightPromise == Flights!FairSpec
=============================================================================
