---------------------------- MODULE ClientProofs ----------------------------
(***************************************************************************)
(* Proofs about the client processes (module Client), for any number of    *)
(* clients, connections and packets, any fuel, any limit of retries and    *)
(* every choice of what may fail: what their steps keep, whatever server   *)
(* is at the other end.  OpenClientProofs and FuelSystemProofs put them    *)
(* together with one.                                                      *)
(*                                                                         *)
(* SocketOwned is not inductive alone: that a new connection has no owner  *)
(* needs that an identifier never used is open at neither end, and that    *)
(* connectToServer overwrites no socket needs that main comes there        *)
(* without one.  Types need that main enters sendAll with something to     *)
(* send, and reconnects only for a packet of its loop.                     *)
(***************************************************************************)
EXTENDS Client, NetworkProofs

-----------------------------------------------------------------------------
(***************************************************************************)
(* What main sends, and the rows it logs.                                  *)
(***************************************************************************)
\* The fuel a packet reports is never negative.
LEMMA FuelTypes == \A i \in 0..NumPackets : FuelAt(i) \in Nat
<1> SUFFICES ASSUME NEW i \in 0..NumPackets PROVE FuelAt(i) \in Nat
  OBVIOUS
<1>1. /\ InitialFuel \in Nat /\ BurnRate \in Nat /\ NumPackets \in Nat
      /\ NumPackets * BurnRate <= InitialFuel
  BY ClientAssumption
<1>2. i * BurnRate \in Nat /\ i * BurnRate <= NumPackets * BurnRate
  BY <1>1
<1> QED BY <1>1, <1>2 DEF FuelAt

LEMMA RequestTypes ==
    /\ AuthRequest(TOKEN) \in Seq(Cell) \ {<<>>}
    /\ DataRequest \in Seq(Cell) \ {<<>>}
    /\ \A n \in Nat : TelemetryPacket(n) \in Seq(Cell) \ {<<>>}
<1>1. AuthRequest(TOKEN) \in Seq(Cell) \ {<<>>}
  <2>1. Header("PKT_AUTH_REQUEST", 1) \in Cell /\ Bytes(TOKEN) \in Cell
    BY CellTypes, ClientAssumption DEF PacketTypes, Texts
  <2> QED BY <2>1 DEF AuthRequest
<1>2. DataRequest \in Seq(Cell) \ {<<>>}
  <2>1. Header("PKT_DATA_REQUEST", 0) \in Cell
    BY CellTypes DEF PacketTypes
  <2> QED BY <2>1 DEF DataRequest
<1>3. ASSUME NEW n \in Nat PROVE TelemetryPacket(n) \in Seq(Cell) \ {<<>>}
  <2>1. /\ Header("PKT_TELEMETRY", TelemetrySize + 1) \in Cell
        /\ Telemetry(n) \in Cell /\ Bytes("ext") \in Cell
    <3>1. TelemetrySize + 1 \in Nat BY DEF TelemetrySize
    <3> QED BY <3>1, CellTypes DEF PacketTypes, Texts
  <2> QED BY <2>1 DEF TelemetryPacket
<1> QED BY <1>1, <1>2, <1>3

LEMMA ClientRowTypes ==
    /\ {<<"CONNECT">>, <<"DISCONNECT">>, <<"ERROR">>} \subseteq ClientRow
    /\ \A n \in Nat : <<"SEND", n>> \in ClientRow
BY DEF ClientRow

-----------------------------------------------------------------------------
(***************************************************************************)
(* The inductive invariant.                                                *)
(***************************************************************************)
Sending     == {"log_connect", "auth_send", "send", "resend", "req_send"}
InIteration == {"send", "log_send", "send_failed", "cleanup", "resend"}

\* What main relies on at its place.
ClientFits(r) ==
    /\ r.pc \in {"winsock", "connect"} => r.sock \notin Conns
    /\ r.pc \in Sending => r.out # <<>>
    /\ r.reconnecting \/ r.pc \in InIteration => r.iter < NumPackets

ClientsFit == \A p \in Clients : ClientFits(proc[p])

\* An identifier that has served no connection has no client end.
UnusedIsClosed == \A c \in Conns : conn[c].link = "none" => ~conn[c].clientOpen

ClientInv == NetTypeOK /\ ClientTypeOK /\ ClientsFit /\ UnusedIsClosed /\ SocketOwned

-----------------------------------------------------------------------------
(***************************************************************************)
(* Steps of the network that leave the clients' ends alone.                *)
(***************************************************************************)
ClientEndsKept ==
    \A d \in Conns :
        /\ conn'[d].clientOpen = conn[d].clientOpen
        /\ conn'[d].link = "none" => conn[d].link = "none"

LEMMA KeptByUpdate ==
    ASSUME NetTypeOK, NEW c \in Conns, NEW q \in Connection, Update(c, q),
           q.clientOpen = conn[c].clientOpen,
           q.link = "none" => conn[c].link = "none"
    PROVE  NetTypeOK' /\ ClientEndsKept
BY DEF NetTypeOK, Update, ClientEndsKept

LEMMA KeptByNetwork ==
    ASSUME NetTypeOK, NEW c \in Conns, NEW cell \in Cell,
           \/ ClientSends(c, cell) \/ ClientTakes(c) \/ Break(c)
           \/ ServerAccepts(c) \/ ServerSends(c, cell) \/ ServerTakes(c)
           \/ ServerCloses(c) \/ UNCHANGED netVars
    PROVE  NetTypeOK' /\ ClientEndsKept
<1>0. conn[c] \in Connection
  BY DEF NetTypeOK
<1>1. CASE UNCHANGED netVars
  BY <1>1 DEF NetTypeOK, ClientEndsKept, netVars
<1>2. CASE \/ Update(c, ResetOf(conn[c]))
           \/ Update(c, [conn[c] EXCEPT !.up = Append(@, cell)])
           \/ Update(c, [conn[c] EXCEPT !.down = Append(@, cell)])
           \/ conn[c].up # <<>> /\ Update(c, [conn[c] EXCEPT !.up = Tail(@)])
           \/ conn[c].down # <<>> /\ Update(c, [conn[c] EXCEPT !.down = Tail(@)])
  <2>1. /\ [conn[c] EXCEPT !.up = Append(@, cell)].clientOpen = conn[c].clientOpen
        /\ [conn[c] EXCEPT !.up = Append(@, cell)].link = conn[c].link
        /\ [conn[c] EXCEPT !.down = Append(@, cell)].clientOpen = conn[c].clientOpen
        /\ [conn[c] EXCEPT !.down = Append(@, cell)].link = conn[c].link
        /\ [conn[c] EXCEPT !.up = Tail(@)].clientOpen = conn[c].clientOpen
        /\ [conn[c] EXCEPT !.up = Tail(@)].link = conn[c].link
        /\ [conn[c] EXCEPT !.down = Tail(@)].clientOpen = conn[c].clientOpen
        /\ [conn[c] EXCEPT !.down = Tail(@)].link = conn[c].link
    BY <1>0 DEF Connection
  <2> QED BY <1>0, <1>2, <2>1, ResetTypes, ConnectionTypes, KeptByUpdate
<1>3. CASE ServerAccepts(c)
  <2> DEFINE q == [conn[c] EXCEPT !.link = "open", !.serverOpen = TRUE]
  <2>1. q \in Connection /\ q.clientOpen = conn[c].clientOpen /\ q.link = "open"
    BY <1>0 DEF Connection, LinkStates
  <2>2. Update(c, q)
    BY <1>3 DEF ServerAccepts
  <2> HIDE DEF q
  <2> QED BY <2>1, <2>2, KeptByUpdate
<1>4. CASE ServerCloses(c)
  <2> DEFINE q == [conn[c] EXCEPT !.serverOpen = FALSE]
  <2>1. q \in Connection /\ q.clientOpen = conn[c].clientOpen /\ q.link = conn[c].link
    BY <1>0 DEF Connection
  <2>2. Update(c, q) \/ Update(c, ResetOf(q))
    BY <1>4 DEF ServerCloses
  <2> HIDE DEF q
  <2>3. /\ ResetOf(q) \in Connection
        /\ ResetOf(q).clientOpen = q.clientOpen /\ ResetOf(q).link = "broken"
    BY <2>1, ResetTypes
  <2> QED BY <2>1, <2>2, <2>3, KeptByUpdate
<1>5. CASE ClientSends(c, cell)
  BY <1>1, <1>2, <1>5 DEF ClientSends
<1>6. CASE ServerSends(c, cell)
  BY <1>1, <1>2, <1>6 DEF ServerSends
<1>7. CASE ClientTakes(c) \/ ServerTakes(c) \/ Break(c)
  BY <1>2, <1>7 DEF ClientTakes, ServerTakes, Break
<1> QED BY <1>1, <1>3, <1>4, <1>5, <1>6, <1>7

LEMMA KeptBySocketsGone ==
    ASSUME NetTypeOK, ServerSocketsGone PROVE NetTypeOK' /\ ClientEndsKept
<1>1. \A c \in Conns :
        /\ ResetOf(conn[c]) \in Connection
        /\ ResetOf(conn[c]).clientOpen = conn[c].clientOpen
        /\ ResetOf(conn[c]).link = "broken"
  BY ResetTypes DEF NetTypeOK
<1> QED BY <1>1 DEF ServerSocketsGone, NetTypeOK, ClientEndsKept

-----------------------------------------------------------------------------
(***************************************************************************)
(* The three kinds of steps a client takes: it keeps its socket (or its    *)
(* lack of one), it gets a connection, it gives its socket up.             *)
(***************************************************************************)
\* The record of a client after a step is one main can be in.
Fit(r) == r \in Process /\ ClientFits(r)

\* The socket a process has open is the one it knows.
Counted(r) ==
    r.sockets = IF r.pc \in {"exited", "crashed"} \/ r.sock = INVALID_SOCKET THEN 0 ELSE 1

SameSocket(s, t) == s.sock = t.sock /\ s.sockets = t.sockets

USE DEF SameSocket

LEMMA SocketsCounted == SocketOwned => \A p \in Clients : Counted(proc[p])
BY DEF SocketOwned, ClientEnded, Counted

LEMMA KeepsSocket ==
    ASSUME ClientInv, NEW p \in Clients, ~ClientEnded(p),
           NEW r, Becomes(p, r), Fit(r), r.pc \notin {"exited", "crashed"},
           \/ SameSocket(r, proc[p])
           \/ r.sock \notin Conns /\ proc[p].sock \notin Conns /\ Counted(r),
           NetTypeOK', ClientEndsKept
    PROVE  ClientInv'
<1>1. proc \in [Clients -> Process]
  BY DEF ClientInv, ClientTypeOK
<1>2. proc' \in [Clients -> Process] /\ proc'[p] = r /\ \A q \in Clients : q # p => proc'[q] = proc[q]
  BY <1>1 DEF Becomes, Fit
<1>3. ClientTypeOK' /\ ClientsFit' /\ UnusedIsClosed'
  BY <1>2 DEF ClientTypeOK, ClientsFit, ClientInv, Fit, UnusedIsClosed, ClientEndsKept
<1>4. \A q \in Clients :
        /\ ClientEnded(q)' = ClientEnded(q)
        /\ \/ proc'[q].sock = proc[q].sock
           \/ proc'[q].sock \notin Conns /\ proc[q].sock \notin Conns
  BY <1>2 DEF ClientEnded
<1>5. SocketOwned'
  <2>1. ASSUME NEW c \in Conns
        PROVE  conn'[c].clientOpen <=> \E q \in Clients : ~ClientEnded(q)' /\ proc'[q].sock = c
    BY <1>4 DEF ClientInv, SocketOwned, ClientEndsKept
  <2>2. ASSUME NEW q1 \in Clients, NEW q2 \in Clients, q1 # q2,
               ~ClientEnded(q1)', ~ClientEnded(q2)', proc'[q1].sock \in Conns
        PROVE  proc'[q1].sock # proc'[q2].sock
    BY <1>4, <2>2 DEF ClientInv, SocketOwned
  <2>3. \A q \in Clients : MainAt(q, "connect")' => proc'[q].sock \notin Conns
    BY <1>2, <1>3 DEF ClientsFit, ClientFits, MainAt
  <2>4. \A q \in Clients : Counted(proc'[q])
    <3>1. \A q \in Clients : Counted(proc[q]) BY SocketsCounted DEF ClientInv
    <3> QED BY <1>2, <3>1 DEF Counted, ClientEnded
  <2> QED BY <2>1, <2>2, <2>3, <2>4 DEF SocketOwned, Counted, ClientEnded
<1> QED BY <1>3, <1>5 DEF ClientInv

LEMMA GetsSocket ==
    ASSUME ClientInv, NEW p \in Clients, ~ClientEnded(p), proc[p].sock \notin Conns,
           NEW c \in Conns, ClientConnects(c),
           NEW r, Becomes(p, r), Fit(r), Counted(r),
           r.pc \notin {"exited", "crashed"}, r.sock = c
    PROVE  ClientInv'
<1>1. proc \in [Clients -> Process]
  BY DEF ClientInv, ClientTypeOK
<1>2. proc' \in [Clients -> Process] /\ proc'[p] = r /\ \A q \in Clients : q # p => proc'[q] = proc[q]
  BY <1>1 DEF Becomes, Fit
<1> DEFINE n == [conn[c] EXCEPT !.link = "backlog", !.clientOpen = TRUE]
<1>3. conn[c] \in Connection /\ conn[c].link = "none"
  BY DEF ClientInv, NetTypeOK, ClientConnects
<1>4. n \in Connection /\ n.clientOpen /\ n.link = "backlog"
  BY <1>3 DEF Connection, LinkStates
<1>5. conn' = [conn EXCEPT ![c] = n] /\ listening' = listening
  BY DEF ClientConnects, Update
<1> HIDE DEF n
<1>6. NetTypeOK'
  BY <1>4, <1>5 DEF NetTypeOK, ClientInv
<1>7. conn'[c].clientOpen /\ conn'[c].link # "none" /\ \A d \in Conns : d # c => conn'[d] = conn[d]
  BY <1>4, <1>5 DEF NetTypeOK, ClientInv
<1>8. ClientTypeOK' /\ ClientsFit' /\ UnusedIsClosed'
  BY <1>2, <1>7 DEF ClientTypeOK, ClientsFit, ClientInv, Fit, UnusedIsClosed
<1>9. \A q \in Clients : ~ClientEnded(q) => proc[q].sock # c
  BY <1>3 DEF ClientInv, SocketOwned, UnusedIsClosed
<1>10. \A q \in Clients : ClientEnded(q)' = ClientEnded(q)
  BY <1>2 DEF ClientEnded
<1>11. SocketOwned'
  <2>1. ASSUME NEW d \in Conns
        PROVE  conn'[d].clientOpen <=> \E q \in Clients : ~ClientEnded(q)' /\ proc'[q].sock = d
    <3>1. CASE d = c BY <1>2, <1>7, <1>10, <3>1
    <3>2. CASE d # c
      <4>1. conn[d].clientOpen <=> \E q \in Clients : ~ClientEnded(q) /\ proc[q].sock = d
        BY DEF ClientInv, SocketOwned
      <4>2. \A q \in Clients : proc'[q].sock = d <=> proc[q].sock = d
        BY <1>2, <3>2
      <4> QED BY <1>7, <1>10, <3>2, <4>1, <4>2
    <3> QED BY <3>1, <3>2
  <2>2. ASSUME NEW q1 \in Clients, NEW q2 \in Clients, q1 # q2,
               ~ClientEnded(q1)', ~ClientEnded(q2)', proc'[q1].sock \in Conns
        PROVE  proc'[q1].sock # proc'[q2].sock
    BY <1>2, <1>9, <1>10, <2>2 DEF ClientInv, SocketOwned
  <2>3. \A q \in Clients : MainAt(q, "connect")' => proc'[q].sock \notin Conns
    BY <1>2, <1>8 DEF ClientsFit, ClientFits, MainAt
  <2>4. \A q \in Clients : Counted(proc'[q])
    BY <1>2, SocketsCounted DEF ClientInv
  <2> QED BY <2>1, <2>2, <2>3, <2>4 DEF SocketOwned, Counted, ClientEnded
<1> QED BY <1>6, <1>8, <1>11 DEF ClientInv

\* The client's end of c is closed, or there was none.
Closes(c) ==
    IF c \in Conns
    THEN \E q \in Connection :
            /\ Update(c, q)
            /\ ~q.clientOpen /\ (q.link = "none" => conn[c].link = "none")
    ELSE UNCHANGED netVars

LEMMA ClosesWith ==
    ASSUME NetTypeOK, NEW c,
           IF c \in Conns THEN ClientCloses(c) \/ ClientDies(c) ELSE UNCHANGED netVars
    PROVE  Closes(c)
<1>1. CASE c \in Conns
  <2> DEFINE q == [conn[c] EXCEPT !.clientOpen = FALSE]
  <2>1. q \in Connection /\ ~q.clientOpen /\ q.link = conn[c].link
    BY <1>1 DEF NetTypeOK, Connection
  <2>2. Update(c, q) \/ Update(c, ResetOf(q))
    BY <1>1 DEF ClientCloses, ClientDies
  <2> HIDE DEF q
  <2>3. /\ ResetOf(q) \in Connection
        /\ ResetOf(q).clientOpen = q.clientOpen /\ ResetOf(q).link = "broken"
    BY <2>1, ResetTypes
  <2> QED BY <1>1, <2>1, <2>2, <2>3 DEF Closes
<1>2. CASE c \notin Conns
  BY <1>2 DEF Closes
<1> QED BY <1>1, <1>2

LEMMA GivesSocketUp ==
    ASSUME ClientInv, NEW p \in Clients, ~ClientEnded(p), Closes(proc[p].sock),
           NEW r, Becomes(p, r), Fit(r), Counted(r),
           r.sock \notin Conns \/ r.pc \in {"exited", "crashed"}
    PROVE  ClientInv'
<1> DEFINE c == proc[p].sock
<1>1. proc \in [Clients -> Process] /\ conn \in [Conns -> Connection]
  BY DEF ClientInv, ClientTypeOK, NetTypeOK
<1>2. proc' \in [Clients -> Process] /\ proc'[p] = r /\ \A q \in Clients : q # p => proc'[q] = proc[q]
  BY <1>1 DEF Becomes, Fit
<1>3. /\ NetTypeOK'
      /\ c \in Conns => ~conn'[c].clientOpen
      /\ \A d \in Conns : d # c => conn'[d] = conn[d]
      /\ \A d \in Conns : conn'[d].link = "none" => conn[d].link = "none"
  <2>1. CASE c \notin Conns
    BY <2>1 DEF Closes, netVars, ClientInv, NetTypeOK
  <2>2. CASE c \in Conns
    <3>1. PICK q \in Connection :
            /\ Update(c, q)
            /\ ~q.clientOpen /\ (q.link = "none" => conn[c].link = "none")
      BY <2>2 DEF Closes
    <3> QED BY <1>1, <2>2, <3>1 DEF Update, ClientInv, NetTypeOK
  <2> QED BY <2>1, <2>2
<1>4. ClientTypeOK' /\ ClientsFit'
  BY <1>2 DEF ClientTypeOK, ClientsFit, ClientInv, Fit
<1>5. UnusedIsClosed'
  BY <1>3 DEF ClientInv, UnusedIsClosed
<1>6. \A q \in Clients : q # p => ClientEnded(q)' = ClientEnded(q)
  BY <1>2 DEF ClientEnded
<1>7. ~ClientEnded(p)' => proc'[p].sock \notin Conns
  BY <1>2 DEF ClientEnded
<1>8. \A q \in Clients : q # p /\ ~ClientEnded(q) /\ c \in Conns => proc[q].sock # c
  BY DEF ClientInv, SocketOwned
<1>9. SocketOwned'
  <2>1. ASSUME NEW d \in Conns
        PROVE  conn'[d].clientOpen <=> \E q \in Clients : ~ClientEnded(q)' /\ proc'[q].sock = d
    <3>1. CASE d = c
      BY <1>2, <1>3, <1>6, <1>7, <1>8, <3>1
    <3>2. CASE d # c
      <4>1. conn[d].clientOpen <=> \E q \in Clients : ~ClientEnded(q) /\ proc[q].sock = d
        BY DEF ClientInv, SocketOwned
      <4>2. conn[d].clientOpen <=> \E q \in Clients : q # p /\ ~ClientEnded(q) /\ proc[q].sock = d
        BY <3>2, <4>1
      <4> QED BY <1>2, <1>3, <1>6, <1>7, <3>2, <4>2
    <3> QED BY <3>1, <3>2
  <2>2. ASSUME NEW q1 \in Clients, NEW q2 \in Clients, q1 # q2,
               ~ClientEnded(q1)', ~ClientEnded(q2)', proc'[q1].sock \in Conns
        PROVE  proc'[q1].sock # proc'[q2].sock
    <3>1. q1 # p BY <1>7, <2>2
    <3>2. CASE q2 = p BY <1>7, <2>2, <3>2
    <3>3. CASE q2 # p BY <1>2, <1>6, <2>2, <3>1, <3>3 DEF ClientInv, SocketOwned
    <3> QED BY <3>2, <3>3
  <2>3. \A q \in Clients : MainAt(q, "connect")' => proc'[q].sock \notin Conns
    BY <1>2, <1>4 DEF ClientsFit, ClientFits, MainAt
  <2>4. \A q \in Clients : Counted(proc'[q])
    BY <1>2, SocketsCounted DEF ClientInv
  <2> QED BY <2>1, <2>2, <2>3, <2>4 DEF SocketOwned, Counted, ClientEnded
<1> QED BY <1>3, <1>4, <1>5, <1>9 DEF ClientInv
-----------------------------------------------------------------------------
(***************************************************************************)
(* What the steps of main are made of.                                     *)
(***************************************************************************)
Running == ClientPCs \ {"exited", "crashed"}

\* Places nothing is asked of but that a reconnect is within the loop.
PlainPCs == Running \ (Sending \cup InIteration \cup {"winsock", "connect"})

Steady(r) == r.reconnecting => r.iter < NumPackets

LEMMA AtClient ==
    ASSUME ClientInv, NEW p \in Clients
    PROVE  proc[p] \in Process /\ ClientFits(proc[p]) /\ Steady(proc[p])
BY DEF ClientInv, ClientTypeOK, ClientsFit, ClientFits, Steady

\* A row of the log and a place.
LEMMA WritingTypes ==
    ASSUME NEW r \in Process, NEW row \in ClientRow, NEW after \in ClientPCs
    PROVE  /\ Writing(r, row, after) \in Process
           /\ Writing(r, row, after).pc = after
           /\ SameSocket(Writing(r, row, after), r)
           /\ Writing(r, row, after).out = r.out
           /\ Writing(r, row, after).iter = r.iter
           /\ Writing(r, row, after).reconnecting = r.reconnecting
<1>1. Append(r.log, row) \in Seq(ClientRow) BY DEF Process
<1> QED BY <1>1 DEF Writing, Process

\* main goes on with its next packet.
LEMMA NextIterationFits ==
    ASSUME NEW r \in Process, r.iter < NumPackets
    PROVE  /\ Fit(NextIteration(r)) /\ SameSocket(NextIteration(r), r)
           /\ NextIteration(r).pc = "packet"
<1>1. r.iter + 1 \in 0..NumPackets BY ClientAssumption DEF Process
<1> QED BY <1>1 DEF NextIteration, Fit, ClientFits, Process, ClientPCs, Sending, InIteration

LEMMA ReturnFits ==
    ASSUME NEW r \in Process, Steady(r), NEW code \in 0..3
    PROVE  /\ Fit(ReturnCode(r, code)) /\ SameSocket(ReturnCode(r, code), r)
           /\ ReturnCode(r, code).pc = "leave"
BY DEF ReturnCode, Fit, ClientFits, Steady, Process, ClientPCs, Sending, InIteration

\* connectToServer or authenticate have failed.
LEMMA FailureFits ==
    ASSUME NEW r \in Process, Steady(r)
    PROVE  /\ Fit(NotConnected(r)) /\ SameSocket(NotConnected(r), r)
           /\ NotConnected(r).pc \in {"packet", "leave"}
           /\ Fit(Rejected(r)) /\ SameSocket(Rejected(r), r)
           /\ Rejected(r).pc \in {"packet", "leave"}
<1>1. CASE r.reconnecting
  <2>1. r.iter < NumPackets BY <1>1 DEF Steady
  <2> QED BY <1>1, <2>1, NextIterationFits DEF NotConnected, Rejected
<1>2. CASE ~r.reconnecting
  <2> DEFINE w == Writing(r, <<"ERROR">>, "leave")
  <2>1. w \in Process /\ SameSocket(w, r) /\ w.reconnecting = r.reconnecting
    BY ClientRowTypes, WritingTypes DEF ClientPCs
  <2>2. Steady(w) BY <1>2, <2>1 DEF Steady
  <2>3. NotConnected(r) = ReturnCode(r, 2) /\ Rejected(r) = ReturnCode(w, 3)
    BY <1>2 DEF NotConnected, Rejected
  <2> HIDE DEF w
  <2> QED BY <2>1, <2>2, <2>3, ReturnFits
<1> QED BY <1>1, <1>2

\* A step of main that leaves the network and its socket alone.
LEMMA LocalStep ==
    ASSUME ClientInv, NEW p \in Clients, ~ClientEnded(p), UNCHANGED netVars,
           NEW r, Becomes(p, r), Fit(r), r.pc \in Running,
           SameSocket(r, proc[p])
    PROVE  ClientInv'
<1>1. NetTypeOK' /\ ClientEndsKept
  BY DEF ClientInv, NetTypeOK, ClientEndsKept, netVars
<1> QED BY <1>1, KeepsSocket DEF Running

LEMMA WritesStep ==
    ASSUME ClientInv, NEW p \in Clients, ~ClientEnded(p),
           NEW row \in ClientRow, NEW after \in Running \ {"winsock", "connect"},
           GoesOn(p, after) \/ Writes(p, row, after),
           after \in Sending => proc[p].out # <<>>,
           after \in InIteration => proc[p].iter < NumPackets
    PROVE  ClientInv'
<1>1. proc[p] \in Process /\ Steady(proc[p]) BY AtClient
<1> DEFINE r == [proc[p] EXCEPT !.pc = after]
           w == Writing(proc[p], row, after)
<1>2. Fit(r) /\ SameSocket(r, proc[p]) /\ r.pc = after
  BY <1>1 DEF Fit, ClientFits, Steady, Process, Running
<1>3. Fit(w) /\ SameSocket(w, proc[p]) /\ w.pc = after
  <2>1. /\ w \in Process /\ w.pc = after /\ SameSocket(w, proc[p])
        /\ w.out = proc[p].out /\ w.iter = proc[p].iter
        /\ w.reconnecting = proc[p].reconnecting
    BY <1>1, WritingTypes DEF Running
  <2> HIDE DEF w
  <2> QED BY <1>1, <2>1 DEF Fit, ClientFits, Steady
<1>4. UNCHANGED netVars /\ (Becomes(p, r) \/ Becomes(p, w)) BY DEF GoesOn, Writes
<1> HIDE DEF r, w
<1> QED BY <1>2, <1>3, <1>4, LocalStep

\* One turn of sendAll: on to the next cell, the next place or the next packet.
LEMMA SendsStep ==
    ASSUME ClientInv, NEW p \in Clients, ~ClientEnded(p), proc[p].pc \in Sending,
           NEW after, SendsNext(p, after),
           \/ after = "next" /\ proc[p].iter < NumPackets
           \/ after \in PlainPCs
           \/ after = "log_send" /\ proc[p].iter < NumPackets
    PROVE  ClientInv'
<1>1. proc[p] \in Process /\ ClientFits(proc[p]) /\ Steady(proc[p]) BY AtClient
<1> DEFINE s == [proc[p] EXCEPT !.out = Tail(@)]
           t == [s EXCEPT !.pc = after]
<1>2. /\ proc[p].out \in Seq(Cell) /\ proc[p].out # <<>>
      /\ Head(proc[p].out) \in Cell /\ Tail(proc[p].out) \in Seq(Cell)
  BY <1>1, HeadTailProperties DEF Process, ClientFits
<1>3. /\ s \in Process /\ SameSocket(s, proc[p]) /\ s.pc = proc[p].pc
      /\ s.iter = proc[p].iter /\ s.reconnecting = proc[p].reconnecting
  BY <1>1, <1>2 DEF Process
<1>4. /\ proc[p].sock \in Conns
      /\ ClientSends(proc[p].sock, Head(proc[p].out))
      /\ Becomes(p, IF s.out # <<>> THEN s
                    ELSE IF after = "next" THEN NextIteration(s) ELSE t)
  BY DEF SendsNext
<1>5. NetTypeOK' /\ ClientEndsKept BY <1>2, <1>4, KeptByNetwork DEF ClientInv
<1> HIDE DEF s
<1>6. proc[p].pc \notin {"exited", "crashed"} BY DEF ClientEnded
<1>7. CASE s.out # <<>>
  <2>1. Fit(s) BY <1>1, <1>3, <1>7 DEF Fit, ClientFits
  <2>2. Becomes(p, s) BY <1>4, <1>7
  <2> QED BY <1>3, <1>5, <1>6, <2>1, <2>2, KeepsSocket
<1>8. CASE s.out = <<>> /\ after = "next"
  <2>1. Becomes(p, NextIteration(s)) /\ proc[p].iter < NumPackets
    BY <1>4, <1>8 DEF PlainPCs, Running, ClientPCs
  <2> QED BY <1>3, <1>5, <2>1, NextIterationFits, KeepsSocket
<1>9. CASE s.out = <<>> /\ after # "next"
  <2>1. /\ after \in ClientPCs
        /\ after \notin {"exited", "crashed", "winsock", "connect"} \cup Sending
        /\ after \in InIteration => proc[p].iter < NumPackets
    BY <1>9 DEF PlainPCs, Running, ClientPCs, Sending, InIteration
  <2>2. Fit(t) /\ t.pc = after /\ SameSocket(t, proc[p])
    BY <1>1, <1>3, <2>1 DEF Fit, ClientFits, Steady, Process
  <2>3. Becomes(p, t) BY <1>4, <1>9
  <2> HIDE DEF t
  <2> QED BY <1>5, <2>1, <2>2, <2>3, KeepsSocket
<1> QED BY <1>7, <1>8, <1>9

LEMMA ReadsHeaderStep ==
    ASSUME ClientInv, NEW p \in Clients, ~ClientEnded(p),
           NEW type, NEW payload \in PlainPCs, NEW past \in PlainPCs, NEW refused \in PlainPCs,
           ReadsHeader(p, type, payload, past, refused)
    PROVE  ClientInv'
<1>1. proc[p] \in Process /\ Steady(proc[p]) BY AtClient
<1>2. PICK h \in HeadersIn(conn[proc[p].sock].down) :
        Becomes(p, [proc[p] EXCEPT !.size = h.num, !.buf = <<>>,
                      !.pc = IF h.text # type THEN refused
                             ELSE IF recvLength(h.num) > 0 THEN payload ELSE past])
  BY DEF ReadsHeader
<1>3. proc[p].sock \in Conns /\ ClientTakes(proc[p].sock) BY DEF ReadsHeader
<1>4. h.num \in Nat
  <2>1. conn[proc[p].sock].down \in Seq(Cell)
    BY <1>3 DEF ClientInv, NetTypeOK, Connection
  <2>2. h \in Cell BY <2>1, HeadersInCell
  <2> QED BY <2>2 DEF Cell
<1>5. NetTypeOK' /\ ClientEndsKept
  <2>1. Bytes("OK") \in Cell BY CellTypes DEF Texts
  <2> QED BY <1>3, <2>1, KeptByNetwork DEF ClientInv
<1>6. PICK after \in PlainPCs :
        Becomes(p, [proc[p] EXCEPT !.size = h.num, !.buf = <<>>, !.pc = after])
  BY <1>2
<1> DEFINE r == [proc[p] EXCEPT !.size = h.num, !.buf = <<>>, !.pc = after]
<1>7. Fit(r) /\ SameSocket(r, proc[p]) /\ r.pc = after
  <2>1. <<>> \in Seq(Cell) OBVIOUS
  <2> QED BY <1>1, <1>4, <2>1 DEF Fit, ClientFits, Steady, Process, PlainPCs, Running
<1>8. Becomes(p, r) BY <1>6
<1> HIDE DEF r
<1> QED BY <1>5, <1>7, <1>8, KeepsSocket DEF PlainPCs, Running

LEMMA ReadsPayloadStep ==
    ASSUME ClientInv, NEW p \in Clients, proc[p].pc \in PlainPCs,
           NEW after \in PlainPCs, ReadsPayload(p, after)
    PROVE  ClientInv'
<1>1. proc[p] \in Process /\ Steady(proc[p]) BY AtClient
<1> DEFINE cell == Head(conn[proc[p].sock].down)
<1>2. /\ proc[p].sock \in Conns /\ ClientTakes(proc[p].sock)
      /\ Becomes(p, [proc[p] EXCEPT !.buf = Append(@, cell),
                       !.pc = IF Len(proc[p].buf) + 1 = proc[p].size THEN after ELSE @])
  BY DEF ReadsPayload
<1>3. cell \in Cell
  <2>1. conn[proc[p].sock].down \in Seq(Cell) /\ conn[proc[p].sock].down # <<>>
    BY <1>2 DEF ClientInv, NetTypeOK, Connection, ClientTakes
  <2> QED BY <2>1, HeadTailProperties
<1> HIDE DEF cell
<1>4. NetTypeOK' /\ ClientEndsKept BY <1>2, <1>3, KeptByNetwork DEF ClientInv
<1>5. PICK place \in PlainPCs :
        Becomes(p, [proc[p] EXCEPT !.buf = Append(@, cell), !.pc = place])
  BY <1>2
<1> DEFINE r == [proc[p] EXCEPT !.buf = Append(@, cell), !.pc = place]
<1>6. Fit(r) /\ SameSocket(r, proc[p]) /\ r.pc = place
  <2>1. Append(proc[p].buf, cell) \in Seq(Cell) BY <1>1, <1>3 DEF Process
  <2> QED BY <1>1, <2>1 DEF Fit, ClientFits, Steady, Process, PlainPCs, Running
<1>7. Becomes(p, r) BY <1>5
<1>8. ~ClientEnded(p) BY DEF ClientEnded, PlainPCs, Running
<1> HIDE DEF r
<1> QED BY <1>4, <1>6, <1>7, <1>8, KeepsSocket DEF PlainPCs, Running

\* closesocket where there is a socket, and what main does then.
LEMMA SocketClosedStep ==
    ASSUME ClientInv, NEW p \in Clients, ~ClientEnded(p),
           NEW r \in Process, Steady(r), r.sockets = proc[p].sockets,
           r.pc \in {"exited", "connect"},
           SocketClosed(p, r)
    PROVE  ClientInv'
<1> DEFINE left == IF proc[p].sock = INVALID_SOCKET THEN r.sockets ELSE r.sockets - 1
           s    == [r EXCEPT !.sock = INVALID_SOCKET, !.sockets = left]
<1>1. Becomes(p, s) BY DEF SocketClosed
<1>2. Closes(proc[p].sock) BY ClosesWith DEF SocketClosed, ClientInv
<1>3. INVALID_SOCKET \notin Conns BY ClientAssumption
<1>4. left = 0 BY SocketsCounted DEF ClientInv, Counted, ClientEnded
<1> HIDE DEF left
<1>5. /\ s \in Process /\ s.sock = INVALID_SOCKET /\ s.sockets = 0 /\ s.pc = r.pc
      /\ s.iter = r.iter /\ s.reconnecting = r.reconnecting
  BY <1>4 DEF Process
<1> HIDE DEF s
<1>6. Fit(s) /\ Counted(s)
  BY <1>3, <1>5 DEF Fit, ClientFits, Steady, Sending, InIteration, Counted
<1> QED BY <1>1, <1>2, <1>3, <1>5, <1>6, GivesSocketUp

\* cleanup() of a socket.
LEMMA CleanedUpStep ==
    ASSUME ClientInv, NEW p \in Clients, ~ClientEnded(p),
           NEW r \in Process, Steady(r), r.sockets = proc[p].sockets,
           r.pc \in {"exited", "connect"},
           CleanedUp(p, r)
    PROVE  ClientInv'
<1> DEFINE s == [r EXCEPT !.wsa = IF @ > 0 THEN @ - 1 ELSE 0]
<1>1. SocketClosed(p, s) BY DEF CleanedUp
<1>2. (IF r.wsa > 0 THEN r.wsa - 1 ELSE 0) \in Nat BY DEF Process
<1>3. /\ s \in Process /\ s.sockets = r.sockets /\ s.pc = r.pc
      /\ s.iter = r.iter /\ s.reconnecting = r.reconnecting
  BY <1>2 DEF Process
<1> HIDE DEF s
<1>4. Steady(s) BY <1>3 DEF Steady
<1> QED BY <1>1, <1>3, <1>4, SocketClosedStep

\* The socket an attempt to connect closes first never had a connection: the
\* network is as before.
LEMMA PreviousClosed ==
    ASSUME ClientInv, NEW p \in Clients, ClosePrevious(p)
    PROVE  /\ MainAt(p, "connect") /\ proc[p].sock \notin Conns /\ UNCHANGED netVars
           /\ Becomes(p, [proc[p] EXCEPT !.sock = INVALID_SOCKET, !.sockets = 0])
<1>1. MainAt(p, "connect") /\ proc[p].sock # INVALID_SOCKET /\ SocketClosed(p, proc[p])
  BY DEF ClosePrevious, Trying
<1>2. proc[p] \in Process /\ ClientFits(proc[p]) BY AtClient
<1>3. proc[p].sock \notin Conns BY <1>1, <1>2 DEF MainAt, ClientFits
<1>4. proc[p].sockets = 1
  BY <1>1, SocketsCounted DEF ClientInv, Counted, MainAt
<1>5. proc[p].sockets - 1 = 0 BY <1>4
<1> QED BY <1>1, <1>3, <1>5 DEF SocketClosed
-----------------------------------------------------------------------------
(***************************************************************************)
(* The steps of main.                                                      *)
(***************************************************************************)
LEMMA ConnectingSteps ==
    ASSUME ClientInv, NEW p \in Clients, Connecting(p)
    PROVE  ClientInv'
<1> DEFINE r == proc[p]
<1>1. r \in Process /\ ClientFits(r) /\ Steady(r) BY AtClient
<1>2. /\ <<"CONNECT">> \in ClientRow /\ <<"ERROR">> \in ClientRow
      /\ "auth_send" \in Sending /\ "log_connect" \in Sending
      /\ "leave" \in ClientPCs /\ "connect" \in ClientPCs
  BY ClientRowTypes DEF Sending, ClientPCs
<1>3. CASE ClientStartup(p)
  <2>1. r.sock \notin Conns /\ ~ClientEnded(p) /\ UNCHANGED netVars
    BY <1>1, <1>3 DEF ClientStartup, MainAt, ClientFits, ClientEnded
  <2>2. CASE Becomes(p, [r EXCEPT !.wsa = @ + 1, !.pc = "connect"])
    <3> DEFINE s == [r EXCEPT !.wsa = @ + 1, !.pc = "connect"]
    <3>1. /\ s \in Process /\ SameSocket(s, r) /\ s.pc = "connect"
          /\ s.iter = r.iter /\ s.reconnecting = r.reconnecting
      <4>1. r.wsa + 1 \in Nat BY <1>1 DEF Process
      <4> QED BY <1>1, <1>2, <4>1 DEF Process
    <3>2. Becomes(p, s) BY <2>2
    <3> HIDE DEF s
    <3>3. Fit(s) BY <1>1, <2>1, <3>1 DEF Fit, ClientFits, Steady, Sending, InIteration
    <3> QED BY <2>1, <3>1, <3>2, <3>3, LocalStep DEF Running, ClientPCs
  <2>3. CASE Becomes(p, ReturnCode(Writing(r, <<"ERROR">>, "leave"), 1))
    <3> DEFINE w == Writing(r, <<"ERROR">>, "leave")
               s == ReturnCode(w, 1)
    <3>1. /\ w \in Process /\ SameSocket(w, r) /\ w.iter = r.iter
          /\ w.reconnecting = r.reconnecting
      BY <1>1, <1>2, WritingTypes
    <3> HIDE DEF w
    <3>2. Steady(w) BY <1>1, <3>1 DEF Steady
    <3>3. Fit(s) /\ SameSocket(s, r) /\ s.pc = "leave" BY <3>1, <3>2, ReturnFits
    <3>4. Becomes(p, s) BY <2>3 DEF w
    <3> HIDE DEF s
    <3> QED BY <2>1, <3>3, <3>4, LocalStep DEF Running, ClientPCs
  <2> QED BY <1>3, <2>2, <2>3 DEF ClientStartup
<1>4. CASE NoSocket(p)
  <2> DEFINE t == NotConnected(r)
  <2>1. ~ClientEnded(p) /\ UNCHANGED netVars /\ Becomes(p, t)
    BY <1>4 DEF NoSocket, Attempting, Trying, MainAt, ClientEnded
  <2>2. Fit(t) /\ SameSocket(t, r) /\ t.pc \in {"packet", "leave"}
    BY <1>1, FailureFits
  <2> HIDE DEF t
  <2> QED BY <2>1, <2>2, LocalStep DEF Running, ClientPCs
<1>5. CASE ConnectSucceeds(p)
  <2>1. /\ r.sock \notin Conns /\ r.sockets = 0 /\ ~ClientEnded(p)
        /\ r.sock = INVALID_SOCKET
    BY <1>1, <1>5, SocketsCounted
    DEF ConnectSucceeds, Attempting, Trying, MainAt, ClientFits, ClientEnded, ClientInv, Counted
  <2>2. PICK c \in Conns :
          /\ ClientConnects(c)
          /\ Becomes(p, [r EXCEPT !.sock = c, !.sockets = @ + 1, !.attempts = 0,
                           !.out = AuthRequest(TOKEN),
                           !.pc = IF r.reconnecting THEN "auth_send" ELSE "log_connect"])
    BY <1>5 DEF ConnectSucceeds
  <2> DEFINE one == r.sockets + 1
             s   == [r EXCEPT !.sock = c, !.sockets = one, !.attempts = 0,
                              !.out = AuthRequest(TOKEN),
                              !.pc = IF r.reconnecting THEN "auth_send" ELSE "log_connect"]
  <2>3. 0 \in 0..(MAX_RECONNECT_ATTEMPTS + 1) /\ one = 1 /\ one \in Nat
    BY <2>1, ClientAssumption
  <2>4. /\ s \in Process /\ s.sock = c /\ s.sockets = 1 /\ s.out # <<>>
        /\ s.pc \in {"auth_send", "log_connect"}
        /\ s.iter = r.iter /\ s.reconnecting = r.reconnecting
    <3> HIDE DEF one
    <3> QED BY <1>1, <2>3, RequestTypes DEF Process, ClientPCs
  <2>5. Becomes(p, s) BY <2>2
  <2> HIDE DEF s
  <2>6. Fit(s) /\ Counted(s)
    BY <1>1, <2>4, ClientAssumption DEF Fit, ClientFits, Steady, InIteration, Counted
  <2> QED BY <2>1, <2>2, <2>4, <2>5, <2>6, GetsSocket
<1>6. CASE ConnectFails(p)
  <2> DEFINE one == r.sockets + 1
             s == [r EXCEPT !.sock = Unconnected, !.sockets = one, !.attempts = @ + 1]
             t == Writing(s, <<"ERROR">>, "connect")
  <2>1. /\ r.sock \notin Conns /\ r.sockets = 0 /\ ~ClientEnded(p)
        /\ UNCHANGED netVars /\ Becomes(p, t) /\ r.attempts <= MAX_RECONNECT_ATTEMPTS
    BY <1>1, <1>6, SocketsCounted
    DEF ConnectFails, Attempting, Trying, MainAt, ClientFits, ClientEnded, ClientInv, Counted
  <2>2. r.attempts + 1 \in 0..(MAX_RECONNECT_ATTEMPTS + 1)
    BY <1>1, <2>1, ClientAssumption, SMTT(30) DEF Process
  <2>3. one = 1 BY <2>1
  <2>4. /\ s \in Process /\ s.sock = Unconnected /\ s.sockets = 1
        /\ s.iter = r.iter /\ s.reconnecting = r.reconnecting
    <3> HIDE DEF one
    <3> QED BY <1>1, <2>2, <2>3 DEF Process
  <2> HIDE DEF s
  <2>5. /\ t \in Process /\ t.sock = Unconnected /\ t.sockets = 1 /\ t.pc = "connect"
        /\ t.iter = r.iter /\ t.reconnecting = r.reconnecting
    BY <1>2, <2>4, WritingTypes
  <2> HIDE DEF t
  <2>6. Unconnected \notin Conns BY ClientAssumption
  <2>7. Fit(t) /\ Counted(t)
    BY <1>1, <2>5, <2>6, ClientAssumption
    DEF Fit, ClientFits, Steady, Sending, InIteration, Counted
  <2>8. NetTypeOK' /\ ClientEndsKept
    BY <2>1 DEF ClientInv, NetTypeOK, ClientEndsKept, netVars
  <2> QED BY <2>1, <2>5, <2>6, <2>7, <2>8, KeepsSocket
<1>7. CASE AttemptsExhausted(p)
  <2> DEFINE w == Writing(r, <<"ERROR">>, "connect")
             t == NotConnected(w)
  <2>1. ~ClientEnded(p) /\ UNCHANGED netVars /\ Becomes(p, t)
    BY <1>7 DEF AttemptsExhausted, MainAt, ClientEnded
  <2>2. /\ w \in Process /\ SameSocket(w, r) /\ w.iter = r.iter
        /\ w.reconnecting = r.reconnecting
    BY <1>1, <1>2, WritingTypes
  <2> HIDE DEF w
  <2>3. Steady(w) BY <1>1, <2>2 DEF Steady
  <2>4. Fit(t) /\ SameSocket(t, r) /\ t.pc \in {"packet", "leave"}
    BY <2>2, <2>3, FailureFits
  <2> HIDE DEF t
  <2> QED BY <2>1, <2>4, LocalStep DEF Running, ClientPCs
<1>8. CASE ClientLogConnect(p)
  <2>1. r.out # <<>> /\ ~ClientEnded(p) /\ Writes(p, <<"CONNECT">>, "auth_send")
    BY <1>1, <1>2, <1>8 DEF ClientLogConnect, MainAt, ClientFits, ClientEnded
  <2> QED BY <1>2, <2>1, WritesStep DEF Running, ClientPCs, InIteration
<1>9. CASE SendAuth(p)
  <2>1. r.pc \in Sending /\ ~ClientEnded(p) /\ SendsNext(p, "auth_ack")
    BY <1>2, <1>9 DEF SendAuth, MainAt, ClientEnded
  <2>2. "auth_ack" \in PlainPCs BY DEF PlainPCs, Running, ClientPCs, Sending, InIteration
  <2> QED BY <2>1, <2>2, SendsStep
<1>10. CASE AuthCallFails(p) \/ ReplyRejected(p) \/ ReadReplyFails(p)
  <2>1. /\ ~ClientEnded(p)
        /\ \/ GoesOn(p, "not_authenticated")
           \/ Writes(p, <<"ERROR">>, "not_authenticated")
    BY <1>10 DEF AuthCallFails, ReplyRejected, ReadReplyFails, MainAt, ClientEnded
  <2> QED BY <1>2, <2>1, WritesStep DEF Running, ClientPCs, Sending, InIteration
<1>11. CASE ReadAck(p)
  <2>1. ~ClientEnded(p)
        /\ ReadsHeader(p, "PKT_AUTH_ACK", "auth_reply", "check_reply", "not_authenticated")
    BY <1>11 DEF ReadAck, MainAt, ClientEnded
  <2>2. {"auth_reply", "check_reply", "not_authenticated"} \subseteq PlainPCs
    BY DEF PlainPCs, Running, ClientPCs, Sending, InIteration
  <2> QED BY <2>1, <2>2, ReadsHeaderStep
<1>12. CASE ReadReply(p)
  <2>1. r.pc = "auth_reply" /\ ReadsPayload(p, "check_reply")
    BY <1>12 DEF ReadReply, MainAt
  <2>2. {"auth_reply", "check_reply"} \subseteq PlainPCs
    BY DEF PlainPCs, Running, ClientPCs, Sending, InIteration
  <2> QED BY <2>1, <2>2, ReadsPayloadStep
<1>13. CASE ReplyOK(p)
  <2>1. ~ClientEnded(p) /\ UNCHANGED netVars BY <1>13 DEF ReplyOK, MainAt, ClientEnded
  <2>2. CASE ~r.reconnecting /\ Becomes(p, [r EXCEPT !.pc = "packet"])
    <3>1. GoesOn(p, "packet") BY <2>1, <2>2 DEF GoesOn
    <3> QED BY <1>2, <2>1, <3>1, WritesStep DEF Running, ClientPCs, Sending, InIteration
  <2>3. CASE /\ r.reconnecting
             /\ Becomes(p, [r EXCEPT !.pc = "resend",
                                     !.out = TelemetryPacket(FuelAt(r.iter))])
    <3> DEFINE s == [r EXCEPT !.pc = "resend", !.out = TelemetryPacket(FuelAt(r.iter))]
    <3>1. r.iter < NumPackets /\ r.iter \in 0..NumPackets
      BY <1>1, <2>3 DEF Steady, Process
    <3>2. TelemetryPacket(FuelAt(r.iter)) \in Seq(Cell) \ {<<>>}
      BY <3>1, FuelTypes, RequestTypes
    <3>3. /\ s \in Process /\ SameSocket(s, r) /\ s.pc = "resend" /\ s.out # <<>>
          /\ s.iter = r.iter
      BY <1>1, <3>2 DEF Process, ClientPCs
    <3>4. Becomes(p, s) BY <2>3
    <3> HIDE DEF s
    <3>5. Fit(s) BY <3>1, <3>3 DEF Fit, ClientFits
    <3> QED BY <2>1, <3>3, <3>4, <3>5, LocalStep DEF Running, ClientPCs
  <2> QED BY <1>13, <2>2, <2>3 DEF ReplyOK
<1>14. CASE NotAuthenticated(p)
  <2> DEFINE t == Rejected(r)
  <2>1. ~ClientEnded(p) /\ UNCHANGED netVars /\ Becomes(p, t)
    BY <1>14 DEF NotAuthenticated, MainAt, ClientEnded
  <2>2. Fit(t) /\ SameSocket(t, r) /\ t.pc \in {"packet", "leave"} BY <1>1, FailureFits
  <2> HIDE DEF t
  <2> QED BY <2>1, <2>2, LocalStep DEF Running, ClientPCs
<1>15. CASE ClosePrevious(p)
  <2>1. r.pc = "connect" /\ ~ClientEnded(p) /\ SocketClosed(p, r)
    BY <1>15 DEF ClosePrevious, Trying, MainAt, ClientEnded
  <2> QED BY <1>1, <2>1, SocketClosedStep
<1> QED BY <1>3, <1>4, <1>5, <1>6, <1>7, <1>8, <1>9, <1>10, <1>11, <1>12, <1>13, <1>14, <1>15
        DEF Connecting

LEMMA SendingTelemetrySteps ==
    ASSUME ClientInv, NEW p \in Clients, SendingTelemetry(p)
    PROVE  ClientInv'
<1> DEFINE r == proc[p]
<1>1. r \in Process /\ ClientFits(r) /\ Steady(r) BY AtClient
<1>2. <<"ERROR">> \in ClientRow /\ "packet" \in ClientPCs
  BY ClientRowTypes DEF ClientPCs
<1>3. r.pc \in InIteration => r.iter < NumPackets BY <1>1 DEF ClientFits
<1>4. CASE BuildPacket(p)
  <2> DEFINE s == [r EXCEPT !.out = TelemetryPacket(FuelAt(r.iter)), !.pc = "send"]
  <2>1. ~ClientEnded(p) /\ UNCHANGED netVars /\ Becomes(p, s) /\ r.iter < NumPackets
    BY <1>4 DEF BuildPacket, MainAt, ClientEnded
  <2>2. TelemetryPacket(FuelAt(r.iter)) \in Seq(Cell) \ {<<>>}
    <3>1. r.iter \in 0..NumPackets BY <1>1 DEF Process
    <3> QED BY <3>1, FuelTypes, RequestTypes
  <2>3. /\ s \in Process /\ SameSocket(s, r) /\ s.pc = "send" /\ s.out # <<>>
        /\ s.iter = r.iter
    BY <1>1, <2>2 DEF Process, ClientPCs
  <2> HIDE DEF s
  <2>4. Fit(s) BY <2>1, <2>3 DEF Fit, ClientFits
  <2> QED BY <2>1, <2>3, <2>4, LocalStep DEF Running, ClientPCs
<1>5. CASE SendPacket(p)
  <2>1. /\ r.pc \in Sending /\ r.iter < NumPackets /\ ~ClientEnded(p)
        /\ SendsNext(p, "log_send")
    BY <1>3, <1>5 DEF SendPacket, MainAt, ClientEnded, Sending, InIteration
  <2> QED BY <2>1, SendsStep
<1>6. CASE SendPacketFails(p) \/ LogSendFailed(p)
  <2>1. /\ r.iter < NumPackets /\ ~ClientEnded(p)
        /\ Writes(p, <<"ERROR">>, "send_failed") \/ Writes(p, <<"ERROR">>, "cleanup")
    BY <1>3, <1>6 DEF SendPacketFails, LogSendFailed, MainAt, ClientEnded, InIteration
  <2> QED BY <1>2, <2>1, WritesStep DEF Running, ClientPCs, Sending
<1>7. CASE LogSend(p) \/ ResendFails(p)
  <2> DEFINE sent   == Writing(r, <<"SEND", FuelAt(r.iter)>>, "packet")
             failed == Writing(r, <<"ERROR">>, "packet")
  <2>1. /\ r.iter < NumPackets /\ ~ClientEnded(p) /\ UNCHANGED netVars
        /\ Becomes(p, NextIteration(sent)) \/ Becomes(p, NextIteration(failed))
    BY <1>3, <1>7 DEF LogSend, ResendFails, MainAt, ClientEnded, InIteration
  <2>2. <<"SEND", FuelAt(r.iter)>> \in ClientRow
    <3>1. r.iter \in 0..NumPackets BY <1>1 DEF Process
    <3> QED BY <3>1, FuelTypes, ClientRowTypes
  <2>3. /\ sent \in Process /\ SameSocket(sent, r) /\ sent.iter = r.iter
        /\ failed \in Process /\ SameSocket(failed, r) /\ failed.iter = r.iter
    BY <1>1, <1>2, <2>2, WritingTypes
  <2> HIDE DEF sent, failed
  <2>4. /\ Fit(NextIteration(sent)) /\ SameSocket(NextIteration(sent), r)
        /\ NextIteration(sent).pc = "packet"
        /\ Fit(NextIteration(failed)) /\ SameSocket(NextIteration(failed), r)
        /\ NextIteration(failed).pc = "packet"
    BY <2>1, <2>3, NextIterationFits
  <2> QED BY <2>1, <2>4, LocalStep DEF Running, ClientPCs
<1>8. CASE CleanupAndReconnect(p)
  <2> DEFINE s == [r EXCEPT !.reconnecting = TRUE, !.pc = "connect"]
  <2>1. r.iter < NumPackets /\ ~ClientEnded(p) /\ CleanedUp(p, s)
    BY <1>3, <1>8 DEF CleanupAndReconnect, MainAt, ClientEnded, InIteration
  <2>2. s \in Process /\ s.pc = "connect" /\ s.iter = r.iter /\ s.sockets = r.sockets
    BY <1>1 DEF Process, ClientPCs
  <2> HIDE DEF s
  <2>3. Steady(s) BY <2>1, <2>2 DEF Steady
  <2> QED BY <2>1, <2>2, <2>3, CleanedUpStep
<1>9. CASE Resend(p)
  <2>1. /\ r.pc \in Sending /\ r.iter < NumPackets /\ ~ClientEnded(p)
        /\ SendsNext(p, "next")
    BY <1>3, <1>9 DEF Resend, MainAt, ClientEnded, Sending, InIteration
  <2> QED BY <2>1, SendsStep
<1> QED BY <1>4, <1>5, <1>6, <1>7, <1>8, <1>9 DEF SendingTelemetry

LEMMA FinishingSteps ==
    ASSUME ClientInv, NEW p \in Clients, Finishing(p)
    PROVE  ClientInv'
<1> DEFINE r == proc[p]
<1>1. r \in Process /\ ClientFits(r) /\ Steady(r) BY AtClient
<1>2. /\ <<"DISCONNECT">> \in ClientRow /\ <<"ERROR">> \in ClientRow
      /\ "leave" \in ClientPCs
  BY ClientRowTypes DEF ClientPCs
<1>3. {"bye", "resp_header", "resp_data", "got_data", "unexpected"} \subseteq PlainPCs
  BY DEF PlainPCs, Running, ClientPCs, Sending, InIteration
<1>4. CASE RequestDataset(p)
  <2> DEFINE s == [r EXCEPT !.pc = "req_send", !.out = DataRequest]
  <2>1. /\ ~ClientEnded(p) /\ UNCHANGED netVars
        /\ Becomes(p, [r EXCEPT !.pc = "bye"]) \/ Becomes(p, s)
    BY <1>4 DEF RequestDataset, MainAt, ClientEnded
  <2>2. CASE Becomes(p, [r EXCEPT !.pc = "bye"])
    <3>1. GoesOn(p, "bye") BY <2>1, <2>2 DEF GoesOn
    <3> QED BY <1>2, <2>1, <3>1, WritesStep DEF Running, ClientPCs, Sending, InIteration
  <2>3. CASE Becomes(p, s)
    <3>1. /\ s \in Process /\ SameSocket(s, r) /\ s.pc = "req_send" /\ s.out # <<>>
          /\ s.iter = r.iter /\ s.reconnecting = r.reconnecting
      BY <1>1, RequestTypes DEF Process, ClientPCs
    <3> HIDE DEF s
    <3>2. Fit(s) BY <1>1, <3>1 DEF Fit, ClientFits, Steady, InIteration
    <3> QED BY <2>1, <2>3, <3>1, <3>2, LocalStep DEF Running, ClientPCs
  <2> QED BY <2>1, <2>2, <2>3
<1>5. CASE SendRequest(p)
  <2>1. r.pc \in Sending /\ ~ClientEnded(p) /\ SendsNext(p, "resp_header")
    BY <1>5 DEF SendRequest, MainAt, ClientEnded, Sending
  <2> QED BY <1>3, <2>1, SendsStep
<1>6. CASE ReadResponse(p)
  <2>1. ~ClientEnded(p)
        /\ ReadsHeader(p, "PKT_DATA_RESPONSE", "resp_data", "got_data", "unexpected")
    BY <1>6 DEF ReadResponse, MainAt, ClientEnded
  <2> QED BY <1>3, <2>1, ReadsHeaderStep
<1>7. CASE ReadDataset(p)
  <2>1. r.pc = "resp_data" /\ ReadsPayload(p, "got_data")
    BY <1>7 DEF ReadDataset, MainAt
  <2> QED BY <1>3, <2>1, ReadsPayloadStep
<1>8. CASE RequestFails(p)
  <2>1. ~ClientEnded(p) /\ Writes(p, <<"ERROR">>, "bye")
    BY <1>8 DEF RequestFails, MainAt, ClientEnded
  <2> QED BY <1>2, <2>1, WritesStep DEF Running, ClientPCs, Sending, InIteration
<1>9. CASE GotDataset(p)
  <2> DEFINE s == [r EXCEPT !.dataset = TRUE, !.pc = "bye"]
  <2>1. ~ClientEnded(p) /\ UNCHANGED netVars /\ Becomes(p, s)
    BY <1>9 DEF GotDataset, MainAt, ClientEnded
  <2>2. /\ s \in Process /\ SameSocket(s, r) /\ s.pc = "bye"
        /\ s.iter = r.iter /\ s.reconnecting = r.reconnecting
    BY <1>1 DEF Process, ClientPCs
  <2> HIDE DEF s
  <2>3. Fit(s) BY <1>1, <2>2 DEF Fit, ClientFits, Steady, Sending, InIteration
  <2> QED BY <2>1, <2>2, <2>3, LocalStep DEF Running, ClientPCs
<1>10. CASE Bye(p)
  <2> DEFINE w == Writing(r, <<"DISCONNECT">>, "leave")
             t == ReturnCode(w, 0)
  <2>1. ~ClientEnded(p) /\ UNCHANGED netVars /\ Becomes(p, t)
    BY <1>10 DEF Bye, MainAt, ClientEnded
  <2>2. /\ w \in Process /\ SameSocket(w, r) /\ w.iter = r.iter
        /\ w.reconnecting = r.reconnecting
    BY <1>1, <1>2, WritingTypes
  <2> HIDE DEF w
  <2>3. Steady(w) BY <1>1, <2>2 DEF Steady
  <2>4. Fit(t) /\ SameSocket(t, r) /\ t.pc = "leave" BY <2>2, <2>3, ReturnFits
  <2> HIDE DEF t
  <2> QED BY <2>1, <2>4, LocalStep DEF Running, ClientPCs
<1>11. CASE Leave(p)
  <2> DEFINE s == [r EXCEPT !.pc = "exited"]
  <2>1. ~ClientEnded(p) /\ CleanedUp(p, s) BY <1>11 DEF Leave, MainAt, ClientEnded
  <2>2. /\ s \in Process /\ s.pc = "exited" /\ s.sockets = r.sockets
        /\ s.iter = r.iter /\ s.reconnecting = r.reconnecting
    BY <1>1 DEF Process, ClientPCs
  <2> HIDE DEF s
  <2>3. Steady(s) BY <1>1, <2>2 DEF Steady
  <2> QED BY <2>1, <2>2, <2>3, CleanedUpStep
<1> QED BY <1>4, <1>5, <1>6, <1>7, <1>8, <1>9, <1>10, <1>11 DEF Finishing

LEMMA CrashStep ==
    ASSUME ClientInv, NEW p \in Clients, ClientCrash(p)
    PROVE  ClientInv'
<1> DEFINE s == [proc[p] EXCEPT !.pc = "crashed", !.sockets = 0]
<1>1. proc[p] \in Process /\ Steady(proc[p]) BY AtClient
<1>2. ~ClientEnded(p) /\ Becomes(p, s) BY DEF ClientCrash
<1>3. Closes(proc[p].sock) BY ClosesWith DEF ClientCrash, ClientInv
<1>4. Fit(s) /\ Counted(s) /\ s.pc = "crashed"
  BY <1>1 DEF Fit, ClientFits, Steady, Process, ClientPCs, Sending, InIteration, Counted
<1> HIDE DEF s
<1> QED BY <1>2, <1>3, <1>4, GivesSocketUp

HIDE DEF SameSocket
-----------------------------------------------------------------------------
(***************************************************************************)
(* The server, and the specification.                                      *)
(***************************************************************************)
\* Whatever the server and the link do, the clients' records and their ends
\* of the connections stay as they are.
LEMMA EnvStep ==
    ASSUME ClientInv, UNCHANGED proc, NetTypeOK', ClientEndsKept
    PROVE  ClientInv'
<1>1. ClientTypeOK' /\ ClientsFit' /\ UnusedIsClosed'
  BY DEF ClientInv, ClientTypeOK, ClientsFit, UnusedIsClosed, ClientEndsKept
<1>2. \A q \in Clients : ClientEnded(q)' = ClientEnded(q) /\ MainAt(q, "connect")' = MainAt(q, "connect")
  BY DEF ClientEnded, MainAt
<1>3. SocketOwned' BY <1>2 DEF ClientInv, SocketOwned, ClientEndsKept
<1> QED BY <1>1, <1>3 DEF ClientInv

\* The invariant holds before anything has happened.
LEMMA ClientInitially == NetInit /\ ClientInit => ClientInv
<1> SUFFICES ASSUME NetInit, ClientInit PROVE ClientInv
  OBVIOUS
<1> DEFINE unused == [link |-> "none", up |-> <<>>, down |-> <<>>,
                      clientOpen |-> FALSE, serverOpen |-> FALSE]
           fresh == [pc |-> "winsock", sock |-> INVALID_SOCKET, sockets |-> 0, attempts |-> 0,
                     wsa |-> OtherWsaRefs, reconnecting |-> FALSE, iter |-> 0,
                     out |-> <<>>, size |-> 0, buf |-> <<>>, dataset |-> FALSE,
                     exitCode |-> 0, log |-> <<>>]
<1>1. /\ listening = FALSE /\ conn = [c \in Conns |-> unused]
      /\ proc = [p \in Clients |-> fresh]
  BY DEF NetInit, ClientInit
<1>2. unused \in Connection /\ ~unused.clientOpen
  BY DEF Connection, LinkStates
<1>3. fresh \in Process
  BY ClientAssumption DEF Process, ClientPCs
<1>4. /\ fresh.sock \notin Conns /\ ClientFits(fresh) /\ fresh.pc = "winsock"
      /\ fresh.sock = INVALID_SOCKET /\ fresh.sockets = 0
  BY ClientAssumption DEF ClientFits, Sending, InIteration
<1> HIDE DEF unused, fresh
<1>5. NetTypeOK /\ UnusedIsClosed BY <1>1, <1>2 DEF NetTypeOK, UnusedIsClosed
<1>6. ClientTypeOK /\ ClientsFit BY <1>1, <1>3, <1>4 DEF ClientTypeOK, ClientsFit
<1>7. SocketOwned BY <1>1, <1>2, <1>4 DEF SocketOwned
<1> QED BY <1>5, <1>6, <1>7 DEF ClientInv

\* Every step of a client keeps it.
LEMMA ClientSteps ==
    ASSUME ClientInv, NEW p \in Clients, ClientStep(p) \/ ClientCrash(p)
    PROVE  ClientInv'
BY ConnectingSteps, SendingTelemetrySteps, FinishingSteps, CrashStep DEF ClientStep

-----------------------------------------------------------------------------
(***************************************************************************)
(* What a step of a client touches: its own record, and one operation on   *)
(* its own socket.                                                         *)
(***************************************************************************)
OnOwnSocket(p) ==
    \/ UNCHANGED netVars
    \/ \E c \in Conns : ClientConnects(c)
    \/ /\ proc[p].sock \in Conns
       /\ \E cell \in Cell :
            \/ ClientSends(proc[p].sock, cell) \/ ClientTakes(proc[p].sock)
            \/ ClientCloses(proc[p].sock) \/ ClientDies(proc[p].sock)

OwnRecord(p) == \E r : Becomes(p, r)

\* So do the parts a step is made of.
LEMMA PartsOwn ==
    ASSUME ClientInv, NEW p \in Clients
    PROVE  /\ \A after : GoesOn(p, after) => OnOwnSocket(p) /\ OwnRecord(p)
           /\ \A row, after : Writes(p, row, after) => OnOwnSocket(p) /\ OwnRecord(p)
           /\ \A after : proc[p].pc \in Sending /\ SendsNext(p, after) => OnOwnSocket(p) /\ OwnRecord(p)
           /\ \A type, payload, past, refused :
                ReadsHeader(p, type, payload, past, refused) => OnOwnSocket(p) /\ OwnRecord(p)
           /\ \A after : ReadsPayload(p, after) => OnOwnSocket(p) /\ OwnRecord(p)
           /\ \A after : SocketClosed(p, after) => OnOwnSocket(p) /\ OwnRecord(p)
<1>1. Bytes("OK") \in Cell BY CellTypes DEF Texts
<1>2. ASSUME proc[p].pc \in Sending PROVE Head(proc[p].out) \in Cell
  <2>1. proc[p].out \in Seq(Cell) /\ proc[p].out # <<>>
    BY <1>2, AtClient DEF ClientFits, Process
  <2> QED BY <2>1, HeadTailProperties
<1>3. \A after : GoesOn(p, after) => OnOwnSocket(p) /\ OwnRecord(p)
  BY DEF GoesOn, OnOwnSocket, OwnRecord
<1>4. \A row, after : Writes(p, row, after) => OnOwnSocket(p) /\ OwnRecord(p)
  BY DEF Writes, OnOwnSocket, OwnRecord
<1>5. \A after : proc[p].pc \in Sending /\ SendsNext(p, after) => OnOwnSocket(p) /\ OwnRecord(p)
  BY <1>2 DEF SendsNext, OnOwnSocket, OwnRecord
<1>6. \A type, payload, past, refused :
        ReadsHeader(p, type, payload, past, refused) => OnOwnSocket(p) /\ OwnRecord(p)
  BY <1>1 DEF ReadsHeader, OnOwnSocket, OwnRecord
<1>7. \A after : ReadsPayload(p, after) => OnOwnSocket(p) /\ OwnRecord(p)
  BY <1>1 DEF ReadsPayload, OnOwnSocket, OwnRecord
<1>8. \A after : SocketClosed(p, after) => OnOwnSocket(p) /\ OwnRecord(p)
  BY <1>1 DEF SocketClosed, OnOwnSocket, OwnRecord
<1> QED BY <1>3, <1>4, <1>5, <1>6, <1>7, <1>8

LEMMA ClientLocal ==
    ASSUME ClientInv, NEW p \in Clients, ClientStep(p) \/ ClientCrash(p)
    PROVE  OnOwnSocket(p) /\ OwnRecord(p)
<1>1. CASE ClientCrash(p)
  <2>1. Bytes("OK") \in Cell BY CellTypes DEF Texts
  <2> QED BY <1>1, <2>1 DEF ClientCrash, OnOwnSocket, OwnRecord
<1>2. CASE ConnectSucceeds(p)
  BY <1>2 DEF ConnectSucceeds, OnOwnSocket, OwnRecord
<1>3. CASE ClientStartup(p)
  BY <1>3 DEF ClientStartup, OnOwnSocket, OwnRecord
<1>4. CASE NoSocket(p) \/ ConnectFails(p) \/ AttemptsExhausted(p) \/ ClientLogConnect(p)
             \/ AuthCallFails(p) \/ ReadReplyFails(p) \/ ReplyRejected(p) \/ NotAuthenticated(p)
  BY <1>4, PartsOwn
  DEF NoSocket, ConnectFails, AttemptsExhausted, ClientLogConnect, AuthCallFails,
      ReadReplyFails, ReplyRejected, NotAuthenticated, OnOwnSocket, OwnRecord
<1>5. CASE ReplyOK(p)
  BY <1>5 DEF ReplyOK, OnOwnSocket, OwnRecord
<1>6. CASE SendAuth(p) \/ ReadAck(p) \/ ReadReply(p)
  BY <1>6, PartsOwn DEF SendAuth, ReadAck, ReadReply, MainAt, Sending
<1>7. CASE BuildPacket(p) \/ SendPacketFails(p) \/ LogSend(p) \/ LogSendFailed(p) \/ ResendFails(p)
  BY <1>7, PartsOwn
  DEF BuildPacket, SendPacketFails, LogSend, LogSendFailed, ResendFails, OnOwnSocket, OwnRecord
<1>8. CASE SendPacket(p) \/ CleanupAndReconnect(p) \/ Resend(p)
  BY <1>8, PartsOwn DEF SendPacket, CleanupAndReconnect, CleanedUp, Resend, MainAt, Sending
<1>9. CASE RequestDataset(p) \/ RequestFails(p) \/ GotDataset(p) \/ Bye(p)
  BY <1>9, PartsOwn
  DEF RequestDataset, RequestFails, GotDataset, Bye, OnOwnSocket, OwnRecord
<1>10. CASE SendRequest(p) \/ ReadResponse(p) \/ ReadDataset(p) \/ Leave(p)
  BY <1>10, PartsOwn DEF SendRequest, ReadResponse, ReadDataset, Leave, CleanedUp, MainAt, Sending
<1>11. CASE ClosePrevious(p)
  BY <1>11, PartsOwn DEF ClosePrevious
<1> QED
  BY <1>1, <1>2, <1>3, <1>4, <1>5, <1>6, <1>7, <1>8, <1>9, <1>10, <1>11
  DEF ClientStep, Connecting, SendingTelemetry, Finishing

-----------------------------------------------------------------------------
(***************************************************************************)
(* main_client.exe makes one connection: nothing else in its process has   *)
(* called WSAStartup, so after the cleanup that follows a failed send      *)
(* socket() fails, and main goes on without a connection.                  *)
(***************************************************************************)
OneConnection(r) ==
    /\ r.wsa <= 1
    /\ r.wsa = 0 => r.sock \notin Conns
    /\ r.reconnecting => r.wsa = 0
    /\ r.pc = "winsock" => r.wsa = 0 /\ ~r.reconnecting

\* A step that neither starts Winsock nor cleans it up, nor connects.
SameSession(r, s) ==
    /\ s.wsa = r.wsa
    /\ s.sock = r.sock \/ s.sock \notin Conns
    /\ s.reconnecting => r.reconnecting
    /\ s.pc # "winsock"

LEMMA SameSessionKeeps ==
    ASSUME NEW r, NEW s, OneConnection(r), SameSession(r, s) PROVE OneConnection(s)
BY DEF OneConnection, SameSession

\* The parts main's steps are made of are such steps.
LEMMA PartsSameSession ==
    ASSUME NEW r \in Process
    PROVE  /\ \A row, after : after # "winsock" => SameSession(r, Writing(r, row, after))
           /\ \A after : after # "winsock" => SameSession(r, [r EXCEPT !.pc = after])
           /\ SameSession(r, NextIteration(r))
           /\ \A code : SameSession(r, ReturnCode(r, code))
           /\ SameSession(r, NotConnected(r)) /\ SameSession(r, Rejected(r))
<1>1. /\ \A row, after : after # "winsock" => SameSession(r, Writing(r, row, after))
      /\ \A after : after # "winsock" => SameSession(r, [r EXCEPT !.pc = after])
  BY DEF Process, SameSession, Writing
<1>2. SameSession(r, NextIteration(r)) /\ \A code : SameSession(r, ReturnCode(r, code))
  BY DEF Process, SameSession, NextIteration, ReturnCode
<1>3. \A row, code : SameSession(r, ReturnCode(Writing(r, row, "leave"), code))
  BY DEF Process, SameSession, ReturnCode, Writing
<1> QED BY <1>1, <1>2, <1>3 DEF NotConnected, Rejected

\* Where a step leaves the client: in the session it was in, or in one of the
\* four steps that begin and end one.
LEMMA SessionSteps ==
    ASSUME ClientInv, NEW p \in Clients, ClientStep(p) \/ ClientCrash(p)
    PROVE  \/ SameSession(proc[p], proc'[p])
           \/ ClientStartup(p) \/ ConnectSucceeds(p) \/ CleanupAndReconnect(p) \/ Leave(p)
<1>1. /\ proc \in [Clients -> Process] /\ proc[p] \in Process
      /\ \A r : Becomes(p, r) => proc'[p] = r
  BY AtClient DEF ClientInv, ClientTypeOK, Becomes
<1> DEFINE r == proc[p]
<1>2. CASE NoSocket(p)
  BY <1>1, <1>2, PartsSameSession DEF NoSocket
<1>3. CASE ConnectFails(p)
  <2>1. proc'[p] = Writing([r EXCEPT !.sock = Unconnected, !.sockets = @ + 1, !.attempts = @ + 1],
                           <<"ERROR">>, "connect")
    BY <1>1, <1>3 DEF ConnectFails
  <2> QED BY <1>1, <2>1, ClientAssumption DEF Process, Writing, SameSession
<1>4. CASE AttemptsExhausted(p)
  <2> DEFINE s == Writing(r, <<"ERROR">>, "connect")
  <2>1. /\ s \in Process /\ s.wsa = r.wsa /\ s.sock = r.sock /\ s.reconnecting = r.reconnecting
    <3>1. s \in Process BY <1>1, WritingTypes, ClientRowTypes DEF ClientPCs
    <3> QED BY <1>1, <3>1 DEF Process, Writing
  <2>2. proc'[p] = NotConnected(s) BY <1>1, <1>4 DEF AttemptsExhausted
  <2> HIDE DEF s
  <2>3. SameSession(s, NotConnected(s)) BY <2>1, PartsSameSession
  <2> QED BY <2>1, <2>2, <2>3 DEF SameSession
<1>5. CASE \/ ClientLogConnect(p) \/ AuthCallFails(p) \/ ReadReplyFails(p) \/ ReplyRejected(p)
           \/ SendPacketFails(p) \/ LogSendFailed(p) \/ RequestFails(p)
  BY <1>1, <1>5, PartsSameSession
  DEF ClientLogConnect, AuthCallFails, ReadReplyFails, ReplyRejected, SendPacketFails,
      LogSendFailed, RequestFails, Writes, GoesOn
<1>6. CASE NotAuthenticated(p)
  BY <1>1, <1>6, PartsSameSession DEF NotAuthenticated
<1>7. ASSUME NEW after, after # "winsock", SendsNext(p, after)
      PROVE  SameSession(proc[p], proc'[p])
  <2> DEFINE s == [r EXCEPT !.out = Tail(@)]
  <2>1. r.pc # "winsock"
    BY <1>7 DEF SendsNext, ClientInv, ClientsFit, ClientFits
  <2>2. /\ SameSession(r, s)
        /\ SameSession(r, NextIteration(s))
        /\ SameSession(r, [s EXCEPT !.pc = after])
    BY <1>1, <1>7, <2>1 DEF Process, NextIteration, SameSession
  <2>3. proc'[p] = IF s.out # <<>> THEN s
                   ELSE IF after = "next" THEN NextIteration(s) ELSE [s EXCEPT !.pc = after]
    BY <1>1, <1>7 DEF SendsNext
  <2> HIDE DEF s
  <2> QED BY <2>2, <2>3
<1>8. CASE SendAuth(p) \/ SendPacket(p) \/ Resend(p) \/ SendRequest(p)
  BY <1>7, <1>8 DEF SendAuth, SendPacket, Resend, SendRequest
<1>9. ASSUME NEW type, NEW payload \in ClientPCs \ {"winsock"}, NEW past \in ClientPCs \ {"winsock"},
             NEW refused \in ClientPCs \ {"winsock"}, ReadsHeader(p, type, payload, past, refused)
      PROVE  SameSession(proc[p], proc'[p])
  BY <1>1, <1>9 DEF ReadsHeader, SameSession, Process
<1>10. ASSUME NEW after \in ClientPCs \ {"winsock"}, ReadsPayload(p, after)
      PROVE  SameSession(proc[p], proc'[p])
  <2>1. r.pc # "winsock"
    BY <1>10 DEF ReadsPayload, ClientInv, ClientsFit, ClientFits
  <2> QED BY <1>1, <1>10, <2>1 DEF ReadsPayload, SameSession, Process
<1>11. CASE ReadAck(p) \/ ReadReply(p) \/ ReadResponse(p) \/ ReadDataset(p)
  BY <1>9, <1>10, <1>11 DEF ReadAck, ReadReply, ReadResponse, ReadDataset, ClientPCs
<1>12. CASE ReplyOK(p)
  <2>1. /\ SameSession(r, [r EXCEPT !.pc = "packet"])
        /\ \A out : SameSession(r, [r EXCEPT !.pc = "resend", !.out = out])
    BY <1>1 DEF SameSession, Process
  <2> QED BY <1>1, <1>12, <2>1 DEF ReplyOK
<1>13. CASE BuildPacket(p) \/ RequestDataset(p) \/ GotDataset(p)
  BY <1>1, <1>13 DEF BuildPacket, RequestDataset, GotDataset, SameSession, Process
<1>14. CASE LogSend(p) \/ ResendFails(p)
  <2>1. \A row : SameSession(r, NextIteration(Writing(r, row, "packet")))
    BY <1>1 DEF SameSession, NextIteration, Writing, Process
  <2> QED BY <1>1, <1>14, <2>1 DEF LogSend, ResendFails
<1>15. CASE Bye(p)
  <2>1. \A row : SameSession(r, ReturnCode(Writing(r, row, "leave"), 0))
    BY <1>1 DEF SameSession, ReturnCode, Writing, Process
  <2> QED BY <1>1, <1>15, <2>1 DEF Bye
<1>16. CASE ClientCrash(p)
  BY <1>1, <1>16 DEF ClientCrash, SameSession, Process
<1>17. CASE ClosePrevious(p)
  <2>1. r.pc = "connect" /\ proc'[p] = [r EXCEPT !.sock = INVALID_SOCKET, !.sockets = 0]
    BY <1>1, <1>17, PreviousClosed DEF MainAt
  <2> QED BY <1>1, <2>1, ClientAssumption DEF SameSession, Process
<1> QED
  BY <1>2, <1>3, <1>4, <1>5, <1>6, <1>8, <1>11, <1>12, <1>13, <1>14, <1>15, <1>16, <1>17
  DEF ClientStep, Connecting, SendingTelemetry, Finishing

LEMMA OneConnectionStep ==
    ASSUME OtherWsaRefs = 0, ClientInv, NEW p \in Clients, OneConnection(proc[p]),
           ClientStep(p) \/ ClientCrash(p)
    PROVE  OneConnection(proc'[p])
<1>1. /\ proc[p] \in Process /\ \A r : Becomes(p, r) => proc'[p] = r
  BY AtClient DEF ClientInv, ClientTypeOK, Becomes
<1>2. CASE SameSession(proc[p], proc'[p])
  BY <1>2, SameSessionKeeps
<1>3. CASE ClientStartup(p)
  <2>1. proc[p].pc = "winsock" /\ proc[p].sock \notin Conns
    BY <1>3, AtClient DEF ClientStartup, MainAt, ClientFits
  <2>2. CASE proc'[p] = [proc[p] EXCEPT !.wsa = @ + 1, !.pc = "connect"]
    <3>1. /\ proc'[p].wsa = proc[p].wsa + 1 /\ proc'[p].sock = proc[p].sock
          /\ proc'[p].reconnecting = proc[p].reconnecting /\ proc'[p].pc = "connect"
      BY <1>1, <2>2 DEF Process
    <3> QED BY <2>1, <3>1 DEF OneConnection
  <2>3. CASE proc'[p] = ReturnCode(Writing(proc[p], <<"ERROR">>, "leave"), 1)
    BY <1>1, <2>1, <2>3 DEF OneConnection, Process, ReturnCode, Writing
  <2> QED BY <1>1, <1>3, <2>2, <2>3 DEF ClientStartup
<1>4. CASE ConnectSucceeds(p)
  <2>1. PICK c \in Conns, pc \in {"auth_send", "log_connect"} :
          proc'[p] = [proc[p] EXCEPT !.sock = c, !.sockets = @ + 1, !.attempts = 0,
                                     !.out = AuthRequest(TOKEN), !.pc = pc]
    BY <1>1, <1>4 DEF ConnectSucceeds
  <2>2. /\ proc'[p].wsa = proc[p].wsa /\ proc'[p].pc # "winsock"
        /\ proc'[p].reconnecting = proc[p].reconnecting
    BY <1>1, <2>1 DEF Process
  <2>3. proc[p].wsa > 0 BY <1>4 DEF ConnectSucceeds
  <2> QED BY <1>1, <2>2, <2>3 DEF OneConnection, Process
<1>5. ASSUME NEW r \in Process, CleanedUp(p, r), r.wsa = proc[p].wsa,
             r.pc \in {"connect", "exited"}
      PROVE  OneConnection(proc'[p])
  <2> DEFINE left == IF r.wsa > 0 THEN r.wsa - 1 ELSE 0
  <2>1. PICK n : proc'[p] = [[r EXCEPT !.wsa = left] EXCEPT !.sock = INVALID_SOCKET, !.sockets = n]
    BY <1>1, <1>5 DEF CleanedUp, SocketClosed
  <2>2. left = 0 BY <1>5 DEF OneConnection, Process
  <2> HIDE DEF left
  <2>3. proc'[p].sock = INVALID_SOCKET /\ proc'[p].wsa = 0 /\ proc'[p].pc = r.pc
    BY <1>5, <2>1, <2>2 DEF Process
  <2> QED BY <1>5, <2>3, ClientAssumption DEF OneConnection
<1>6. CASE CleanupAndReconnect(p) \/ Leave(p)
  <2>1. /\ [proc[p] EXCEPT !.reconnecting = TRUE, !.pc = "connect"] \in Process
        /\ [proc[p] EXCEPT !.reconnecting = TRUE, !.pc = "connect"].wsa = proc[p].wsa
        /\ [proc[p] EXCEPT !.reconnecting = TRUE, !.pc = "connect"].pc = "connect"
        /\ [proc[p] EXCEPT !.pc = "exited"] \in Process
        /\ [proc[p] EXCEPT !.pc = "exited"].wsa = proc[p].wsa
        /\ [proc[p] EXCEPT !.pc = "exited"].pc = "exited"
    BY <1>1 DEF Process, ClientPCs
  <2> QED BY <1>5, <1>6, <2>1 DEF CleanupAndReconnect, Leave
<1> QED BY <1>2, <1>3, <1>4, <1>6, SessionSteps

LEMMA OneConnectionInitially ==
    OtherWsaRefs = 0 /\ ClientInit => \A p \in Clients : OneConnection(proc[p])
BY ClientAssumption DEF ClientInit, OneConnection

-----------------------------------------------------------------------------
(***************************************************************************)
(* How main gets past authenticate.                                        *)
(***************************************************************************)
\* Places of main after a successful authenticate, and where it holds a part
\* of the reply.
Served   == {"packet", "send", "log_send", "resend", "req_send", "resp_header",
             "resp_data", "got_data"}
Replying == {"auth_reply", "check_reply"}

\* A step that is none of the three that read the reply.
Onward(r, s) ==
    \/ s.sock \notin Conns
    \/ s.pc \notin Served \cup Replying
    \/ s.sock = r.sock /\ r.pc \in Served /\ s.pc \in Served

\* With one connection, main comes to its flight on a connection only by the
\* reply OK it has read there: where main goes on without, it has none.
LEMMA OnlyByReply ==
    ASSUME ClientInv, NEW p \in Clients, OneConnection(proc[p]),
           ClientStep(p) \/ ClientCrash(p)
    PROVE  \/ Onward(proc[p], proc'[p])
           \/ ReadAck(p) \/ ReadReply(p) \/ ReplyOK(p)
<1> DEFINE r == proc[p]
<1>1. /\ proc \in [Clients -> Process] /\ r \in Process
      /\ \A s : Becomes(p, s) => proc'[p] = s
  BY AtClient DEF ClientInv, ClientTypeOK, Becomes
<1>2. r.reconnecting => r.sock \notin Conns
  BY DEF OneConnection
<1>3. CASE NoSocket(p)
  <2>1. proc'[p] = NotConnected(r) /\ r.sock = INVALID_SOCKET
    BY <1>1, <1>3 DEF NoSocket, Attempting
  <2>2. NotConnected(r).sock = r.sock BY <1>1, FailureFits, AtClient DEF SameSocket
  <2> QED BY <2>1, <2>2, ClientAssumption DEF Onward
<1>4. CASE AttemptsExhausted(p)
  <2> DEFINE s == Writing(r, <<"ERROR">>, "connect")
  <2>1. s \in Process /\ s.sock = r.sock
    BY <1>1, WritingTypes, ClientRowTypes DEF ClientPCs, SameSocket
  <2>2. r.pc = "connect" /\ proc'[p] = NotConnected(s)
    BY <1>1, <1>4 DEF AttemptsExhausted, MainAt
  <2>3. r.sock \notin Conns BY <2>2, AtClient DEF ClientFits
  <2>4. SameSession(s, NotConnected(s)) BY <2>1, PartsSameSession
  <2> HIDE DEF s
  <2> QED BY <2>1, <2>2, <2>3, <2>4 DEF Onward, SameSession
<1>5. CASE NotAuthenticated(p)
  <2>1. proc'[p] = Rejected(r) BY <1>1, <1>5 DEF NotAuthenticated
  <2>2. CASE r.reconnecting
    <3>1. proc'[p].sock = r.sock
      BY <1>1, <2>1, <2>2, NextIterationFits, AtClient DEF Rejected, Steady, SameSocket
    <3> QED BY <1>2, <2>2, <3>1 DEF Onward
  <2>3. CASE ~r.reconnecting
    <3>1. proc'[p].pc = "leave" BY <1>1, <2>1, <2>3 DEF Rejected, ReturnCode, Writing, Process
    <3> QED BY <3>1 DEF Onward, Served, Replying
  <2> QED BY <2>2, <2>3
<1>6. CASE \/ ClientLogConnect(p) \/ AuthCallFails(p) \/ ReadReplyFails(p) \/ ReplyRejected(p)
           \/ SendPacketFails(p) \/ LogSendFailed(p) \/ RequestFails(p)
  <2>1. PICK after \in {"auth_send", "not_authenticated", "send_failed", "cleanup", "bye"} :
          GoesOn(p, after) \/ \E row : Writes(p, row, after)
    BY <1>6
    DEF ClientLogConnect, AuthCallFails, ReadReplyFails, ReplyRejected, SendPacketFails,
        LogSendFailed, RequestFails
  <2>2. proc'[p].pc = after BY <1>1, <2>1 DEF GoesOn, Writes, Writing, Process
  <2> QED BY <2>1, <2>2 DEF Onward, Served, Replying
<1>7. CASE ClientStartup(p) \/ ConnectFails(p) \/ ClientCrash(p) \/ Bye(p)
  <2>1. proc'[p].pc \in {"connect", "leave", "crashed"}
    BY <1>1, <1>7
    DEF ClientStartup, ConnectFails, ClientCrash, Bye, Writing, ReturnCode, Process
  <2> QED BY <2>1 DEF Onward, Served, Replying
<1>8. CASE ConnectSucceeds(p)
  <2>1. PICK c \in Conns, pc \in {"auth_send", "log_connect"} :
          proc'[p] = [r EXCEPT !.sock = c, !.sockets = @ + 1, !.attempts = 0,
                               !.out = AuthRequest(TOKEN), !.pc = pc]
    BY <1>1, <1>8 DEF ConnectSucceeds
  <2>2. proc'[p].pc \in {"auth_send", "log_connect"} BY <1>1, <2>1 DEF Process
  <2> QED BY <2>2 DEF Onward, Served, Replying
<1>9. ASSUME NEW after, SendsNext(p, after),
             \/ after = "auth_ack" /\ r.pc = "auth_send"
             \/ after \in Served \cup {"next"} /\ r.pc \in Served
      PROVE  Onward(r, proc'[p])
  <2> DEFINE s == [r EXCEPT !.out = Tail(@)]
  <2>1. /\ s.pc = r.pc /\ s.sock = r.sock
        /\ NextIteration(s).pc = "packet" /\ NextIteration(s).sock = r.sock
        /\ [s EXCEPT !.pc = after].pc = after /\ [s EXCEPT !.pc = after].sock = r.sock
    BY <1>1 DEF Process, NextIteration
  <2>2. proc'[p] = IF s.out # <<>> THEN s
                   ELSE IF after = "next" THEN NextIteration(s) ELSE [s EXCEPT !.pc = after]
    BY <1>1, <1>9 DEF SendsNext
  <2> HIDE DEF s
  <2> QED BY <1>9, <2>1, <2>2 DEF Onward, Served, Replying
<1>10. CASE SendAuth(p) \/ SendPacket(p) \/ Resend(p) \/ SendRequest(p)
  BY <1>9, <1>10 DEF SendAuth, SendPacket, Resend, SendRequest, MainAt, Served
<1>11. CASE BuildPacket(p) \/ RequestDataset(p) \/ GotDataset(p)
  <2>1. proc'[p].sock = r.sock /\ r.pc \in Served
        /\ proc'[p].pc \in {"send", "req_send", "bye"}
    BY <1>1, <1>11 DEF BuildPacket, RequestDataset, GotDataset, MainAt, Served, Process
  <2> QED BY <2>1 DEF Onward, Served, Replying
<1>12. CASE LogSend(p) \/ ResendFails(p)
  <2>1. \A row : LET s == NextIteration(Writing(r, row, "packet"))
                 IN s.sock = r.sock /\ s.pc = "packet"
    BY <1>1 DEF NextIteration, Writing, Process
  <2>2. r.pc \in Served /\ \E row : proc'[p] = NextIteration(Writing(r, row, "packet"))
    BY <1>1, <1>12 DEF LogSend, ResendFails, MainAt, Served
  <2> QED BY <2>1, <2>2 DEF Onward, Served
<1>13. CASE CleanupAndReconnect(p) \/ Leave(p)
  <2>1. proc'[p].sock = INVALID_SOCKET
    BY <1>1, <1>13 DEF CleanupAndReconnect, Leave, CleanedUp, SocketClosed, Process
  <2> QED BY <2>1, ClientAssumption DEF Onward
<1>14. CASE ReadResponse(p) \/ ReadDataset(p)
  <2>1. /\ proc'[p].sock = r.sock /\ r.pc \in Served
        /\ proc'[p].pc \in {"resp_data", "got_data", "unexpected"}
    BY <1>1, <1>14 DEF ReadResponse, ReadDataset, ReadsHeader, ReadsPayload, MainAt, Served, Process
  <2> QED BY <2>1 DEF Onward, Served, Replying
<1>15. CASE ClosePrevious(p)
  <2>1. proc'[p].sock = INVALID_SOCKET
    BY <1>1, <1>15, PreviousClosed DEF Process
  <2> QED BY <2>1, ClientAssumption DEF Onward
<1> QED
  BY <1>3, <1>4, <1>5, <1>6, <1>7, <1>8, <1>10, <1>11, <1>12, <1>13, <1>14, <1>15
  DEF ClientStep, Connecting, SendingTelemetry, Finishing

-----------------------------------------------------------------------------
(***************************************************************************)
(* What main's own record says of its flight.                              *)
(*                                                                         *)
(* FlightRecorded counts ERROR rows against iterations that left no SEND   *)
(* row.  It is not inductive alone: an iteration that fails ends several   *)
(* steps after its two rows, so the rows it is ahead by have to be known   *)
(* at each place in between.                                               *)
(***************************************************************************)
RowsIn(log, event) == {i \in DOMAIN log : log[i][1] = event}

Sends(log)  == Selected(log, RowsIn(log, "SEND"))
Errors(log) == Cardinality(RowsIn(log, "ERROR"))

\* The errors cover the iterations without a SEND row, and k more.
Covered(r, k) == Errors(r.log) + 2 * Len(Sends(r.log)) >= 2 * r.iter + k

InOrder(sends, iter) ==
    \A i \in DOMAIN sends :
       \E j \in 0..(iter - 1) :
          /\ sends[i][2] = FuelAt(j)
          /\ i > 1 /\ BurnRate > 0 => sends[i - 1][2] > sends[i][2]

Recorded(r) ==
    /\ InOrder(Sends(r.log), r.iter)
    /\ Len(Sends(r.log)) <= r.iter
    /\ Covered(r, 0)
    /\ r.pc = "send_failed" => Covered(r, 1)
    /\ r.pc = "cleanup" \/ r.reconnecting => Covered(r, 2)
    /\ r.pc = "resend" => r.reconnecting

\* Fuel falls from one iteration to a later one.
LEMMA FuelFalls ==
    \A j, i \in 0..NumPackets : j < i /\ BurnRate > 0 => FuelAt(j) > FuelAt(i)
<1> SUFFICES ASSUME NEW j \in 0..NumPackets, NEW i \in 0..NumPackets, j < i, BurnRate > 0
             PROVE  InitialFuel - j * BurnRate > InitialFuel - i * BurnRate
  BY DEF FuelAt
<1>1. j \in Nat /\ i \in Nat /\ BurnRate \in Nat /\ InitialFuel \in Nat BY ClientAssumption
<1>2. j * BurnRate \in Nat /\ i * BurnRate \in Nat BY <1>1
<1>3. j * BurnRate < i * BurnRate
  <2>1. i - j \in Nat /\ i - j >= 1 BY <1>1
  <2>2. (i - j) * BurnRate >= BurnRate BY <1>1, <2>1
  <2>3. (i - j) * BurnRate = i * BurnRate - j * BurnRate BY <1>1
  <2> QED BY <1>1, <1>2, <2>2, <2>3
<1> QED BY <1>1, <1>2, <1>3

\* One more row in the log.
LEMMA OneMoreRow ==
    ASSUME NEW log \in Seq(ClientRow), NEW row \in ClientRow
    PROVE  /\ Sends(log) \in Seq(ClientRow) /\ Errors(log) \in Nat
           /\ row[1] = "SEND" => Sends(Append(log, row)) = Append(Sends(log), row)
           /\ row[1] # "SEND" => Sends(Append(log, row)) = Sends(log)
           /\ row[1] = "ERROR" => Errors(Append(log, row)) = Errors(log) + 1
           /\ row[1] # "ERROR" => Errors(Append(log, row)) = Errors(log)
<1> DEFINE more == Append(log, row)
<1>1. /\ Len(log) \in Nat /\ DOMAIN log = 1..Len(log)
      /\ DOMAIN more = 1..(Len(log) + 1)
      /\ \A i \in 1..Len(log) : more[i] = log[i]
      /\ more[Len(log) + 1] = row
  OBVIOUS
<1> HIDE DEF more
<1>2. /\ \A i \in 1..(Len(log) + 1) : i \in 1..Len(log) \/ i = Len(log) + 1
      /\ \A i \in 1..Len(log) : i \in 1..(Len(log) + 1) /\ i # Len(log) + 1
      /\ Len(log) + 1 \in 1..(Len(log) + 1) /\ Len(log) + 1 \notin 1..Len(log)
  BY <1>1
<1>3. ASSUME NEW event
      PROVE  /\ RowsIn(log, event) \in SUBSET (1..Len(log))
             /\ row[1] = event => RowsIn(more, event) = RowsIn(log, event) \cup {Len(log) + 1}
             /\ row[1] # event => RowsIn(more, event) = RowsIn(log, event)
  BY <1>1, <1>2 DEF RowsIn
<1>4. \A event : /\ IsFiniteSet(RowsIn(log, event))
                 /\ Cardinality(RowsIn(log, event)) \in Nat
  BY <1>3, SelectedType
<1>5. /\ row[1] = "SEND" => Sends(more) = Append(Sends(log), row)
      /\ row[1] # "SEND" => Sends(more) = Sends(log)
  <2> DEFINE I == RowsIn(log, "SEND")
  <2>1. I \in SUBSET (1..Len(log)) BY <1>3
  <2>2. /\ row[1] = "SEND" => RowsIn(more, "SEND") = I \cup {Len(log) + 1}
        /\ row[1] # "SEND" => RowsIn(more, "SEND") = I
    BY <1>3
  <2> HIDE DEF I
  <2>3. /\ Selected(more, I) = Selected(log, I)
        /\ Selected(more, I \cup {Len(log) + 1}) = Append(Selected(log, I), row)
    BY <2>1, SelectedAppend DEF more
  <2> QED BY <2>2, <2>3 DEF Sends, I
<1>6. Sends(log) \in Seq(ClientRow) BY <1>3, SelectedType DEF Sends
<1>7. row[1] = "ERROR" => Errors(more) = Errors(log) + 1
  BY <1>2, <1>3, <1>4, FS_AddElement DEF Errors
<1>8. row[1] # "ERROR" => Errors(more) = Errors(log) BY <1>3 DEF Errors
<1> QED BY <1>4, <1>5, <1>6, <1>7, <1>8 DEF Errors, more

\* The steps of main, by what they record: nothing of a packet, an error, the
\* end of an iteration that has failed, the end of one that has not.
RecordsNothing(r, s) ==
    /\ \/ s.log = r.log
       \/ \E event \in {"CONNECT", "DISCONNECT"} : s.log = Append(r.log, <<event>>)
    /\ s.iter = r.iter
    /\ s.pc \in {"send_failed", "cleanup"} => s.pc = r.pc
    /\ s.reconnecting => r.reconnecting \/ r.pc = "cleanup"
    /\ s.pc = "resend" => s.reconnecting

RecordsError(r, s) ==
    /\ s.log = Append(r.log, <<"ERROR">>)
    /\ s.iter = r.iter
    /\ s.pc = "cleanup" => r.pc = "send_failed"
    /\ s.reconnecting => r.reconnecting
    /\ s.pc # "resend"

GoesOnWithout(r, s) ==
    /\ r.reconnecting
    /\ s.log = r.log \/ s.log = Append(r.log, <<"ERROR">>)
    /\ s.iter = r.iter + 1 /\ s.pc = "packet" /\ ~s.reconnecting

RecordsSend(r, s) ==
    /\ r.iter < NumPackets
    /\ s.log = Append(r.log, <<"SEND", FuelAt(r.iter)>>)
    /\ s.iter = r.iter + 1 /\ s.pc = "packet" /\ ~s.reconnecting

LEMMA RecordedKept ==
    ASSUME NEW r \in Process, NEW s, Recorded(r),
           \/ RecordsNothing(r, s) \/ RecordsError(r, s)
           \/ GoesOnWithout(r, s) \/ RecordsSend(r, s)
    PROVE  Recorded(s)
<1>1. /\ r.log \in Seq(ClientRow) /\ r.iter \in 0..NumPackets /\ r.iter \in Nat
      /\ NumPackets \in Nat
  BY ClientAssumption DEF Process
<1>2. /\ Sends(r.log) \in Seq(ClientRow) /\ Errors(r.log) \in Nat
      /\ Len(Sends(r.log)) \in Nat
  <2>1. <<"ERROR">> \in ClientRow BY ClientRowTypes
  <2>2. Sends(r.log) \in Seq(ClientRow) /\ Errors(r.log) \in Nat BY <1>1, <2>1, OneMoreRow
  <2> QED BY <2>2
<1>3. /\ \A event \in {"CONNECT", "DISCONNECT"} :
           LET log == Append(r.log, <<event>>)
           IN Sends(log) = Sends(r.log) /\ Errors(log) = Errors(r.log)
      /\ LET log == Append(r.log, <<"ERROR">>)
         IN Sends(log) = Sends(r.log) /\ Errors(log) = Errors(r.log) + 1
  BY <1>1, ClientRowTypes, OneMoreRow
<1>4. /\ InOrder(Sends(r.log), r.iter) /\ Len(Sends(r.log)) <= r.iter
      /\ Errors(r.log) + 2 * Len(Sends(r.log)) >= 2 * r.iter
  BY <1>1, <1>2 DEF Recorded, Covered
<1>5. InOrder(Sends(r.log), r.iter + 1)
  <2>1. \A j \in 0..(r.iter - 1) : j \in 0..((r.iter + 1) - 1) BY <1>1
  <2> QED BY <1>4, <2>1 DEF InOrder
<1>6. CASE RecordsNothing(r, s)
  <2>1. Sends(s.log) = Sends(r.log) /\ Errors(s.log) = Errors(r.log) /\ s.iter = r.iter
    BY <1>3, <1>6 DEF RecordsNothing
  <2>2. \A k : Covered(s, k) <=> Covered(r, k) BY <2>1 DEF Covered
  <2> QED BY <1>6, <2>1, <2>2 DEF RecordsNothing, Recorded
<1>7. CASE RecordsError(r, s)
  <2>1. Sends(s.log) = Sends(r.log) /\ Errors(s.log) = Errors(r.log) + 1 /\ s.iter = r.iter
    BY <1>3, <1>7 DEF RecordsError
  <2>2. /\ Covered(r, 0) => Covered(s, 0) /\ Covered(s, 1)
        /\ Covered(r, 1) => Covered(s, 2)
        /\ Covered(r, 2) => Covered(s, 2)
    BY <1>1, <1>2, <2>1 DEF Covered
  <2> QED BY <1>7, <2>1, <2>2 DEF RecordsError, Recorded
<1>8. CASE GoesOnWithout(r, s)
  <2>1. Sends(s.log) = Sends(r.log) /\ Errors(s.log) \in {Errors(r.log), Errors(r.log) + 1}
        /\ s.iter = r.iter + 1 /\ s.pc = "packet" /\ ~s.reconnecting
    BY <1>3, <1>8 DEF GoesOnWithout
  <2>2. Covered(r, 2) BY <1>8 DEF GoesOnWithout, Recorded
  <2>3. Covered(s, 0) /\ Len(Sends(s.log)) <= s.iter
    BY <1>1, <1>2, <1>4, <2>1, <2>2 DEF Covered
  <2> QED BY <1>5, <2>1, <2>3 DEF Recorded
<1>9. CASE RecordsSend(r, s)
  <2> DEFINE row == <<"SEND", FuelAt(r.iter)>>
             sends == Sends(r.log)
             more == Append(sends, row)
  <2>1. row \in ClientRow /\ row[1] = "SEND" /\ row[2] = FuelAt(r.iter)
    BY <1>1, FuelTypes, ClientRowTypes
  <2>2. Sends(s.log) = more /\ Errors(s.log) = Errors(r.log)
        /\ s.iter = r.iter + 1 /\ s.pc = "packet" /\ ~s.reconnecting
    <3>1. s.log = Append(r.log, row) BY <1>9 DEF RecordsSend
    <3> HIDE DEF row
    <3>2. Sends(Append(r.log, row)) = Append(Sends(r.log), row)
          /\ Errors(Append(r.log, row)) = Errors(r.log)
      BY <1>1, <2>1, OneMoreRow
    <3> QED BY <1>9, <3>1, <3>2 DEF RecordsSend
  <2>3. /\ Len(more) = Len(sends) + 1 /\ DOMAIN more = 1..(Len(sends) + 1)
        /\ \A i \in 1..Len(sends) : more[i] = sends[i]
        /\ more[Len(sends) + 1] = row
        /\ DOMAIN sends = 1..Len(sends)
    <3> HIDE DEF row
    <3> QED BY <1>2, <2>1
  <2> HIDE DEF row, sends, more
  <2>4. Len(sends) \in Nat /\ InOrder(sends, r.iter) /\ InOrder(sends, r.iter + 1)
    BY <1>2, <1>4, <1>5 DEF sends
  <2>5. ASSUME NEW i \in DOMAIN more
        PROVE  \E j \in 0..((r.iter + 1) - 1) :
                  /\ more[i][2] = FuelAt(j)
                  /\ i > 1 /\ BurnRate > 0 => more[i - 1][2] > more[i][2]
    <3>1. CASE i \in 1..Len(sends)
      <4>1. i > 1 => i - 1 \in 1..Len(sends) BY <2>4, <3>1
      <4>2. PICK j \in 0..((r.iter + 1) - 1) :
              /\ sends[i][2] = FuelAt(j)
              /\ i > 1 /\ BurnRate > 0 => sends[i - 1][2] > sends[i][2]
        BY <2>3, <2>4, <3>1 DEF InOrder
      <4> QED BY <2>3, <3>1, <4>1, <4>2
    <3>2. CASE i = Len(sends) + 1
      <4>1. more[i][2] = FuelAt(r.iter) BY <2>1, <2>3, <3>2
      <4>2. ASSUME i > 1, BurnRate > 0 PROVE more[i - 1][2] > more[i][2]
        <5>1. i - 1 = Len(sends) /\ Len(sends) \in 1..Len(sends) BY <2>4, <3>2, <4>2
        <5>2. PICK j \in 0..(r.iter - 1) : sends[Len(sends)][2] = FuelAt(j)
          BY <2>3, <2>4, <5>1 DEF InOrder
        <5>3. j \in 0..NumPackets /\ j < r.iter BY <1>1
        <5>4. FuelAt(j) > FuelAt(r.iter) BY <1>1, <4>2, <5>3, FuelFalls
        <5>5. more[i - 1] = sends[Len(sends)] BY <2>3, <5>1
        <5> QED BY <4>1, <5>2, <5>4, <5>5
      <4>3. r.iter \in 0..((r.iter + 1) - 1) BY <1>1
      <4> QED BY <4>1, <4>2, <4>3
    <3> QED BY <2>3, <2>4, <3>1, <3>2
  <2>6. InOrder(more, r.iter + 1) BY <2>5 DEF InOrder
  <2>7. Covered(s, 0) /\ Len(Sends(s.log)) <= s.iter
    BY <1>1, <1>2, <1>4, <2>2, <2>3 DEF Covered, sends
  <2> QED BY <2>2, <2>6, <2>7 DEF Recorded
<1> QED BY <1>6, <1>7, <1>8, <1>9

\* Every step of a client is one of the four.
LEMMA RecordSteps ==
    ASSUME ClientInv, NEW p \in Clients, ClientStep(p) \/ ClientCrash(p),
           proc[p].pc = "resend" => proc[p].reconnecting
    PROVE  \/ RecordsNothing(proc[p], proc'[p]) \/ RecordsError(proc[p], proc'[p])
           \/ GoesOnWithout(proc[p], proc'[p]) \/ RecordsSend(proc[p], proc'[p])
<1> DEFINE r == proc[p]
           Kept(s) == \/ RecordsNothing(r, s) \/ RecordsError(r, s)
                      \/ GoesOnWithout(r, s) \/ RecordsSend(r, s)
<1>1. /\ proc \in [Clients -> Process] /\ r \in Process /\ r.log \in Seq(ClientRow)
      /\ \A s : Becomes(p, s) => proc'[p] = s
  BY AtClient DEF ClientInv, ClientTypeOK, Becomes, Process
<1>2. ASSUME NEW s \in Process, s.log \in {r.log, Append(r.log, <<"ERROR">>)}, s.iter = r.iter,
             s.reconnecting = r.reconnecting
      PROVE  Kept(NotConnected(s))
  <2>1. CASE s.reconnecting
    <3>1. NotConnected(s) = NextIteration(s) BY <2>1 DEF NotConnected
    <3>2. /\ NextIteration(s).log = s.log /\ NextIteration(s).iter = s.iter + 1
          /\ NextIteration(s).pc = "packet" /\ ~NextIteration(s).reconnecting
      BY <1>2 DEF NextIteration, Process
    <3>3. GoesOnWithout(r, NextIteration(s))
      BY <1>2, <2>1, <3>2 DEF GoesOnWithout
    <3> QED BY <3>1, <3>3
  <2>2. CASE ~s.reconnecting
    <3>1. NotConnected(s) = ReturnCode(s, 2) BY <2>2 DEF NotConnected
    <3>2. /\ ReturnCode(s, 2).log = s.log /\ ReturnCode(s, 2).iter = s.iter
          /\ ReturnCode(s, 2).pc = "leave" /\ ReturnCode(s, 2).reconnecting = s.reconnecting
      BY <1>2 DEF ReturnCode, Process
    <3> QED BY <1>2, <2>2, <3>1, <3>2 DEF RecordsNothing, RecordsError
  <2> QED BY <2>1, <2>2
<1>3. CASE NoSocket(p)
  <2>1. proc'[p] = NotConnected(r) BY <1>1, <1>3 DEF NoSocket
  <2>2. Kept(NotConnected(r)) BY <1>1, <1>2
  <2> QED BY <2>1, <2>2
<1>4. CASE AttemptsExhausted(p)
  <2> DEFINE s == Writing(r, <<"ERROR">>, "connect")
  <2>1. /\ s \in Process /\ s.log = Append(r.log, <<"ERROR">>) /\ s.iter = r.iter
        /\ s.reconnecting = r.reconnecting
    <3>1. s \in Process BY <1>1, WritingTypes, ClientRowTypes DEF ClientPCs
    <3> QED BY <1>1, <3>1 DEF Process, Writing
  <2>2. proc'[p] = NotConnected(s) BY <1>1, <1>4 DEF AttemptsExhausted
  <2> HIDE DEF s, Kept
  <2>3. Kept(NotConnected(s)) BY <1>2, <2>1
  <2> QED BY <2>2, <2>3 DEF Kept
<1>5. CASE NotAuthenticated(p)
  <2>1. proc'[p] = Rejected(r) BY <1>1, <1>5 DEF NotAuthenticated
  <2>2. CASE r.reconnecting
    <3>1. /\ NextIteration(r).log = r.log /\ NextIteration(r).iter = r.iter + 1
          /\ NextIteration(r).pc = "packet" /\ ~NextIteration(r).reconnecting
      BY <1>1 DEF NextIteration, Process
    <3> QED BY <2>1, <2>2, <3>1 DEF Rejected, GoesOnWithout
  <2>3. CASE ~r.reconnecting
    <3> DEFINE s == ReturnCode(Writing(r, <<"ERROR">>, "leave"), 3)
    <3>1. /\ s.log = Append(r.log, <<"ERROR">>) /\ s.iter = r.iter
          /\ s.pc = "leave" /\ s.reconnecting = r.reconnecting
      BY <1>1 DEF ReturnCode, Writing, Process
    <3> QED BY <2>1, <2>3, <3>1 DEF Rejected, RecordsError
  <2> QED BY <2>2, <2>3
<1>6. ASSUME NEW after, Writes(p, <<"ERROR">>, after), after # "resend",
             after = "cleanup" => r.pc = "send_failed"
      PROVE  RecordsError(r, proc'[p])
  <2>1. /\ proc'[p].log = Append(r.log, <<"ERROR">>) /\ proc'[p].iter = r.iter
        /\ proc'[p].pc = after /\ proc'[p].reconnecting = r.reconnecting
    BY <1>1, <1>6 DEF Writes, Writing, Process
  <2> QED BY <1>6, <2>1 DEF RecordsError
<1>7. CASE \/ AuthCallFails(p) \/ ReplyRejected(p) \/ SendPacketFails(p) \/ LogSendFailed(p)
           \/ RequestFails(p)
  BY <1>6, <1>7
  DEF AuthCallFails, ReplyRejected, SendPacketFails, LogSendFailed, RequestFails, MainAt
<1>8. CASE ConnectFails(p)
  <2>1. /\ proc'[p].log = Append(r.log, <<"ERROR">>) /\ proc'[p].iter = r.iter
        /\ proc'[p].pc = "connect" /\ proc'[p].reconnecting = r.reconnecting
    BY <1>1, <1>8 DEF ConnectFails, Writing, Process
  <2> QED BY <2>1 DEF RecordsError
<1>9. ASSUME proc'[p].log = r.log, proc'[p].iter = r.iter,
             proc'[p].pc \in ClientPCs \ {"send_failed", "cleanup", "resend"},
             proc'[p].reconnecting = r.reconnecting
      PROVE  RecordsNothing(r, proc'[p])
  BY <1>9 DEF RecordsNothing
<1>10. CASE ClientStartup(p)
  <2>1. CASE proc'[p] = [proc[p] EXCEPT !.wsa = @ + 1, !.pc = "connect"]
    BY <1>1, <1>9, <2>1 DEF Process, ClientPCs
  <2>2. CASE proc'[p] = ReturnCode(Writing(proc[p], <<"ERROR">>, "leave"), 1)
    <3>1. /\ proc'[p].log = Append(r.log, <<"ERROR">>) /\ proc'[p].iter = r.iter
          /\ proc'[p].pc = "leave" /\ proc'[p].reconnecting = r.reconnecting
      BY <1>1, <2>2 DEF ReturnCode, Writing, Process
    <3> QED BY <3>1 DEF RecordsError
  <2> QED BY <1>1, <1>10, <2>1, <2>2 DEF ClientStartup
<1>11. CASE ConnectSucceeds(p)
  <2>1. /\ proc'[p].log = r.log /\ proc'[p].iter = r.iter
        /\ proc'[p].pc \in {"auth_send", "log_connect"}
        /\ proc'[p].reconnecting = r.reconnecting
    <3>1. \E c, pc : /\ pc \in {"auth_send", "log_connect"}
                     /\ proc'[p] = [r EXCEPT !.sock = c, !.sockets = @ + 1, !.attempts = 0,
                                             !.out = AuthRequest(TOKEN), !.pc = pc]
      BY <1>1, <1>11 DEF ConnectSucceeds
    <3> QED BY <1>1, <3>1 DEF Process
  <2> QED BY <1>9, <2>1 DEF ClientPCs
<1>12. CASE ClientLogConnect(p) \/ Bye(p)
  <2>1. \E event \in {"CONNECT", "DISCONNECT"} :
          /\ proc'[p].log = Append(r.log, <<event>>) /\ proc'[p].iter = r.iter
          /\ proc'[p].pc \in {"auth_send", "leave"} /\ proc'[p].reconnecting = r.reconnecting
    BY <1>1, <1>12 DEF ClientLogConnect, Bye, Writes, Writing, ReturnCode, Process
  <2> QED BY <2>1 DEF RecordsNothing
<1>13. CASE ReadReplyFails(p) \/ BuildPacket(p) \/ RequestDataset(p) \/ GotDataset(p)
            \/ ClientCrash(p)
  <2>1. /\ proc'[p].log = r.log /\ proc'[p].iter = r.iter
        /\ proc'[p].pc \in {"not_authenticated", "send", "bye", "req_send", "crashed"}
        /\ proc'[p].reconnecting = r.reconnecting
    BY <1>1, <1>13
    DEF ReadReplyFails, GoesOn, BuildPacket, RequestDataset, GotDataset, ClientCrash, Process
  <2> QED BY <1>9, <2>1 DEF ClientPCs
<1>14. ASSUME NEW after, SendsNext(p, after), r.pc \in Sending,
              \/ after \in ClientPCs \ {"send_failed", "cleanup", "resend"}
              \/ after = "next" /\ r.pc = "resend"
       PROVE  Kept(proc'[p])
  <2> DEFINE s == [r EXCEPT !.out = Tail(@)]
  <2>1. /\ s.pc = r.pc /\ s.log = r.log /\ s.iter = r.iter /\ s.reconnecting = r.reconnecting
        /\ [s EXCEPT !.pc = after].pc = after /\ [s EXCEPT !.pc = after].log = r.log
        /\ [s EXCEPT !.pc = after].iter = r.iter
        /\ [s EXCEPT !.pc = after].reconnecting = r.reconnecting
    BY <1>1 DEF Process
  <2>2. /\ NextIteration(s).log = r.log /\ NextIteration(s).iter = r.iter + 1
        /\ NextIteration(s).pc = "packet" /\ ~NextIteration(s).reconnecting
    BY <1>1 DEF NextIteration, Process
  <2>3. proc'[p] = IF s.out # <<>> THEN s
                   ELSE IF after = "next" THEN NextIteration(s) ELSE [s EXCEPT !.pc = after]
    BY <1>1, <1>14 DEF SendsNext
  <2> HIDE DEF s
  <2>4. RecordsNothing(r, s)
    BY <1>14, <2>1 DEF RecordsNothing, Sending
  <2>5. after # "next" => RecordsNothing(r, [s EXCEPT !.pc = after])
    BY <1>14, <2>1 DEF RecordsNothing
  <2>6. after = "next" => GoesOnWithout(r, NextIteration(s))
    BY <1>14, <2>2 DEF GoesOnWithout, ClientPCs
  <2> QED BY <2>3, <2>4, <2>5, <2>6
<1>15. CASE SendAuth(p) \/ SendPacket(p) \/ Resend(p) \/ SendRequest(p)
  BY <1>14, <1>15
  DEF SendAuth, SendPacket, Resend, SendRequest, MainAt, Sending, ClientPCs
<1>16. CASE ReadAck(p) \/ ReadReply(p) \/ ReadResponse(p) \/ ReadDataset(p)
  <2>1. /\ proc'[p].log = r.log /\ proc'[p].iter = r.iter
        /\ proc'[p].pc \in {"auth_reply", "check_reply", "not_authenticated", "resp_data",
                            "got_data", "unexpected"}
        /\ proc'[p].reconnecting = r.reconnecting
    <3>1. CASE ReadAck(p) \/ ReadResponse(p)
      <4>1. PICK h, pc : /\ pc \in {"auth_reply", "check_reply", "not_authenticated", "resp_data",
                                         "got_data", "unexpected"}
                        /\ proc'[p] = [r EXCEPT !.size = h.num, !.buf = <<>>, !.pc = pc]
        BY <1>1, <3>1 DEF ReadAck, ReadResponse, ReadsHeader
      <4> QED BY <1>1, <4>1 DEF Process
    <3>2. CASE ReadReply(p) \/ ReadDataset(p)
      <4>1. PICK buf, pc : /\ pc \in {"auth_reply", "check_reply", "resp_data", "got_data"}
                          /\ proc'[p] = [r EXCEPT !.buf = buf, !.pc = pc]
        BY <1>1, <3>2 DEF ReadReply, ReadDataset, ReadsPayload, MainAt
      <4> QED BY <1>1, <4>1 DEF Process
    <3> QED BY <1>16, <3>1, <3>2
  <2> QED BY <1>9, <2>1 DEF ClientPCs
<1>17. CASE ReplyOK(p)
  <2>1. CASE ~r.reconnecting /\ proc'[p] = [r EXCEPT !.pc = "packet"]
    BY <1>1, <1>9, <2>1 DEF Process, ClientPCs
  <2>2. CASE r.reconnecting /\ \E out : proc'[p] = [r EXCEPT !.pc = "resend", !.out = out]
    <3>1. /\ proc'[p].log = r.log /\ proc'[p].iter = r.iter /\ proc'[p].pc = "resend"
          /\ proc'[p].reconnecting = r.reconnecting
      BY <1>1, <2>2 DEF Process
    <3> QED BY <2>2, <3>1 DEF RecordsNothing
  <2> QED BY <1>1, <1>17, <2>1, <2>2 DEF ReplyOK
<1>18. CASE LogSend(p)
  <2>1. r.iter < NumPackets BY <1>18, AtClient DEF LogSend, MainAt, ClientFits, InIteration
  <2>2. /\ proc'[p].log = Append(r.log, <<"SEND", FuelAt(r.iter)>>) /\ proc'[p].iter = r.iter + 1
        /\ proc'[p].pc = "packet" /\ ~proc'[p].reconnecting
    BY <1>1, <1>18 DEF LogSend, NextIteration, Writing, Process
  <2> QED BY <2>1, <2>2 DEF RecordsSend
<1>19. CASE ResendFails(p)
  <2>1. /\ proc'[p].log = Append(r.log, <<"ERROR">>) /\ proc'[p].iter = r.iter + 1
        /\ proc'[p].pc = "packet" /\ ~proc'[p].reconnecting
    BY <1>1, <1>19 DEF ResendFails, NextIteration, Writing, Process
  <2> QED BY <1>19, <2>1 DEF ResendFails, MainAt, GoesOnWithout
<1>20. CASE CleanupAndReconnect(p)
  <2>1. /\ proc'[p].log = r.log /\ proc'[p].iter = r.iter /\ proc'[p].pc = "connect"
        /\ r.pc = "cleanup"
    <3> DEFINE s == [r EXCEPT !.reconnecting = TRUE, !.pc = "connect"]
               t == [s EXCEPT !.wsa = IF @ > 0 THEN @ - 1 ELSE 0]
               u == [t EXCEPT !.sock = INVALID_SOCKET,
                              !.sockets = IF r.sock = INVALID_SOCKET THEN @ ELSE @ - 1]
    <3>1. proc'[p] = u BY <1>1, <1>20 DEF CleanupAndReconnect, CleanedUp, SocketClosed
    <3>2. u.log = r.log /\ u.iter = r.iter /\ u.pc = "connect" BY <1>1 DEF Process
    <3> HIDE DEF u
    <3> QED BY <1>20, <3>1, <3>2 DEF CleanupAndReconnect, MainAt
  <2> QED BY <2>1 DEF RecordsNothing
<1>21. CASE Leave(p)
  <2>1. /\ proc'[p].log = r.log /\ proc'[p].iter = r.iter /\ proc'[p].pc = "exited"
        /\ proc'[p].reconnecting = r.reconnecting
    BY <1>1, <1>21 DEF Leave, CleanedUp, SocketClosed, Process
  <2> QED BY <1>9, <2>1 DEF ClientPCs
<1>22. CASE ClosePrevious(p)
  <2>1. r.pc = "connect" /\ proc'[p] = [r EXCEPT !.sock = INVALID_SOCKET, !.sockets = 0]
    BY <1>1, <1>22, PreviousClosed DEF MainAt
  <2>2. /\ proc'[p].log = r.log /\ proc'[p].iter = r.iter /\ proc'[p].pc = "connect"
        /\ proc'[p].reconnecting = r.reconnecting
    BY <1>1, <2>1 DEF Process
  <2> QED BY <1>9, <2>2 DEF ClientPCs
<1> QED
  BY <1>3, <1>4, <1>5, <1>7, <1>8, <1>10, <1>11, <1>12, <1>13, <1>15, <1>16, <1>17, <1>18,
     <1>19, <1>20, <1>21, <1>22
  DEF ClientStep, Connecting, SendingTelemetry, Finishing

RecordsInv == \A p \in Clients : Recorded(proc[p])

LEMMA RecordsStep ==
    ASSUME ClientInv, RecordsInv, NEW p \in Clients, ClientStep(p) \/ ClientCrash(p)
    PROVE  RecordsInv'
<1>1. proc[p] \in Process /\ Recorded(proc[p]) BY AtClient DEF RecordsInv
<1>2. Recorded(proc'[p]) BY <1>1, RecordSteps, RecordedKept DEF Recorded
<1>3. \A q \in Clients \ {p} : proc'[q] = proc[q]
  BY ClientLocal DEF OwnRecord, Becomes, ClientInv, ClientTypeOK
<1> QED BY <1>2, <1>3 DEF RecordsInv

LEMMA RecordsInitially == ClientInit => RecordsInv
<1> SUFFICES ASSUME ClientInit, NEW p \in Clients PROVE Recorded(proc[p])
  BY DEF RecordsInv
<1>1. /\ proc[p].log = <<>> /\ proc[p].iter = 0 /\ proc[p].pc = "winsock"
      /\ proc[p].reconnecting = FALSE
  BY DEF ClientInit
<1>2. \A event : RowsIn(<<>>, event) = {} BY DEF RowsIn
<1>3. Sends(<<>>) = <<>> /\ Errors(<<>>) = 0
  <2>1. <<>> \in Seq(ClientRow) /\ {} \in SUBSET (1..Len(<<>>)) /\ Cardinality({}) = 0
    BY FS_EmptySet
  <2>2. Selected(<<>>, {}) \in Seq(ClientRow) /\ Len(Selected(<<>>, {})) = 0
    BY <2>1, SelectedType
  <2>3. Selected(<<>>, {}) = <<>> BY <2>2, EmptySeq
  <2> QED BY <1>2, <2>1, <2>3 DEF Sends, Errors
<1> QED BY <1>1, <1>3 DEF Recorded, InOrder, Covered

\* The record is what FlightRecorded says.
LEMMA RecordsFlight == ClientInv /\ RecordsInv => FlightRecorded
<1> SUFFICES ASSUME ClientInv, RecordsInv, NEW p \in Clients
             PROVE  LET sends == SendRows(p) IN
                      /\ \A i \in DOMAIN sends :
                           \E j \in 0..(proc[p].iter - 1) :
                             /\ sends[i][2] = FuelAt(j)
                             /\ i > 1 /\ BurnRate > 0 => sends[i - 1][2] > sends[i][2]
                      /\ Len(sends) <= proc[p].iter
                      /\ Cardinality(RowsOf(p, "ERROR")) >= 2 * (proc[p].iter - Len(sends))
  BY DEF FlightRecorded
<1>1. SendRows(p) = Sends(proc[p].log) /\ RowsOf(p, "ERROR") = RowsIn(proc[p].log, "ERROR")
  BY DEF SendRows, RowsOf, RowsIn, Sends
<1>2. Recorded(proc[p]) BY DEF RecordsInv
<1>3. proc[p].iter \in Nat /\ proc[p].log \in Seq(ClientRow)
  BY AtClient, ClientAssumption DEF Process
<1>4. Sends(proc[p].log) \in Seq(ClientRow) /\ Errors(proc[p].log) \in Nat
  <2>1. <<"ERROR">> \in ClientRow BY ClientRowTypes
  <2> QED BY <1>3, <2>1, OneMoreRow
<1>5. Len(Sends(proc[p].log)) \in Nat BY <1>4
<1>6. Errors(proc[p].log) >= 2 * (proc[p].iter - Len(Sends(proc[p].log)))
  BY <1>2, <1>3, <1>4, <1>5 DEF Recorded, Covered
<1> QED BY <1>1, <1>2, <1>6 DEF Recorded, InOrder, Errors
-----------------------------------------------------------------------------
(***************************************************************************)
(* The first call of connectToServer.  What main has logged when it gives  *)
(* up (GivesUpAfterRetries) is known from the attempts it has counted: the *)
(* counter starts at zero, Winsock is initialised and no other row comes   *)
(* before, none of which holds of the calls after a failed send.           *)
(***************************************************************************)
Gone == {"leave", "exited", "crashed"}

Failures(n) == [i \in 1..n |-> <<"ERROR">>]

FirstCall(r) ==
    /\ r.pc = "winsock" => ~r.reconnecting /\ r.attempts = 0 /\ r.log = <<>>
    /\ r.pc = "connect" /\ ~r.reconnecting => r.wsa > 0 /\ r.log = Failures(r.attempts)
    /\ r.pc \notin Gone => r.exitCode = 0
    /\ r.exitCode = 2 => r.log = Failures(MAX_RECONNECT_ATTEMPTS + 2)

LEMMA OneMoreFailure ==
    /\ Failures(0) = <<>>
    /\ \A n \in Nat : Append(Failures(n), <<"ERROR">>) = Failures(n + 1)
<1>1. Failures(0) = <<>> BY DEF Failures
<1>2. ASSUME NEW n \in Nat PROVE Append(Failures(n), <<"ERROR">>) = Failures(n + 1)
  <2> DEFINE s == Failures(n)
             t == Append(s, <<"ERROR">>)
             u == Failures(n + 1)
  <2>1. /\ s \in Seq({<<"ERROR">>}) /\ Len(s) = n /\ \A i \in 1..n : s[i] = <<"ERROR">>
        /\ u \in Seq({<<"ERROR">>}) /\ Len(u) = n + 1
        /\ \A i \in 1..(n + 1) : u[i] = <<"ERROR">>
    BY <1>2 DEF Failures
  <2> HIDE DEF s, u
  <2>2. /\ t \in Seq({<<"ERROR">>}) /\ Len(t) = n + 1
        /\ \A i \in 1..(n + 1) : t[i] = <<"ERROR">>
    BY <1>2, <2>1
  <2> HIDE DEF t
  <2>3. t = u BY <1>2, <2>1, <2>2, SeqEqual
  <2> QED BY <2>3 DEF s, t, u
<1> QED BY <1>1, <1>2

\* The steps that leave the first call alone, and those that end main but for
\* giving up.
OtherStep(r, s) ==
    /\ r.pc \notin Gone /\ s.exitCode = r.exitCode
    /\ s.pc # "winsock" /\ (s.pc = "connect" => s.reconnecting)

Ends(r, s) ==
    s.pc \in Gone /\ (s.exitCode # 2 \/ (s.exitCode = r.exitCode /\ s.log = r.log))

LEMMA FirstCallKept ==
    ASSUME NEW r, NEW s, FirstCall(r), OtherStep(r, s) \/ Ends(r, s)
    PROVE  FirstCall(s)
BY DEF FirstCall, OtherStep, Ends, Gone

\* Every step of a client is one of them or made in connectToServer.
LEMMA FirstCallSteps ==
    ASSUME ClientInv, NEW p \in Clients, ClientStep(p) \/ ClientCrash(p),
           FirstCall(proc[p])
    PROVE  \/ OtherStep(proc[p], proc'[p]) \/ Ends(proc[p], proc'[p])
           \/ ClientStartup(p) \/ ClosePrevious(p) \/ NoSocket(p) \/ ConnectFails(p)
           \/ AttemptsExhausted(p)
<1> DEFINE r == proc[p]
           s == proc'[p]
<1>1. /\ r \in Process /\ \A t : Becomes(p, t) => s = t
  BY AtClient DEF ClientInv, ClientTypeOK, Becomes
<1>2. CASE NotAuthenticated(p)
  <2>1. s = Rejected(r) /\ r.pc = "not_authenticated"
    BY <1>1, <1>2 DEF NotAuthenticated, MainAt
  <2>2. /\ NextIteration(r).exitCode = r.exitCode /\ NextIteration(r).pc = "packet"
        /\ \A row : LET t == ReturnCode(Writing(r, row, "leave"), 3)
                    IN t.pc = "leave" /\ t.exitCode = 3
    BY <1>1 DEF NextIteration, ReturnCode, Writing, Process
  <2> QED BY <2>1, <2>2 DEF Rejected, OtherStep, Ends, Gone
<1>3. ASSUME s.exitCode = r.exitCode, r.pc \notin Gone, s.pc \in ClientPCs \ {"winsock", "connect"}
      PROVE  OtherStep(r, s)
  BY <1>3 DEF OtherStep
<1>4. CASE \/ ClientLogConnect(p) \/ AuthCallFails(p) \/ ReadReplyFails(p) \/ ReplyRejected(p)
           \/ SendPacketFails(p) \/ LogSendFailed(p) \/ RequestFails(p)
  <2>1. PICK after \in {"auth_send", "not_authenticated", "send_failed", "cleanup", "bye"} :
          GoesOn(p, after) \/ \E row : Writes(p, row, after)
    BY <1>4
    DEF ClientLogConnect, AuthCallFails, ReadReplyFails, ReplyRejected, SendPacketFails,
        LogSendFailed, RequestFails
  <2>2. s.pc = after /\ s.exitCode = r.exitCode
    BY <1>1, <2>1 DEF GoesOn, Writes, Writing, Process
  <2>3. r.pc \notin Gone
    BY <1>4
    DEF ClientLogConnect, AuthCallFails, ReadReplyFails, ReplyRejected, SendPacketFails,
        LogSendFailed, RequestFails, MainAt, Gone
  <2> QED BY <1>3, <2>2, <2>3 DEF ClientPCs
<1>5. CASE ConnectSucceeds(p)
  <2>1. PICK c \in Conns, pc \in {"auth_send", "log_connect"} :
          s = [r EXCEPT !.sock = c, !.sockets = @ + 1, !.attempts = 0,
                        !.out = AuthRequest(TOKEN), !.pc = pc]
    BY <1>1, <1>5 DEF ConnectSucceeds
  <2>2. s.pc = pc /\ s.exitCode = r.exitCode BY <1>1, <2>1 DEF Process
  <2>3. r.pc \notin Gone BY <1>5 DEF ConnectSucceeds, Attempting, Trying, MainAt, Gone
  <2> QED BY <1>3, <2>2, <2>3 DEF ClientPCs
<1>6. CASE ReplyOK(p) \/ BuildPacket(p) \/ RequestDataset(p) \/ GotDataset(p)
  <2>1. s.pc \in {"packet", "resend", "send", "bye", "req_send"} /\ s.exitCode = r.exitCode
    BY <1>1, <1>6 DEF ReplyOK, BuildPacket, RequestDataset, GotDataset, Process
  <2>2. r.pc \notin Gone
    BY <1>6 DEF ReplyOK, BuildPacket, RequestDataset, GotDataset, MainAt, Gone
  <2> QED BY <1>3, <2>1, <2>2 DEF ClientPCs
<1>7. ASSUME NEW after \in ClientPCs \cup {"next"}, after \notin {"winsock", "connect"},
             SendsNext(p, after), r.pc \in Sending
      PROVE  OtherStep(r, s)
  <2> DEFINE t == [r EXCEPT !.out = Tail(@)]
  <2>1. /\ t.pc = r.pc /\ t.exitCode = r.exitCode
        /\ NextIteration(t).pc = "packet" /\ NextIteration(t).exitCode = r.exitCode
        /\ [t EXCEPT !.pc = after].pc = after /\ [t EXCEPT !.pc = after].exitCode = r.exitCode
    BY <1>1 DEF Process, NextIteration
  <2>2. s = IF t.out # <<>> THEN t
            ELSE IF after = "next" THEN NextIteration(t) ELSE [t EXCEPT !.pc = after]
    BY <1>1, <1>7 DEF SendsNext
  <2> HIDE DEF t
  <2> QED BY <1>7, <2>1, <2>2 DEF OtherStep, Gone, Sending
<1>8. CASE SendAuth(p) \/ SendPacket(p) \/ Resend(p) \/ SendRequest(p)
  BY <1>7, <1>8
  DEF SendAuth, SendPacket, Resend, SendRequest, MainAt, Sending, ClientPCs
<1>9. CASE ReadAck(p) \/ ReadResponse(p)
  <2>1. PICK h, pc : /\ pc \in {"auth_reply", "check_reply", "not_authenticated", "resp_data",
                                "got_data", "unexpected"}
                     /\ s = [r EXCEPT !.size = h.num, !.buf = <<>>, !.pc = pc]
    BY <1>1, <1>9 DEF ReadAck, ReadResponse, ReadsHeader
  <2>2. s.pc = pc /\ s.exitCode = r.exitCode BY <1>1, <2>1 DEF Process
  <2>3. r.pc \notin Gone BY <1>9 DEF ReadAck, ReadResponse, MainAt, Gone
  <2> QED BY <1>3, <2>1, <2>2, <2>3 DEF ClientPCs
<1>10. CASE ReadReply(p) \/ ReadDataset(p)
  <2>1. PICK buf, pc : /\ pc \in {"auth_reply", "check_reply", "resp_data", "got_data"}
                       /\ s = [r EXCEPT !.buf = buf, !.pc = pc]
    BY <1>1, <1>10 DEF ReadReply, ReadDataset, ReadsPayload, MainAt
  <2>2. s.pc = pc /\ s.exitCode = r.exitCode BY <1>1, <2>1 DEF Process
  <2>3. r.pc \notin Gone BY <1>10 DEF ReadReply, ReadDataset, MainAt, Gone
  <2> QED BY <1>3, <2>1, <2>2, <2>3 DEF ClientPCs
<1>11. CASE LogSend(p) \/ ResendFails(p)
  <2>1. PICK row : s = NextIteration(Writing(r, row, "packet"))
    BY <1>1, <1>11 DEF LogSend, ResendFails
  <2>2. s.pc = "packet" /\ s.exitCode = r.exitCode
    BY <1>1, <2>1 DEF NextIteration, Writing, Process
  <2>3. r.pc \notin Gone BY <1>11 DEF LogSend, ResendFails, MainAt, Gone
  <2> QED BY <1>3, <2>2, <2>3 DEF ClientPCs
<1>12. CASE CleanupAndReconnect(p)
  <2> DEFINE t == [r EXCEPT !.reconnecting = TRUE, !.pc = "connect"]
             u == [t EXCEPT !.wsa = IF @ > 0 THEN @ - 1 ELSE 0]
  <2>1. PICK n : s = [u EXCEPT !.sock = INVALID_SOCKET, !.sockets = n]
    BY <1>1, <1>12 DEF CleanupAndReconnect, CleanedUp, SocketClosed
  <2>2. s.pc = "connect" /\ s.exitCode = r.exitCode /\ s.reconnecting
    BY <1>1, <2>1 DEF Process
  <2>3. r.pc \notin Gone BY <1>12 DEF CleanupAndReconnect, MainAt, Gone
  <2> QED BY <2>2, <2>3 DEF OtherStep
<1>13. CASE Bye(p)
  <2>1. s.pc = "leave" /\ s.exitCode = 0
    BY <1>1, <1>13 DEF Bye, ReturnCode, Writing, Process
  <2> QED BY <2>1 DEF Ends, Gone
<1>14. CASE Leave(p)
  <2> DEFINE t == [r EXCEPT !.pc = "exited"]
             u == [t EXCEPT !.wsa = IF @ > 0 THEN @ - 1 ELSE 0]
  <2>1. PICK n : s = [u EXCEPT !.sock = INVALID_SOCKET, !.sockets = n]
    BY <1>1, <1>14 DEF Leave, CleanedUp, SocketClosed
  <2>2. s.pc = "exited" /\ s.exitCode = r.exitCode /\ s.log = r.log
    BY <1>1, <2>1 DEF Process
  <2> QED BY <2>2 DEF Ends, Gone
<1>15. CASE ClientCrash(p)
  <2>1. s.pc = "crashed" /\ s.exitCode = r.exitCode /\ s.log = r.log
    BY <1>1, <1>15 DEF ClientCrash, Process
  <2> QED BY <2>1 DEF Ends, Gone
<1> QED
  BY <1>2, <1>4, <1>5, <1>6, <1>8, <1>9, <1>10, <1>11, <1>12, <1>13, <1>14, <1>15
  DEF ClientStep, Connecting, SendingTelemetry, Finishing

LEMMA FirstCallStep ==
    ASSUME ClientInv, NEW p \in Clients, ClientStep(p) \/ ClientCrash(p),
           FirstCall(proc[p])
    PROVE  FirstCall(proc'[p])
<1> DEFINE r == proc[p]
           s == proc'[p]
<1>1. /\ r \in Process /\ \A t : Becomes(p, t) => s = t
      /\ r.attempts \in 0..(MAX_RECONNECT_ATTEMPTS + 1) /\ r.wsa \in Nat
      /\ MAX_RECONNECT_ATTEMPTS \in Nat
  BY AtClient, ClientAssumption DEF ClientInv, ClientTypeOK, Becomes, Process
<1>2. CASE ClientStartup(p)
  <2>1. r.pc = "winsock" BY <1>2 DEF ClientStartup, MainAt
  <2>2. CASE s = [r EXCEPT !.wsa = @ + 1, !.pc = "connect"]
    <3>1. /\ s.pc = "connect" /\ s.wsa = r.wsa + 1 /\ s.attempts = r.attempts
          /\ s.log = r.log /\ s.exitCode = r.exitCode
      BY <1>1, <2>2 DEF Process
    <3>2. s.wsa > 0 BY <1>1, <3>1
    <3> QED BY <2>1, <3>1, <3>2, OneMoreFailure DEF FirstCall, Gone
  <2>3. CASE s = ReturnCode(Writing(r, <<"ERROR">>, "leave"), 1)
    <3>1. s.pc = "leave" /\ s.exitCode = 1
      BY <1>1, <2>3 DEF ReturnCode, Writing, Process
    <3> QED BY <3>1, FirstCallKept DEF Ends, Gone
  <2> QED BY <1>1, <1>2, <2>2, <2>3 DEF ClientStartup
<1>3. CASE ClosePrevious(p)
  <2>1. r.pc = "connect" /\ s = [r EXCEPT !.sock = INVALID_SOCKET, !.sockets = 0]
    BY <1>1, <1>3, PreviousClosed DEF MainAt
  <2>2. /\ s.pc = "connect" /\ s.wsa = r.wsa /\ s.attempts = r.attempts /\ s.log = r.log
        /\ s.exitCode = r.exitCode /\ s.reconnecting = r.reconnecting
    BY <1>1, <2>1 DEF Process
  <2> QED BY <2>1, <2>2 DEF FirstCall
<1>4. CASE NoSocket(p)
  <2>1. r.pc = "connect" /\ r.wsa = 0 /\ s = NotConnected(r)
    BY <1>1, <1>4 DEF NoSocket, Attempting, Trying, MainAt
  <2>2. r.reconnecting BY <2>1 DEF FirstCall
  <2>3. s.pc = "packet" /\ s.exitCode = r.exitCode
    BY <1>1, <2>1, <2>2 DEF NotConnected, NextIteration, Process
  <2> QED BY <2>1, <2>3, FirstCallKept DEF OtherStep, Gone
<1>5. CASE ConnectFails(p)
  <2>1. r.pc = "connect" BY <1>5 DEF ConnectFails, Attempting, Trying, MainAt
  <2>2. /\ s.pc = "connect" /\ s.wsa = r.wsa /\ s.attempts = r.attempts + 1
        /\ s.log = Append(r.log, <<"ERROR">>)
        /\ s.exitCode = r.exitCode /\ s.reconnecting = r.reconnecting
    <3> DEFINE t == [r EXCEPT !.sock = Unconnected, !.sockets = @ + 1, !.attempts = @ + 1]
    <3>1. s = Writing(t, <<"ERROR">>, "connect") BY <1>1, <1>5 DEF ConnectFails
    <3> QED BY <1>1, <3>1 DEF Writing, Process
  <2>3. r.attempts \in Nat BY <1>1
  <2>4. ~r.reconnecting => s.log = Failures(s.attempts)
    BY <2>1, <2>2, <2>3, OneMoreFailure DEF FirstCall
  <2>5. s.exitCode = 0 BY <2>1, <2>2 DEF FirstCall, Gone
  <2> QED BY <2>1, <2>2, <2>4, <2>5 DEF FirstCall
<1>6. CASE AttemptsExhausted(p)
  <2> DEFINE w == Writing(r, <<"ERROR">>, "connect")
  <2>1. r.pc = "connect" /\ s = NotConnected(w) /\ r.attempts = MAX_RECONNECT_ATTEMPTS + 1
    BY <1>1, <1>6 DEF AttemptsExhausted, Trying, MainAt
  <2>2. /\ w \in Process /\ w.log = Append(r.log, <<"ERROR">>)
        /\ w.exitCode = r.exitCode /\ w.reconnecting = r.reconnecting
    <3>1. w \in Process BY <1>1, WritingTypes, ClientRowTypes DEF ClientPCs
    <3> QED BY <1>1, <3>1 DEF Writing, Process
  <2> HIDE DEF w
  <2>3. CASE r.reconnecting
    <3>1. s.pc = "packet" /\ s.exitCode = r.exitCode
      BY <2>1, <2>2, <2>3 DEF NotConnected, NextIteration, Process
    <3> QED BY <2>1, <3>1, FirstCallKept DEF OtherStep, Gone
  <2>4. CASE ~r.reconnecting
    <3>1. s.pc = "leave" /\ s.log = w.log
      BY <2>1, <2>2, <2>4 DEF NotConnected, ReturnCode, Process
    <3>2. w.log = Append(Failures(MAX_RECONNECT_ATTEMPTS + 1), <<"ERROR">>)
      BY <2>1, <2>2, <2>4 DEF FirstCall
    <3>3. w.log = Failures(MAX_RECONNECT_ATTEMPTS + 2)
      <4>1. /\ MAX_RECONNECT_ATTEMPTS + 1 \in Nat
            /\ (MAX_RECONNECT_ATTEMPTS + 1) + 1 = MAX_RECONNECT_ATTEMPTS + 2
        BY <1>1
      <4>2. w.log = Failures((MAX_RECONNECT_ATTEMPTS + 1) + 1)
        BY <3>2, <4>1, OneMoreFailure
      <4> QED BY <4>1, <4>2
    <3> QED BY <3>1, <3>3 DEF FirstCall, Gone
  <2> QED BY <2>3, <2>4
<1> QED BY <1>2, <1>3, <1>4, <1>5, <1>6, FirstCallSteps, FirstCallKept

FirstCallInv == \A p \in Clients : FirstCall(proc[p])

LEMMA FirstCallInitially == ClientInit => FirstCallInv
BY DEF ClientInit, FirstCallInv, FirstCall, Gone

LEMMA FirstCallInvStep ==
    ASSUME ClientInv, FirstCallInv, NEW p \in Clients, ClientStep(p) \/ ClientCrash(p)
    PROVE  FirstCallInv'
<1>1. FirstCall(proc'[p]) BY FirstCallStep DEF FirstCallInv
<1>2. ASSUME NEW q \in Clients \ {p} PROVE proc'[q] = proc[q]
  BY ClientLocal DEF OwnRecord, Becomes, ClientInv, ClientTypeOK
<1> QED BY <1>1, <1>2 DEF FirstCallInv

LEMMA FirstCallsGiveUp == FirstCallInv => GivesUpAfterRetries
BY DEF FirstCallInv, FirstCall, Failures, GivesUpAfterRetries
-----------------------------------------------------------------------------
(***************************************************************************)
(* What main hands over.  Every step on a connection is one of seven, told *)
(* apart by what it does to the packet main is sending and to its place.   *)
(***************************************************************************)
\* Places before main has a packet of its flight for a new connection.
Greeting == {"log_connect", "auth_send", "auth_ack", "auth_reply", "check_reply",
             "not_authenticated"}

\* The packet main is sending at its place.
FrameOf(r) ==
    IF r.pc \in {"log_connect", "auth_send"} THEN AuthRequest(TOKEN)
    ELSE IF r.pc = "req_send" THEN DataRequest ELSE TelemetryPacket(FuelAt(r.iter))

StaysPut(r, s) == s.sock = r.sock /\ s.out = r.out /\ s.iter = r.iter

\* A send has failed, on a connection that is reset.
Fails(p) ==
    LET r == proc[p]
        s == proc'[p]
    IN /\ r.sock \in Conns /\ ClientSendFails(r.sock) /\ UNCHANGED netVars
       /\ s.sock = r.sock
       /\ \/ s.iter = r.iter
             /\ <<r.pc, s.pc>> \in {<<"auth_send", "not_authenticated">>,
                                    <<"send", "send_failed">>, <<"req_send", "bye">>}
          \/ s.iter = r.iter + 1 /\ r.pc = "resend" /\ s.pc = "packet"

Proceeds(p) ==
    LET r == proc[p]
        s == proc'[p]
    IN /\ UNCHANGED netVars /\ StaysPut(r, s)
       /\ <<r.pc, s.pc>> \in {<<"log_connect", "auth_send">>, <<"auth_ack", "not_authenticated">>,
                              <<"auth_reply", "not_authenticated">>, <<"check_reply", "packet">>,
                              <<"check_reply", "not_authenticated">>,
                              <<"not_authenticated", "leave">>, <<"send_failed", "cleanup">>,
                              <<"packet", "bye">>, <<"packet", "send_failed">>,
                              <<"resp_header", "bye">>, <<"resp_data", "bye">>,
                              <<"unexpected", "bye">>, <<"got_data", "bye">>, <<"bye", "leave">>}

\* A cell of a reply.
Hears(p) ==
    LET r == proc[p]
        s == proc'[p]
    IN /\ r.sock \in Conns /\ ClientTakes(r.sock) /\ StaysPut(r, s)
       /\ <<r.pc, s.pc>> \in {<<"auth_ack", "auth_reply">>, <<"auth_ack", "check_reply">>,
                              <<"auth_ack", "not_authenticated">>, <<"auth_reply", "auth_reply">>,
                              <<"auth_reply", "check_reply">>, <<"resp_header", "resp_data">>,
                              <<"resp_header", "got_data">>, <<"resp_header", "unexpected">>,
                              <<"resp_data", "resp_data">>, <<"resp_data", "got_data">>}
       /\ <<r.pc, s.pc>> = <<"auth_ack", "check_reply">> =>
             \E h \in HeadersIn(conn[r.sock].down) : recvLength(h.num) = 0

\* A cell of the packet, the last one at the end of the call.
Hands(p) ==
    LET r == proc[p]
        s == proc'[p]
    IN /\ r.sock \in Conns /\ r.out # <<>> /\ ClientSends(r.sock, Head(r.out))
       /\ s.sock = r.sock /\ s.out = Tail(r.out)
       /\ \/ /\ s.out # <<>> /\ s.iter = r.iter /\ s.pc = r.pc
             /\ r.pc \in {"auth_send", "send", "resend", "req_send"}
          \/ /\ s.out = <<>> /\ s.iter = r.iter
             /\ <<r.pc, s.pc>> \in {<<"auth_send", "auth_ack">>, <<"send", "log_send">>,
                                    <<"req_send", "resp_header">>}
          \/ s.out = <<>> /\ s.iter = r.iter + 1 /\ r.pc = "resend" /\ s.pc = "packet"

\* Another packet.
Begins(p) ==
    LET r == proc[p]
        s == proc'[p]
    IN /\ UNCHANGED netVars /\ s.sock = r.sock /\ s.iter = r.iter
       /\ s.out = FrameOf(s)
       /\ \/ r.pc = "packet" /\ s.pc = "send"
          \/ r.pc = "packet" /\ s.pc = "req_send" /\ s.iter = NumPackets
          \/ r.pc = "check_reply" /\ s.pc = "resend" /\ r.reconnecting

\* The end of an iteration whose packet was handed over, or was given up
\* because main is not authenticated.
Notes(p) ==
    LET r == proc[p]
        s == proc'[p]
    IN /\ UNCHANGED netVars /\ s.sock = r.sock /\ s.out = r.out /\ s.iter = r.iter + 1
       /\ s.pc = "packet"
       /\ r.pc = "log_send" \/ (r.pc = "not_authenticated" /\ r.reconnecting)

Conveys(p) ==
    /\ proc[p].sock \in Conns
    /\ Fails(p) \/ Proceeds(p) \/ Hears(p) \/ Hands(p) \/ Begins(p) \/ Notes(p)

\* A step that closes the connection main has, or that main takes without one.
GivesUp(p) ==
    /\ proc[p].sock \in Conns /\ ClientCloses(proc[p].sock)
    /\ proc'[p].sock \notin Conns

Idles(p) == proc[p].sock \notin Conns /\ UNCHANGED netVars /\ proc'[p].sock \notin Conns

\* Every step of a client is one of them or opens a connection.
LEMMA ConveyingSteps ==
    ASSUME ClientInv, NEW p \in Clients, ClientStep(p)
    PROVE  Conveys(p) \/ GivesUp(p) \/ Idles(p) \/ ConnectSucceeds(p)
<1> DEFINE r == proc[p]
           u == proc'[p]
<1>1. /\ r \in Process /\ \A s : Becomes(p, s) => u = s
  BY AtClient DEF ClientInv, ClientTypeOK, Becomes
<1>2. \A after, row : GoesOn(p, after) \/ Writes(p, row, after)
                        => UNCHANGED netVars /\ StaysPut(r, u) /\ u.pc = after
  BY <1>1 DEF GoesOn, Writes, Writing, Process, StaysPut
<1>3. ASSUME proc[p].sock \in Conns PROVE Conveys(p) \/ GivesUp(p)
  <2>1. r.pc \notin {"winsock", "connect"} BY <1>3, AtClient DEF ClientFits
  <2>2. r.sock # INVALID_SOCKET BY <1>3, ClientAssumption
  <2>3. CASE AuthCallFails(p) \/ ReadReplyFails(p) \/ ReplyRejected(p) \/ ClientLogConnect(p)
    <3>1. CASE AuthCallFails(p)
      BY <1>2, <1>3, <3>1 DEF AuthCallFails, MainAt, SendError, Conveys, Fails, Proceeds, StaysPut
    <3>2. CASE ReadReplyFails(p)
      BY <1>3, <1>2, <3>2 DEF ReadReplyFails, MainAt, Conveys, Proceeds
    <3>3. CASE ReplyRejected(p)
      BY <1>3, <1>2, <3>3 DEF ReplyRejected, MainAt, Conveys, Proceeds
    <3>4. CASE ClientLogConnect(p)
      BY <1>3, <1>2, <3>4 DEF ClientLogConnect, MainAt, Conveys, Proceeds
    <3> QED BY <2>3, <3>1, <3>2, <3>3, <3>4
  <2>4. CASE SendPacketFails(p) \/ LogSendFailed(p) \/ RequestFails(p)
    <3>1. CASE SendPacketFails(p)
      BY <1>2, <1>3, <2>2, <3>1
      DEF SendPacketFails, MainAt, SendError, Conveys, Fails, Proceeds, StaysPut
    <3>2. CASE LogSendFailed(p)
      BY <1>3, <1>2, <3>2 DEF LogSendFailed, MainAt, Conveys, Proceeds
    <3>3. CASE RequestFails(p)
      BY <1>2, <1>3, <3>3
      DEF RequestFails, MainAt, SendError, Conveys, Fails, Proceeds, StaysPut
    <3> QED BY <2>4, <3>1, <3>2, <3>3
  <2>5. CASE SendAuth(p) \/ SendPacket(p) \/ SendRequest(p) \/ Resend(p)
    <3>1. PICK after :
            /\ SendsNext(p, after)
            /\ \/ after = "next" /\ r.pc = "resend"
               \/ <<r.pc, after>> \in {<<"auth_send", "auth_ack">>, <<"send", "log_send">>,
                                       <<"req_send", "resp_header">>}
      BY <2>5 DEF SendAuth, SendPacket, SendRequest, Resend, MainAt
    <3> DEFINE s == [r EXCEPT !.out = Tail(@)]
    <3>2. /\ r.sock \in Conns /\ ClientSends(r.sock, Head(r.out))
          /\ u = IF s.out # <<>> THEN s
                 ELSE IF after = "next" THEN NextIteration(s) ELSE [s EXCEPT !.pc = after]
      BY <1>1, <3>1 DEF SendsNext
    <3>3. /\ s.out = Tail(r.out) /\ s.sock = r.sock /\ s.iter = r.iter /\ s.pc = r.pc
          /\ NextIteration(s).out = s.out /\ NextIteration(s).sock = r.sock
          /\ NextIteration(s).iter = r.iter + 1 /\ NextIteration(s).pc = "packet"
          /\ [s EXCEPT !.pc = after].out = s.out /\ [s EXCEPT !.pc = after].sock = r.sock
          /\ [s EXCEPT !.pc = after].iter = r.iter /\ [s EXCEPT !.pc = after].pc = after
      BY <1>1 DEF Process, NextIteration
    <3>4. r.pc \in {"auth_send", "send", "resend", "req_send"} BY <3>1
    <3>5. r.out # <<>> BY <3>4, AtClient DEF ClientFits, Sending
    <3> HIDE DEF s
    <3>6. CASE s.out # <<>> BY <1>3, <3>2, <3>3, <3>4, <3>5, <3>6 DEF Conveys, Hands
    <3>7. CASE s.out = <<>> /\ after = "next"
      BY <1>3, <3>1, <3>2, <3>3, <3>5, <3>7 DEF Conveys, Hands
    <3>8. CASE s.out = <<>> /\ after # "next"
      BY <1>3, <3>1, <3>2, <3>3, <3>5, <3>8 DEF Conveys, Hands
    <3> QED BY <3>6, <3>7, <3>8
  <2>6. CASE ReadAck(p) \/ ReadResponse(p)
    <3> DEFINE Moves == {<<"auth_ack", "auth_reply">>, <<"auth_ack", "check_reply">>,
                         <<"auth_ack", "not_authenticated">>, <<"resp_header", "resp_data">>,
                         <<"resp_header", "got_data">>, <<"resp_header", "unexpected">>}
               Read(h, place) ==
                  /\ u = [r EXCEPT !.size = h.num, !.buf = <<>>, !.pc = place]
                  /\ <<r.pc, place>> \in Moves
                  /\ place = "check_reply" => ~(recvLength(h.num) > 0)
    <3>0. /\ r.sock \in Conns /\ ClientTakes(r.sock)
          /\ \E h \in HeadersIn(conn[r.sock].down) : \E place : Read(h, place)
      <4>1. ASSUME NEW type, NEW payload, NEW past, NEW refused,
                   ReadsHeader(p, type, payload, past, refused)
            PROVE  /\ r.sock \in Conns /\ ClientTakes(r.sock)
                   /\ \E h \in HeadersIn(conn[r.sock].down) : \E place :
                        /\ u = [r EXCEPT !.size = h.num, !.buf = <<>>, !.pc = place]
                        /\ place \in {payload, past, refused}
                        /\ place = past =>
                              past = payload \/ past = refused \/ ~(recvLength(h.num) > 0)
        BY <1>1, <4>1 DEF ReadsHeader
      <4>2. CASE ReadAck(p)
        <5>1. r.pc = "auth_ack" BY <4>2 DEF ReadAck, MainAt
        <5>2. /\ r.sock \in Conns /\ ClientTakes(r.sock)
              /\ \E h \in HeadersIn(conn[r.sock].down) : \E place :
                   /\ u = [r EXCEPT !.size = h.num, !.buf = <<>>, !.pc = place]
                   /\ place \in {"auth_reply", "check_reply", "not_authenticated"}
                   /\ place = "check_reply" => ~(recvLength(h.num) > 0)
          BY <4>1, <4>2 DEF ReadAck
        <5> QED BY <5>1, <5>2
      <4>3. CASE ReadResponse(p)
        <5>1. r.pc = "resp_header" BY <4>3 DEF ReadResponse, MainAt
        <5>2. /\ r.sock \in Conns /\ ClientTakes(r.sock)
              /\ \E h \in HeadersIn(conn[r.sock].down) : \E place :
                   /\ u = [r EXCEPT !.size = h.num, !.buf = <<>>, !.pc = place]
                   /\ place \in {"resp_data", "got_data", "unexpected"}
          BY <4>1, <4>3 DEF ReadResponse
        <5> QED BY <5>1, <5>2
      <4> QED BY <2>6, <4>2, <4>3
    <3>1. PICK h, place : h \in HeadersIn(conn[r.sock].down) /\ Read(h, place)
      BY <3>0
    <3>2. u.sock = r.sock /\ u.out = r.out /\ u.iter = r.iter /\ u.pc = place
      BY <1>1, <3>1 DEF Process
    <3>3. recvLength(h.num) \in Nat
      <4>1. conn[r.sock].down \in Seq(Cell)
        BY <3>0 DEF ClientInv, NetTypeOK, Connection
      <4>2. h \in Cell BY <3>1, <4>1, HeadersInCell
      <4> QED BY <4>2, RecvLengths DEF Cell
    <3>4. place = "check_reply" => recvLength(h.num) = 0 BY <3>1, <3>3
    <3> QED BY <1>3, <3>0, <3>1, <3>2, <3>4 DEF Conveys, Hears, StaysPut
  <2>7. CASE ReadReply(p) \/ ReadDataset(p)
    <3>1. PICK buf, place :
            /\ r.sock \in Conns /\ ClientTakes(r.sock)
            /\ u = [r EXCEPT !.buf = buf, !.pc = place]
            /\ <<r.pc, place>> \in {<<"auth_reply", "auth_reply">>, <<"auth_reply", "check_reply">>,
                                    <<"resp_data", "resp_data">>, <<"resp_data", "got_data">>}
      BY <1>1, <2>7 DEF ReadReply, ReadDataset, ReadsPayload, MainAt
    <3>2. u.sock = r.sock /\ u.out = r.out /\ u.iter = r.iter /\ u.pc = place
      BY <1>1, <3>1 DEF Process
    <3> QED BY <1>3, <3>1, <3>2 DEF Conveys, Hears, StaysPut
  <2>8. CASE ReplyOK(p)
    <3>1. CASE u = [r EXCEPT !.pc = "packet"]
      <4>1. StaysPut(r, u) /\ u.pc = "packet" BY <1>1, <3>1 DEF Process, StaysPut
      <4> QED BY <1>3, <2>8, <4>1 DEF ReplyOK, MainAt, Conveys, Proceeds
    <3>2. CASE r.reconnecting /\ u = [r EXCEPT !.pc = "resend", !.out = TelemetryPacket(FuelAt(r.iter))]
      <4>1. /\ u.sock = r.sock /\ u.iter = r.iter /\ u.pc = "resend"
            /\ u.out = TelemetryPacket(FuelAt(r.iter))
        BY <1>1, <3>2 DEF Process
      <4> QED BY <1>3, <2>8, <3>2, <4>1 DEF ReplyOK, MainAt, Conveys, Begins, FrameOf
    <3> QED BY <1>1, <2>8, <3>1, <3>2 DEF ReplyOK
  <2>9. CASE NotAuthenticated(p)
    <3>1. u = Rejected(r) BY <1>1, <2>9 DEF NotAuthenticated
    <3>2. CASE r.reconnecting
      <4>1. u.sock = r.sock /\ u.out = r.out /\ u.iter = r.iter + 1 /\ u.pc = "packet"
        BY <1>1, <3>1, <3>2 DEF Rejected, NextIteration, Process
      <4> QED BY <1>3, <2>9, <3>2, <4>1 DEF NotAuthenticated, MainAt, Conveys, Notes
    <3>3. CASE ~r.reconnecting
      <4>1. StaysPut(r, u) /\ u.pc = "leave"
        BY <1>1, <3>1, <3>3 DEF Rejected, ReturnCode, Writing, Process, StaysPut
      <4> QED BY <1>3, <2>9, <4>1 DEF NotAuthenticated, MainAt, Conveys, Proceeds
    <3> QED BY <3>2, <3>3
  <2>10. CASE BuildPacket(p) \/ RequestDataset(p)
    <3>1. CASE BuildPacket(p)
      <4>1. /\ u.sock = r.sock /\ u.iter = r.iter /\ u.pc = "send"
            /\ u.out = TelemetryPacket(FuelAt(r.iter))
        BY <1>1, <3>1 DEF BuildPacket, Process
      <4> QED BY <1>3, <3>1, <4>1 DEF BuildPacket, MainAt, Conveys, Begins, FrameOf
    <3>2. CASE RequestDataset(p)
      <4>1. /\ u.sock = r.sock /\ u.iter = r.iter /\ u.pc = "req_send" /\ u.out = DataRequest
        BY <1>1, <2>2, <3>2 DEF RequestDataset, Process
      <4> QED BY <1>3, <3>2, <4>1 DEF RequestDataset, MainAt, Conveys, Begins, FrameOf
    <3> QED BY <2>10, <3>1, <3>2
  <2>11. CASE LogSend(p) \/ ResendFails(p)
    <3>1. PICK row : u = NextIteration(Writing(r, row, "packet"))
      BY <1>1, <2>11 DEF LogSend, ResendFails
    <3>2. u.sock = r.sock /\ u.out = r.out /\ u.iter = r.iter + 1 /\ u.pc = "packet"
      BY <1>1, <3>1 DEF NextIteration, Writing, Process
    <3>3. CASE LogSend(p) BY <1>3, <3>2, <3>3 DEF LogSend, MainAt, Conveys, Notes
    <3>4. CASE ResendFails(p)
      BY <1>3, <3>2, <3>4 DEF ResendFails, SendError, MainAt, Conveys, Fails
    <3> QED BY <2>11, <3>3, <3>4
  <2>12. CASE GotDataset(p) \/ Bye(p)
    <3>1. CASE GotDataset(p)
      <4>1. StaysPut(r, u) /\ u.pc = "bye" BY <1>1, <3>1 DEF GotDataset, Process, StaysPut
      <4> QED BY <1>3, <3>1, <4>1 DEF GotDataset, MainAt, Conveys, Proceeds
    <3>2. CASE Bye(p)
      <4>1. StaysPut(r, u) /\ u.pc = "leave"
        BY <1>1, <3>2 DEF Bye, ReturnCode, Writing, Process, StaysPut
      <4> QED BY <1>3, <3>2, <4>1 DEF Bye, MainAt, Conveys, Proceeds
    <3> QED BY <2>12, <3>1, <3>2
  <2>13. CASE CleanupAndReconnect(p) \/ Leave(p)
    <3>1. PICK t \in Process : CleanedUp(p, t)
      <4>1. /\ [r EXCEPT !.reconnecting = TRUE, !.pc = "connect"] \in Process
            /\ [r EXCEPT !.pc = "exited"] \in Process
        BY <1>1 DEF Process, ClientPCs
      <4> QED BY <2>13, <4>1 DEF CleanupAndReconnect, Leave
    <3>2. u.sock = INVALID_SOCKET
      <4>1. [t EXCEPT !.wsa = IF @ > 0 THEN @ - 1 ELSE 0] \in Process
        <5>1. (IF t.wsa > 0 THEN t.wsa - 1 ELSE 0) \in Nat BY <3>1 DEF Process
        <5> QED BY <3>1, <5>1 DEF Process
      <4> QED BY <1>1, <3>1, <4>1 DEF CleanedUp, SocketClosed, Process
    <3> QED BY <1>3, <3>1, <3>2, ClientAssumption DEF CleanedUp, SocketClosed, GivesUp
  <2>14. ~ConnectSucceeds(p) /\ ~ClosePrevious(p)
    BY <2>1 DEF ConnectSucceeds, ClosePrevious, Attempting, Trying, MainAt
  <2>15. ~ClientStartup(p) /\ ~NoSocket(p) /\ ~ConnectFails(p) /\ ~AttemptsExhausted(p)
    BY <2>1
    DEF ClientStartup, NoSocket, ConnectFails, AttemptsExhausted, Attempting, Trying, MainAt
  <2> QED
    BY <1>3, <2>3, <2>4, <2>5, <2>6, <2>7, <2>8, <2>9, <2>10, <2>11, <2>12, <2>13, <2>14, <2>15
    DEF ClientStep, Connecting, SendingTelemetry, Finishing
<1>4. ASSUME proc[p].sock \notin Conns, ~ConnectSucceeds(p) PROVE Idles(p)
  <2>1. CASE ClientStartup(p)
    <3>1. u.sock = r.sock /\ UNCHANGED netVars
      BY <1>1, <2>1 DEF ClientStartup, ReturnCode, Writing, Process
    <3> QED BY <1>4, <3>1 DEF Idles
  <2>2. CASE CleanupAndReconnect(p) \/ Leave(p)
    <3>1. PICK t \in Process : CleanedUp(p, t)
      <4>1. /\ [r EXCEPT !.reconnecting = TRUE, !.pc = "connect"] \in Process
            /\ [r EXCEPT !.pc = "exited"] \in Process
        BY <1>1 DEF Process, ClientPCs
      <4> QED BY <2>2, <4>1 DEF CleanupAndReconnect, Leave
    <3>2. u.sock = INVALID_SOCKET
      <4>1. [t EXCEPT !.wsa = IF @ > 0 THEN @ - 1 ELSE 0] \in Process
        <5>1. (IF t.wsa > 0 THEN t.wsa - 1 ELSE 0) \in Nat BY <3>1 DEF Process
        <5> QED BY <3>1, <5>1 DEF Process
      <4> QED BY <1>1, <3>1, <4>1 DEF CleanedUp, SocketClosed, Process
    <3> QED BY <1>4, <3>1, <3>2, ClientAssumption DEF CleanedUp, SocketClosed, Idles
  <2>3. CASE SameSession(r, u)
    <3>1. u.sock \notin Conns BY <1>4, <2>3 DEF SameSession
    <3>2. /\ \A after : ~SendsNext(p, after) /\ ~ReadsPayload(p, after)
          /\ \A type, payload, past, refused : ~ReadsHeader(p, type, payload, past, refused)
      BY <1>4 DEF SendsNext, ReadsPayload, ReadsHeader
    <3>3. \A after : SocketClosed(p, after) => UNCHANGED netVars BY <1>4 DEF SocketClosed
    <3>4. CASE Connecting(p)
      BY <1>4, <3>1, <3>2, <3>3, <3>4
      DEF Connecting, ClosePrevious, ClientStartup, NoSocket, ConnectFails, AttemptsExhausted, ClientLogConnect,
          SendAuth, AuthCallFails, ReadAck, ReadReply, ReadReplyFails, ReplyOK, ReplyRejected,
          NotAuthenticated, GoesOn, Writes, Idles
    <3>5. CASE SendingTelemetry(p)
      BY <1>4, <3>1, <3>2, <3>3, <3>5
      DEF SendingTelemetry, BuildPacket, SendPacket, SendPacketFails, LogSend, LogSendFailed,
          CleanupAndReconnect, CleanedUp, Resend, ResendFails, Writes, Idles
    <3>6. CASE Finishing(p)
      BY <1>4, <3>1, <3>2, <3>3, <3>6
      DEF Finishing, RequestDataset, SendRequest, ReadResponse, ReadDataset, RequestFails,
          GotDataset, Bye, Leave, CleanedUp, Writes, Idles
    <3> QED BY <3>4, <3>5, <3>6 DEF ClientStep
  <2> QED BY <1>4, <2>1, <2>2, <2>3, SessionSteps
<1> QED BY <1>3, <1>4
\* The readings main may have handed over, of which it notes the last only
\* at its next step; a crash may come before.
Reach(r) == r.iter + (IF r.pc \in {"log_send", "crashed"} THEN 1 ELSE 0)

\* Where main stands once a packet has been sent, and at its end.
LEMMA PlacesBehind ==
    ASSUME NEW p \in Clients, ClientStep(p)
    PROVE  /\ proc[p].pc \notin {"exited", "crashed"}
           /\ proc[p].pc = "log_send" => LogSend(p)
           /\ proc[p].pc = "got_data" => GotDataset(p)
           /\ proc[p].pc = "bye" => Bye(p)
           /\ proc[p].pc = "leave" => Leave(p)
<1> DEFINE Others == {"exited", "crashed", "log_send", "got_data", "bye", "leave"}
<1>1. ASSUME Connecting(p) PROVE proc[p].pc \notin Others
  BY <1>1
  DEF Connecting, ClientStartup, NoSocket, ConnectSucceeds, ConnectFails, AttemptsExhausted,
      ClientLogConnect, SendAuth, AuthCallFails, ReadAck, ReadReply, ReadReplyFails, ReplyOK,
      ReplyRejected, NotAuthenticated, ClosePrevious, Attempting, Trying, MainAt
<1>2. ASSUME SendingTelemetry(p), ~LogSend(p) PROVE proc[p].pc \notin Others
  BY <1>2
  DEF SendingTelemetry, BuildPacket, SendPacket, SendPacketFails, LogSendFailed,
      CleanupAndReconnect, Resend, ResendFails, MainAt
<1>3. ASSUME Finishing(p), ~GotDataset(p), ~Bye(p), ~Leave(p) PROVE proc[p].pc \notin Others
  BY <1>3
  DEF Finishing, RequestDataset, SendRequest, ReadResponse, ReadDataset, RequestFails, MainAt
<1>4. /\ LogSend(p) => proc[p].pc = "log_send"
      /\ GotDataset(p) => proc[p].pc = "got_data"
      /\ Bye(p) => proc[p].pc = "bye"
      /\ Leave(p) => proc[p].pc = "leave"
  BY DEF LogSend, GotDataset, Bye, Leave, MainAt
<1> QED BY <1>1, <1>2, <1>3, <1>4 DEF ClientStep

\* It never has to take back one.
LEMMA ReachGrows ==
    ASSUME ClientInv, NEW p \in Clients, ClientStep(p) \/ ClientCrash(p),
           proc[p].pc = "resend" => proc[p].reconnecting
    PROVE  Reach(proc'[p]) >= Reach(proc[p]) /\ proc'[p].iter >= proc[p].iter
<1> DEFINE r == proc[p]
           u == proc'[p]
<1>1. r \in Process /\ r.iter \in Nat /\ \A s : Becomes(p, s) => u = s
  BY AtClient, ClientAssumption DEF ClientInv, ClientTypeOK, Becomes, Process
<1>2. u.iter = r.iter \/ u.iter = r.iter + 1
  BY RecordSteps DEF RecordsNothing, RecordsError, GoesOnWithout, RecordsSend
<1>3. CASE ClientCrash(p)
  <2>1. u.pc = "crashed" /\ u.iter = r.iter /\ r.pc # "crashed"
    BY <1>1, <1>3 DEF ClientCrash, ClientEnded, Process
  <2> QED BY <1>1, <2>1 DEF Reach
<1>4. CASE ClientStep(p)
  <2>1. CASE r.pc = "log_send"
    <3>1. LogSend(p) BY <1>4, <2>1, PlacesBehind
    <3>2. u.iter = r.iter + 1
      BY <1>1, <3>1 DEF LogSend, NextIteration, Writing, Process
    <3> QED BY <1>1, <2>1, <3>2 DEF Reach
  <2>2. CASE r.pc # "log_send"
    <3>1. r.pc # "crashed" BY <1>4, PlacesBehind
    <3> QED BY <1>1, <1>2, <2>2, <3>1 DEF Reach
  <2> QED BY <2>1, <2>2
<1> QED BY <1>3, <1>4

\* main takes the dataset at one place.
LEMMA DatasetSteps ==
    ASSUME ClientInv, NEW p \in Clients, ClientStep(p) \/ ClientCrash(p), ~GotDataset(p)
    PROVE  proc'[p].dataset = proc[p].dataset
<1> DEFINE r == proc[p]
           u == proc'[p]
<1>1. r \in Process /\ \A s : Becomes(p, s) => u = s
  BY AtClient DEF ClientInv, ClientTypeOK, Becomes
<1>2. /\ \A row, after : Writing(r, row, after).dataset = r.dataset
      /\ \A after : [r EXCEPT !.pc = after].dataset = r.dataset
      /\ \A row, after : Writes(p, row, after) => u.dataset = r.dataset
      /\ \A after : GoesOn(p, after) => u.dataset = r.dataset
  BY <1>1 DEF Process, Writing, Writes, GoesOn
<1>3. CASE ClientStartup(p) \/ NoSocket(p) \/ ConnectFails(p) \/ AttemptsExhausted(p)
  <2>1. CASE ClientStartup(p)
    BY <1>1, <2>1 DEF ClientStartup, ReturnCode, Writing, Process
  <2>2. CASE NoSocket(p)
    BY <1>1, <2>2 DEF NoSocket, NotConnected, NextIteration, ReturnCode, Process
  <2>3. CASE ConnectFails(p)
    BY <1>1, <2>3 DEF ConnectFails, Writing, Process
  <2>4. CASE AttemptsExhausted(p)
    <3> DEFINE s == Writing(r, <<"ERROR">>, "connect")
    <3>1. s \in Process /\ s.dataset = r.dataset
      BY <1>1, <1>2, WritingTypes, ClientRowTypes DEF ClientPCs
    <3>2. u = NotConnected(s) BY <1>1, <2>4 DEF AttemptsExhausted
    <3> HIDE DEF s
    <3> QED BY <3>1, <3>2 DEF NotConnected, NextIteration, ReturnCode, Process
  <2> QED BY <1>3, <2>1, <2>2, <2>3, <2>4
<1>4. CASE ConnectSucceeds(p) \/ ReplyOK(p) \/ BuildPacket(p) \/ RequestDataset(p) \/ ClientCrash(p)
  BY <1>1, <1>4
  DEF ConnectSucceeds, ReplyOK, BuildPacket, RequestDataset, ClientCrash, Process
<1>5. CASE \/ ClientLogConnect(p) \/ AuthCallFails(p) \/ ReadReplyFails(p) \/ ReplyRejected(p)
           \/ SendPacketFails(p) \/ LogSendFailed(p) \/ RequestFails(p)
  BY <1>2, <1>5
  DEF ClientLogConnect, AuthCallFails, ReadReplyFails, ReplyRejected, SendPacketFails,
      LogSendFailed, RequestFails
<1>6. CASE NotAuthenticated(p) \/ LogSend(p) \/ ResendFails(p) \/ Bye(p)
  BY <1>1, <1>6
  DEF NotAuthenticated, Rejected, LogSend, ResendFails, Bye, NextIteration, ReturnCode, Writing,
      Process
<1>7. ASSUME NEW after, SendsNext(p, after) PROVE u.dataset = r.dataset
  <2> DEFINE s == [r EXCEPT !.out = Tail(@)]
  <2>1. /\ s.dataset = r.dataset /\ NextIteration(s).dataset = r.dataset
        /\ [s EXCEPT !.pc = after].dataset = r.dataset
    BY <1>1 DEF Process, NextIteration
  <2>2. u \in {s, NextIteration(s), [s EXCEPT !.pc = after]}
    BY <1>1, <1>7 DEF SendsNext
  <2> HIDE DEF s
  <2> QED BY <2>1, <2>2
<1>8. CASE SendAuth(p) \/ SendPacket(p) \/ Resend(p) \/ SendRequest(p)
  BY <1>7, <1>8 DEF SendAuth, SendPacket, Resend, SendRequest
<1>9. CASE ReadAck(p) \/ ReadReply(p) \/ ReadResponse(p) \/ ReadDataset(p)
  BY <1>1, <1>9
  DEF ReadAck, ReadReply, ReadResponse, ReadDataset, ReadsHeader, ReadsPayload, Process
<1>10. CASE CleanupAndReconnect(p) \/ Leave(p)
  BY <1>1, <1>10 DEF CleanupAndReconnect, Leave, CleanedUp, SocketClosed, Process
<1>11. CASE ClosePrevious(p)
  BY <1>1, <1>11, PreviousClosed DEF Process
<1> QED
  BY <1>3, <1>4, <1>5, <1>6, <1>8, <1>9, <1>10, <1>11
  DEF ClientStep, Connecting, SendingTelemetry, Finishing

-----------------------------------------------------------------------------
(***************************************************************************)
(* The flight of main_client.exe: as long as it has its one connection,    *)
(* each iteration has left its SEND row.                                   *)
(***************************************************************************)
Responding == {"resp_header", "resp_data", "got_data"}

AllNoted(r) ==
    /\ Len(Sends(r.log)) = r.iter
    /\ \A i \in 1..r.iter : Sends(r.log)[i][2] = FuelAt(i - 1)

Straight(r) ==
    /\ OneConnection(r)
    /\ r.pc \in {"winsock", "connect"} /\ ~r.reconnecting => r.iter = 0
    /\ r.sock \in Conns => AllNoted(r)
    /\ r.sock \in Conns /\ r.pc \in Responding \cup {"req_send"} => r.iter = NumPackets
    /\ r.pc \in Responding => r.sock \in Conns
    /\ r.dataset => r.pc \in {"bye", "leave", "exited", "crashed"}

\* Where main tries to connect for the first time, and where it waits for
\* the dataset, by where it was.
LEMMA PlacesAhead ==
    ASSUME ClientInv, NEW p \in Clients, ClientStep(p) \/ ClientCrash(p)
    PROVE  LET r == proc[p]
               s == proc'[p]
           IN /\ s.pc # "winsock"
              /\ s.pc = "connect" /\ ~s.reconnecting =>
                    r.pc \in {"winsock", "connect"} /\ ~r.reconnecting /\ s.iter = r.iter
              /\ s.pc \in Responding => r.sock \in Conns /\ s.sock = r.sock
<1> DEFINE r == proc[p]
           s == proc'[p]
           Elsewhere == s.pc \notin {"winsock", "connect"} \cup Responding
<1> SUFFICES \/ Elsewhere
             \/ /\ s.pc = "connect"
                /\ ~s.reconnecting =>
                      r.pc \in {"winsock", "connect"} /\ ~r.reconnecting /\ s.iter = r.iter
             \/ s.pc \notin {"winsock", "connect"} /\ r.sock \in Conns /\ s.sock = r.sock
  BY DEF Responding
<1>1. r \in Process /\ \A t : Becomes(p, t) => s = t
  BY AtClient DEF ClientInv, ClientTypeOK, Becomes
<1>2. /\ \A t \in Process : NextIteration(t).pc = "packet"
      /\ \A t \in Process : \A code : ReturnCode(t, code).pc = "leave"
      /\ \A t \in Process : NotConnected(t).pc \in {"packet", "leave"}
  <2>1. /\ \A t \in Process : NextIteration(t).pc = "packet"
        /\ \A t \in Process : \A code : ReturnCode(t, code).pc = "leave"
    BY DEF NextIteration, ReturnCode, Process
  <2> QED BY <2>1 DEF NotConnected
<1>3. \A row, after : GoesOn(p, after) \/ Writes(p, row, after) => s.pc = after
  BY <1>1 DEF GoesOn, Writes, Writing, Process
<1>4. CASE ClientStartup(p) \/ ConnectFails(p)
  <2>1. \A row, code : ReturnCode(Writing(r, row, "leave"), code).pc = "leave"
    BY <1>1 DEF ReturnCode, Writing, Process
  <2>2. CASE ClientStartup(p)
    <3>1. s = [r EXCEPT !.wsa = @ + 1, !.pc = "connect"] \/ s.pc = "leave"
      BY <1>1, <2>1, <2>2 DEF ClientStartup
    <3> QED BY <1>1, <2>2, <3>1 DEF ClientStartup, MainAt, Process, Responding
  <2>3. CASE ConnectFails(p)
    <3>1. /\ s.pc = "connect" /\ r.pc = "connect" /\ s.iter = r.iter
          /\ s.reconnecting = r.reconnecting
      BY <1>1, <2>3 DEF ConnectFails, Attempting, Trying, MainAt, Writing, Process
    <3> QED BY <3>1
  <2> QED BY <1>4, <2>2, <2>3
<1>5. CASE NoSocket(p) \/ AttemptsExhausted(p) \/ NotAuthenticated(p)
  <2>1. CASE NoSocket(p)
    <3>1. PICK t \in Process : s = NotConnected(t)
      BY <1>1, <2>1 DEF NoSocket, Process
    <3> QED BY <1>2, <3>1 DEF Responding
  <2>2. CASE AttemptsExhausted(p)
    <3>1. PICK t \in Process : s = NotConnected(t)
      <4>1. Writing(r, <<"ERROR">>, "connect") \in Process
        BY <1>1, WritingTypes, ClientRowTypes DEF ClientPCs
      <4> QED BY <1>1, <2>2, <4>1 DEF AttemptsExhausted
    <3> QED BY <1>2, <3>1 DEF Responding
  <2>3. CASE NotAuthenticated(p)
    <3>1. Writing(r, <<"ERROR">>, "leave") \in Process
      BY <1>1, WritingTypes, ClientRowTypes DEF ClientPCs
    <3>2. s.pc \in {"packet", "leave"}
      BY <1>1, <1>2, <2>3, <3>1 DEF NotAuthenticated, Rejected
    <3> QED BY <3>2 DEF Responding
  <2> QED BY <1>5, <2>1, <2>2, <2>3
<1>6. CASE ConnectSucceeds(p) \/ ReplyOK(p) \/ BuildPacket(p) \/ RequestDataset(p)
           \/ GotDataset(p) \/ ClientCrash(p)
  <2>1. s.pc \in {"auth_send", "log_connect", "packet", "resend", "send", "bye", "req_send",
                  "crashed"}
    <3>1. CASE ConnectSucceeds(p)
      <4>1. PICK pc \in {"auth_send", "log_connect"}, c \in Conns :
               s = [r EXCEPT !.sock = c, !.sockets = @ + 1, !.attempts = 0,
                             !.out = AuthRequest(TOKEN), !.pc = pc]
        BY <1>1, <3>1 DEF ConnectSucceeds
      <4> QED BY <1>1, <4>1 DEF Process
    <3>2. CASE ReplyOK(p)
      BY <1>1, <3>2 DEF ReplyOK, Process
    <3>3. CASE BuildPacket(p) \/ RequestDataset(p)
      BY <1>1, <3>3 DEF BuildPacket, RequestDataset, Process
    <3>4. CASE GotDataset(p) \/ ClientCrash(p)
      BY <1>1, <3>4 DEF GotDataset, ClientCrash, Process
    <3> QED BY <1>6, <3>1, <3>2, <3>3, <3>4
  <2> QED BY <2>1 DEF Responding
<1>7. CASE \/ ClientLogConnect(p) \/ AuthCallFails(p) \/ ReadReplyFails(p) \/ ReplyRejected(p)
           \/ SendPacketFails(p) \/ LogSendFailed(p) \/ RequestFails(p)
  <2>1. s.pc \in {"auth_send", "not_authenticated", "send_failed", "cleanup", "bye"}
    BY <1>3, <1>7
    DEF ClientLogConnect, AuthCallFails, ReadReplyFails, ReplyRejected, SendPacketFails,
        LogSendFailed, RequestFails
  <2> QED BY <2>1 DEF Responding
<1>8. CASE LogSend(p) \/ ResendFails(p) \/ Bye(p)
  <2>1. \A row : \A code : /\ NextIteration(Writing(r, row, "packet")).pc = "packet"
                          /\ ReturnCode(Writing(r, row, "leave"), code).pc = "leave"
    BY <1>1 DEF NextIteration, ReturnCode, Writing, Process
  <2>2. s.pc \in {"packet", "leave"} BY <1>1, <1>8, <2>1 DEF LogSend, ResendFails, Bye
  <2> QED BY <2>2 DEF Responding
<1>9. CASE CleanupAndReconnect(p) \/ Leave(p)
  <2>1. \/ s.pc = "connect" /\ s.reconnecting
        \/ s.pc = "exited"
    BY <1>1, <1>9 DEF CleanupAndReconnect, Leave, CleanedUp, SocketClosed, Process
  <2> QED BY <2>1 DEF Responding
<1>10. ASSUME NEW after, SendsNext(p, after), after \notin {"winsock", "connect"},
              r.pc \notin {"winsock", "connect"}
       PROVE  s.pc \notin {"winsock", "connect"} /\ r.sock \in Conns /\ s.sock = r.sock
  <2> DEFINE t == [r EXCEPT !.out = Tail(@)]
  <2>1. /\ t.pc = r.pc /\ t.sock = r.sock
        /\ NextIteration(t).pc = "packet" /\ NextIteration(t).sock = r.sock
        /\ [t EXCEPT !.pc = after].pc = after /\ [t EXCEPT !.pc = after].sock = r.sock
    BY <1>1 DEF Process, NextIteration
  <2>2. r.sock \in Conns /\ s \in {t, NextIteration(t), [t EXCEPT !.pc = after]}
    BY <1>1, <1>10 DEF SendsNext
  <2> HIDE DEF t
  <2> QED BY <1>10, <2>1, <2>2
<1>11. CASE SendAuth(p) \/ SendPacket(p) \/ Resend(p) \/ SendRequest(p)
  BY <1>10, <1>11 DEF SendAuth, SendPacket, Resend, SendRequest, MainAt
<1>12. CASE ReadAck(p) \/ ReadReply(p) \/ ReadResponse(p) \/ ReadDataset(p)
  <2> DEFINE Still == r.sock \in Conns /\ s.sock = r.sock /\ s.pc \notin {"winsock", "connect"}
  <2>1. CASE ReadAck(p)
    <3>1. Still BY <1>1, <2>1 DEF ReadAck, ReadsHeader, MainAt, Process
    <3> QED BY <3>1
  <2>2. CASE ReadResponse(p)
    <3>1. Still BY <1>1, <2>2 DEF ReadResponse, ReadsHeader, MainAt, Process
    <3> QED BY <3>1
  <2>3. CASE ReadReply(p) \/ ReadDataset(p)
    <3>1. Still BY <1>1, <2>3 DEF ReadReply, ReadDataset, ReadsPayload, MainAt, Process
    <3> QED BY <3>1
  <2> QED BY <1>12, <2>1, <2>2, <2>3
<1>13. CASE ClosePrevious(p)
  <2>1. r.pc = "connect" /\ s = [r EXCEPT !.sock = INVALID_SOCKET, !.sockets = 0]
    BY <1>1, <1>13, PreviousClosed DEF MainAt
  <2>2. s.pc = "connect" /\ s.iter = r.iter /\ s.reconnecting = r.reconnecting
    BY <1>1, <2>1 DEF Process
  <2> QED BY <2>1, <2>2
<1> QED
  BY <1>4, <1>5, <1>6, <1>7, <1>8, <1>9, <1>11, <1>12, <1>13
  DEF ClientStep, Connecting, SendingTelemetry, Finishing

\* The row main writes once a packet has been handed over.
LEMMA SendNoted ==
    ASSUME NEW r \in Process, NEW s, RecordsSend(r, s)
    PROVE  /\ Len(Sends(r.log)) \in Nat
           /\ Len(Sends(s.log)) = Len(Sends(r.log)) + 1
           /\ \A i \in 1..Len(Sends(r.log)) : Sends(s.log)[i] = Sends(r.log)[i]
           /\ Sends(s.log)[Len(Sends(r.log)) + 1][2] = FuelAt(r.iter)
<1> DEFINE row == <<"SEND", FuelAt(r.iter)>>
           before == Sends(r.log)
           after == Sends(s.log)
<1>1. r.log \in Seq(ClientRow) /\ r.iter \in 0..NumPackets
  BY DEF Process
<1>2. row \in ClientRow /\ row[1] = "SEND" /\ row[2] = FuelAt(r.iter)
  BY <1>1, FuelTypes DEF ClientRow
<1>3. s.log = Append(r.log, row) BY DEF RecordsSend
<1> HIDE DEF row
<1>4. after = Append(before, row) /\ before \in Seq(ClientRow)
  BY <1>1, <1>2, <1>3, OneMoreRow
<1> HIDE DEF before, after
<1>5. /\ Len(before) \in Nat /\ Len(after) = Len(before) + 1
      /\ \A i \in 1..Len(before) : after[i] = before[i]
      /\ after[Len(before) + 1] = row
  BY <1>4
<1> QED BY <1>2, <1>5 DEF before, after

\* On its connection a step of main leaves an iteration with its SEND row.
LEMMA NotedOnward ==
    ASSUME ClientInv, NEW p \in Clients, ClientStep(p) \/ ClientCrash(p),
           Recorded(proc[p]), ~proc[p].reconnecting, AllNoted(proc[p])
    PROVE  AllNoted(proc'[p])
<1> DEFINE r == proc[p]
           s == proc'[p]
<1>1. /\ r \in Process /\ r.log \in Seq(ClientRow) /\ r.iter \in Nat
      /\ \A t : Becomes(p, t) => s = t
  BY AtClient, ClientAssumption DEF ClientInv, ClientTypeOK, Becomes, Process
<1>2. CASE RecordsSend(r, s)
  <2> DEFINE before == Sends(r.log)
             after == Sends(s.log)
  <2>1. /\ Len(before) \in Nat /\ Len(after) = Len(before) + 1
        /\ \A i \in 1..Len(before) : after[i] = before[i]
        /\ after[Len(before) + 1][2] = FuelAt(r.iter)
    BY <1>1, <1>2, SendNoted
  <2>2. s.iter = r.iter + 1 BY <1>2 DEF RecordsSend
  <2>3. Len(before) = r.iter /\ \A i \in 1..r.iter : before[i][2] = FuelAt(i - 1)
    BY DEF AllNoted
  <2> HIDE DEF before, after
  <2>4. \A i \in 1..(r.iter + 1) : i \in 1..r.iter \/ (i = r.iter + 1 /\ i - 1 = r.iter) BY <1>1
  <2>5. \A i \in 1..(r.iter + 1) : after[i][2] = FuelAt(i - 1)
    BY <2>1, <2>3, <2>4
  <2> QED BY <2>1, <2>2, <2>3, <2>5 DEF AllNoted, after
<1>3. ~GoesOnWithout(r, s) BY DEF GoesOnWithout
<1>4. CASE RecordsNothing(r, s) \/ RecordsError(r, s)
  <2>1. Sends(s.log) = Sends(r.log)
    BY <1>1, <1>4, ClientRowTypes, OneMoreRow DEF RecordsNothing, RecordsError
  <2>2. s.iter = r.iter BY <1>4 DEF RecordsNothing, RecordsError
  <2> QED BY <2>1, <2>2 DEF AllNoted
<1> QED BY <1>2, <1>3, <1>4, RecordSteps DEF Recorded

LEMMA StraightStep ==
    ASSUME OtherWsaRefs = 0, ClientInv, NEW p \in Clients, Straight(proc[p]), Recorded(proc[p]),
           ClientStep(p) \/ ClientCrash(p)
    PROVE  Straight(proc'[p])
<1> DEFINE r == proc[p]
           s == proc'[p]
<1>1. /\ r \in Process /\ r.iter \in Nat /\ r.wsa \in Nat
      /\ \A t : Becomes(p, t) => s = t
  BY AtClient, ClientAssumption DEF ClientInv, ClientTypeOK, Becomes, Process
<1>2. OneConnection(s) BY OneConnectionStep DEF Straight
<1>3. /\ s.pc \in {"winsock", "connect"} /\ ~s.reconnecting => s.iter = 0
      /\ s.pc \in Responding => s.sock \in Conns
  BY PlacesAhead DEF Straight
<1>4. CASE ConnectSucceeds(p)
  <2>1. r.pc = "connect" /\ r.wsa > 0 BY <1>4 DEF ConnectSucceeds, Attempting, Trying, MainAt
  <2>2. ~r.reconnecting /\ r.iter = 0 BY <1>1, <2>1 DEF Straight, OneConnection
  <2>3. AllNoted(r)
    <3>1. Len(Sends(r.log)) \in Nat /\ Len(Sends(r.log)) <= 0
      <4>1. r.log \in Seq(ClientRow) BY <1>1 DEF Process
      <4>2. Sends(r.log) \in Seq(ClientRow) BY <4>1, ClientRowTypes, OneMoreRow
      <4> QED BY <2>2, <4>2 DEF Recorded
    <3> QED BY <2>2, <3>1 DEF AllNoted
  <2>4. AllNoted(s) BY <2>2, <2>3, NotedOnward, <1>4 DEF ClientStep, Connecting
  <2>5. s.pc \in {"auth_send", "log_connect"} /\ s.dataset = r.dataset
    <3>1. PICK c \in Conns, pc \in {"auth_send", "log_connect"} :
             s = [r EXCEPT !.sock = c, !.sockets = @ + 1, !.attempts = 0,
                           !.out = AuthRequest(TOKEN), !.pc = pc]
      BY <1>1, <1>4 DEF ConnectSucceeds
    <3> QED BY <1>1, <3>1 DEF Process
  <2>6. ~s.dataset BY <2>1, <2>5 DEF Straight
  <2> QED BY <1>2, <1>3, <2>4, <2>5, <2>6 DEF Straight, Responding
<1>5. CASE ~ConnectSucceeds(p)
  <2>2. s.sock \in Conns =>
          /\ r.sock \in Conns
          /\ s.pc \in Responding \cup {"req_send"} => s.iter = NumPackets
    <3>1. CASE ClientCrash(p)
      <4>1. s.pc = "crashed" /\ s.sock = r.sock BY <1>1, <3>1 DEF ClientCrash, Process
      <4> QED BY <4>1 DEF Responding
    <3>2. CASE Conveys(p)
      <4>1. r.sock \in Conns /\ (r.pc \in Responding \cup {"req_send"} => r.iter = NumPackets)
        BY <3>2 DEF Conveys, Straight
      <4>2. CASE Fails(p) BY <4>1, <4>2 DEF Fails, Responding
      <4>3. CASE Proceeds(p) BY <4>1, <4>3 DEF Proceeds, Responding
      <4>4. CASE Hears(p) BY <4>1, <4>4 DEF Hears, StaysPut, Responding
      <4>5. CASE Hands(p) BY <4>1, <4>5 DEF Hands, Responding
      <4>6. CASE Begins(p) BY <4>1, <4>6 DEF Begins, Responding
      <4>7. CASE Notes(p) BY <4>1, <4>7 DEF Notes, Responding
      <4> QED BY <3>2, <4>2, <4>3, <4>4, <4>5, <4>6, <4>7 DEF Conveys
    <3>3. CASE GivesUp(p) \/ Idles(p) BY <3>3 DEF GivesUp, Idles
    <3> QED BY <1>5, <3>1, <3>2, <3>3, ConveyingSteps
  <2>3. s.sock \in Conns => AllNoted(s)
    <3>1. SUFFICES ASSUME s.sock \in Conns PROVE AllNoted(s) OBVIOUS
    <3>2. r.sock \in Conns BY <2>2, <3>1
    <3>3. ~r.reconnecting /\ AllNoted(r) BY <3>2 DEF Straight, OneConnection
    <3> QED BY <3>3, NotedOnward
  <2>4. s.dataset => s.pc \in {"bye", "leave", "exited", "crashed"}
    <3>1. CASE GotDataset(p)
      <4>1. s.pc = "bye" BY <1>1, <3>1 DEF GotDataset, Process
      <4> QED BY <4>1
    <3>2. CASE ~GotDataset(p)
      <4>1. s.dataset = r.dataset BY <3>2, DatasetSteps
      <4>2. SUFFICES ASSUME r.pc \in {"bye", "leave", "exited", "crashed"}
                     PROVE  s.pc \in {"bye", "leave", "exited", "crashed"}
        BY <4>1 DEF Straight
      <4>3. CASE ClientCrash(p)
        BY <1>1, <4>3 DEF ClientCrash, Process
      <4>4. CASE Bye(p)
        <5>1. \A row, code : ReturnCode(Writing(r, row, "leave"), code).pc = "leave"
          BY <1>1 DEF ReturnCode, Writing, Process
        <5> QED BY <1>1, <4>4, <5>1 DEF Bye
      <4>5. CASE Leave(p)
        <5>1. s.pc = "exited" BY <1>1, <4>5 DEF Leave, CleanedUp, SocketClosed, Process
        <5> QED BY <5>1
      <4> QED BY <4>2, <4>3, <4>4, <4>5, PlacesBehind
    <3> QED BY <3>1, <3>2
  <2> QED BY <1>2, <1>3, <2>2, <2>3, <2>4 DEF Straight
<1> QED BY <1>4, <1>5

LEMMA StraightInitially ==
    OtherWsaRefs = 0 /\ ClientInit => \A p \in Clients : Straight(proc[p])
<1> SUFFICES ASSUME OtherWsaRefs = 0, ClientInit, NEW p \in Clients PROVE Straight(proc[p])
  OBVIOUS
<1>1. /\ proc[p].pc = "winsock" /\ proc[p].sock \notin Conns /\ proc[p].iter = 0
      /\ proc[p].dataset = FALSE
  BY ClientAssumption DEF ClientInit
<1>2. OneConnection(proc[p]) BY OneConnectionInitially
<1> QED BY <1>1, <1>2 DEF Straight, Responding

\* No row is taken back.
LEMMA SendsGrow ==
    ASSUME ClientInv, NEW p \in Clients, ClientStep(p) \/ ClientCrash(p), Recorded(proc[p])
    PROVE  /\ Len(Sends(proc[p].log)) \in Nat /\ Len(Sends(proc'[p].log)) \in Nat
           /\ Len(Sends(proc'[p].log)) >= Len(Sends(proc[p].log))
           /\ \/ Sends(proc'[p].log) = Sends(proc[p].log)
              \/ RecordsSend(proc[p], proc'[p])
<1> DEFINE r == proc[p]
           s == proc'[p]
<1>1. r \in Process /\ r.log \in Seq(ClientRow) BY AtClient DEF Process
<1>2. Len(Sends(r.log)) \in Nat
  <2>1. Sends(r.log) \in Seq(ClientRow) BY <1>1, ClientRowTypes, OneMoreRow
  <2> QED BY <2>1
<1>3. Sends(s.log) = Sends(r.log) \/ RecordsSend(r, s)
  <2>1. ASSUME NEW event \in {"CONNECT", "DISCONNECT", "ERROR"},
               s.log = Append(r.log, <<event>>)
        PROVE  Sends(s.log) = Sends(r.log)
    <3>1. Sends(Append(r.log, <<event>>)) = Sends(r.log)
      BY <1>1, ClientRowTypes, OneMoreRow
    <3> HIDE DEF r, s
    <3> QED BY <2>1, <3>1, Zenon
  <2>2. RecordsNothing(r, s) \/ RecordsError(r, s) \/ GoesOnWithout(r, s) =>
           \/ s.log = r.log
           \/ \E event \in {"CONNECT", "DISCONNECT", "ERROR"} : s.log = Append(r.log, <<event>>)
    BY DEF RecordsNothing, RecordsError, GoesOnWithout
  <2>3. \/ RecordsNothing(r, s) \/ RecordsError(r, s)
        \/ GoesOnWithout(r, s) \/ RecordsSend(r, s)
    BY RecordSteps DEF Recorded
  <2> HIDE DEF r, s
  <2> QED BY <2>1, <2>2, <2>3
<1> QED BY <1>1, <1>2, <1>3, SendNoted
=============================================================================
