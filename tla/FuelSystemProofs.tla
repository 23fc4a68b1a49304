-------------------------- MODULE FuelSystemProofs --------------------------
(***************************************************************************)
(* Proofs about the system of server and clients (module FuelSystem), for  *)
(* any number of clients and connections, any flight and every choice of   *)
(* what may fail.                                                          *)
(*                                                                         *)
(* The inductive invariants of the two programs are put together: a step   *)
(* of a client is one operation on its own end of its own connection, and  *)
(* leaves the server's invariant alone, and the other way round.           *)
(*                                                                         *)
(* What a client has done on a connection is in no variable of the system. *)
(* The later sections show that a history of it exists in every reachable  *)
(* state, and from it that a retry logs nothing twice, that the dataset    *)
(* acknowledges the flight, and that the programs implement Flight.        *)
(***************************************************************************)
EXTENDS FuelSystem, ServerProofs, ClientProofs

UserTypeOK == user \in [Conns -> Clients \cup {Nobody}]

SystemInv == ServerInv /\ ClientInv /\ UserTypeOK

-----------------------------------------------------------------------------
(***************************************************************************)
(* Each program leaves the other's ends of the connections alone.          *)
(***************************************************************************)
LEMMA ClientUndisturbing ==
    ASSUME ClientInv, NEW p \in Clients, OnOwnSocket(p)
    PROVE  NetTypeOK' /\ Undisturbed
<1>1. NetTypeOK BY DEF ClientInv
<1>2. Bytes("OK") \in Cell BY CellTypes DEF Texts
<1>3. CASE UNCHANGED netVars
  BY <1>1, <1>3 DEF NetTypeOK, Undisturbed, netVars
<1> QED BY <1>1, <1>2, <1>3, NetworkSteps DEF OnOwnSocket

LEMMA HandlerKeepsEnds ==
    ASSUME ServerInv, NEW c \in Conns, OnOwnConnection(c) \/ ServerSocketsGone
    PROVE  NetTypeOK' /\ ClientEndsKept
<1>1. NetTypeOK BY DEF ServerInv
<1>2. Bytes("OK") \in Cell BY CellTypes DEF Texts
<1>3. CASE ServerSocketsGone
  BY <1>1, <1>3, KeptBySocketsGone
<1> QED BY <1>1, <1>2, <1>3, KeptByNetwork DEF OnOwnConnection

LEMMA MainKeepsEnds ==
    ASSUME ServerInv, MainThread
    PROVE  NetTypeOK' /\ ClientEndsKept
<1>1. NetTypeOK BY DEF ServerInv
<1>2. Bytes("OK") \in Cell BY CellTypes DEF Texts
<1>3. CASE InitializeWinsock \/ AcceptFails \/ Return
  BY <1>1, <1>3 DEF InitializeWinsock, AcceptFails, Return, NetTypeOK, ClientEndsKept, netVars
<1>4. CASE StartServer
  BY <1>1, <1>4 DEF StartServer, NetTypeOK, ClientEndsKept
<1>5. CASE Cleanup
  BY <1>1, <1>5, KeptBySocketsGone DEF Cleanup
<1>6. CASE \E c \in Conns : Accept(c)
  BY <1>1, <1>2, <1>6, KeptByNetwork DEF Accept
<1> QED BY <1>3, <1>4, <1>5, <1>6 DEF MainThread

-----------------------------------------------------------------------------
LEMMA SystemStep == SystemInv /\ [Next]_vars => SystemInv'
<1> SUFFICES ASSUME SystemInv, [Next]_vars PROVE SystemInv'
  OBVIOUS
<1>0. ServerInv /\ ClientInv /\ UserTypeOK /\ NetTypeOK
  BY DEF SystemInv, ServerInv
<1>1. ASSUME NEW p \in Clients, ClientMoves(p) PROVE SystemInv'
  <2>1. ClientInv' BY <1>0, <1>1, ClientSteps DEF ClientMoves
  <2>2. NetTypeOK' /\ Undisturbed
    BY <1>0, <1>1, ClientLocal, ClientUndisturbing DEF ClientMoves
  <2>3. ServerInv'
    BY <1>0, <1>1, <2>2, QuietStep
    DEF ClientMoves, serverVars, ServerInv, ServerTypeOK, NoInvalidTransition
  <2>4. UserTypeOK'
    BY <1>0, <1>1 DEF ClientMoves, UserTypeOK
  <2> QED BY <2>1, <2>3, <2>4 DEF SystemInv
<1>2. CASE ServerMoves
  <2>1. UserTypeOK' /\ UNCHANGED proc
    BY <1>0, <1>2 DEF ServerMoves, UserTypeOK
  <2>2. CASE MainThread
    <3>1. NetTypeOK' /\ ClientEndsKept BY <1>0, <2>2, MainKeepsEnds
    <3> QED BY <1>0, <2>1, <2>2, <3>1, MainStep, EnvStep DEF SystemInv
  <2>3. ASSUME NEW c \in Conns, Handler(c) PROVE SystemInv'
    <3>1. NetTypeOK' /\ ClientEndsKept
      BY <1>0, <2>3, HandlerOnOwnConnection, HandlerKeepsEnds
    <3>2. ServerInv' BY <1>0, <2>3, AuthenticatingStep, ServingStep DEF Handler
    <3> QED BY <1>0, <2>1, <3>1, <3>2, EnvStep DEF SystemInv
  <2> QED BY <1>2, <2>2, <2>3 DEF ServerMoves, ServerNext
<1>3. ASSUME NEW c \in Conns, LinkBreaks(c) PROVE SystemInv'
  <2>1. Bytes("OK") \in Cell BY CellTypes DEF Texts
  <2>2. Break(c) /\ UNCHANGED <<serverVars, proc, user>> BY <1>3 DEF LinkBreaks
  <2>3. NetTypeOK' /\ Undisturbed /\ ClientEndsKept
    BY <1>0, <2>1, <2>2, NetworkSteps, KeptByNetwork
  <2>4. ServerInv'
    BY <1>0, <2>2, <2>3, QuietStep
    DEF serverVars, ServerInv, ServerTypeOK, NoInvalidTransition
  <2>5. ClientInv' BY <1>0, <2>2, <2>3, EnvStep
  <2> QED BY <1>0, <2>2, <2>4, <2>5 DEF SystemInv, UserTypeOK
<1>4. CASE UNCHANGED vars
  <2>1. NetTypeOK' /\ Undisturbed /\ ClientEndsKept /\ UNCHANGED proc /\ UNCHANGED thread
    BY <1>0, <1>4 DEF vars, netVars, serverVars, NetTypeOK, Undisturbed, ClientEndsKept
  <2>2. ServerInv'
    BY <1>0, <1>4, <2>1, QuietStep
    DEF vars, serverVars, ServerInv, ServerTypeOK, NoInvalidTransition
  <2>3. ClientInv' BY <1>0, <2>1, EnvStep
  <2> QED BY <1>0, <1>4, <2>2, <2>3 DEF SystemInv, UserTypeOK, vars
<1> QED BY <1>1, <1>2, <1>3, <1>4 DEF Next, Quiescent

\* The inductive invariants of both programs hold where they meet.
THEOREM SystemInvariant == Spec => []SystemInv
<1>1. Init => UserTypeOK BY DEF Init, UserTypeOK
<1>2. Init => SystemInv
  BY <1>1, ServerInitially, ClientInitially DEF Init, SystemInv
<1> QED BY <1>2, SystemStep, PTL DEF Spec

\* Types of the whole system: neither program ever hands the other anything
\* it has no step for, whatever fails in between.
THEOREM SystemTypeCorrect == Spec => []TypeOK
<1>1. SystemInv => TypeOK
  BY DEF SystemInv, UserTypeOK, TypeOK, ServerInv, ClientInv
<1> QED BY <1>1, SystemInvariant, PTL

\* Whatever the clients of this repository do, however many there are and
\* whatever fails: no transition ends the server, every handler fits its
\* place, and no socket is leaked, shared or used after it was closed.
THEOREM ProgramsKeepTheirPromises ==
    Spec => [](NoInvalidTransition /\ HandlersFit /\ SocketOwned)
<1>1. SystemInv => NoInvalidTransition /\ HandlersFit /\ SocketOwned
  BY DEF SystemInv, ServerInv, ClientInv
<1> QED BY <1>1, SystemInvariant, PTL

-----------------------------------------------------------------------------
(***************************************************************************)
(* Both sides agree about authentication, for main_client.exe.             *)
(*                                                                         *)
(* The verdict is given once, by CheckToken, and travels in one cell: as   *)
(* long as a handler has not accepted its connection there is no OK in     *)
(* what it has left to send, on its way to the client or in what the       *)
(* client has read of the reply, so the client cannot have gone on.        *)
(***************************************************************************)
NoOK(s) == \A i \in DOMAIN s : s[i].text # "OK"

\* Places of a handler that has not accepted its connection, or not yet.
Undecided == {"none", "spawned", "log_connect", "auth_header", "auth_token",
              "check_token", "auth_failed", "auth_close", "auth_disconnect"}

Accepted(c) == thread[c].authOK /\ thread[c].pc \notin Undecided

\* What a client can know of a connection that is not accepted.
Unaware(r, c) ==
    r.sock = c => /\ r.pc \notin Served
                  /\ r.pc \in Replying => NoOK(r.buf)

Verdict(c) ==
    \/ Accepted(c)
    \/ /\ ~thread[c].authOK
       /\ NoOK(thread[c].out) /\ NoOK(conn[c].down)
       /\ \A p \in Clients : Unaware(proc[p], c)

AgreementInv == /\ \A p \in Clients : OneConnection(proc[p])
                /\ \A c \in Conns : Verdict(c)

LEMMA NoOKSequences ==
    ASSUME NEW s \in Seq(Cell), NoOK(s)
    PROVE  /\ NoOK(<<>>)
           /\ s # <<>> => NoOK(Tail(s)) /\ Head(s).text # "OK"
           /\ \A x \in Cell : x.text # "OK" => NoOK(Append(s, x))
<1>1. NoOK(<<>>) BY DEF NoOK
<1>2. s # <<>> => NoOK(Tail(s)) /\ Head(s).text # "OK"
  BY DEF NoOK
<1>3. ASSUME NEW x \in Cell, x.text # "OK" PROVE NoOK(Append(s, x))
  <2> DEFINE t == Append(s, x)
  <2>1. /\ DOMAIN t = 1..(Len(s) + 1) /\ Len(s) \in Nat
        /\ \A i \in 1..Len(s) : i \in DOMAIN s /\ t[i] = s[i]
        /\ t[Len(s) + 1] = x
    OBVIOUS
  <2> HIDE DEF t
  <2>2. \A i \in DOMAIN t : i \in 1..Len(s) \/ i = Len(s) + 1 BY <2>1
  <2> QED BY <1>3, <2>1, <2>2 DEF NoOK, t
<1> QED BY <1>1, <1>2, <1>3

LEMMA RepliesWithoutOK == NoOK(AuthAck(FALSE)) /\ NoOK(DataResponse)
<1>1. NoOK(AuthAck(FALSE))
  BY DEF NoOK, AuthAck, Header, Bytes
<1>2. NoOK(DataResponse)
  <2> DEFINE rows == [i \in 1..DatasetSize |-> Bytes("row")]
             head == <<Header("PKT_DATA_RESPONSE", DatasetSize)>>
  <2>1. rows \in Seq(Cell) /\ head \in Seq(Cell) /\ Len(rows) = DatasetSize /\ Len(head) = 1
    <3>1. Bytes("row") \in Cell /\ Header("PKT_DATA_RESPONSE", DatasetSize) \in Cell
      BY CellTypes, PacketsAssumption DEF Texts, PacketTypes
    <3> QED BY <3>1, PacketsAssumption, SeqDef
  <2>2. /\ \A i \in 1..Len(rows) : rows[i].text # "OK"
        /\ head[1].text # "OK"
    BY <2>1 DEF Bytes, Header
  <2> HIDE DEF rows, head
  <2> DEFINE both == head \o rows
  <2>3. both \in Seq(Cell) /\ Len(both) = 1 + DatasetSize
        /\ \A i \in 1..(1 + DatasetSize) : both[i] = IF i <= 1 THEN head[i] ELSE rows[i - 1]
    <3>1. /\ both \in Seq(Cell) /\ Len(both) = Len(head) + Len(rows)
          /\ \A i \in 1..(Len(head) + Len(rows)) :
               both[i] = IF i <= Len(head) THEN head[i] ELSE rows[i - Len(head)]
      BY <2>1, ConcatProperties
    <3> HIDE DEF both
    <3> QED BY <2>1, <3>1
  <2> HIDE DEF both
  <2>4. \A i \in 1..(1 + DatasetSize) : i = 1 \/ i - 1 \in 1..DatasetSize
    BY PacketsAssumption
  <2>5. NoOK(both)
    <3>1. DOMAIN both = 1..(1 + DatasetSize) BY <2>3
    <3>2. ASSUME NEW i \in 1..(1 + DatasetSize) PROVE both[i].text # "OK"
      <4>1. CASE i = 1 BY <2>2, <2>3, <4>1
      <4>2. CASE i # 1
        <5>1. i - 1 \in 1..DatasetSize /\ ~(i <= 1) BY <2>4, <4>2
        <5>2. both[i] = rows[i - 1] BY <2>3, <5>1
        <5> QED BY <2>1, <2>2, <5>1, <5>2
      <4> QED BY <4>1, <4>2
    <3> QED BY <3>1, <3>2 DEF NoOK
  <2> QED BY <2>5 DEF DataResponse, both, rows, head
<1> QED BY <1>1, <1>2

\* What a connection carries to its client after an operation: what it
\* carried, all of it, without its first cell, or with one more; nothing
\* after a reset.
LEMMA DownAfter ==
    ASSUME NetTypeOK, NEW c \in Conns, NEW cell \in Cell
    PROVE  /\ UNCHANGED netVars \/ ServerTakes(c) \/ ServerAccepts(c) \/ ClientConnects(c)
                 => conn'[c].down = conn[c].down
           /\ ServerCloses(c) \/ ServerSocketsGone \/ ClientSends(c, cell) \/ ClientCloses(c)
                 \/ ClientDies(c) \/ Break(c)
                 => conn'[c].down \in {conn[c].down, <<>>}
           /\ ServerSends(c, cell)
                 => conn'[c].down \in {conn[c].down, <<>>, Append(conn[c].down, cell)}
           /\ ClientTakes(c) => conn[c].down # <<>> /\ conn'[c].down = Tail(conn[c].down)
<1>1. conn \in [Conns -> Connection] /\ conn[c] \in Connection
  BY DEF NetTypeOK
<1>2. \A q : Update(c, q) => conn'[c] = q
  BY <1>1 DEF Update
<1>3. UNCHANGED netVars \/ ServerTakes(c) \/ ServerAccepts(c) \/ ClientConnects(c)
         => conn'[c].down = conn[c].down
  BY <1>1, <1>2 DEF netVars, ServerTakes, ServerAccepts, ClientConnects, Connection
<1>4. ResetOf(conn[c]).down = <<>> BY <1>1, ResetParts
<1>5. /\ [conn[c] EXCEPT !.clientOpen = FALSE] \in Connection
      /\ [conn[c] EXCEPT !.clientOpen = FALSE].down = conn[c].down
      /\ [conn[c] EXCEPT !.serverOpen = FALSE] \in Connection
      /\ [conn[c] EXCEPT !.serverOpen = FALSE].down = conn[c].down
      /\ \A up : [conn[c] EXCEPT !.up = up].down = conn[c].down
      /\ \A down : [conn[c] EXCEPT !.down = down].down = down
  BY <1>1 DEF Connection
<1>6. /\ ResetOf([conn[c] EXCEPT !.clientOpen = FALSE]).down = <<>>
      /\ ResetOf([conn[c] EXCEPT !.serverOpen = FALSE]).down = <<>>
  BY <1>5, ResetParts
<1>7. ServerCloses(c) \/ ClientCloses(c) \/ ClientDies(c)
         => conn'[c].down \in {conn[c].down, <<>>}
  BY <1>2, <1>5, <1>6 DEF ServerCloses, ClientCloses, ClientDies
<1>8. ServerSocketsGone => conn'[c].down \in {conn[c].down, <<>>}
  BY <1>4 DEF ServerSocketsGone
<1>9. ClientSends(c, cell) \/ Break(c) => conn'[c].down \in {conn[c].down, <<>>}
  BY <1>2, <1>4, <1>5 DEF ClientSends, Break, netVars
<1>10. ServerSends(c, cell)
         => conn'[c].down \in {conn[c].down, <<>>, Append(conn[c].down, cell)}
  BY <1>2, <1>4, <1>5 DEF ServerSends, netVars
<1>11. ClientTakes(c) => conn[c].down # <<>> /\ conn'[c].down = Tail(conn[c].down)
  BY <1>2, <1>5 DEF ClientTakes
<1> QED BY <1>3, <1>7, <1>8, <1>9, <1>10, <1>11

\* A handler's step that says nothing new: it leaves the verdict and adds no
\* OK to what it has left to send.
Reticent(c, places) ==
    /\ thread'[c].authOK = thread[c].authOK
    /\ thread'[c].pc \in places
    /\ NoOK(thread[c].out) => NoOK(thread'[c].out)
    /\ NoOK(thread[c].out) /\ NoOK(conn[c].down) => NoOK(conn'[c].down)

LEMMA PartsReticent ==
    ASSUME ServerInv, NEW c \in Conns, NEW place
    PROVE  /\ Jump(c, place) => Reticent(c, {place})
           /\ \A row : LogRow(c, row, place) => Reticent(c, {place})
           /\ \A next, complete :
                Transition(c, next, complete, place) /\ mpc' # "terminated" => Reticent(c, {place})
           /\ \A h : ReadHeader(c, h, place) => Reticent(c, {place})
           /\ ReadPayload(c, place) => Reticent(c, {thread[c].pc, place})
           /\ thread[c].pc \in {"auth_ack", "send_dataset"} /\ SendNext(c, place)
                => Reticent(c, {thread[c].pc, place})
           /\ ServerCloses(c) /\ Become(c, [thread[c] EXCEPT !.pc = place]) => Reticent(c, {place})
           /\ \A out : Become(c, [thread[c] EXCEPT !.out = out, !.pc = place])
                          /\ UNCHANGED netVars /\ NoOK(out) => Reticent(c, {place})
<1>1. /\ NetTypeOK /\ thread[c] \in Thread /\ conn[c].down \in Seq(Cell)
      /\ thread[c].out \in Seq(Cell)
      /\ \A t : Become(c, t) => thread'[c] = t
  BY DEF ServerInv, ServerTypeOK, NetTypeOK, Connection, Thread, Become
<1>2. Bytes("row") \in Cell BY CellTypes DEF Texts
<1>3. NoOK(<<>>) BY DEF NoOK
<1>4. /\ UNCHANGED netVars \/ ServerTakes(c) => conn'[c].down = conn[c].down
      /\ ServerCloses(c) => conn'[c].down \in {conn[c].down, <<>>}
  BY <1>1, <1>2, DownAfter
<1>5. /\ Jump(c, place) => Reticent(c, {place})
      /\ \A row : LogRow(c, row, place) => Reticent(c, {place})
  BY <1>1, <1>4 DEF Jump, LogRow, Reticent, Thread
<1>6. \A next, complete :
        Transition(c, next, complete, place) /\ mpc' # "terminated" => Reticent(c, {place})
  BY <1>1, <1>4 DEF Transition, Reticent, Thread
<1>7. \A h : ReadHeader(c, h, place) => Reticent(c, {place})
  BY <1>1, <1>4 DEF ReadHeader, Reticent, Thread
<1>8. ReadPayload(c, place) => Reticent(c, {thread[c].pc, place})
  BY <1>1, <1>4 DEF ReadPayload, Reticent, Thread
<1>9. ASSUME thread[c].pc \in {"auth_ack", "send_dataset"}, SendNext(c, place)
      PROVE  Reticent(c, {thread[c].pc, place})
  <2> DEFINE out == thread[c].out
  <2>1. out \in Seq(Cell) /\ out # <<>>
    BY <1>1, <1>9 DEF ServerInv, HandlersFit, HandlerFits
  <2>2. Head(out) \in Cell BY <2>1, HeadTailProperties
  <2>3. CASE ServerSendFails(c) /\ UNCHANGED netVars
             /\ Become(c, [thread[c] EXCEPT !.out = <<>>, !.log = Append(@, <<"ERROR">>),
                                            !.pc = place])
    BY <1>1, <1>3, <1>4, <2>3 DEF Reticent, Thread
  <2>4. CASE ServerSends(c, Head(thread[c].out))
             /\ Become(c, [thread[c] EXCEPT !.out = Tail(@),
                             !.pc = IF Len(thread[c].out) = 1 THEN place ELSE @])
    <3>1. conn'[c].down \in {conn[c].down, <<>>, Append(conn[c].down, Head(out))}
      BY <1>1, <2>2, <2>4, DownAfter
    <3>2. /\ thread'[c].out = Tail(out) /\ thread'[c].authOK = thread[c].authOK
          /\ thread'[c].pc \in {thread[c].pc, place}
      BY <1>1, <2>4 DEF Thread
    <3>3. NoOK(out) => NoOK(Tail(out)) /\ Head(out).text # "OK"
      BY <2>1, NoOKSequences
    <3>4. NoOK(conn[c].down) /\ Head(out).text # "OK" => NoOK(Append(conn[c].down, Head(out)))
      BY <1>1, <2>2, NoOKSequences
    <3> HIDE DEF out
    <3> QED BY <1>3, <3>1, <3>2, <3>3, <3>4 DEF Reticent, out
  <2> QED BY <1>9, <2>3, <2>4 DEF SendNext
<1>10. ServerCloses(c) /\ Become(c, [thread[c] EXCEPT !.pc = place]) => Reticent(c, {place})
  BY <1>1, <1>3, <1>4 DEF Reticent, Thread
<1>11. \A out : Become(c, [thread[c] EXCEPT !.out = out, !.pc = place])
                  /\ UNCHANGED netVars /\ NoOK(out) => Reticent(c, {place})
  BY <1>1, <1>4 DEF Reticent, Thread
<1> QED BY <1>5, <1>6, <1>7, <1>8, <1>9, <1>10, <1>11

\* Every step of a handler but CheckToken is reticent, and leads from the
\* places of a connection that was accepted to such places only.
LEMMA HandlerReticent ==
    ASSUME ServerInv, NEW c \in Conns, Handler(c), mpc' # "terminated"
    PROVE  \/ CheckToken(c)
           \/ Reticent(c, IF Accepted(c) THEN HandlerPCs \ Undecided ELSE HandlerPCs)
<1> USE DEF At
<1>0. \A P, Q : P \subseteq Q /\ Reticent(c, P) => Reticent(c, Q) BY DEF Reticent
<1>1. /\ thread[c].pc \in HandlerPCs /\ NetTypeOK
      /\ conn[c].up \in Seq(Cell)
  BY DEF ServerInv, ServerTypeOK, Thread, NetTypeOK, Connection
<1>2. ASSUME NEW place \in HandlerPCs,
             thread[c].authOK => place \notin Undecided \/ thread[c].pc \in Undecided,
             Reticent(c, {place}) \/ Reticent(c, {thread[c].pc, place})
      PROVE  Reticent(c, IF Accepted(c) THEN HandlerPCs \ Undecided ELSE HandlerPCs)
  BY <1>1, <1>2 DEF Reticent, Accepted
<1>3. CASE Authenticating(c) /\ ~CheckToken(c) /\ ~SendAck(c)
  <2>1. thread[c].pc \in Undecided \cup {"authenticated", "receiving"}
    BY <1>3 DEF Authenticating, Begin, LogConnect, AuthHeader, AuthToken, AuthReadFails,
           AuthFailed, AuthClose, AuthDisconnect, Authenticated, StartReceiving, Undecided
  <2>2. CASE Authenticated(c) \/ StartReceiving(c)
    BY <1>2, <2>2, PartsReticent DEF Authenticated, StartReceiving, HandlerPCs, Undecided
  <2>3. CASE Begin(c) \/ AuthDisconnect(c)
    BY <1>2, <2>3, PartsReticent DEF Begin, AuthDisconnect, HandlerPCs, Undecided
  <2>4. CASE LogConnect(c) \/ AuthFailed(c) \/ AuthReadFails(c)
    BY <1>2, <2>4, PartsReticent
    DEF LogConnect, AuthFailed, AuthReadFails, HandlerPCs, Undecided
  <2>5. CASE AuthHeader(c)
    BY <1>2, <2>5, PartsReticent DEF AuthHeader, PlaceAfterLogin, HandlerPCs, Undecided
  <2>6. CASE AuthToken(c) \/ AuthClose(c)
    BY <1>2, <2>6, PartsReticent DEF AuthToken, AuthClose, HandlerPCs, Undecided
  <2> QED BY <1>3, <2>2, <2>3, <2>4, <2>5, <2>6 DEF Authenticating
<1>4. CASE SendAck(c)
  <2> DEFINE place == IF thread[c].authOK THEN "authenticated" ELSE "auth_failed"
  <2>1. place \in HandlerPCs /\ (thread[c].authOK => place \notin Undecided)
    BY DEF HandlerPCs, Undecided
  <2>2. thread[c].pc = "auth_ack" /\ SendNext(c, place) BY <1>4 DEF SendAck
  <2> HIDE DEF place
  <2> QED BY <1>2, <2>1, <2>2, PartsReticent
<1>5. CASE Serving(c)
  <2>1. CASE BeginTransfer(c) \/ EndTransfer(c) \/ Disconnect(c)
    BY <1>2, <2>1, PartsReticent
    DEF BeginTransfer, EndTransfer, Disconnect, HandlerPCs, Undecided
  <2>2. CASE HeaderFails(c) \/ PayloadFails(c) \/ LogReceive(c) \/ LogLost(c) \/ LogDisconnect(c)
    BY <1>2, <2>2, PartsReticent
    DEF HeaderFails, PayloadFails, LogReceive, LogLost, LogDisconnect, HandlerPCs, Undecided
  <2>3. CASE CheckFuelAlert(c) \/ UnknownType(c)
    BY <1>2, <2>3, PartsReticent DEF CheckFuelAlert, UnknownType, HandlerPCs, Undecided
  <2>4. CASE NextHeader(c)
    <3>1. PICK h \in HeadersIn(conn[c].up) : ReadHeader(c, h, PlaceAfter(h))
      BY <2>4 DEF NextHeader
    <3>2. PlaceAfter(h) \in HandlerPCs \ Undecided BY DEF PlaceAfter, HandlerPCs, Undecided
    <3> QED BY <1>2, <3>1, <3>2, PartsReticent
  <2>5. CASE TelemetryPayload(c) \/ Drain(c)
    BY <1>2, <2>5, PartsReticent DEF TelemetryPayload, Drain, HandlerPCs, Undecided
  <2>6. CASE SendDataset(c) \/ Close(c)
    BY <1>2, <2>6, PartsReticent DEF SendDataset, Close, HandlerPCs, Undecided
  <2>7. CASE BuildDataset(c)
    BY <1>2, <2>7, PartsReticent, RepliesWithoutOK DEF BuildDataset, HandlerPCs, Undecided
  <2> QED BY <1>5, <2>1, <2>2, <2>3, <2>4, <2>5, <2>6, <2>7 DEF Serving
<1> QED BY <1>3, <1>4, <1>5 DEF Handler

\* What a connection carries after a step of a client: nothing new.
LEMMA ClientKeepsQuiet ==
    ASSUME SystemInv, NEW p \in Clients, OnOwnSocket(p), NEW c \in Conns, NoOK(conn[c].down)
    PROVE  NoOK(conn'[c].down)
<1>1. NetTypeOK /\ conn \in [Conns -> Connection] /\ conn[c].down \in Seq(Cell)
  BY DEF SystemInv, ServerInv, NetTypeOK, Connection
<1>2. NoOK(<<>>) BY DEF NoOK
<1>3. Bytes("OK") \in Cell BY CellTypes DEF Texts
<1>4. conn[c].down # <<>> => NoOK(Tail(conn[c].down)) BY <1>1, NoOKSequences
<1>5. ASSUME NEW d, d # c, NEW q, Update(d, q) PROVE conn'[c] = conn[c]
  BY <1>1, <1>5 DEF Update
<1>6. CASE UNCHANGED netVars BY <1>6 DEF netVars
<1>7. ASSUME NEW d \in Conns, ClientConnects(d) PROVE NoOK(conn'[c].down)
  <2>1. CASE d = c BY <1>1, <1>3, <1>7, <2>1, DownAfter
  <2>2. CASE d # c BY <1>5, <1>7, <2>2 DEF ClientConnects
  <2> QED BY <2>1, <2>2
<1>8. ASSUME NEW d \in Conns, NEW cell \in Cell,
             ClientSends(d, cell) \/ ClientTakes(d) \/ ClientCloses(d) \/ ClientDies(d)
      PROVE  NoOK(conn'[c].down)
  <2>1. CASE d = c
    <3>1. \/ conn'[c].down \in {conn[c].down, <<>>}
          \/ conn[c].down # <<>> /\ conn'[c].down = Tail(conn[c].down)
      <4>1. CASE ClientTakes(d) BY <1>1, <1>8, <2>1, <4>1, DownAfter
      <4>2. CASE ClientSends(d, cell) \/ ClientCloses(d) \/ ClientDies(d)
        BY <1>1, <1>8, <2>1, <4>2, DownAfter
      <4> QED BY <1>8, <4>1, <4>2
    <3> QED BY <1>2, <1>4, <3>1
  <2>2. CASE d # c
    <3>1. conn'[c] = conn[c]
      BY <1>5, <1>8, <2>2 DEF ClientSends, ClientTakes, ClientCloses, ClientDies, netVars
    <3> QED BY <3>1
  <2> QED BY <2>1, <2>2
<1> QED BY <1>6, <1>7, <1>8 DEF OnOwnSocket

\* A client that knows of no OK on a connection that carries none learns of
\* none.
LEMMA StaysUnaware ==
    ASSUME SystemInv, NEW p \in Clients, OneConnection(proc[p]),
           ClientStep(p) \/ ClientCrash(p),
           NEW c \in Conns, NoOK(conn[c].down), Unaware(proc[p], c)
    PROVE  Unaware(proc'[p], c)
<1> DEFINE r == proc[p]
<1>1. /\ ClientInv /\ proc \in [Clients -> Process] /\ r \in Process
      /\ r.buf \in Seq(Cell) /\ conn[c].down \in Seq(Cell)
      /\ \A s : Becomes(p, s) => proc'[p] = s
  BY DEF SystemInv, ClientInv, ClientTypeOK, Becomes, NetTypeOK, Connection, Process
<1>2. CASE Onward(r, proc'[p])
  BY <1>2 DEF Onward, Unaware, Served, Replying
<1>3. CASE ReadAck(p)
  <2>1. /\ proc'[p].buf = <<>>
        /\ proc'[p].pc \in {"auth_reply", "check_reply", "not_authenticated"}
    BY <1>1, <1>3 DEF ReadAck, ReadsHeader, Process
  <2> QED BY <2>1 DEF Unaware, Served, NoOK
<1>4. CASE ReadReply(p)
  <2>1. /\ r.sock \in Conns /\ ClientTakes(r.sock) /\ r.pc = "auth_reply"
        /\ proc'[p].sock = r.sock
        /\ proc'[p].pc \in Replying
        /\ proc'[p].buf = Append(r.buf, Head(conn[r.sock].down))
    BY <1>1, <1>4 DEF ReadReply, ReadsPayload, MainAt, Replying, Process
  <2>2. CASE r.sock = c
    <3>1. conn[c].down # <<>> BY <2>1, <2>2 DEF ClientTakes
    <3>2. Head(conn[c].down) \in Cell /\ Head(conn[c].down).text # "OK"
      BY <1>1, <3>1, NoOKSequences, HeadTailProperties
    <3>3. NoOK(r.buf) BY <2>1, <2>2 DEF Unaware, Replying
    <3>4. NoOK(Append(r.buf, Head(conn[c].down))) BY <1>1, <3>2, <3>3, NoOKSequences
    <3> QED BY <2>1, <2>2, <3>4 DEF Unaware, Served, Replying
  <2>3. CASE r.sock # c BY <2>1, <2>3 DEF Unaware
  <2> QED BY <2>2, <2>3
<1>5. CASE ReplyOK(p)
  <2>1. /\ r.pc = "check_reply" /\ r.buf = <<Bytes("OK")>>
        /\ proc'[p].sock = r.sock
    <3>1. \/ proc'[p] = [r EXCEPT !.pc = "packet"]
          \/ \E out : proc'[p] = [r EXCEPT !.pc = "resend", !.out = out]
      BY <1>1, <1>5 DEF ReplyOK
    <3> QED BY <1>1, <1>5, <3>1 DEF ReplyOK, MainAt, Process
  <2>2. ~NoOK(r.buf) BY <2>1 DEF NoOK, Bytes
  <2>3. r.sock # c BY <2>1, <2>2 DEF Unaware, Replying
  <2> QED BY <2>1, <2>3 DEF Unaware
<1> QED BY <1>1, <1>2, <1>3, <1>4, <1>5, OnlyByReply

\* The connections another actor than their handler works on: the verdict
\* stays, if nothing but resets and reads happens to what they carry.
LEMMA VerdictKept ==
    ASSUME NEW c \in Conns, Verdict(c),
           thread'[c].authOK = thread[c].authOK, thread'[c].out = thread[c].out,
           thread'[c].pc = thread[c].pc,
           NoOK(conn[c].down) => NoOK(conn'[c].down),
           ~Accepted(c) => \A p \in Clients : Unaware(proc[p], c) => Unaware(proc'[p], c)
    PROVE  Verdict(c)'
<1>1. Accepted(c)' <=> Accepted(c) BY DEF Accepted
<1> QED BY <1>1 DEF Verdict, Unaware, NoOK

LEMMA AgreementStep ==
    ASSUME OtherWsaRefs = 0, SystemInv, SystemInv', AgreementInv, [Next]_vars
    PROVE  AgreementInv'
<1>0. /\ ServerInv /\ ClientInv /\ NetTypeOK /\ ServerInv'
      /\ thread \in [Conns -> Thread] /\ proc \in [Clients -> Process]
      /\ conn \in [Conns -> Connection]
      /\ mpc' # "terminated"
      /\ \A c \in Conns : thread[c].out \in Seq(Cell) /\ conn[c].down \in Seq(Cell)
  BY DEF SystemInv, ServerInv, ServerTypeOK, ClientInv, ClientTypeOK, NetTypeOK, Connection,
         Thread, NoInvalidTransition
<1>00. NoOK(<<>>) BY DEF NoOK
<1>000. Bytes("OK") \in Cell BY CellTypes DEF Texts
<1>1. ASSUME NEW p \in Clients, ClientMoves(p) PROVE AgreementInv'
  <2>1. /\ ClientStep(p) \/ ClientCrash(p)
        /\ UNCHANGED thread
        /\ OnOwnSocket(p)
        /\ \A q \in Clients \ {p} : proc'[q] = proc[q]
    BY <1>0, <1>1, ClientLocal DEF ClientMoves, serverVars, OwnRecord, Becomes
  <2>2. OneConnection(proc[p]) /\ OneConnection(proc'[p])
    BY <1>0, <2>1, OneConnectionStep DEF AgreementInv
  <2>3. \A q \in Clients : OneConnection(proc'[q])
    BY <2>1, <2>2 DEF AgreementInv
  <2>4. ASSUME NEW c \in Conns PROVE Verdict(c)'
    <3>1. CASE Accepted(c) BY <2>1, <3>1 DEF Verdict, Accepted
    <3>2. CASE ~Accepted(c)
      <4>1. NoOK(conn[c].down) /\ \A q \in Clients : Unaware(proc[q], c)
        BY <3>2 DEF AgreementInv, Verdict
      <4>2. NoOK(conn'[c].down) BY <2>1, <4>1, ClientKeepsQuiet
      <4>3. Unaware(proc'[p], c) BY <2>1, <2>2, <4>1, StaysUnaware
      <4>4. \A q \in Clients : Unaware(proc'[q], c) BY <2>1, <4>1, <4>3
      <4>5. Verdict(c) BY DEF AgreementInv
      <4> QED BY <2>1, <4>2, <4>4, <4>5, VerdictKept
    <3> QED BY <3>1, <3>2
  <2> QED BY <2>3, <2>4 DEF AgreementInv
<1>2. ASSUME UNCHANGED proc, \A c \in Conns : Verdict(c)' PROVE AgreementInv'
  BY <1>2 DEF AgreementInv
<1>3. ASSUME UNCHANGED proc, NEW c \in Conns, thread'[c] = thread[c],
             conn'[c].down \in {conn[c].down, <<>>}
      PROVE  Verdict(c)'
  <2>1. Verdict(c) BY DEF AgreementInv
  <2>2. NoOK(conn[c].down) => NoOK(conn'[c].down) BY <1>00, <1>3
  <2>3. \A p \in Clients : Unaware(proc[p], c) => Unaware(proc'[p], c) BY <1>3
  <2> QED BY <1>3, <2>1, <2>2, <2>3, VerdictKept
<1>4. CASE MainThread /\ UNCHANGED <<proc, user>>
  <2>1. ASSUME NEW c \in Conns PROVE Verdict(c)'
    <3>1. CASE InitializeWinsock \/ StartServer \/ AcceptFails \/ Return
      BY <1>3, <1>4, <3>1 DEF InitializeWinsock, StartServer, AcceptFails, Return, netVars
    <3>2. CASE Cleanup
      BY <1>0, <1>000, <1>3, <1>4, <3>2, DownAfter DEF Cleanup
    <3>3. ASSUME NEW d \in Conns, Accept(d) PROVE Verdict(c)'
      <4>1. CASE c # d
        <5>1. conn'[c] = conn[c] /\ thread'[c] = thread[c]
          BY <1>0, <3>3, <4>1 DEF Accept, ServerAccepts, Update
        <5> QED BY <1>3, <1>4, <5>1
      <4>2. CASE c = d
        <5>1. thread[c].pc = "none"
          BY <1>0, <3>3, <4>2 DEF Accept, ServerAccepts, ServerInv, HandlersFit, HandlerFits
        <5>2. ~Accepted(c) BY <5>1 DEF Accepted, Undecided
        <5>3. conn'[c].down = conn[c].down
          BY <1>0, <1>000, <3>3, <4>2, DownAfter DEF Accept
        <5>4. /\ thread'[c].authOK = thread[c].authOK /\ thread'[c].out = thread[c].out
              /\ thread'[c].pc = "spawned"
          BY <1>0, <3>3, <4>2 DEF Accept, Thread
        <5>5. /\ ~thread[c].authOK
              /\ NoOK(thread[c].out) /\ NoOK(conn[c].down)
              /\ \A p \in Clients : Unaware(proc[p], c)
          BY <5>2 DEF AgreementInv, Verdict
        <5> QED BY <1>4, <5>3, <5>4, <5>5 DEF Verdict, Unaware, NoOK
      <4> QED BY <4>1, <4>2
    <3> QED BY <1>4, <3>1, <3>2, <3>3 DEF MainThread
  <2> QED BY <1>2, <1>4, <2>1
<1>5. ASSUME NEW c \in Conns, Handler(c), UNCHANGED <<proc, user>> PROVE AgreementInv'
  <2>1. ASSUME NEW d \in Conns, d # c PROVE Verdict(d)'
    <3>1. thread'[d] = thread[d] BY <1>0, <1>5, <2>1, HandlerLocal
    <3>2. conn'[d].down \in {conn[d].down, <<>>}
      <4>1. CASE ServerSocketsGone BY <1>0, <1>000, <4>1, DownAfter
      <4>2. CASE OnOwnConnection(c)
        <5>1. conn'[d] = conn[d]
          BY <1>0, <2>1, <4>2
          DEF OnOwnConnection, ServerSends, ServerTakes, ServerCloses, Update, netVars
        <5> QED BY <5>1
      <4> QED BY <1>0, <1>5, <4>1, <4>2, HandlerOnOwnConnection
    <3> QED BY <1>3, <1>5, <3>1, <3>2
  <2>2. Verdict(c) /\ UNCHANGED proc BY <1>5 DEF AgreementInv
  <2>3. ASSUME CheckToken(c) PROVE Verdict(c)'
    <3> DEFINE ok == thread[c].buf = <<Bytes(AUTH_TOKEN)>>
    <3>1. /\ thread[c].pc = "check_token" /\ UNCHANGED netVars
          /\ thread'[c] = [thread[c] EXCEPT !.authOK = ok, !.out = AuthAck(ok), !.pc = "auth_ack"]
      BY <1>0, <2>3 DEF CheckToken, At, Become
    <3>2. ~Accepted(c) BY <3>1 DEF Accepted, Undecided
    <3>3. /\ thread'[c].authOK = ok /\ thread'[c].out = AuthAck(ok)
          /\ thread'[c].pc = "auth_ack" /\ conn'[c] = conn[c]
      BY <1>0, <3>1 DEF Thread, netVars
    <3> HIDE DEF ok
    <3>4. CASE ok
      <4>1. Accepted(c)' BY <3>3, <3>4 DEF Accepted, Undecided
      <4> QED BY <4>1 DEF Verdict
    <3>5. CASE ~ok
      <4>1. ok = FALSE BY <3>5 DEF ok
      <4>2. NoOK(thread'[c].out) BY <3>3, <4>1, RepliesWithoutOK
      <4>3. ~thread'[c].authOK BY <3>3, <3>5
      <4> QED BY <2>2, <3>2, <3>3, <4>2, <4>3 DEF Verdict, Unaware, NoOK
    <3> QED BY <3>4, <3>5
  <2>4. ASSUME Reticent(c, IF Accepted(c) THEN HandlerPCs \ Undecided ELSE HandlerPCs)
        PROVE  Verdict(c)'
    <3>1. CASE Accepted(c)
      <4>1. Accepted(c)' BY <2>4, <3>1 DEF Reticent, Accepted
      <4> QED BY <4>1 DEF Verdict
    <3>2. CASE ~Accepted(c)
      BY <2>2, <2>4, <3>2 DEF Reticent, Verdict, Unaware, NoOK
    <3> QED BY <3>1, <3>2
  <2>5. Verdict(c)' BY <1>0, <1>5, <2>3, <2>4, HandlerReticent
  <2> QED BY <1>2, <1>5, <2>1, <2>5
<1>6. ASSUME NEW d \in Conns, LinkBreaks(d) PROVE AgreementInv'
  <2>1. Break(d) /\ UNCHANGED <<thread, proc>> BY <1>6 DEF LinkBreaks, serverVars
  <2>2. ASSUME NEW c \in Conns PROVE Verdict(c)'
    <3>1. CASE c = d BY <1>0, <1>000, <1>3, <2>1, <3>1, DownAfter
    <3>2. CASE c # d
      <4>1. conn'[c] = conn[c] BY <1>0, <2>1, <3>2 DEF Break, Update
      <4> QED BY <1>3, <2>1, <4>1
    <3> QED BY <3>1, <3>2
  <2> QED BY <1>2, <2>1, <2>2
<1>7. CASE UNCHANGED vars
  BY <1>2, <1>3, <1>7 DEF vars, netVars, serverVars
<1> QED
  BY <1>1, <1>4, <1>5, <1>6, <1>7 DEF Next, Quiescent, ServerMoves, ServerNext

\* Both sides agree about authentication in main_client.exe, where nothing
\* else holds Winsock: a client that goes on with its flight over a
\* connection has a handler at the other end that has accepted it.
THEOREM AuthenticationAgreed ==
    ASSUME OtherWsaRefs = 0 PROVE Spec => []AgreedOnAuthentication
<1>1. Init => AgreementInv
  <2> SUFFICES ASSUME Init PROVE AgreementInv OBVIOUS
  <2>1. \A p \in Clients : OneConnection(proc[p])
    BY OneConnectionInitially DEF Init
  <2>2. ASSUME NEW c \in Conns PROVE Verdict(c)
    <3>1. ~thread[c].authOK /\ NoOK(thread[c].out) /\ NoOK(conn[c].down)
      BY DEF Init, ServerInit, NetInit, NoOK
    <3>2. \A p \in Clients : proc[p].sock = INVALID_SOCKET BY DEF Init, ClientInit
    <3> QED BY <3>1, <3>2, ClientAssumption DEF Verdict, Unaware
  <2> QED BY <2>1, <2>2 DEF AgreementInv
<1>2. SystemInv /\ SystemInv' /\ AgreementInv /\ [Next]_vars => AgreementInv'
  BY AgreementStep
<1>3. AgreementInv => AgreedOnAuthentication
  <2> SUFFICES ASSUME AgreementInv, NEW p \in Clients, proc[p].sock \in Conns,
                      proc[p].pc \in {"packet", "send", "log_send", "req_send",
                                      "resp_header", "resp_data", "got_data"}
               PROVE  Accepted(proc[p].sock)
    BY DEF AgreedOnAuthentication, Accepted, Undecided
  <2> QED BY DEF AgreementInv, Verdict, Unaware, Served
<1> QED BY <1>1, <1>2, <1>3, SystemInvariant, PTL DEF Spec

-----------------------------------------------------------------------------
(***************************************************************************)
(* A retry delivers no reading twice.  What an aircraft has handed over to *)
(* a connection are the readings of successive iterations, and behind      *)
(* those of every connection before; what a handler has logged are the     *)
(* first of them.  The invariant remembers of each connection what its     *)
(* user has done there: a history, which exists in every reachable state.  *)
(***************************************************************************)
\* What a connection's user still holds back of the frame it is sending, the
\* frames it has begun to send, the cells it has read, and the iterations
\* (from + 1 to upto) whose readings it has handed over.
Past == [pend : Seq(Cell), sent : Seq(WholeFrames), read : Seq(Cell),
         from : 0..NumPackets, upto : 0..NumPackets]

Window(a, b) == [i \in 1..(b - a) |-> FuelAt(a + i - 1)]

\* The history fits what is on the connection and at its other end.
Carried(c, h) ==
    /\ ClientLike(h.sent)
    /\ TrackAt(c, h.pend, h.sent)
    /\ RepliedAt(c, h.pend, h.sent, h.read)
    /\ h.from <= h.upto
    /\ ReadingsOf(HandedOver(h.pend, h.sent)) = Window(h.from, h.upto)

LEMMA PastParts ==
    ASSUME NEW h \in Past
    PROVE  /\ h.pend \in Seq(Cell) /\ h.sent \in Seq(WholeFrames) /\ h.read \in Seq(Cell)
           /\ h.from \in 0..NumPackets /\ h.upto \in 0..NumPackets
           /\ h.from \in Nat /\ h.upto \in Nat
BY ClientAssumption DEF Past

\* One more iteration, and none.
LEMMA WindowGrows ==
    ASSUME NEW a \in Nat, NEW b \in Nat, a <= b
    PROVE  Append(Window(a, b), FuelAt(b)) = Window(a, b + 1) /\ Window(b, b) = <<>>
<1> DEFINE n == b - a
           f(i) == FuelAt(a + i - 1)
           w == [i \in 1..n |-> f(i)]
           x == [i \in 1..(n + 1) |-> f(i)]
<1>1. n \in Nat /\ b + 1 - a = n + 1 /\ b - b = 0 /\ a + (n + 1) - 1 = b OBVIOUS
<1>2. Window(a, b) = w /\ Window(a, b + 1) = x BY <1>1 DEF Window
<1>3. Append(w, f(n + 1)) = x
  <2> HIDE DEF f, n
  <2> QED BY <1>1
<1>4. Window(b, b) = <<>> BY <1>1 DEF Window
<1> QED BY <1>1, <1>2, <1>3, <1>4

-----------------------------------------------------------------------------
(***************************************************************************)
(* What steps do to what a connection carries.                             *)
(***************************************************************************)
LEMMA CarriedElsewhere ==
    ASSUME NEW c \in Conns, NEW h, Carried(c, h),
           thread'[c] = thread[c], conn'[c] = conn[c]
    PROVE  Carried(c, h)'
BY DEF Carried, TrackAt, RepliedAt

LEMMA CarriedByServer ==
    ASSUME SystemInv, SystemInv', ServerMoves, NEW c \in Conns, NEW h \in Past, Carried(c, h)
    PROVE  Carried(c, h)'
<1>1. ServerInv /\ ServerInv' /\ mpc' # "terminated"
  BY DEF SystemInv, ServerInv, NoInvalidTransition
<1>2. thread \in [Conns -> Thread] /\ conn \in [Conns -> Connection]
  BY <1>1 DEF ServerInv, ServerTypeOK, NetTypeOK
<1>3. TracksOn(c, h.pend, h.sent) /\ RepliedOn(c, h.pend, h.sent, h.read) => Carried(c, h)'
  BY DEF Carried, TracksOn, TrackAt, RepliedOn, RepliedAt
<1>4. CASE MainThread
  BY <1>1, <1>3, <1>4, PastParts, MainTracked, MainReplied DEF Carried
<1>5. CASE Handler(c)
  BY <1>1, <1>3, <1>5, PastParts, HandlerTracked, HandlerReplied DEF Carried
<1>6. ASSUME NEW d \in Conns, d # c, Handler(d) PROVE Carried(c, h)'
  BY <1>1, <1>2, <1>6, HandlerLocal, CarriedElsewhere
<1> QED BY <1>4, <1>5, <1>6 DEF ServerMoves, ServerNext

\* The connection is closed by its user, or lost.
LEMMA CarriedLost ==
    ASSUME SystemInv, NEW c \in Conns, NEW h \in Past, Carried(c, h), UNCHANGED thread,
           ClientCloses(c) \/ ClientDies(c) \/ Break(c)
    PROVE  Carried(c, h)'
<1>1. /\ ServerInv /\ NetTypeOK /\ (conn[c].link = "none" => ~conn[c].clientOpen)
      /\ thread'[c] = thread[c]
  BY DEF SystemInv, ServerInv, ClientInv, UnusedIsClosed
<1>2. Alike(conn[c], conn'[c], h.pend) BY <1>1, ClientAlike
<1>3. Track(thread[c], conn'[c], h.pend, h.sent)
  BY <1>2, TrackLink DEF Carried, TrackAt
<1>4. Shrinks(conn[c], conn'[c]) BY <1>1, ClientShrinks
<1>5. Replied(thread[c], conn'[c], h.pend, h.sent, h.read \o conn'[c].down)
  BY <1>1, <1>4, PastParts, LessReplied DEF Carried
<1> QED BY <1>1, <1>3, <1>5 DEF Carried, TrackAt, RepliedAt

\* A history with other replies, or other frames, or another window.
LEMMA CarriedTaken ==
    ASSUME SystemInv, NEW c \in Conns, NEW h \in Past, Carried(c, h), UNCHANGED thread,
           ClientTakes(c), NEW g \in Past,
           g = [h EXCEPT !.read = Append(@, Head(conn[c].down))]
    PROVE  Carried(c, g)'
<1>1. /\ ServerInv /\ NetTypeOK /\ (conn[c].link = "none" => ~conn[c].clientOpen)
      /\ thread'[c] = thread[c]
  BY DEF SystemInv, ServerInv, ClientInv, UnusedIsClosed
<1>2. /\ g.pend = h.pend /\ g.sent = h.sent /\ g.from = h.from /\ g.upto = h.upto
      /\ g.read = Append(h.read, Head(conn[c].down))
  BY DEF Past
<1>3. Alike(conn[c], conn'[c], h.pend) BY <1>1, ClientAlike
<1>4. Track(thread[c], conn'[c], h.pend, h.sent)
  BY <1>3, TrackLink DEF Carried, TrackAt
<1>5. Replied(thread[c], conn'[c], h.pend, h.sent, g.read \o conn'[c].down)
  BY <1>1, <1>2, PastParts, TakenReplied DEF Carried, RepliedAt
<1> QED BY <1>1, <1>2, <1>4, <1>5 DEF Carried, TrackAt, RepliedAt

LEMMA CarriedRebased ==
    ASSUME NEW c \in Conns, NEW h \in Past, Carried(c, h), h.from = h.upto,
           thread'[c] = thread[c], conn'[c] = conn[c],
           NEW g \in Past, NEW i \in 0..NumPackets, g = [h EXCEPT !.from = i, !.upto = i]
    PROVE  Carried(c, g)'
<1>1. /\ g.pend = h.pend /\ g.sent = h.sent /\ g.read = h.read
      /\ g.from = i /\ g.upto = i
  BY DEF Past
<1>2. Window(h.from, h.upto) = Window(i, i)
  <2>1. \A b \in Nat : Window(b, b) = <<>> BY WindowGrows
  <2> QED BY <2>1, PastParts, ClientAssumption
<1>3. i <= i BY ClientAssumption
<1> QED BY <1>1, <1>2, <1>3 DEF Carried, TrackAt, RepliedAt

\* A cell of the frame under way, with the last of which the frame counts.
LEMMA CarriedHanded ==
    ASSUME SystemInv, NEW c \in Conns, NEW h \in Past, Carried(c, h), UNCHANGED thread,
           h.pend # <<>>, h.sent # <<>>, conn[c].clientOpen, ClientSends(c, Head(h.pend)),
           NEW g \in Past,
           g.pend = Tail(h.pend), g.sent = h.sent, g.read = h.read, g.from = h.from,
           IF g.pend = <<>> /\ IsReading(h.sent[Len(h.sent)])
             THEN /\ g.upto = h.upto + 1
                  /\ h.sent[Len(h.sent)][2].num = FuelAt(h.upto)
             ELSE g.upto = h.upto
    PROVE  Carried(c, g)'
<1> DEFINE s == h.sent
           n == Len(s)
           t == SubSeq(s, 1, n - 1)
           f == s[n]
<1>1. /\ ServerInv /\ NetTypeOK /\ thread'[c] = thread[c]
      /\ h.pend \in Seq(Cell) /\ s \in Seq(WholeFrames) /\ h.read \in Seq(Cell)
      /\ h.from \in Nat /\ h.upto \in Nat
      /\ ClientLike(s) /\ h.from <= h.upto
      /\ Track(thread[c], conn[c], h.pend, s)
      /\ RepliedAt(c, h.pend, s, h.read)
      /\ ReadingsOf(HandedOver(h.pend, s)) = Window(h.from, h.upto)
  BY PastParts DEF SystemInv, ServerInv, Carried, TrackAt
<1>2. Track(thread[c], conn'[c], g.pend, s) BY <1>1, CellSent
<1>3. Shrinks(conn[c], conn'[c]) BY <1>1, ClientShrinks
<1>4. \A ok : Judged(ok, h.pend, s) => Judged(ok, g.pend, s) BY <1>1, StillJudged
<1>5. Replied(thread[c], conn'[c], g.pend, s, h.read \o conn'[c].down)
  <2> DEFINE q == conn'[c]
             x == g.pend
             past == h.read
  <2>1. Shrinks(conn[c], q) /\ past \in Seq(Cell) BY <1>1, <1>3
  <2>2. \A ok : Judged(ok, h.pend, s) => Judged(ok, x, s) BY <1>4
  <2>3. RepliedAt(c, h.pend, s, past) BY <1>1
  <2> HIDE DEF q, x, past, s
  <2>4. Replied(thread[c], q, x, s, past \o q.down) BY ONLY <1>1, <2>1, <2>2, <2>3, LessReplied
  <2> QED BY <2>4 DEF q, x, past, s
<1>6. n \in Nat \ {0} /\ t \in Seq(WholeFrames) /\ f \in WholeFrames /\ Append(t, f) = s
  BY <1>1
<1>7. HandedOver(h.pend, s) = t /\ HandedOver(g.pend, s) = IF g.pend = <<>> THEN s ELSE t
  BY DEF HandedOver
<1>8. g.from <= g.upto /\ ReadingsOf(HandedOver(g.pend, s)) = Window(g.from, g.upto)
  <2>1. CASE g.pend # <<>> BY <1>1, <1>7, <2>1
  <2>2. CASE g.pend = <<>> /\ IsReading(f)
    <3>1. ReadingsOf(s) = Append(ReadingsOf(t), f[2].num) BY <1>6, <2>2, ReadingsAppend
    <3>2. Append(Window(h.from, h.upto), FuelAt(h.upto)) = Window(h.from, h.upto + 1)
      BY <1>1, WindowGrows
    <3>3. ReadingsOf(t) = Window(h.from, h.upto) BY <1>1, <1>7
    <3>4. f[2].num = FuelAt(h.upto) /\ g.upto = h.upto + 1 BY <2>2
    <3> HIDE DEF s, n, t, f
    <3>5. ReadingsOf(s) = Window(h.from, h.upto + 1) BY <3>1, <3>2, <3>3, <3>4, Zenon
    <3> QED BY <1>1, <1>7, <2>2, <3>4, <3>5
  <2>3. CASE g.pend = <<>> /\ ~IsReading(f)
    <3>1. ReadingsOf(s) = ReadingsOf(t) BY <1>6, <2>3, ReadingsAppend
    <3> HIDE DEF s, n, t, f
    <3>2. g.upto = h.upto BY <2>3 DEF f, n, s
    <3> QED BY <1>1, <1>7, <2>3, <3>1, <3>2
  <2> QED BY <2>1, <2>2, <2>3
<1> QED BY <1>1, <1>2, <1>5, <1>8 DEF Carried, TrackAt, RepliedAt

\* Nothing of a frame that has only just begun counts.
LEMMA OneMoreBegun ==
    ASSUME NEW s \in Seq(WholeFrames), NEW f \in WholeFrames
    PROVE  HandedOver(<<>>, s) = s /\ HandedOver(f, Append(s, f)) = s
<1>1. f # <<>> BY DEF WholeFrames
<1>2. SubSeq(Append(s, f), 1, Len(Append(s, f)) - 1) = s OBVIOUS
<1> QED BY <1>1, <1>2 DEF HandedOver

LEMMA CarriedBegun ==
    ASSUME SystemInv, NEW c \in Conns, NEW h \in Past, Carried(c, h),
           h.pend = <<>>, conn[c].clientOpen,
           thread'[c] = thread[c], conn'[c] = conn[c],
           NEW f \in WholeFrames, IsRequest(f) => Len(f) = 1,
           f[1].text = "PKT_TELEMETRY" => Len(f) > TelemetrySize,
           f[1].num <= INT_MAX, h.sent # <<>>,
           NEW g \in Past, g = [h EXCEPT !.pend = f, !.sent = Append(@, f)]
    PROVE  Carried(c, g)'
<1> DEFINE s == h.sent
           t == Append(s, f)
<1>1. /\ ServerInv /\ s \in Seq(WholeFrames) /\ h.read \in Seq(Cell)
      /\ conn[c].up \in Seq(Cell) /\ Held(thread[c]) \in Seq(Cell)
      /\ ClientLike(s) /\ h.from <= h.upto
      /\ Track(thread[c], conn[c], <<>>, s)
      /\ RepliedAt(c, <<>>, s, h.read)
      /\ ReadingsOf(HandedOver(<<>>, s)) = Window(h.from, h.upto)
  BY PastParts, HandlerParts, HeldCells DEF SystemInv, Carried, TrackAt
<1>2. g.pend = f /\ g.sent = t /\ g.read = h.read /\ g.from = h.from /\ g.upto = h.upto
  BY DEF Past
<1>3. Track(thread[c], conn[c], f, t) BY <1>1, BegunTracked
<1>4. \A ok : Judged(ok, <<>>, s) => Judged(ok, f, t) BY <1>1, StillJudged
<1>5. Replied(thread[c], conn[c], f, t, h.read \o conn[c].down)
  BY <1>1, <1>4, SameShrinks, LessReplied
<1>6. ClientLike(t)
  <2>1. /\ Len(t) = Len(s) + 1 /\ t[Len(s) + 1] = f /\ Len(s) \in Nat
        /\ \A i \in 1..Len(s) : t[i] = s[i]
    BY <1>1
  <2> HIDE DEF t, s
  <2>2. \A i \in 1..Len(t) : i \in 1..Len(s) \/ i = Len(s) + 1 BY <2>1
  <2> QED BY <1>1, <2>1, <2>2 DEF ClientLike
<1>7. HandedOver(<<>>, s) = HandedOver(f, t) BY <1>1, OneMoreBegun
<1> HIDE DEF s, t
<1> QED BY <1>1, <1>2, <1>3, <1>5, <1>6, <1>7 DEF Carried, TrackAt, RepliedAt

\* A connection nobody has used carries nothing.
LEMMA UnusedCarries ==
    ASSUME SystemInv, NEW c \in Conns, NEW h \in Past, Carried(c, h), conn[c].link = "none"
    PROVE  h.pend = <<>> /\ h.sent = <<>> /\ h.read = <<>> /\ conn[c].down = <<>>
<1>1. /\ ServerInv /\ h.read \in Seq(Cell) /\ conn[c].down \in Seq(Cell)
      /\ thread[c].pc = "none"
  BY PastParts, HandlerParts DEF SystemInv, HandlerFits
<1>2. h.pend = <<>> /\ h.sent = <<>> BY DEF Carried, TrackAt, Track, Tracked
<1>3. h.read \o conn[c].down = <<>>
  BY <1>1 DEF Carried, RepliedAt, Replied, Silent, Before
<1>4. \A a, b \in Seq(Cell) : a \o b = <<>> => a = <<>> /\ b = <<>> OBVIOUS
<1> QED BY <1>1, <1>2, <1>3, <1>4

\* The first frame of a new connection.
LEMMA CarriedConnected ==
    ASSUME SystemInv, NEW c \in Conns, NEW h \in Past, Carried(c, h), UNCHANGED thread,
           ClientConnects(c), NEW f \in WholeFrames, ~IsRequest(f),
           f[1].text # "PKT_TELEMETRY", f[1].num <= INT_MAX,
           NEW g \in Past, g.pend = f, g.sent = <<f>>, g.read = <<>>, g.from = g.upto
    PROVE  Carried(c, g)'
<1> DEFINE q == conn'[c]
           t == thread[c]
<1>1. /\ ServerInv /\ ServerInv /\ NetTypeOK /\ UnusedIsClosed /\ conn[c].link = "none"
      /\ conn \in [Conns -> Connection] /\ conn[c] \in Connection
      /\ conn[c].up \in Seq(Cell) /\ Held(t) \in Seq(Cell) /\ thread'[c] = t
  BY HandlerParts, HeldCells DEF SystemInv, ServerInv, ClientInv, ClientConnects
<1>2. h.pend = <<>> /\ h.sent = <<>> /\ h.read = <<>> BY <1>1, UnusedCarries
<1>3. Track(t, conn[c], <<>>, <<>>) /\ RepliedAt(c, <<>>, <<>>, <<>>)
  BY <1>2 DEF Carried, TrackAt
<1>4. q.clientOpen /\ q.up = conn[c].up
  BY <1>1 DEF ClientConnects, Update, Connection
<1>5. Alike(conn[c], q, <<>>) /\ Shrinks(conn[c], q)
  BY <1>1, ClientAlike, ClientShrinks DEF UnusedIsClosed
<1>6. Track(t, q, <<>>, <<>>) BY <1>3, <1>5, TrackLink
<1>7. <<>> \in Seq(WholeFrames) /\ <<>> \in Seq(Cell) /\ Append(<<>>, f) = <<f>> OBVIOUS
<1>8. Track(t, q, f, <<f>>)
  <2> HIDE DEF t, q
  <2>1. Track(t, q, f, Append(<<>>, f))
    BY <1>1, <1>4, <1>6, <1>7, BegunTracked
  <2> QED BY <1>7, <2>1
<1>9. Replied(t, q, f, <<f>>, <<>> \o q.down)
  <2>1. \A ok : Judged(ok, <<>>, <<>>) => Judged(ok, f, <<f>>) BY DEF Judged
  <2> HIDE DEF q
  <2> QED BY <1>1, <1>3, <1>5, <1>7, <2>1, LessReplied
<1>10. ClientLike(<<f>>) BY DEF ClientLike
<1>11. ReadingsOf(HandedOver(f, <<f>>)) = Window(g.from, g.upto)
  <2>1. HandedOver(f, <<f>>) = <<>> BY <1>7, OneMoreBegun
  <2>2. HandedOver(h.pend, h.sent) = <<>> BY <1>2 DEF HandedOver
  <2>3. ReadingsOf(<<>>) = <<>> BY OfNothing
  <2>4. \A b \in Nat : Window(b, b) = <<>> BY WindowGrows
  <2> QED BY <2>1, <2>3, <2>4, PastParts
<1> QED BY <1>1, <1>8, <1>9, <1>10, <1>11, PastParts DEF Carried, TrackAt, RepliedAt

-----------------------------------------------------------------------------
(***************************************************************************)
(* The history of every connection, and where its user is.                 *)
(***************************************************************************)
\* While the connection is up, main is where the history ends.
InStep(r, h) ==
    /\ h.pend = r.out
    /\ h.upto = r.iter + (IF r.pc = "log_send" THEN 1 ELSE 0)
    /\ r.pc \in Greeting => h.from = h.upto
    /\ h.sent # <<>>
    /\ r.out # <<>> => r.pc \in Sending /\ h.sent[Len(h.sent)] = FrameOf(r)

\* The connections p has used carry successive parts of its flight, none of
\* them beyond where it is, and the one it uses now the last.
InOrderOn(p, H) ==
    /\ \A c \in Conns : user[c] = p => H[c].upto <= Reach(proc[p])
    /\ \A c \in Conns : proc[p].sock = c =>
          /\ user[c] = p
          /\ conn[c].link # "broken" => InStep(proc[p], H[c])
          /\ \A d \in Conns \ {c} : user[d] = p => H[d].upto <= H[c].from
    /\ \A c, d \in Conns : user[c] = p /\ user[d] = p /\ c # d =>
          H[c].upto <= H[d].from \/ H[d].upto <= H[c].from

Sessions(H) ==
    /\ H \in [Conns -> Past]
    /\ \A c \in Conns : Carried(c, H[c])
    /\ \A c \in Conns : user[c] \in Clients => conn[c].link # "none"
    /\ \A p \in Clients : InOrderOn(p, H)

\* A step that is not main's: of the server, of another client, or a reset.
LEMMA OthersInOrder ==
    ASSUME NEW H \in [Conns -> Past], NEW G \in [Conns -> Past], NEW p \in Clients,
           InOrderOn(p, H), proc'[p] = proc[p],
           \A c \in Conns : user'[c] = p <=> user[c] = p,
           \A c \in Conns : user[c] = p =>
              G[c] = H[c] /\ (conn[c].link = "broken" => conn'[c].link = "broken")
    PROVE  InOrderOn(p, G)'
<1>1. /\ Reach(proc'[p]) = Reach(proc[p])
      /\ \A c \in Conns : proc'[p].sock = c => proc[p].sock = c /\ user[c] = p
  BY DEF InOrderOn
<1> QED BY <1>1 DEF InOrderOn, InStep

\* A step that leaves the histories as they are.
LEMMA OthersStep ==
    ASSUME NEW H, Sessions(H), UNCHANGED <<proc, user>>,
           \A c \in Conns : Carried(c, H[c])',
           \A c \in Conns : conn'[c].link = "none" => conn[c].link = "none",
           \A c \in Conns : conn[c].link = "broken" => conn'[c].link = "broken"
    PROVE  Sessions(H)'
<1>1. H \in [Conns -> Past] /\ \A p \in Clients : InOrderOn(p, H) BY DEF Sessions
<1>2. \A p \in Clients : InOrderOn(p, H)' BY <1>1, OthersInOrder
<1> QED BY <1>1, <1>2 DEF Sessions

LEMMA ReachTypes == \A r \in Process : Reach(r) \in Nat
BY ClientAssumption DEF Process, Reach

\* A step of main on its connection c, whose history becomes h.
LEMMA OwnStep ==
    ASSUME SystemInv, SystemInv', NEW H, Sessions(H), NEW p \in Clients, NEW c \in Conns, NEW h \in Past,
           \A q \in Clients \ {p} : proc'[q] = proc[q],
           \A d \in Conns \ {c} : conn'[d] = conn[d],
           UNCHANGED thread,
           user' = [user EXCEPT ![c] = p], user[c] \notin Clients \ {p},
           proc'[p].sock \in Conns => proc'[p].sock = c,
           conn'[c].link # "none",
           Carried(c, h)',
           h.upto <= Reach(proc'[p]), Reach(proc[p]) <= Reach(proc'[p]),
           proc'[p].sock = c /\ conn'[c].link # "broken" => InStep(proc'[p], h),
           \A d \in Conns \ {c} : user[d] = p => H[d].upto <= h.from
    PROVE  Sessions([H EXCEPT ![c] = h])'
<1> DEFINE G == [H EXCEPT ![c] = h]
<1>1. /\ H \in [Conns -> Past] /\ \A q \in Clients : InOrderOn(q, H)
      /\ \A d \in Conns : Carried(d, H[d]) /\ (user[d] \in Clients => conn[d].link # "none")
  BY DEF Sessions
<1>2. G \in [Conns -> Past] /\ G[c] = h /\ \A d \in Conns \ {c} : G[d] = H[d] BY <1>1
<1>3. user \in [Conns -> Clients \cup {Nobody}] BY DEF SystemInv, UserTypeOK
<1>4. user'[c] = p /\ \A d \in Conns \ {c} : user'[d] = user[d] BY <1>3
<1> HIDE DEF G
<1>5. \A d \in Conns : Carried(d, G[d])'
  BY <1>1, <1>2, CarriedElsewhere
<1>6. \A d \in Conns : user'[d] \in Clients => conn'[d].link # "none"
  BY <1>1, <1>2, <1>4
<1>7. ASSUME NEW q \in Clients \ {p} PROVE InOrderOn(q, G)'
  <2>1. \A d \in Conns : user'[d] = q <=> user[d] = q BY <1>4, <1>7
  <2>2. \A d \in Conns : user[d] = q => d # c BY <1>7
  <2> QED BY <1>1, <1>2, <1>7, <2>1, <2>2, OthersInOrder
<1>8. InOrderOn(p, G)'
  <2>1. \A d \in Conns : H[d].upto \in Nat /\ H[d].from \in Nat BY <1>1, PastParts
  <2>2. Reach(proc[p]) \in Nat /\ Reach(proc'[p]) \in Nat
    BY ReachTypes DEF SystemInv, ClientInv, ClientTypeOK
  <2>3. \A d \in Conns : user'[d] = p => G[d].upto <= Reach(proc'[p])
    BY <1>1, <1>2, <1>4, <2>1, <2>2 DEF InOrderOn
  <2>4. ASSUME NEW d \in Conns, proc'[p].sock = d
        PROVE  /\ user'[d] = p
               /\ conn'[d].link # "broken" => InStep(proc'[p], G[d])
               /\ \A e \in Conns \ {d} : user'[e] = p => G[e].upto <= G[d].from
    BY <1>2, <1>4, <2>4
  <2>5. \A d, e \in Conns : user'[d] = p /\ user'[e] = p /\ d # e =>
           G[d].upto <= G[e].from \/ G[e].upto <= G[d].from
    BY <1>1, <1>2, <1>4 DEF InOrderOn
  <2> QED BY <2>3, <2>4, <2>5 DEF InOrderOn, InStep
<1> QED BY <1>2, <1>5, <1>6, <1>7, <1>8 DEF Sessions, G

\* A step of main without a connection.
LEMMA LoneStep ==
    ASSUME SystemInv, SystemInv', NEW H, Sessions(H), NEW p \in Clients,
           \A q \in Clients \ {p} : proc'[q] = proc[q],
           UNCHANGED <<conn, thread, user>>,
           proc'[p].sock \notin Conns, Reach(proc[p]) <= Reach(proc'[p])
    PROVE  Sessions(H)'
<1>1. /\ H \in [Conns -> Past] /\ \A q \in Clients : InOrderOn(q, H)
      /\ \A d \in Conns : Carried(d, H[d]) /\ (user[d] \in Clients => conn[d].link # "none")
  BY DEF Sessions
<1>2. \A d \in Conns : Carried(d, H[d])' BY <1>1, CarriedElsewhere
<1>3. \A q \in Clients \ {p} : InOrderOn(q, H)' BY <1>1, OthersInOrder
<1>4. InOrderOn(p, H)'
  <2>1. \A d \in Conns : H[d].upto \in Nat BY <1>1, PastParts
  <2>2. Reach(proc[p]) \in Nat /\ Reach(proc'[p]) \in Nat
    BY ReachTypes DEF SystemInv, ClientInv, ClientTypeOK
  <2>3. \A d \in Conns : user'[d] = p => H[d].upto <= Reach(proc'[p])
    BY <1>1, <2>1, <2>2 DEF InOrderOn
  <2> QED BY <1>1, <2>3 DEF InOrderOn
<1>5. \A d \in Conns : user'[d] \in Clients => conn'[d].link # "none" BY <1>1
<1> QED BY <1>1, <1>2, <1>3, <1>4, <1>5 DEF Sessions

\* What is broken stays broken.
LEMMA StaysBroken ==
    ASSUME NetTypeOK, NEW c \in Conns, NEW cell,
           \/ ServerAccepts(c) \/ ServerSends(c, cell) \/ ServerTakes(c) \/ ServerCloses(c)
           \/ ServerSocketsGone \/ Break(c) \/ UNCHANGED conn
    PROVE  \A d \in Conns : conn[d].link = "broken" => conn'[d].link = "broken"
<1> SUFFICES ASSUME NEW d \in Conns, conn[d].link = "broken" PROVE conn'[d].link = "broken"
  OBVIOUS
<1>1. conn \in [Conns -> Connection] /\ conn[c] \in Connection /\ conn[d] \in Connection
  BY DEF NetTypeOK
<1>2. \A q : Update(c, q) /\ d # c => conn'[d] = conn[d] BY <1>1 DEF Update
<1>3. CASE ServerSocketsGone BY <1>1, <1>3 DEF ServerSocketsGone
<1>4. CASE ServerAccepts(c) \/ ServerSends(c, cell) \/ ServerTakes(c) \/ Break(c)
  <2>1. c # d BY <1>4 DEF ServerAccepts, ServerSends, ServerTakes, Break, Connected
  <2> QED BY <1>2, <1>4, <2>1
    DEF ServerAccepts, ServerSends, ServerTakes, Break, netVars
<1>5. CASE ServerCloses(c)
  <2>1. CASE c # d BY <1>2, <1>5, <2>1 DEF ServerCloses
  <2>2. CASE c = d
    <3>1. conn'[d] = [conn[d] EXCEPT !.serverOpen = FALSE]
      BY <1>1, <1>5, <2>2 DEF ServerCloses, Update
    <3> QED BY <1>1, <3>1 DEF Connection
  <2> QED BY <2>1, <2>2
<1> QED BY <1>3, <1>4, <1>5

LEMMA ServerSessions ==
    ASSUME SystemInv, SystemInv', NEW H, Sessions(H), ServerMoves
    PROVE  Sessions(H)'
<1>1. /\ ServerInv /\ NetTypeOK /\ UNCHANGED <<proc, user>>
      /\ H \in [Conns -> Past] /\ \A c \in Conns : Carried(c, H[c])
  BY DEF SystemInv, ServerInv, ServerMoves, Sessions
<1>2. \A c \in Conns : Carried(c, H[c])' BY <1>1, CarriedByServer
<1>3. /\ ClientEndsKept
      /\ \A c \in Conns : conn[c].link = "broken" => conn'[c].link = "broken"
  <2>1. ASSUME NEW c \in Conns, Handler(c)
        PROVE  /\ ClientEndsKept
               /\ \A d \in Conns : conn[d].link = "broken" => conn'[d].link = "broken"
    <3>1. OnOwnConnection(c) \/ ServerSocketsGone BY <1>1, <2>1, HandlerOnOwnConnection
    <3>2. ClientEndsKept BY <1>1, <3>1, HandlerKeepsEnds
    <3> QED BY <1>1, <3>1, <3>2, StaysBroken DEF OnOwnConnection, netVars
  <2>2. ASSUME MainThread
        PROVE  /\ ClientEndsKept
               /\ \A d \in Conns : conn[d].link = "broken" => conn'[d].link = "broken"
    <3>1. ClientEndsKept BY <1>1, <2>2, MainKeepsEnds
    <3>2. CASE UNCHANGED conn BY <3>1, <3>2
    <3>3. CASE ServerSocketsGone BY <3>1, <3>3 DEF ServerSocketsGone
    <3>4. ASSUME NEW c \in Conns, Accept(c)
          PROVE  \A d \in Conns : conn[d].link = "broken" => conn'[d].link = "broken"
      BY <1>1, <3>4, StaysBroken DEF Accept
    <3> QED
      BY <2>2, <3>1, <3>2, <3>3, <3>4
      DEF MainThread, InitializeWinsock, StartServer, AcceptFails, Cleanup, Return, netVars
  <2> QED BY <2>1, <2>2 DEF ServerMoves, ServerNext
<1> QED BY <1>1, <1>2, <1>3, OthersStep DEF ClientEndsKept

LEMMA BreakSessions ==
    ASSUME SystemInv, NEW H, Sessions(H), NEW c \in Conns, LinkBreaks(c)
    PROVE  Sessions(H)'
<1>1. /\ NetTypeOK /\ Break(c) /\ UNCHANGED <<thread, proc, user>>
      /\ H \in [Conns -> Past] /\ \A d \in Conns : Carried(d, H[d])
  BY DEF SystemInv, ServerInv, LinkBreaks, serverVars, Sessions
<1>2. \A d \in Conns \ {c} : conn'[d] = conn[d] BY <1>1 DEF Break, Update, NetTypeOK
<1>3. \A d \in Conns : Carried(d, H[d])' BY <1>1, <1>2, CarriedLost, CarriedElsewhere
<1>4. \A d \in Conns : conn'[d].link = "none" => conn[d].link = "none"
  <2>1. Bytes("OK") \in Cell BY CellTypes DEF Texts
  <2> QED BY <1>1, <2>1, KeptByNetwork DEF ClientEndsKept
<1>5. \A d \in Conns : conn[d].link = "broken" => conn'[d].link = "broken"
  BY <1>1, StaysBroken
<1> QED BY <1>1, <1>3, <1>4, <1>5, OthersStep

-----------------------------------------------------------------------------
(***************************************************************************)
(* The steps of main.                                                      *)
(***************************************************************************)
\* The frames main sends.
LEMMA FramesOfMain ==
    ASSUME NEW r \in Process
    PROVE  /\ FrameOf(r) \in WholeFrames /\ AuthRequest(TOKEN) \in WholeFrames
           /\ IsRequest(FrameOf(r)) => Len(FrameOf(r)) = 1
           /\ FrameOf(r)[1].text = "PKT_TELEMETRY" => Len(FrameOf(r)) > TelemetrySize
           /\ FrameOf(r)[1].num <= INT_MAX /\ AuthRequest(TOKEN)[1].num <= INT_MAX
           /\ IsReading(FrameOf(r)) <=> r.pc \notin {"log_connect", "auth_send", "req_send"}
           /\ IsReading(FrameOf(r)) => FrameOf(r)[2].num = FuelAt(r.iter)
           /\ IsRequest(FrameOf(r)) <=> r.pc = "req_send"
           /\ ~IsRequest(AuthRequest(TOKEN))
           /\ AuthRequest(TOKEN)[1].text = "PKT_AUTH_REQUEST"
<1>1. FuelAt(r.iter) \in Nat BY FuelTypes DEF Process
<1>2. /\ AuthRequest(TOKEN) \in WholeFrames /\ DataRequest \in WholeFrames
      /\ TelemetryPacket(FuelAt(r.iter)) \in WholeFrames
  <2>1. AuthRequest(TOKEN) \in WholeFrames
    BY RequestTypes DEF AuthRequest, Header, WholeFrames
  <2>2. DataRequest \in WholeFrames
    BY RequestTypes DEF DataRequest, Header, WholeFrames
  <2>3. \A n \in Nat : TelemetryPacket(n) \in WholeFrames
    BY RequestTypes DEF TelemetryPacket, Header, WholeFrames, TelemetrySize
  <2> QED BY <1>1, <2>1, <2>2, <2>3
<1>3. /\ ~IsRequest(AuthRequest(TOKEN)) /\ ~IsReading(AuthRequest(TOKEN))
      /\ AuthRequest(TOKEN)[1].text = "PKT_AUTH_REQUEST"
      /\ IsRequest(DataRequest) /\ ~IsReading(DataRequest) /\ Len(DataRequest) = 1
      /\ DataRequest[1].text = "PKT_DATA_REQUEST"
  BY DEF AuthRequest, DataRequest, Header, IsRequest, IsReading
<1>4. \A n \in Nat :
        /\ ~IsRequest(TelemetryPacket(n)) /\ IsReading(TelemetryPacket(n))
        /\ Len(TelemetryPacket(n)) > TelemetrySize
        /\ TelemetryPacket(n)[2].num = n
  <2> TAKE n \in Nat
  <2> DEFINE f == TelemetryPacket(n)
  <2>1. f[1].text = "PKT_TELEMETRY" /\ f[2].num = n /\ Len(f) = 3
    BY DEF TelemetryPacket, Header, Telemetry
  <2> HIDE DEF f
  <2> QED BY <2>1 DEF f, IsRequest, IsReading, TelemetrySize
<1>5. \A n \in Nat : /\ TelemetryPacket(n)[1].num <= INT_MAX
                    /\ DataRequest[1].num <= INT_MAX /\ AuthRequest(TOKEN)[1].num <= INT_MAX
  BY PacketsAssumption DEF TelemetryPacket, DataRequest, AuthRequest, Header, TelemetrySize
<1> QED BY <1>1, <1>2, <1>3, <1>4, <1>5 DEF FrameOf

\* What a step of main on its connection c makes of its history g.
Continues(p, c, g, h) ==
    LET r == proc[p]
        s == proc'[p]
    IN \/ (conn[c].link = "broken" \/ Proceeds(p)) /\ h = g
       \/ Hears(p) /\ h = [g EXCEPT !.read = Append(@, Head(conn[c].down))]
       \/ /\ Hands(p)
          /\ h = [g EXCEPT !.pend = Tail(@),
                           !.upto = IF s.out = <<>> /\ r.pc \in {"send", "resend"}
                                    THEN @ + 1 ELSE @]
       \/ /\ Begins(p) /\ conn[c].link # "broken"
          /\ h = [g EXCEPT !.pend = s.out, !.sent = Append(@, s.out)]
       \/ /\ Notes(p)
          /\ h = IF r.pc = "log_send" THEN g ELSE [g EXCEPT !.from = s.iter, !.upto = s.iter]

\* The history so continued fits again.
ContinuedAs(p, c, g, h) ==
    /\ h \in Past /\ Continues(p, c, g, h)
    /\ Carried(c, h)'
    /\ h.upto <= Reach(proc'[p]) /\ g.from <= h.from
    /\ conn'[c].link # "broken" => InStep(proc'[p], h)

\* What each such step starts from.
OnLink(p, c, g) ==
    /\ proc[p].sock = c /\ g \in Past /\ Carried(c, g) /\ UNCHANGED thread
    /\ proc[p] \in Process /\ proc'[p] \in Process /\ ClientFits(proc[p])
    /\ conn[c].clientOpen /\ conn \in [Conns -> Connection]
    /\ g.upto <= Reach(proc[p]) /\ Reach(proc[p]) <= Reach(proc'[p])
    /\ conn[c].link # "broken" => InStep(proc[p], g)

\* A step that changes neither the connection nor its history.
LEMMA SameHistory ==
    ASSUME NEW p \in Clients, NEW c \in Conns, NEW g, OnLink(p, c, g), UNCHANGED netVars
    PROVE  /\ conn'[c] = conn[c] /\ g \in Past /\ Carried(c, g)'
           /\ g.upto <= Reach(proc'[p]) /\ g.from <= g.from
<1>1. conn'[c] = conn[c] /\ thread'[c] = thread[c] BY DEF netVars, OnLink
<1>2. Carried(c, g)' BY <1>1, CarriedElsewhere DEF OnLink
<1>3. g.upto <= Reach(proc'[p]) /\ g.from <= g.from
  BY ReachTypes, PastParts DEF OnLink
<1> QED BY <1>1, <1>2, <1>3 DEF OnLink

LEMMA BrokenContinues ==
    ASSUME NEW p \in Clients, NEW c \in Conns, NEW g, OnLink(p, c, g), Conveys(p),
           conn[c].link = "broken"
    PROVE  ContinuedAs(p, c, g, g)
<1>1. UNCHANGED netVars
  BY DEF Conveys, Fails, Proceeds, Begins, Notes, Hears, Hands, ClientTakes, ClientSends,
         Connected, OnLink
<1> QED BY <1>1, SameHistory DEF ContinuedAs, Continues

LEMMA ProceedsContinues ==
    ASSUME NEW p \in Clients, NEW c \in Conns, NEW g, OnLink(p, c, g), Proceeds(p)
    PROVE  ContinuedAs(p, c, g, g)
<1>1. UNCHANGED netVars BY DEF Proceeds
<1>2. conn'[c].link # "broken" => InStep(proc'[p], g)
  BY <1>1, SameHistory
  DEF OnLink, InStep, Proceeds, StaysPut, Greeting, Sending, FrameOf
<1> QED BY <1>1, <1>2, SameHistory DEF ContinuedAs, Continues

LEMMA HearsContinues ==
    ASSUME SystemInv, NEW p \in Clients, NEW c \in Conns, NEW g, OnLink(p, c, g), Hears(p)
    PROVE  \E h : ContinuedAs(p, c, g, h)
<1>1. /\ ClientTakes(c) /\ conn[c].link # "broken" /\ g \in Past
      /\ Head(conn[c].down) \in Cell
  BY DEF Hears, OnLink, ClientTakes, Connected, Connection
<1>2. PICK h : h = [g EXCEPT !.read = Append(@, Head(conn[c].down))] OBVIOUS
<1>3. Append(g.read, Head(conn[c].down)) \in Seq(Cell) BY <1>1, PastParts
<1>4. /\ h.pend = g.pend /\ h.sent = g.sent /\ h.from = g.from /\ h.upto = g.upto
      /\ h \in Past
  BY <1>1, <1>2, <1>3 DEF Past
<1>5. Carried(c, h)' BY <1>1, <1>2, <1>4, CarriedTaken DEF OnLink
<1>6. Continues(p, c, g, h) BY <1>2 DEF Continues
<1>7. h.upto <= Reach(proc'[p]) /\ g.from <= h.from
  BY <1>1, <1>4, ReachTypes, PastParts DEF OnLink
<1>8. InStep(proc'[p], h)
  BY <1>1, <1>4 DEF OnLink, InStep, Hears, StaysPut, Greeting, Sending, FrameOf
<1> QED BY <1>4, <1>5, <1>6, <1>7, <1>8 DEF ContinuedAs

LEMMA HandsContinues ==
    ASSUME SystemInv, NEW p \in Clients, NEW c \in Conns, NEW g, OnLink(p, c, g), Hands(p)
    PROVE  \E h : ContinuedAs(p, c, g, h)
<1> DEFINE r == proc[p]
           s == proc'[p]
           counts == s.out = <<>> /\ r.pc \in {"send", "resend"}
<1>1. /\ conn[c].link # "broken" /\ g \in Past /\ r \in Process /\ s \in Process
      /\ InStep(r, g) /\ r.out # <<>> /\ g.pend = r.out /\ s.out = Tail(r.out)
      /\ s.sock = c /\ ClientSends(c, Head(g.pend)) /\ conn[c].clientOpen
      /\ r.iter \in Nat /\ s.iter \in Nat /\ Carried(c, g)
  <2>1. /\ r \in Process /\ s \in Process /\ g \in Past /\ r.sock = c /\ conn[c].clientOpen
        /\ Carried(c, g) /\ r.out # <<>> /\ s.out = Tail(r.out) /\ s.sock = c
        /\ ClientSends(c, Head(r.out))
    BY DEF OnLink, Hands
  <2>2. conn[c].link # "broken" BY <2>1 DEF ClientSends, Connected
  <2>3. InStep(r, g) /\ g.pend = r.out BY <2>2 DEF OnLink, InStep
  <2>4. \A x \in Process : x.iter \in Nat BY ClientAssumption DEF Process
  <2> QED BY <2>1, <2>2, <2>3, <2>4
<1>2. /\ r.pc \in {"auth_send", "send", "resend", "req_send"}
      /\ g.sent # <<>> /\ g.sent[Len(g.sent)] = FrameOf(r)
      /\ g.upto = r.iter
  BY <1>1 DEF InStep, Hands
<1>3. PICK h : h = [g EXCEPT !.pend = Tail(@), !.upto = IF counts THEN @ + 1 ELSE @] OBVIOUS
<1>4. r.iter < NumPackets \/ r.pc \notin {"send", "resend"}
  BY DEF OnLink, ClientFits, InIteration
<1>5. Tail(g.pend) \in Seq(Cell) /\ (IF counts THEN g.upto + 1 ELSE g.upto) \in 0..NumPackets
  BY <1>1, <1>2, <1>4, PastParts, ClientAssumption
<1>6. /\ h.pend = s.out /\ h.sent = g.sent /\ h.read = g.read /\ h.from = g.from
      /\ h.upto = (IF counts THEN g.upto + 1 ELSE g.upto) /\ h \in Past
  <2> HIDE DEF counts
  <2> QED BY <1>1, <1>3, <1>5 DEF Past
<1>7. IF h.pend = <<>> /\ IsReading(g.sent[Len(g.sent)])
        THEN /\ h.upto = g.upto + 1
             /\ g.sent[Len(g.sent)][2].num = FuelAt(g.upto)
        ELSE h.upto = g.upto
  BY <1>1, <1>2, <1>6, FramesOfMain
<1>8. Carried(c, h)' BY <1>1, <1>2, <1>6, <1>7, CarriedHanded DEF OnLink
<1>9. Continues(p, c, g, h) BY <1>3 DEF Continues
<1>10. InStep(s, h)
  <2>1. CASE s.out # <<>>
    <3>1. s.iter = r.iter /\ s.pc = r.pc BY <2>1 DEF Hands
    <3> QED BY <1>1, <1>2, <1>6, <2>1, <3>1 DEF InStep, FrameOf, Sending
  <2>2. CASE s.out = <<>>
    <3>1. \/ s.iter = r.iter /\ <<r.pc, s.pc>> \in {<<"auth_send", "auth_ack">>, <<"send", "log_send">>,
                                    <<"req_send", "resp_header">>}
          \/ s.iter = r.iter + 1 /\ r.pc = "resend" /\ s.pc = "packet"
      BY <2>2 DEF Hands
    <3>2. h.upto = s.iter + (IF s.pc = "log_send" THEN 1 ELSE 0)
      <4>1. CASE r.pc \in {"send", "resend"}
        <5>1. h.upto = r.iter + 1 BY <1>2, <1>6, <2>2, <4>1
        <5> QED BY <1>1, <3>1, <4>1, <5>1
      <4>2. CASE r.pc \notin {"send", "resend"}
        <5>1. h.upto = r.iter BY <1>2, <1>6, <2>2, <4>2
        <5> QED BY <1>1, <1>2, <3>1, <4>2, <5>1
      <4> QED BY <4>1, <4>2
    <3>3. s.pc \in Greeting => h.from = h.upto
      BY <1>1, <1>2, <1>6, <3>1 DEF InStep, Greeting
    <3> QED BY <1>2, <1>6, <2>2, <3>2, <3>3 DEF InStep
  <2> QED BY <2>1, <2>2
<1>11. h.upto <= Reach(s) /\ g.from <= h.from
  <2>1. h.upto <= s.iter + (IF s.pc = "log_send" THEN 1 ELSE 0) BY <1>6, <1>10, PastParts DEF InStep
  <2>2. h.upto \in Nat /\ g.from \in Nat BY <1>1, <1>6, PastParts
  <2>3. s.iter \in Nat BY <1>1
  <2> HIDE DEF s, r, counts
  <2>4. h.upto <= Reach(s) BY <2>1, <2>2, <2>3 DEF Reach
  <2> QED BY <1>6, <2>2, <2>4
<1> QED BY <1>6, <1>8, <1>9, <1>10, <1>11 DEF ContinuedAs

LEMMA BeginsContinues ==
    ASSUME SystemInv, NEW p \in Clients, NEW c \in Conns, NEW g, OnLink(p, c, g), Begins(p),
           conn[c].link # "broken"
    PROVE  \E h : ContinuedAs(p, c, g, h)
<1> DEFINE r == proc[p]
           s == proc'[p]
<1>1. PICK f : f = s.out OBVIOUS
<1>2. /\ g \in Past /\ r \in Process /\ s \in Process /\ InStep(r, g)
      /\ conn'[c] = conn[c] /\ thread'[c] = thread[c] /\ conn[c].clientOpen /\ Carried(c, g)
      /\ f = FrameOf(s) /\ s.iter = r.iter /\ r.pc \in {"packet", "check_reply"}
      /\ s.pc \in {"send", "req_send", "resend"} /\ r.iter \in Nat
  <2>1. /\ g \in Past /\ r \in Process /\ s \in Process /\ InStep(r, g)
        /\ conn'[c] = conn[c] /\ thread'[c] = thread[c] /\ conn[c].clientOpen /\ Carried(c, g)
    BY DEF OnLink, Begins, netVars
  <2>2. r.iter \in Nat BY <2>1, ClientAssumption DEF Process
  <2> QED BY <1>1, <2>1, <2>2 DEF Begins
<1>3. g.pend = <<>> /\ g.sent # <<>> /\ g.upto = s.iter BY <1>2 DEF InStep, Sending
<1>4. /\ f \in WholeFrames /\ (IsRequest(f) => Len(f) = 1)
      /\ f[1].text = "PKT_TELEMETRY" => Len(f) > TelemetrySize
      /\ f[1].num <= INT_MAX
  BY <1>2, FramesOfMain
<1>5. PICK h : h = [g EXCEPT !.pend = f, !.sent = Append(@, f)] OBVIOUS
<1>6. f \in Seq(Cell) /\ Append(g.sent, f) \in Seq(WholeFrames)
      /\ Append(g.sent, f) # <<>> /\ Append(g.sent, f)[Len(Append(g.sent, f))] = f
  <2>1. g.sent \in Seq(WholeFrames) /\ f \in Seq(Cell) BY <1>2, <1>4, PastParts DEF WholeFrames
  <2> QED BY <1>4, <2>1
<1>7. /\ h.pend = f /\ h.sent = Append(g.sent, f) /\ h.from = g.from /\ h.upto = g.upto
      /\ h \in Past
  BY <1>2, <1>5, <1>6 DEF Past
<1>8. Carried(c, h)' BY <1>2, <1>3, <1>4, <1>5, <1>7, CarriedBegun
<1>9. Continues(p, c, g, h) BY <1>1, <1>5 DEF Continues
<1>10. InStep(s, h)
  BY <1>1, <1>2, <1>3, <1>6, <1>7 DEF InStep, Sending, Greeting
<1>11. h.upto <= Reach(s) /\ g.from <= h.from
  BY <1>2, <1>3, <1>7, PastParts DEF Reach
<1> QED BY <1>7, <1>8, <1>9, <1>10, <1>11 DEF ContinuedAs

LEMMA NotesContinues ==
    ASSUME NEW p \in Clients, NEW c \in Conns, NEW g, OnLink(p, c, g), Notes(p),
           conn[c].link # "broken"
    PROVE  \E h : ContinuedAs(p, c, g, h)
<1> DEFINE r == proc[p]
           s == proc'[p]
<1>1. /\ g \in Past /\ r \in Process /\ s \in Process /\ InStep(r, g) /\ UNCHANGED netVars
      /\ conn'[c] = conn[c] /\ thread'[c] = thread[c] /\ Carried(c, g)
      /\ s.iter = r.iter + 1 /\ s.pc = "packet" /\ s.out = r.out
      /\ r.pc \in {"log_send", "not_authenticated"} /\ r.iter \in Nat
      /\ s.iter \in 0..NumPackets /\ s.iter \in Nat
  BY ClientAssumption DEF OnLink, Notes, netVars, Process
<1>2. r.out = <<>> BY <1>1 DEF InStep, Sending
<1>3. CASE r.pc = "log_send"
  <2>1. InStep(s, g) BY <1>1, <1>2, <1>3 DEF InStep, Greeting
  <2>2. Continues(p, c, g, g) BY <1>3 DEF Continues
  <2> QED BY <1>1, <2>1, <2>2, SameHistory DEF ContinuedAs
<1>4. CASE r.pc = "not_authenticated"
  <2>1. PICK i : i = s.iter OBVIOUS
  <2>2. PICK h : h = [g EXCEPT !.from = i, !.upto = i] OBVIOUS
  <2>3. g.from = g.upto /\ g.upto = r.iter BY <1>1, <1>4 DEF InStep, Greeting
  <2>4. /\ h.pend = g.pend /\ h.sent = g.sent /\ h.from = i /\ h.upto = i /\ h \in Past
    BY <1>1, <2>1, <2>2 DEF Past
  <2>5. Carried(c, h)' BY <1>1, <2>1, <2>2, <2>3, <2>4, CarriedRebased
  <2>6. InStep(s, h) BY <1>1, <1>2, <2>1, <2>4 DEF InStep, Greeting
  <2>7. Continues(p, c, g, h) BY <1>4, <2>1, <2>2 DEF Continues
  <2>8. h.upto <= Reach(s) /\ g.from <= h.from
    BY <1>1, <2>1, <2>3, <2>4 DEF Reach
  <2> QED BY <2>4, <2>5, <2>6, <2>7, <2>8 DEF ContinuedAs
<1> QED BY <1>1, <1>3, <1>4

LEMMA LinkContinues ==
    ASSUME SystemInv, NEW p \in Clients, NEW c \in Conns, NEW g, OnLink(p, c, g), Conveys(p)
    PROVE  \E h : ContinuedAs(p, c, g, h)
<1>1. CASE conn[c].link = "broken" BY <1>1, BrokenContinues
<1>2. CASE conn[c].link # "broken"
  <2>1. ~Fails(p) BY <1>2 DEF Fails, ClientSendFails, OnLink
  <2> QED
    BY <1>2, <2>1, ProceedsContinues, HearsContinues, HandsContinues, BeginsContinues,
       NotesContinues
    DEF Conveys
<1> QED BY <1>1, <1>2

\* What a step of client p leaves alone.
LEMMA ClientLeaves ==
    ASSUME SystemInv, RecordsInv, NEW p \in Clients, ClientMoves(p)
    PROVE  /\ UNCHANGED thread /\ \A q \in Clients \ {p} : proc'[q] = proc[q]
           /\ Reach(proc[p]) <= Reach(proc'[p])
           /\ \A c \in Conns : user'[c] = IF proc'[p].sock = c THEN p ELSE user[c]
           /\ ClientStep(p) \/ ClientCrash(p)
<1>1. ClientInv /\ proc \in [Clients -> Process] BY DEF SystemInv, ClientInv, ClientTypeOK
<1>2. /\ ClientStep(p) \/ ClientCrash(p)
      /\ UNCHANGED thread /\ \A c \in Conns : user'[c] = IF proc'[p].sock = c THEN p ELSE user[c]
  BY DEF ClientMoves, serverVars
<1>3. \A q \in Clients \ {p} : proc'[q] = proc[q]
  BY <1>1, <1>2, ClientLocal DEF OwnRecord, Becomes
<1>4. Reach(proc'[p]) >= Reach(proc[p])
  BY <1>1, <1>2, ReachGrows DEF RecordsInv, Recorded
<1>5. Reach(proc'[p]) \in Nat /\ Reach(proc[p]) \in Nat
  <2>1. ClientInv' BY <1>1, <1>2, ClientSteps
  <2> QED BY <1>1, <2>1, ReachTypes DEF ClientInv, ClientTypeOK
<1> QED BY <1>2, <1>3, <1>4, <1>5

\* The connection p has, as p's next step finds it.
LEMMA OwnLink ==
    ASSUME SystemInv, SystemInv', RecordsInv, NEW H, Sessions(H), NEW p \in Clients,
           ClientMoves(p), ~ClientEnded(p), NEW c \in Conns, proc[p].sock = c
    PROVE  /\ OnLink(p, c, H[c]) /\ user[c] = p /\ conn[c].link # "none"
           /\ \A d \in Conns \ {c} : user[d] = p => H[d].upto <= H[c].from
           /\ H \in [Conns -> Past]
<1>1. /\ H \in [Conns -> Past] /\ Carried(c, H[c]) /\ InOrderOn(p, H)
      /\ user[c] \in Clients => conn[c].link # "none"
  BY DEF Sessions
<1>2. user[c] = p BY <1>1 DEF InOrderOn
<1>3. /\ proc[p] \in Process /\ proc'[p] \in Process /\ ClientFits(proc[p])
      /\ conn[c].clientOpen /\ conn \in [Conns -> Connection]
  BY DEF SystemInv, ClientInv, ClientTypeOK, ClientsFit, SocketOwned, NetTypeOK
<1> QED BY <1>1, <1>2, <1>3, ClientLeaves DEF InOrderOn, OnLink

LEMMA ConveysSessions ==
    ASSUME SystemInv, SystemInv', RecordsInv, NEW H, Sessions(H), NEW p \in Clients,
           ClientMoves(p), ~ClientEnded(p), NEW c \in Conns, proc[p].sock = c, Conveys(p)
    PROVE  \E h : ContinuedAs(p, c, H[c], h) /\ Sessions([H EXCEPT ![c] = h])'
<1>1. /\ OnLink(p, c, H[c]) /\ user[c] = p /\ conn[c].link # "none"
      /\ \A d \in Conns \ {c} : user[d] = p => H[d].upto <= H[c].from
      /\ H \in [Conns -> Past]
  BY OwnLink
<1>2. PICK h : ContinuedAs(p, c, H[c], h) BY <1>1, LinkContinues
<1>3. proc'[p].sock = c
  BY DEF Conveys, Fails, Proceeds, Hears, Hands, Begins, Notes, StaysPut
<1>4. /\ conn'[c].link # "none" /\ \A d \in Conns \ {c} : conn'[d] = conn[d]
  <2>1. \/ UNCHANGED netVars \/ ClientTakes(c) \/ ClientSends(c, Head(proc[p].out))
    BY DEF Conveys, Fails, Proceeds, Hears, Hands, Begins, Notes
  <2>2. conn \in [Conns -> Connection] /\ conn[c] \in Connection BY <1>1 DEF OnLink
  <2>3. CASE UNCHANGED netVars BY <1>1, <2>3 DEF netVars
  <2>4. CASE ClientTakes(c) \/ ClientSends(c, Head(proc[p].out))
    <3>1. \/ conn' = conn
          \/ \E q \in {ResetOf(conn[c]), [conn[c] EXCEPT !.down = Tail(@)],
                       [conn[c] EXCEPT !.up = Append(@, Head(proc[p].out))]} :
                conn' = [conn EXCEPT ![c] = q]
      BY <2>4 DEF ClientTakes, ClientSends, Update, netVars
    <3>2. ResetOf(conn[c]).link = "broken" BY <2>2 DEF ResetOf, Connection
    <3>3. /\ [conn[c] EXCEPT !.down = Tail(@)].link = conn[c].link
          /\ [conn[c] EXCEPT !.up = Append(@, Head(proc[p].out))].link = conn[c].link
      BY <2>2 DEF Connection
    <3>4. ASSUME NEW q, q.link # "none", conn' = [conn EXCEPT ![c] = q]
          PROVE  conn'[c].link # "none" /\ \A d \in Conns \ {c} : conn'[d] = conn[d]
      BY <2>2, <3>4
    <3>5. CASE conn' = conn BY <1>1, <3>5
    <3> QED BY <1>1, <3>1, <3>2, <3>3, <3>4, <3>5
  <2> QED BY <2>1, <2>3, <2>4
<1>5. user' = [user EXCEPT ![c] = p]
  BY <1>3 DEF ClientMoves, SystemInv, UserTypeOK
<1>6. /\ h \in Past /\ Carried(c, h)' /\ h.upto <= Reach(proc'[p]) /\ H[c].from <= h.from
      /\ conn'[c].link # "broken" => InStep(proc'[p], h)
  BY <1>2 DEF ContinuedAs
<1>7. \A d \in Conns \ {c} : user[d] = p => H[d].upto <= h.from
  BY <1>1, <1>6, PastParts
<1>8. Sessions([H EXCEPT ![c] = h])'
  BY <1>1, <1>3, <1>4, <1>5, <1>6, <1>7, ClientLeaves, OwnStep
<1> QED BY <1>2, <1>8

\* main closes its connection, or is killed while it has one.
LEMMA ClosesSessions ==
    ASSUME SystemInv, SystemInv', RecordsInv, NEW H, Sessions(H), NEW p \in Clients,
           ClientMoves(p), ~ClientEnded(p), NEW c \in Conns, proc[p].sock = c,
           \/ ClientCloses(c) /\ proc'[p].sock \notin Conns
           \/ ClientDies(c) /\ proc'[p].sock = c
    PROVE  Sessions(H)'
<1>1. /\ OnLink(p, c, H[c]) /\ user[c] = p /\ conn[c].link # "none"
      /\ \A d \in Conns \ {c} : user[d] = p => H[d].upto <= H[c].from
      /\ H \in [Conns -> Past]
  BY OwnLink
<1>2. /\ H[c] \in Past /\ Carried(c, H[c]) /\ conn \in [Conns -> Connection]
      /\ conn[c] \in Connection /\ H[c].upto <= Reach(proc[p])
      /\ user \in [Conns -> Clients \cup {Nobody}]
  BY <1>1 DEF OnLink, SystemInv, UserTypeOK
<1>3. Carried(c, H[c])' BY <1>2, CarriedLost, ClientLeaves
<1>4. H[c].upto <= Reach(proc'[p])
  BY <1>2, ClientLeaves, PastParts, ReachTypes DEF SystemInv, ClientInv, ClientTypeOK
<1>5. /\ \A d \in Conns \ {c} : conn'[d] = conn[d]
      /\ conn'[c].link # "none"
      /\ ClientDies(c) => conn'[c].link = "broken"
  <2> DEFINE closed == [conn[c] EXCEPT !.clientOpen = FALSE]
  <2>1. closed.link = conn[c].link /\ closed \in Connection BY <1>2 DEF Connection
  <2>2. ResetOf(closed).link = "broken" BY <2>1 DEF ResetOf, Connection
  <2>3. conn[c].link \in {"backlog", "open", "broken"} BY <1>1, <1>2 DEF Connection, LinkStates
  <2>4. \/ conn' = [conn EXCEPT ![c] = closed] /\ (ClientDies(c) => ~Connected(c))
        \/ conn' = [conn EXCEPT ![c] = ResetOf(closed)]
    <3> HIDE DEF closed
    <3>1. CASE ClientCloses(c) /\ ~ClientDies(c) BY <3>1 DEF ClientCloses, Update, closed
    <3>2. CASE ClientDies(c) BY <3>2 DEF ClientDies, Update, closed
    <3> QED BY <3>1, <3>2
  <2> HIDE DEF closed
  <2> QED BY <1>2, <2>1, <2>2, <2>3, <2>4 DEF Connected
<1>6. user' = [user EXCEPT ![c] = p]
  <2>1. \A d \in Conns : user'[d] = user[d] BY <1>1, ClientLeaves
  <2> QED BY <1>1, <1>2, <2>1 DEF ClientMoves
<1>7. [H EXCEPT ![c] = H[c]] = H BY <1>1
<1>8. proc'[p].sock \in Conns => proc'[p].sock = c OBVIOUS
<1>9. proc'[p].sock = c /\ conn'[c].link # "broken" => InStep(proc'[p], H[c]) BY <1>5
<1>10. Sessions([H EXCEPT ![c] = H[c]])'
  BY <1>1, <1>2, <1>3, <1>4, <1>5, <1>6, <1>8, <1>9, ClientLeaves, OwnStep
<1> QED BY <1>7, <1>10

\* A new connection, for which the history begins where main is.
Fresh(r) == [pend |-> AuthRequest(TOKEN), sent |-> <<AuthRequest(TOKEN)>>, read |-> <<>>,
             from |-> r.iter, upto |-> r.iter]

Connects(p, c) ==
    /\ ClientConnects(c) /\ Trying(p) /\ proc[p].wsa > 0
    /\ proc'[p] = [proc[p] EXCEPT
           !.sock = c, !.sockets = @ + 1, !.attempts = 0, !.out = AuthRequest(TOKEN),
           !.pc = IF proc[p].reconnecting THEN "auth_send" ELSE "log_connect"]

LEMMA ConnectsSessions ==
    ASSUME SystemInv, SystemInv', RecordsInv, NEW H, Sessions(H), NEW p \in Clients,
           ClientMoves(p), NEW c \in Conns, Connects(p, c),
           NEW h, h = Fresh(proc[p])
    PROVE  h \in Past /\ Sessions([H EXCEPT ![c] = h])'
<1> DEFINE r == proc[p]
           s == proc'[p]
<1>1. /\ H \in [Conns -> Past] /\ Carried(c, H[c]) /\ InOrderOn(p, H)
      /\ user[c] \in Clients => conn[c].link # "none"
      /\ r \in Process /\ s \in Process /\ r.iter \in 0..NumPackets /\ r.iter \in Nat
      /\ conn \in [Conns -> Connection] /\ conn[c] \in Connection
      /\ user \in [Conns -> Clients \cup {Nobody}]
  <2>1. /\ H \in [Conns -> Past] /\ Carried(c, H[c]) /\ InOrderOn(p, H)
        /\ user[c] \in Clients => conn[c].link # "none"
    BY DEF Sessions
  <2>2. /\ r \in Process /\ s \in Process /\ conn \in [Conns -> Connection]
        /\ user \in [Conns -> Clients \cup {Nobody}]
    BY DEF SystemInv, ClientInv, ClientTypeOK, NetTypeOK, UserTypeOK
  <2>3. r.iter \in 0..NumPackets /\ r.iter \in Nat BY <2>2, ClientAssumption DEF Process
  <2> QED BY <2>1, <2>2, <2>3
<1>2. /\ s.sock = c /\ s.out = AuthRequest(TOKEN) /\ s.iter = r.iter
      /\ s.pc \in {"auth_send", "log_connect"} /\ r.pc = "connect"
  BY <1>1 DEF Connects, Process, Trying, MainAt
<1>3. /\ AuthRequest(TOKEN) \in WholeFrames /\ ~IsRequest(AuthRequest(TOKEN))
      /\ AuthRequest(TOKEN)[1].text # "PKT_TELEMETRY" /\ AuthRequest(TOKEN) \in Seq(Cell)
      /\ FrameOf(s) = AuthRequest(TOKEN) /\ AuthRequest(TOKEN)[1].num <= INT_MAX
  BY <1>1, <1>2, FramesOfMain, RequestTypes DEF FrameOf
<1>4. /\ h \in Past /\ h.pend = AuthRequest(TOKEN) /\ h.sent = <<AuthRequest(TOKEN)>>
      /\ h.read = <<>> /\ h.from = r.iter /\ h.upto = r.iter
  BY <1>1, <1>3 DEF Past, Fresh
<1>5. /\ conn[c].link = "none" /\ conn'[c].link = "backlog"
      /\ \A d \in Conns \ {c} : conn'[d] = conn[d]
  BY <1>1 DEF Connects, ClientConnects, Update, Connection
<1>6. user' = [user EXCEPT ![c] = p] /\ user[c] \notin Clients \ {p}
  BY <1>1, <1>2, <1>5 DEF ClientMoves
<1>7. Carried(c, h)'
  <2>1. H[c] \in Past /\ h.from = h.upto /\ ClientConnects(c) BY <1>1, <1>4 DEF Connects
  <2> QED BY <1>1, <1>3, <1>4, <2>1, CarriedConnected, ClientLeaves
<1>8. h.upto <= Reach(s) BY <1>1, <1>2, <1>4 DEF Reach
<1>9. InStep(s, h)
  <2>1. Len(h.sent) = 1 /\ h.sent[1] = AuthRequest(TOKEN) /\ h.sent # <<>> BY <1>4
  <2> QED BY <1>1, <1>2, <1>3, <1>4, <2>1 DEF InStep, Sending
<1>10. \A d \in Conns \ {c} : user[d] = p => H[d].upto <= h.from
  BY <1>1, <1>2, <1>4 DEF InOrderOn, Reach
<1>11. Sessions([H EXCEPT ![c] = h])'
  BY <1>2, <1>4, <1>5, <1>6, <1>7, <1>8, <1>9, <1>10, ClientLeaves, OwnStep
<1> QED BY <1>4, <1>11

\* What a step of client p makes of the histories.
Evolves(p, H, G) ==
    \/ \E c \in Conns : \E h :
          /\ proc[p].sock = c /\ ClientStep(p) /\ Conveys(p) /\ ContinuedAs(p, c, H[c], h)
          /\ G = [H EXCEPT ![c] = h]
    \/ \E c \in Conns :
          ConnectSucceeds(p) /\ Connects(p, c) /\ G = [H EXCEPT ![c] = Fresh(proc[p])]
    \/ ClientStep(p) /\ (GivesUp(p) \/ Idles(p)) /\ G = H
    \/ ClientCrash(p) /\ G = H

LEMMA ClientSessions ==
    ASSUME SystemInv, SystemInv', RecordsInv, NEW H, Sessions(H), NEW p \in Clients,
           ClientMoves(p)
    PROVE  \E G : Sessions(G)' /\ Evolves(p, H, G)
<1>1. /\ UNCHANGED thread
      /\ ClientStep(p) \/ ClientCrash(p)
      /\ \A q \in Clients \ {p} : proc'[q] = proc[q]
      /\ Reach(proc[p]) <= Reach(proc'[p])
      /\ user' = [c \in Conns |-> IF proc'[p].sock = c THEN p ELSE user[c]]
      /\ ClientInv /\ proc[p] \in Process /\ \A r : Becomes(p, r) => proc'[p] = r
      /\ user \in [Conns -> Clients \cup {Nobody}]
  BY ClientLeaves DEF ClientMoves, SystemInv, ClientInv, ClientTypeOK, Becomes, UserTypeOK
<1>2. ~ClientEnded(p)
  BY <1>1, PlacesBehind DEF ClientEnded, ClientCrash
<1>3. ASSUME UNCHANGED netVars, proc[p].sock \notin Conns, proc'[p].sock \notin Conns
      PROVE  Sessions(H)'
  <2>1. user' = user BY <1>1, <1>3
  <2>2. UNCHANGED <<conn, thread, user>> BY <1>1, <1>3, <2>1, ClientLeaves DEF netVars
  <2> QED BY <1>1, <1>3, <2>2, LoneStep
<1>4. CASE ClientCrash(p)
  <2>1. proc'[p].sock = proc[p].sock BY <1>1, <1>4 DEF ClientCrash, Process
  <2>2. Sessions(H)'
    <3>1. CASE proc[p].sock \in Conns
      <4>1. ClientDies(proc[p].sock) BY <1>4, <3>1 DEF ClientCrash
      <4>2. \A c \in Conns : proc[p].sock = c => Sessions(H)'
        BY <1>2, <2>1, <4>1, ClosesSessions
      <4> QED BY <3>1, <4>2
    <3>2. CASE proc[p].sock \notin Conns
      BY <1>3, <1>4, <2>1, <3>2 DEF ClientCrash
    <3> QED BY <3>1, <3>2
  <2> QED BY <1>4, <2>2 DEF Evolves
<1>5. ASSUME ClientStep(p), Conveys(p) PROVE \E G : Sessions(G)' /\ Evolves(p, H, G)
  <2>1. PICK c \in Conns : proc[p].sock = c BY <1>5 DEF Conveys
  <2>2. PICK h : ContinuedAs(p, c, H[c], h) /\ Sessions([H EXCEPT ![c] = h])'
    BY <1>2, <1>5, <2>1, ConveysSessions
  <2>3. Evolves(p, H, [H EXCEPT ![c] = h]) BY <1>5, <2>1, <2>2 DEF Evolves
  <2> QED BY <2>2, <2>3
<1>6. ASSUME ClientStep(p), GivesUp(p) PROVE \E G : Sessions(G)' /\ Evolves(p, H, G)
  <2>1. \A c \in Conns : proc[p].sock = c => Sessions(H)'
    BY <1>2, <1>6, ClosesSessions DEF GivesUp
  <2> QED BY <1>6, <2>1 DEF Evolves, GivesUp
<1>7. ASSUME ClientStep(p), Idles(p) PROVE \E G : Sessions(G)' /\ Evolves(p, H, G)
  BY <1>3, <1>7 DEF Evolves, Idles
<1>8. ASSUME ConnectSucceeds(p) PROVE \E G : Sessions(G)' /\ Evolves(p, H, G)
  <2>1. PICK c \in Conns : Connects(p, c)
    BY <1>1, <1>8 DEF ConnectSucceeds, Attempting, Connects
  <2>2. PICK h : h = Fresh(proc[p]) OBVIOUS
  <2>3. Sessions([H EXCEPT ![c] = h])' BY <2>1, <2>2, ConnectsSessions
  <2>4. Evolves(p, H, [H EXCEPT ![c] = h]) BY <1>8, <2>1, <2>2 DEF Evolves
  <2> QED BY <2>3, <2>4
<1> QED BY <1>1, <1>4, <1>5, <1>6, <1>7, <1>8, ConveyingSteps

-----------------------------------------------------------------------------
SessionInv == RecordsInv /\ \E H : Sessions(H)

LEMMA SessionStep ==
    ASSUME SystemInv, SystemInv', SessionInv, [Next]_vars
    PROVE  SessionInv'
<1>1. PICK H : Sessions(H) BY DEF SessionInv
<1>2. ASSUME UNCHANGED proc, Sessions(H)' PROVE SessionInv'
  BY <1>2 DEF SessionInv, RecordsInv
<1>3. CASE ServerMoves BY <1>1, <1>2, <1>3, ServerSessions DEF ServerMoves
<1>4. ASSUME NEW c \in Conns, LinkBreaks(c) PROVE SessionInv'
  BY <1>1, <1>2, <1>4, BreakSessions DEF LinkBreaks
<1>5. ASSUME NEW p \in Clients, ClientMoves(p) PROVE SessionInv'
  <2>1. RecordsInv /\ (ClientStep(p) \/ ClientCrash(p)) /\ ClientInv
    BY <1>5 DEF SessionInv, ClientMoves, SystemInv
  <2>2. RecordsInv' BY <2>1, RecordsStep
  <2>3. \E G : Sessions(G)' BY <1>1, <1>5, <2>1, ClientSessions
  <2> QED BY <2>2, <2>3 DEF SessionInv
<1>6. CASE UNCHANGED vars
  <2>1. UNCHANGED <<conn, thread, proc, user>> BY <1>6 DEF vars, netVars, serverVars
  <2>2. /\ \A c \in Conns : Carried(c, H[c])
        /\ \A c \in Conns : conn'[c] = conn[c] /\ thread'[c] = thread[c]
    BY <1>1, <2>1 DEF Sessions
  <2>3. \A c \in Conns : Carried(c, H[c])' BY <2>2, CarriedElsewhere
  <2>4. Sessions(H)' BY <1>1, <2>1, <2>2, <2>3, OthersStep
  <2> QED BY <1>2, <2>1, <2>4
<1> QED BY <1>3, <1>4, <1>5, <1>6 DEF Next, Quiescent

\* Nobody has used any connection.
Unused == [pend |-> <<>>, sent |-> <<>>, read |-> <<>>, from |-> 0, upto |-> 0]

LEMMA SessionInitially == Init => SessionInv /\ Sessions([c \in Conns |-> Unused])
<1> SUFFICES ASSUME Init PROVE SessionInv /\ Sessions([c \in Conns |-> Unused])
  OBVIOUS
<1>1. PICK H : H = [c \in Conns |-> Unused] OBVIOUS
<1>2. Unused \in Past
  <2>1. <<>> \in Seq(Cell) /\ <<>> \in Seq(WholeFrames) /\ 0 \in 0..NumPackets
    BY ClientAssumption
  <2> QED BY <2>1 DEF Unused, Past
<1>3. ASSUME NEW c \in Conns PROVE Carried(c, Unused)
  <2>1. /\ thread[c].pc = "none" /\ thread[c].log = <<>> /\ thread[c].out = <<>>
        /\ conn[c].link = "none" /\ conn[c].up = <<>> /\ conn[c].down = <<>>
        /\ ~conn[c].clientOpen
    BY DEF Init, ServerInit, NetInit
  <2>2. Track(thread[c], conn[c], <<>>, <<>>) BY <2>1, EmptyTrack
  <2>3. Replied(thread[c], conn[c], <<>>, <<>>, <<>>) BY <2>1, EmptyReplied
  <2>4. <<>> \o conn[c].down = <<>> BY <2>1
  <2>5. Window(0, 0) = <<>> BY WindowGrows
  <2>6. ClientLike(<<>>) /\ HandedOver(<<>>, <<>>) = <<>> BY DEF ClientLike, HandedOver
  <2> QED
    BY <2>2, <2>3, <2>4, <2>5, <2>6, OfNothing DEF Carried, TrackAt, RepliedAt, Unused
<1>4. /\ \A p \in Clients : proc[p].sock \notin Conns /\ proc[p].iter = 0 /\ p # Nobody
      /\ \A c \in Conns : user[c] = Nobody
  BY ClientAssumption, NobodyAssumption DEF Init, ClientInit, Nobody
<1>5. Sessions(H)
  BY <1>1, <1>2, <1>3, <1>4 DEF Sessions, InOrderOn
<1>6. RecordsInv BY RecordsInitially DEF Init
<1> QED BY <1>1, <1>5, <1>6 DEF SessionInv

LEMMA LoggedIsSequence ==
    ASSUME NEW t \in Thread
    PROVE  LET w == ReadingsIn(t.log)
           IN Len(w) \in Nat /\ DOMAIN w = 1..Len(w) /\ \E T : w \in Seq(T)
<1> DEFINE T == {x[2] : x \in Row}
           I == {i \in DOMAIN t.log : IsReceived(t.log[i])}
           rows == Selected(t.log, I)
           w == ReadingsIn(t.log)
<1>1. t.log \in Seq(Row) BY DEF Thread
<1>2. I \in SUBSET (1..Len(t.log)) BY <1>1, LenProperties
<1> HIDE DEF I
<1>3. rows \in Seq(Row) BY <1>1, <1>2, SelectedType
<1>4. w = [k \in DOMAIN rows |-> rows[k][2]] BY DEF ReadingsIn, I
<1> HIDE DEF rows, w
<1>5. DOMAIN rows = 1..Len(rows) /\ Len(rows) \in Nat BY <1>3, LenProperties
<1>6. \A k \in 1..Len(rows) : rows[k][2] \in T
  <2>1. \A k \in 1..Len(rows) : rows[k] \in Row BY <1>3, ElementOfSeq
  <2> QED BY <2>1
<1> HIDE DEF T
<1>7. w \in Seq(T) BY <1>4, <1>5, <1>6, SeqDef
<1> QED BY <1>7, LenProperties DEF w

\* What a handler has logged are the readings of successive iterations.
LEMMA LoggedInWindow ==
    ASSUME SystemInv, NEW H, Sessions(H), NEW p \in Clients, NEW c \in Conns, user[c] = p,
           NEW i \in DOMAIN LoggedReadings(c)
    PROVE  \E j \in 0..NumPackets :
              /\ j = H[c].from + i - 1 /\ j < H[c].upto /\ j <= proc[p].iter
              /\ LoggedReadings(c)[i] = FuelAt(j)
<1> DEFINE a == H[c].from
           b == H[c].upto
           L == LoggedReadings(c)
<1>1. /\ H[c] \in Past /\ Carried(c, H[c]) /\ InOrderOn(p, H)
      /\ thread[c] \in Thread /\ proc[p] \in Process
  BY DEF Sessions, SystemInv, ServerInv, ServerTypeOK, ClientInv, ClientTypeOK
<1>2. Prefix(L, Window(a, b))
  <2>1. Track(thread[c], conn[c], H[c].pend, H[c].sent) BY <1>1 DEF Carried, TrackAt
  <2>2. Prefix(ReadingsIn(thread[c].log), ReadingsOf(HandedOver(H[c].pend, H[c].sent)))
    BY <1>1, <2>1, PastParts, TrackedLog
  <2>3. ReadingsOf(HandedOver(H[c].pend, H[c].sent)) = Window(a, b) BY <1>1 DEF Carried
  <2>4. L = ReadingsIn(thread[c].log) BY DEF LoggedReadings, ReadingsIn
  <2> QED BY <2>2, <2>3, <2>4
<1>3. a \in Nat /\ b \in 0..NumPackets /\ a <= b /\ b <= Reach(proc[p])
  BY <1>1, PastParts DEF Carried, InOrderOn
<1>4. proc[p].iter \in Nat BY <1>1, ClientAssumption DEF Process
<1>5. b <= proc[p].iter + 1 BY <1>3, <1>4, ClientAssumption DEF Reach
<1>6. Len(Window(a, b)) = b - a BY <1>3, ClientAssumption DEF Window
<1>7. i \in 1..(b - a) /\ L[i] = Window(a, b)[i]
  <2>1. L = ReadingsIn(thread[c].log) BY DEF LoggedReadings, ReadingsIn
  <2>2. Len(L) \in Nat /\ DOMAIN L = 1..Len(L) BY <1>1, <2>1, LoggedIsSequence
  <2>3. Len(L) <= b - a /\ \A n \in 1..Len(L) : L[n] = Window(a, b)[n]
    BY <1>2, <1>6 DEF Prefix
  <2>4. i \in 1..Len(L) BY <2>2
  <2> HIDE DEF L
  <2> QED BY <1>3, <2>2, <2>3, <2>4, ClientAssumption
<1>8. L[i] = FuelAt(a + i - 1) BY <1>3, <1>7 DEF Window
<1> QED BY <1>3, <1>4, <1>5, <1>7, <1>8, ClientAssumption

\* A reading reaches the server's log at most once, over all the connections
\* its aircraft has used, and none gets there that was not built: whether or
\* not main reconnects and sends again, and whatever fails.
THEOREM RetriesLogOnce == Spec => []LoggedAtMostOnce
<1>1. SystemInv /\ SessionInv => LoggedAtMostOnce
  <2> SUFFICES ASSUME SystemInv, SessionInv, NEW p \in Clients
               PROVE  LET mine == {c \in Conns : user[c] = p}
                          logged == UNION {{<<c, i>> : i \in DOMAIN LoggedReadings(c)} : c \in mine}
                      IN /\ \A e \in logged : LoggedReadings(e[1])[e[2]] \in BuiltReadings(p)
                         /\ \A e, f \in logged :
                              e # f /\ BurnRate > 0 =>
                                LoggedReadings(e[1])[e[2]] # LoggedReadings(f[1])[f[2]]
    BY DEF LoggedAtMostOnce
  <2>1. PICK H : Sessions(H) BY DEF SessionInv
  <2>2. ASSUME NEW c \in Conns, user[c] = p, NEW i \in DOMAIN LoggedReadings(c)
        PROVE  /\ LoggedReadings(c)[i] \in BuiltReadings(p)
               /\ \E j \in 0..NumPackets :
                    /\ j = H[c].from + i - 1 /\ j < H[c].upto
                    /\ LoggedReadings(c)[i] = FuelAt(j) /\ H[c].from <= j
                    /\ i \in Nat /\ H[c].from \in Nat /\ H[c].upto \in Nat
    <3>1. PICK j \in 0..NumPackets :
             /\ j = H[c].from + i - 1 /\ j < H[c].upto /\ j <= proc[p].iter
             /\ LoggedReadings(c)[i] = FuelAt(j)
      BY <2>1, <2>2, LoggedInWindow
    <3>2. proc[p].iter \in Nat /\ j \in 0..proc[p].iter
      BY <3>1, ClientAssumption DEF SystemInv, ClientInv, ClientTypeOK, Process
    <3>3. i \in Nat /\ i >= 1
      <4>1. LoggedReadings(c) = ReadingsIn(thread[c].log) /\ thread[c] \in Thread
        BY DEF LoggedReadings, ReadingsIn, SystemInv, ServerInv, ServerTypeOK
      <4> QED BY <2>2, <4>1, LoggedIsSequence
    <3>4. H[c].from \in Nat /\ H[c].upto \in Nat BY <2>1, PastParts DEF Sessions
    <3> QED BY <3>1, <3>2, <3>3, <3>4 DEF BuiltReadings
  <2>3. ASSUME NEW c \in Conns, user[c] = p, NEW i \in DOMAIN LoggedReadings(c),
               NEW d \in Conns, user[d] = p, NEW k \in DOMAIN LoggedReadings(d),
               c # d \/ i # k, BurnRate > 0
        PROVE  LoggedReadings(c)[i] # LoggedReadings(d)[k]
    <3>1. PICK a \in 0..NumPackets :
             /\ a = H[c].from + i - 1 /\ a < H[c].upto
             /\ LoggedReadings(c)[i] = FuelAt(a) /\ H[c].from <= a
             /\ i \in Nat /\ H[c].from \in Nat /\ H[c].upto \in Nat
      BY <2>2, <2>3
    <3>2. PICK b \in 0..NumPackets :
             /\ b = H[d].from + k - 1 /\ b < H[d].upto
             /\ LoggedReadings(d)[k] = FuelAt(b) /\ H[d].from <= b
             /\ k \in Nat /\ H[d].from \in Nat /\ H[d].upto \in Nat
      BY <2>2, <2>3
    <3>3. a # b
      <4>1. CASE c = d BY <2>3, <3>1, <3>2, <4>1
      <4>2. CASE c # d
        <5>1. H[c].upto <= H[d].from \/ H[d].upto <= H[c].from
          BY <2>1, <2>3, <4>2 DEF Sessions, InOrderOn
        <5> QED BY <3>1, <3>2, <5>1, ClientAssumption
      <4> QED BY <4>1, <4>2
    <3>4. FuelAt(a) \in Int /\ FuelAt(b) \in Int BY ClientAssumption DEF FuelAt
    <3>5. a < b \/ b < a BY <3>3, ClientAssumption
    <3> HIDE DEF FuelAt
    <3> QED BY <2>3, <3>1, <3>2, <3>4, <3>5, FuelFalls
  <2> QED BY <2>2, <2>3
<1>2. Init => SessionInv BY SessionInitially
<1>3. SystemInv /\ SystemInv' /\ SessionInv /\ [Next]_vars => SessionInv'
  BY SessionStep
<1> QED BY <1>1, <1>2, <1>3, SystemInvariant, PTL DEF Spec

-----------------------------------------------------------------------------
(***************************************************************************)
(* The dataset acknowledges the flight.  In main_client.exe, where nothing *)
(* else holds Winsock, an aircraft has one connection, and its history     *)
(* goes along with main: one reading for each iteration, and no request    *)
(* before the one main waits for an answer to.                             *)
(***************************************************************************)
\* Places main reaches with the verdict read, and those past an answer.
Midway == {"check_reply", "packet", "send", "log_send", "resend", "req_send", "resp_header"}
Ending == {"unexpected", "bye", "leave", "exited", "crashed"}

Abreast(r, h) ==
    /\ h.from = 0
    /\ h.upto = r.iter + (IF r.pc = "log_send" THEN 1 ELSE 0)
    /\ r.pc \in {"log_connect", "auth_send", "auth_ack"} => h.read = <<>>
    /\ r.pc = "auth_reply" => Len(h.read) >= 1
    /\ r.pc \in Midway => Len(h.read) >= 2
    /\ r.pc \in {"resp_data", "got_data"} => Len(h.read) >= 3
    /\ r.pc \in Responding =>
          /\ h.pend = <<>> /\ h.sent # <<>>
          /\ RequestsOf(SubSeq(h.sent, 1, Len(h.sent) - 1)) = 0
    /\ r.pc \notin Responding \cup Ending => RequestsOf(HandedOver(h.pend, h.sent)) = 0

\* The first cell of the replies announces one of payload.
LEMMA VerdictAnnounced ==
    ASSUME NEW c \in Conns, conn[c] \in Connection, NEW h \in Past, Carried(c, h), h.read = <<>>,
           NEW cell \in HeadersIn(conn[c].down)
    PROVE  cell.num = 1
<1> DEFINE down == conn[c].down
           ok == thread[c].authOK
<1>1. down \in Seq(Cell) /\ down # <<>> BY DEF Connection, HeadersIn
<1>2. h.read \o down = down BY <1>1, ConcatEmptySeq
<1>3. Framed(ok, down) BY <1>2 DEF Carried, RepliedAt, Replied
<1>4. 1 \in DOMAIN down /\ Head(down) = down[1] BY <1>1
<1>5. down[1] = AuthAck(ok)[1] BY <1>3, <1>4 DEF Framed, Expected
<1>6. AuthAck(ok)[1].kind = "header" /\ AuthAck(ok)[1].num = 1 BY DEF AuthAck, Header
<1>7. HeadersIn(down) = {Head(down)} BY <1>1, <1>4, <1>5, <1>6 DEF HeadersIn
<1> QED BY <1>4, <1>5, <1>6, <1>7

\* A step of main that adds nothing to the history.
LEMMA AbreastStays ==
    ASSUME NEW p \in Clients, NEW c \in Conns, NEW g, OnLink(p, c, g),
           Fails(p) \/ Proceeds(p) \/ Begins(p) \/ Notes(p),
           ~proc[p].reconnecting, proc[p].pc # "resend", Abreast(proc[p], g)
    PROVE  Abreast(proc'[p], g)
<1> DEFINE r == proc[p]
           s == proc'[p]
<1>1. g.upto = r.iter + (IF r.pc = "log_send" THEN 1 ELSE 0) /\ r.iter \in Nat
  BY ClientAssumption DEF OnLink, Abreast, Process
<1>2. CASE Fails(p)
  BY <1>1, <1>2 DEF Abreast, Fails, Midway, Ending, Responding
<1>3. CASE Proceeds(p)
  BY <1>1, <1>3 DEF Abreast, Proceeds, StaysPut, Midway, Ending, Responding
<1>4. CASE Begins(p)
  BY <1>1, <1>4 DEF Abreast, Begins, Midway, Ending, Responding
<1>5. CASE Notes(p)
  <2>1. r.pc = "log_send" /\ s.pc = "packet" /\ s.iter = r.iter + 1 BY <1>5 DEF Notes
  <2> QED BY <1>1, <2>1 DEF Abreast, Midway, Ending, Responding
<1> QED BY <1>2, <1>3, <1>4, <1>5

LEMMA AbreastHears ==
    ASSUME NEW p \in Clients, NEW c \in Conns, NEW g, OnLink(p, c, g), Hears(p),
           Abreast(proc[p], g),
           NEW h, h = [g EXCEPT !.read = Append(@, Head(conn[c].down))]
    PROVE  Abreast(proc'[p], h)
<1> DEFINE r == proc[p]
           s == proc'[p]
<1>1. /\ g \in Past /\ Carried(c, g) /\ conn[c] \in Connection /\ r.iter \in Nat /\ r.sock = c
  BY ClientAssumption DEF OnLink, Process
<1>2. /\ h.pend = g.pend /\ h.sent = g.sent /\ h.from = g.from /\ h.upto = g.upto
      /\ h.read = Append(g.read, Head(conn[c].down))
  BY <1>1 DEF Past
<1>3. Len(g.read) \in Nat /\ Len(h.read) = Len(g.read) + 1
  BY <1>1, <1>2, PastParts
<1>4. <<r.pc, s.pc>> # <<"auth_ack", "check_reply">>
  <2> SUFFICES ASSUME r.pc = "auth_ack", s.pc = "check_reply" PROVE FALSE OBVIOUS
  <2>1. PICK cell \in HeadersIn(conn[c].down) : recvLength(cell.num) = 0
    BY <1>1 DEF Hears
  <2>2. g.read = <<>> BY DEF Abreast
  <2>3. cell.num = 1 BY <1>1, <2>1, <2>2, VerdictAnnounced
  <2>4. recvLength(1) = 1 BY RecvLengths, PacketsAssumption
  <2> QED BY <2>1, <2>3, <2>4
<1>5. s.iter = r.iter BY DEF Hears, StaysPut
<1> QED
  BY <1>2, <1>3, <1>4, <1>5 DEF Abreast, Hears, Midway, Ending, Responding

LEMMA AbreastHands ==
    ASSUME NEW p \in Clients, NEW c \in Conns, NEW g, OnLink(p, c, g), Hands(p),
           InStep(proc[p], g), proc[p].pc # "resend", Abreast(proc[p], g),
           NEW h, h.from = g.from, h.sent = g.sent, h.read = g.read, h.pend = Tail(g.pend),
           h.upto = IF proc'[p].out = <<>> /\ proc[p].pc \in {"send", "resend"}
                    THEN g.upto + 1 ELSE g.upto
    PROVE  Abreast(proc'[p], h)
<1> DEFINE r == proc[p]
           s == proc'[p]
           front == SubSeq(g.sent, 1, Len(g.sent) - 1)
           last == g.sent[Len(g.sent)]
<1>1. /\ g \in Past /\ r \in Process /\ r.iter \in Nat /\ r.out # <<>> /\ h.pend = s.out
      /\ g.pend = r.out /\ g.sent # <<>> /\ last = FrameOf(r)
  BY ClientAssumption DEF OnLink, Process, Hands, InStep
<1>2. r.pc \in {"auth_send", "send", "req_send"} /\ g.upto = r.iter
  <2>1. r.pc \in {"auth_send", "send", "req_send"} BY DEF Hands
  <2>2. g.upto = r.iter + 0 BY <2>1 DEF Abreast
  <2> QED BY <1>1, <2>1, <2>2
<1>3. RequestsOf(front) = 0
  BY <1>1, <1>2 DEF Abreast, Ending, Responding, HandedOver
<1>4. CASE s.out # <<>>
  <2>1. s.pc = r.pc /\ s.iter = r.iter /\ h.upto = g.upto BY <1>4 DEF Hands
  <2>2. HandedOver(h.pend, h.sent) = front BY <1>1, <1>4 DEF HandedOver
  <2> QED BY <1>2, <1>3, <2>1, <2>2 DEF Abreast, Midway, Ending, Responding
<1>5. CASE s.out = <<>>
  <2>1. /\ s.iter = r.iter
        /\ <<r.pc, s.pc>> \in {<<"auth_send", "auth_ack">>, <<"send", "log_send">>,
                               <<"req_send", "resp_header">>}
    BY <1>2, <1>5 DEF Hands
  <2>2. h.upto = s.iter + (IF s.pc = "log_send" THEN 1 ELSE 0) BY <1>1, <1>2, <1>5, <2>1
  <2>3. HandedOver(h.pend, h.sent) = g.sent BY <1>1, <1>5 DEF HandedOver
  <2>4. r.pc # "req_send" => RequestsOf(g.sent) = 0
    <3> SUFFICES ASSUME r.pc # "req_send" PROVE RequestsOf(g.sent) = 0 OBVIOUS
    <3>1. ~IsRequest(last) BY <1>1, FramesOfMain
    <3>2. /\ front \in Seq(WholeFrames) /\ last \in WholeFrames /\ Append(front, last) = g.sent
      <4>1. g.sent \in Seq(WholeFrames) BY <1>1, PastParts
      <4> QED BY <1>1, <4>1
    <3>3. RequestsOf(Append(front, last)) = RequestsOf(front) BY <3>1, <3>2, RequestsAppend
    <3> QED BY <1>3, <3>2, <3>3
  <2>5. s.pc = "resp_header" => /\ h.pend = <<>> /\ h.sent # <<>>
                                /\ RequestsOf(SubSeq(h.sent, 1, Len(h.sent) - 1)) = 0
    BY <1>1, <1>3, <1>5
  <2>6. s.pc # "resp_header" => RequestsOf(HandedOver(h.pend, h.sent)) = 0
    BY <2>1, <2>3, <2>4
  <2> HIDE DEF front, last
  <2> QED BY <2>1, <2>2, <2>5, <2>6 DEF Abreast, Midway, Ending, Responding
<1> QED BY <1>4, <1>5

LEMMA AbreastBegins ==
    ASSUME NEW p \in Clients, NEW c \in Conns, NEW g, OnLink(p, c, g), Begins(p),
           InStep(proc[p], g), ~proc[p].reconnecting, Abreast(proc[p], g),
           NEW h, h = [g EXCEPT !.pend = proc'[p].out, !.sent = Append(@, proc'[p].out)]
    PROVE  Abreast(proc'[p], h)
<1> DEFINE r == proc[p]
           s == proc'[p]
<1>1. PICK f : f = s.out OBVIOUS
<1>2. /\ g \in Past /\ r \in Process /\ s \in Process /\ r.iter \in Nat
      /\ r.pc = "packet" /\ s.pc \in {"send", "req_send"} /\ s.iter = r.iter /\ f = FrameOf(s)
  <2>1. g \in Past /\ r \in Process /\ s \in Process BY DEF OnLink
  <2>2. r.iter \in Nat BY <2>1, ClientAssumption DEF Process
  <2>3. /\ r.pc = "packet" /\ s.pc \in {"send", "req_send"}
        /\ s.iter = r.iter /\ s.out = FrameOf(s)
    BY DEF Begins
  <2> QED BY <1>1, <2>1, <2>2, <2>3
<1>3. f \in WholeFrames BY <1>2, FramesOfMain
<1>4. /\ h.pend = f /\ h.sent = Append(g.sent, f) /\ h.from = g.from /\ h.upto = g.upto
      /\ h.read = g.read
  BY <1>1, <1>2 DEF Past
<1>5. g.pend = <<>> BY <1>2 DEF InStep, Sending
<1>6. HandedOver(h.pend, h.sent) = HandedOver(g.pend, g.sent)
  <2>1. g.sent \in Seq(WholeFrames) BY <1>2, PastParts
  <2> QED BY <1>3, <1>4, <1>5, <2>1, OneMoreBegun
<1> QED BY <1>2, <1>4, <1>6 DEF Abreast, Midway, Ending, Responding

LEMMA AbreastConveys ==
    ASSUME SystemInv, NEW p \in Clients, NEW c \in Conns, NEW g, OnLink(p, c, g), Conveys(p),
           Straight(proc[p]), Recorded(proc[p]), Abreast(proc[p], g),
           NEW h, Continues(p, c, g, h)
    PROVE  Abreast(proc'[p], h)
<1> DEFINE r == proc[p]
           s == proc'[p]
<1>1. r.sock = c /\ g \in Past BY DEF OnLink
<1>2. ~r.reconnecting BY <1>1 DEF Straight, OneConnection
<1>3. r.pc # "resend" BY <1>2 DEF Recorded
<1>4. conn[c].link # "broken" => InStep(r, g) BY DEF OnLink
<1>5. Hears(p) \/ Hands(p) => conn[c].link # "broken"
  BY <1>1 DEF Hears, Hands, ClientTakes, ClientSends, Connected
<1>6. CASE (conn[c].link = "broken" \/ Proceeds(p)) /\ h = g
  <2>1. Fails(p) \/ Proceeds(p) \/ Begins(p) \/ Notes(p) BY <1>5, <1>6 DEF Conveys
  <2> QED BY <1>2, <1>3, <1>6, <2>1, AbreastStays
<1>7. CASE Hears(p) /\ h = [g EXCEPT !.read = Append(@, Head(conn[c].down))]
  BY <1>7, AbreastHears
<1>8. CASE /\ Hands(p)
           /\ h = [g EXCEPT !.pend = Tail(@),
                            !.upto = IF s.out = <<>> /\ r.pc \in {"send", "resend"}
                                     THEN @ + 1 ELSE @]
  <2> DEFINE counts == s.out = <<>> /\ r.pc \in {"send", "resend"}
  <2>1. h = [g EXCEPT !.pend = Tail(@), !.upto = IF counts THEN @ + 1 ELSE @] BY <1>8
  <2> HIDE DEF counts
  <2>2. /\ h.from = g.from /\ h.sent = g.sent /\ h.read = g.read /\ h.pend = Tail(g.pend)
        /\ h.upto = IF counts THEN g.upto + 1 ELSE g.upto
    BY <1>1, <2>1 DEF Past
  <2>3. h.upto = IF s.out = <<>> /\ r.pc \in {"send", "resend"} THEN g.upto + 1 ELSE g.upto
    BY <2>2 DEF counts
  <2>4. Hands(p) /\ InStep(r, g) BY <1>4, <1>5, <1>8
  <2> QED BY <1>3, <2>2, <2>3, <2>4, AbreastHands
<1>9. CASE /\ Begins(p) /\ conn[c].link # "broken"
           /\ h = [g EXCEPT !.pend = s.out, !.sent = Append(@, s.out)]
  BY <1>2, <1>4, <1>9, AbreastBegins
<1>10. CASE /\ Notes(p)
            /\ h = IF r.pc = "log_send" THEN g ELSE [g EXCEPT !.from = s.iter, !.upto = s.iter]
  <2>1. r.pc = "log_send" /\ h = g BY <1>2, <1>10 DEF Notes
  <2> QED BY <1>2, <1>3, <1>10, <2>1, AbreastStays
<1> QED BY <1>6, <1>7, <1>8, <1>9, <1>10 DEF Continues

\* The one connection of p, which has been there for the whole flight.
Single(p, H) ==
    /\ Straight(proc[p])
    /\ proc[p].pc \in {"winsock", "connect"} /\ ~proc[p].reconnecting =>
          \A c \in Conns : user[c] # p
    /\ \A c, d \in Conns : user[c] = p /\ user[d] = p => c = d
    /\ \A c \in Conns : user[c] = p =>
          H[c].from = 0 /\ H[c].upto <= Len(Sends(proc[p].log)) + 1
    /\ \A c \in Conns : proc[p].sock = c /\ proc[p].pc # "crashed" => Abreast(proc[p], H[c])

\* A step of p that opens no connection.
LEMMA SingleKept ==
    ASSUME OtherWsaRefs = 0, SystemInv, RecordsInv, NEW H \in [Conns -> Past], NEW p \in Clients,
           ClientMoves(p), Single(p, H), NEW G \in [Conns -> Past],
           \A d \in Conns : user'[d] = user[d],
           \A d \in Conns : user[d] = p => G[d] = H[d] \/ (proc'[p].sock = d /\ Abreast(proc'[p], G[d])),
           \A d \in Conns : proc'[p].sock = d /\ proc'[p].pc # "crashed" => Abreast(proc'[p], G[d])
    PROVE  Single(p, G)'
<1> DEFINE r == proc[p]
           s == proc'[p]
           n == Len(Sends(r.log))
           m == Len(Sends(s.log))
<1>1. ClientInv /\ Recorded(r) /\ (ClientStep(p) \/ ClientCrash(p))
  BY DEF SystemInv, RecordsInv, ClientMoves
<1>2. Straight(s) BY <1>1, StraightStep DEF Single
<1>3. s.pc \in {"winsock", "connect"} /\ ~s.reconnecting => \A c \in Conns : user'[c] # p
  BY <1>1, PlacesAhead DEF Single
<1>4. n \in Nat /\ m \in Nat /\ m >= n BY <1>1, SendsGrow
<1> HIDE DEF n, m
<1>5. ASSUME NEW c \in Conns, user'[c] = p PROVE G[c].from = 0 /\ G[c].upto <= m + 1
  <2>1. CASE G[c] = H[c]
    <3>1. H[c].from = 0 /\ H[c].upto <= n + 1 /\ H[c].upto \in Nat
      BY <1>5, PastParts DEF Single, n
    <3> QED BY <1>4, <2>1, <3>1
  <2>2. CASE s.sock = c /\ Abreast(s, G[c])
    <3>1. s.iter = m BY <1>2, <2>2 DEF Straight, AllNoted, m
    <3> QED BY <1>4, <2>2, <3>1 DEF Abreast
  <2> QED BY <1>5, <2>1, <2>2
<1>6. \A c, d \in Conns : user'[c] = p /\ user'[d] = p => c = d BY DEF Single
<1> QED BY <1>2, <1>3, <1>5, <1>6 DEF Single, m

\* The step that opens one.
LEMMA SingleOpened ==
    ASSUME OtherWsaRefs = 0, SystemInv, RecordsInv, NEW H \in [Conns -> Past], NEW p \in Clients,
           ClientMoves(p), Single(p, H), NEW c \in Conns, ConnectSucceeds(p), Connects(p, c),
           NEW h, h = Fresh(proc[p])
    PROVE  Single(p, [H EXCEPT ![c] = h])'
<1> DEFINE r == proc[p]
           s == proc'[p]
<1>1. /\ ClientInv /\ Recorded(r) /\ (ClientStep(p) \/ ClientCrash(p)) /\ r \in Process
      /\ \A d \in Conns : user'[d] = IF s.sock = d THEN p ELSE user[d]
  BY ClientLeaves DEF SystemInv, RecordsInv, ClientMoves, ClientInv, ClientTypeOK
<1>2. Straight(s) BY <1>1, StraightStep DEF Single
<1>3. /\ r.pc = "connect" /\ r.wsa > 0 /\ r.wsa \in Nat /\ s.sock = c /\ s.iter = r.iter
      /\ s.pc \in {"auth_send", "log_connect"}
  BY <1>1 DEF Connects, Trying, MainAt, Process
<1>4. ~r.reconnecting /\ r.iter = 0 /\ \A d \in Conns : user[d] # p
  BY <1>3 DEF Single, Straight, OneConnection
<1>5. \A d \in Conns : user'[d] = p => d = c BY <1>1, <1>3, <1>4
<1>6. h.pend = AuthRequest(TOKEN) /\ h.sent = <<AuthRequest(TOKEN)>> /\ h.read = <<>>
      /\ h.from = 0 /\ h.upto = 0
  BY <1>4 DEF Fresh
<1>7. RequestsOf(HandedOver(h.pend, h.sent)) = 0
  <2>1. h.pend # <<>> BY <1>6 DEF AuthRequest
  <2>2. SubSeq(h.sent, 1, Len(h.sent) - 1) = <<>> BY <1>6
  <2>3. HandedOver(h.pend, h.sent) = <<>> BY <2>1, <2>2 DEF HandedOver
  <2> QED BY <2>3, OfNothing
<1>8. Abreast(s, h)
  BY <1>3, <1>4, <1>6, <1>7 DEF Abreast, Midway, Responding
<1>9. Len(Sends(s.log)) \in Nat BY <1>1, SendsGrow
<1>10. [H EXCEPT ![c] = h][c] = h OBVIOUS
<1> DEFINE G == [H EXCEPT ![c] = h]
<1> HIDE DEF G
<1>11. G[c] = h BY <1>10 DEF G
<1>12. Single(p, G)' BY <1>2, <1>3, <1>5, <1>6, <1>8, <1>9, <1>11 DEF Single
<1> QED BY <1>12 DEF G

LEMMA SingleStep ==
    ASSUME OtherWsaRefs = 0, SystemInv, SystemInv', RecordsInv, NEW H, Sessions(H),
           NEW p \in Clients, ClientMoves(p), Single(p, H), NEW G, Evolves(p, H, G)
    PROVE  Single(p, G)'
<1> DEFINE r == proc[p]
           s == proc'[p]
<1>1. /\ H \in [Conns -> Past] /\ ClientInv /\ Recorded(r) /\ r \in Process
      /\ ClientStep(p) \/ ClientCrash(p)
      /\ \A d \in Conns : user'[d] = IF s.sock = d THEN p ELSE user[d]
      /\ \A d \in Conns : r.sock = d => user[d] = p
      /\ \A t : Becomes(p, t) => s = t
  BY ClientLeaves
  DEF Sessions, InOrderOn, SystemInv, RecordsInv, ClientMoves, ClientInv, ClientTypeOK, Becomes
<1>2. ~ClientEnded(p) BY <1>1, PlacesBehind DEF ClientEnded, ClientCrash
<1>3. ASSUME NEW c \in Conns, NEW h, r.sock = c, ClientStep(p), Conveys(p),
             ContinuedAs(p, c, H[c], h), G = [H EXCEPT ![c] = h]
      PROVE  Single(p, G)'
  <2>1. s.sock = c
    BY <1>3 DEF Conveys, Fails, Proceeds, Hears, Hands, Begins, Notes, StaysPut
  <2>2. OnLink(p, c, H[c]) BY <1>2, <1>3, OwnLink
  <2>3. Abreast(r, H[c]) BY <1>2, <1>3 DEF Single, ClientEnded
  <2>4. Abreast(s, h) BY <1>1, <1>3, <2>2, <2>3, AbreastConveys DEF Single, ContinuedAs
  <2>5. \A d \in Conns : user'[d] = user[d] BY <1>1, <1>3, <2>1
  <2>6. G \in [Conns -> Past] /\ G[c] = h /\ \A d \in Conns \ {c} : G[d] = H[d]
    BY <1>1, <1>3 DEF ContinuedAs
  <2> QED BY <1>1, <2>1, <2>4, <2>5, <2>6, SingleKept
<1>4. ASSUME NEW c \in Conns, ConnectSucceeds(p), Connects(p, c), G = [H EXCEPT ![c] = Fresh(r)]
      PROVE  Single(p, G)'
  <2>1. PICK h : h = Fresh(r) OBVIOUS
  <2>2. Single(p, [H EXCEPT ![c] = h])' BY <1>1, <1>4, <2>1, SingleOpened
  <2> QED BY <1>4, <2>1, <2>2
<1>5. ASSUME GivesUp(p) \/ Idles(p), G = H PROVE Single(p, G)'
  <2>1. s.sock \notin Conns BY <1>5 DEF GivesUp, Idles
  <2>2. \A d \in Conns : user'[d] = user[d] BY <1>1, <2>1
  <2> QED BY <1>1, <1>5, <2>1, <2>2, SingleKept
<1>6. ASSUME ClientCrash(p), G = H PROVE Single(p, G)'
  <2>1. s.pc = "crashed" /\ s.sock = r.sock BY <1>1, <1>6 DEF ClientCrash, Process
  <2>2. \A d \in Conns : user'[d] = user[d] BY <1>1, <2>1
  <2> QED BY <1>1, <1>6, <2>1, <2>2, SingleKept
<1> QED BY <1>3, <1>4, <1>5, <1>6 DEF Evolves

\* A step of another client.
LEMMA SingleElsewhere ==
    ASSUME SystemInv, RecordsInv, NEW H, Sessions(H), NEW p \in Clients, ClientMoves(p),
           NEW G, Evolves(p, H, G), NEW q \in Clients \ {p}, Single(q, H)
    PROVE  Single(q, G)'
<1> DEFINE s == proc'[p]
<1>1. /\ H \in [Conns -> Past] /\ proc'[q] = proc[q] /\ proc[p] \in Process
      /\ \A d \in Conns : user'[d] = IF s.sock = d THEN p ELSE user[d]
      /\ \A d \in Conns : proc[p].sock = d => user[d] = p
      /\ \A d \in Conns : proc[q].sock = d => user[d] = q
      /\ \A d \in Conns : user[d] \in Clients => conn[d].link # "none"
      /\ \A t : Becomes(p, t) => s = t
  BY ClientLeaves
  DEF Sessions, InOrderOn, SystemInv, ClientInv, ClientTypeOK, Becomes
<1>2. /\ \A d \in Conns : user'[d] = q <=> user[d] = q
      /\ \A d \in Conns : user[d] = q => G[d] = H[d]
  <2>1. ASSUME NEW c \in Conns, NEW h, proc[p].sock = c, Conveys(p), G = [H EXCEPT ![c] = h]
        PROVE  /\ \A d \in Conns : user'[d] = q <=> user[d] = q
               /\ \A d \in Conns : user[d] = q => G[d] = H[d]
    <3>1. s.sock = c
      BY <2>1 DEF Conveys, Fails, Proceeds, Hears, Hands, Begins, Notes, StaysPut
    <3> QED BY <1>1, <2>1, <3>1
  <2>2. ASSUME NEW c \in Conns, Connects(p, c), NEW h, G = [H EXCEPT ![c] = h]
        PROVE  /\ \A d \in Conns : user'[d] = q <=> user[d] = q
               /\ \A d \in Conns : user[d] = q => G[d] = H[d]
    <3>1. s.sock = c BY <1>1, <2>2 DEF Connects, Process
    <3>2. user[c] # q /\ user[c] # p BY <1>1, <2>2 DEF Connects, ClientConnects
    <3> QED BY <1>1, <2>2, <3>1, <3>2
  <2>3. ASSUME GivesUp(p) \/ Idles(p), G = H PROVE \A d \in Conns : user'[d] = q <=> user[d] = q
    BY <1>1, <2>3 DEF GivesUp, Idles
  <2>4. ASSUME ClientCrash(p), G = H PROVE \A d \in Conns : user'[d] = q <=> user[d] = q
    <3>1. s.sock = proc[p].sock BY <1>1, <2>4 DEF ClientCrash, Process
    <3> QED BY <1>1, <3>1
  <2> QED BY <2>1, <2>2, <2>3, <2>4 DEF Evolves
<1> QED BY <1>1, <1>2 DEF Single

-----------------------------------------------------------------------------
FlightInv == RecordsInv /\ \E H : Sessions(H) /\ \A p \in Clients : Single(p, H)

LEMMA FlightStep ==
    ASSUME OtherWsaRefs = 0, SystemInv, SystemInv', FlightInv, [Next]_vars
    PROVE  FlightInv'
<1>1. PICK H : Sessions(H) /\ \A p \in Clients : Single(p, H) BY DEF FlightInv
<1>2. ASSUME UNCHANGED <<proc, user>>, Sessions(H)' PROVE FlightInv'
  <2>1. \A p \in Clients : Single(p, H)' BY <1>1, <1>2 DEF Single
  <2>2. RecordsInv' BY <1>2 DEF FlightInv, RecordsInv
  <2> QED BY <1>2, <2>1, <2>2 DEF FlightInv
<1>3. CASE ServerMoves BY <1>1, <1>2, <1>3, ServerSessions DEF ServerMoves
<1>4. ASSUME NEW c \in Conns, LinkBreaks(c) PROVE FlightInv'
  BY <1>1, <1>2, <1>4, BreakSessions DEF LinkBreaks
<1>5. ASSUME NEW p \in Clients, ClientMoves(p) PROVE FlightInv'
  <2>1. RecordsInv /\ (ClientStep(p) \/ ClientCrash(p)) /\ ClientInv
    BY <1>5 DEF FlightInv, ClientMoves, SystemInv
  <2>2. RecordsInv' BY <2>1, RecordsStep
  <2>3. PICK G : Sessions(G)' /\ Evolves(p, H, G) BY <1>1, <1>5, <2>1, ClientSessions
  <2>4. Single(p, G)' BY <1>1, <1>5, <2>1, <2>3, SingleStep
  <2>5. ASSUME NEW q \in Clients \ {p} PROVE Single(q, G)'
    BY <1>1, <1>5, <2>1, <2>3, <2>5, SingleElsewhere
  <2>6. \A q \in Clients : Single(q, G)' BY <2>4, <2>5
  <2> QED BY <2>2, <2>3, <2>6 DEF FlightInv
<1>6. CASE UNCHANGED vars
  <2>1. UNCHANGED <<conn, thread, proc, user>> BY <1>6 DEF vars, netVars, serverVars
  <2>2. /\ \A c \in Conns : Carried(c, H[c])
        /\ \A c \in Conns : conn'[c] = conn[c] /\ thread'[c] = thread[c]
    BY <1>1, <2>1 DEF Sessions
  <2>3. \A c \in Conns : Carried(c, H[c])' BY <2>2, CarriedElsewhere
  <2>4. Sessions(H)' BY <1>1, <2>1, <2>2, <2>3, OthersStep
  <2> QED BY <1>2, <2>1, <2>4
<1> QED BY <1>3, <1>4, <1>5, <1>6 DEF Next, Quiescent

LEMMA FlightInitially == OtherWsaRefs = 0 /\ Init => FlightInv
<1> SUFFICES ASSUME OtherWsaRefs = 0, Init PROVE FlightInv OBVIOUS
<1>1. PICK H : H = [c \in Conns |-> Unused] OBVIOUS
<1>2. Sessions(H) /\ RecordsInv BY <1>1, SessionInitially DEF SessionInv
<1>3. ASSUME NEW p \in Clients PROVE Single(p, H)
  <2>1. Straight(proc[p]) BY StraightInitially DEF Init
  <2>2. proc[p].sock \notin Conns /\ \A c \in Conns : user[c] # p
    BY ClientAssumption, NobodyAssumption DEF Init, ClientInit, Nobody
  <2> QED BY <2>1, <2>2 DEF Single
<1> QED BY <1>2, <1>3 DEF FlightInv

\* The fuel levels of the flight.
LEMMA WholeFlight ==
    ASSUME NEW r \in Process, AllNoted(r), r.iter = NumPackets
    PROVE  LET sends == Sends(r.log)
           IN Window(0, NumPackets) = [i \in DOMAIN sends |-> sends[i][2]]
<1> DEFINE sends == Sends(r.log)
<1>1. sends \in Seq(ClientRow)
  <2>1. r.log \in Seq(ClientRow) BY DEF Process
  <2> QED BY <2>1, ClientRowTypes, OneMoreRow
<1>2. Len(sends) = NumPackets /\ \A i \in 1..NumPackets : sends[i][2] = FuelAt(i - 1)
  BY DEF AllNoted
<1> HIDE DEF sends
<1>3. DOMAIN sends = 1..NumPackets BY <1>1, <1>2
<1>4. Window(0, NumPackets) = [i \in 1..NumPackets |-> FuelAt(i - 1)]
  <2>1. NumPackets - 0 = NumPackets /\ \A i \in 1..NumPackets : 0 + i - 1 = i - 1
    BY ClientAssumption
  <2> QED BY <2>1 DEF Window
<1>5. [i \in 1..NumPackets |-> FuelAt(i - 1)] = [i \in 1..NumPackets |-> sends[i][2]] BY <1>2
<1> QED BY <1>3, <1>4, <1>5 DEF sends

\* Who has the dataset has been served everything.
LEMMA FlightServed ==
    ASSUME SystemInv, NEW H, Sessions(H), NEW p \in Clients, Single(p, H), proc[p].pc = "got_data"
    PROVE  /\ proc[p].sock \in Conns /\ user[proc[p].sock] = p
           /\ LoggedReadings(proc[p].sock) = Window(0, NumPackets)
           /\ AllNoted(proc[p]) /\ proc[p].iter = NumPackets
<1> DEFINE r == proc[p]
<1>1. r.sock \in Conns /\ AllNoted(r) /\ r.iter = NumPackets
  BY DEF Single, Straight, Responding
<1>2. PICK c \in Conns : r.sock = c BY <1>1
<1>3. PICK h : h = H[c] OBVIOUS
<1>4. /\ h \in Past /\ Carried(c, h) /\ user[c] = p /\ thread[c] \in Thread
      /\ conn[c].down \in Seq(Cell)
  BY <1>2, <1>3
  DEF Sessions, InOrderOn, SystemInv, ServerInv, ServerTypeOK, NetTypeOK, Connection
<1>5. Abreast(r, h) BY <1>2, <1>3 DEF Single
<1>6. /\ h.from = 0 /\ h.upto = NumPackets /\ Len(h.read) >= 3
      /\ h.pend = <<>> /\ h.sent # <<>> /\ RequestsOf(SubSeq(h.sent, 1, Len(h.sent) - 1)) = 0
  BY <1>1, <1>5, ClientAssumption DEF Abreast, Responding
<1>7. PICK w : w = h.read \o conn[c].down OBVIOUS
<1>8. Len(w) \in Nat /\ Len(w) >= 3
  <2>1. \A a, b \in Seq(Cell) : /\ Len(a) \in Nat /\ Len(b) \in Nat
                                /\ Len(a \o b) = Len(a) + Len(b)
    OBVIOUS
  <2>2. h.read \in Seq(Cell) BY <1>4, PastParts
  <2>3. /\ Len(h.read) \in Nat /\ Len(conn[c].down) \in Nat
        /\ Len(w) = Len(h.read) + Len(conn[c].down)
    BY <1>4, <1>7, <2>1, <2>2, Zenon
  <2>4. \A m, n \in Nat : m >= 3 => m + n \in Nat /\ m + n >= 3 OBVIOUS
  <2>5. Len(h.read) >= 3 BY <1>6
  <2> QED BY <2>3, <2>4, <2>5, Zenon
<1>9. /\ Track(thread[c], conn[c], <<>>, h.sent)
      /\ Replied(thread[c], conn[c], <<>>, h.sent, w)
      /\ ReadingsOf(h.sent) = Window(0, NumPackets)
  BY <1>4, <1>6, <1>7 DEF Carried, TrackAt, RepliedAt, HandedOver
<1>10. h.sent \in Seq(WholeFrames) BY <1>4, PastParts
<1>11. ReadingsIn(thread[c].log) = ReadingsOf(h.sent)
  BY <1>4, <1>6, <1>8, <1>9, <1>10, ServedAll
<1>12. LoggedReadings(c) = ReadingsIn(thread[c].log) BY DEF LoggedReadings, ReadingsIn
<1> QED BY <1>1, <1>2, <1>4, <1>9, <1>11, <1>12

\* In main_client.exe, where nothing else holds Winsock, the dataset tells the
\* aircraft that every packet it has recorded is in the server's log, in the
\* order of the flight: whatever fails, and however long the flight.
THEOREM DatasetAcknowledges ==
    ASSUME OtherWsaRefs = 0 PROVE Spec => []DatasetMeansLogged
<1>1. SystemInv /\ FlightInv => DatasetMeansLogged
  <2> SUFFICES ASSUME SystemInv, FlightInv, NEW p \in Clients, proc[p].pc = "got_data"
               PROVE  LET sends == SendRows(p)
                      IN LoggedReadings(proc[p].sock) = [i \in DOMAIN sends |-> sends[i][2]]
    BY DEF DatasetMeansLogged, MainAt
  <2>1. PICK H : Sessions(H) /\ Single(p, H) BY DEF FlightInv
  <2>2. /\ LoggedReadings(proc[p].sock) = Window(0, NumPackets)
        /\ AllNoted(proc[p]) /\ proc[p].iter = NumPackets
    BY <2>1, FlightServed
  <2>3. proc[p] \in Process BY DEF SystemInv, ClientInv, ClientTypeOK
  <2>4. SendRows(p) = Sends(proc[p].log) BY DEF SendRows, Sends, RowsOf, RowsIn
  <2> QED BY <2>2, <2>3, <2>4, WholeFlight
<1>2. Init => FlightInv BY FlightInitially
<1>3. SystemInv /\ SystemInv' /\ FlightInv /\ [Next]_vars => FlightInv'
  BY FlightStep
<1> QED BY <1>1, <1>2, <1>3, SystemInvariant, PTL DEF Spec

-----------------------------------------------------------------------------
(***************************************************************************)
(* The programs keep what Flight promises: of every step, Flight sees one  *)
(* aircraft record, confirm or end, its ground log one reading, or         *)
(* nothing at all.                                                         *)
(***************************************************************************)
\* Flight sees nothing of aircraft q in a step.
Unseen(q) ==
    /\ SendRows(q)' = SendRows(q)
    /\ LoggedOf(q)' = LoggedOf(q)
    /\ proc'[q].dataset = proc[q].dataset
    /\ ClientEnded(q)' = ClientEnded(q)

Levels == [i \in 1..NumPackets |-> FuelAt(i - 1)]

Recordings == [p \in Clients |-> Len(SendRows(p))]
Ground     == [p \in Clients |-> LoggedOf(p)]
Confirmed  == [p \in Clients |-> proc[p].dataset]
Over       == [p \in Clients |-> ClientEnded(p)]

LEMMA NothingSeen ==
    ASSUME \A q \in Clients : Unseen(q) PROVE UNCHANGED Flights!vars
<1>1. /\ \A q \in Clients : Len(SendRows(q))' = Len(SendRows(q))
      /\ \A q \in Clients : LoggedOf(q)' = LoggedOf(q)
      /\ \A q \in Clients : proc'[q].dataset = proc[q].dataset
      /\ \A q \in Clients : ClientEnded(q)' = ClientEnded(q)
  BY DEF Unseen
<1>2. Recordings' = Recordings BY <1>1 DEF Recordings
<1>3. Ground' = Ground BY <1>1 DEF Ground
<1>4. Confirmed' = Confirmed BY <1>1 DEF Confirmed
<1>5. Over' = Over BY <1>1 DEF Over
<1> QED BY <1>2, <1>3, <1>4, <1>5 DEF Flights!vars, Recordings, Ground, Confirmed, Over

\* One aircraft moves.
LEMMA RecordSeen ==
    ASSUME NEW p \in Clients, \A q \in Clients \ {p} : Unseen(q),
           ~ClientEnded(p), ~ClientEnded(p)', Len(SendRows(p)) < NumPackets,
           Len(SendRows(p))' = Len(SendRows(p)) + 1, LoggedOf(p)' = LoggedOf(p),
           proc'[p].dataset = proc[p].dataset
    PROVE  Flights!Next
<1>1. /\ Len(SendRows(p))' = Len(SendRows(p)) + 1
      /\ \A q \in Clients \ {p} : Len(SendRows(q))' = Len(SendRows(q))
      /\ \A q \in Clients : LoggedOf(q)' = LoggedOf(q)
      /\ \A q \in Clients : proc'[q].dataset = proc[q].dataset
      /\ \A q \in Clients : ClientEnded(q)' = ClientEnded(q)
  BY DEF Unseen, ClientEnded
<1>2. Recordings' = [Recordings EXCEPT ![p] = @ + 1] BY <1>1 DEF Recordings
<1>3. Ground' = Ground BY <1>1 DEF Ground
<1>4. Confirmed' = Confirmed BY <1>1 DEF Confirmed
<1>5. Over' = Over BY <1>1 DEF Over
<1>6. Len(Levels) = NumPackets BY ClientAssumption DEF Levels
<1>7. Flights!Record(p)
  BY <1>2, <1>3, <1>4, <1>5, <1>6
  DEF Flights!Record, Recordings, Ground, Confirmed, Over, Levels
<1> QED BY <1>7 DEF Flights!Next

LEMMA LogSeen ==
    ASSUME NEW p \in Clients, \A q \in Clients \ {p} : Unseen(q),
           SendRows(p)' = SendRows(p), proc'[p].dataset = proc[p].dataset,
           ClientEnded(p)' = ClientEnded(p),
           Len(LoggedOf(p)) <= Len(SendRows(p)), Len(LoggedOf(p)) < NumPackets,
           LoggedOf(p)' = Append(LoggedOf(p), Levels[Len(LoggedOf(p)) + 1])
    PROVE  Flights!Next
<1>1. /\ \A q \in Clients : Len(SendRows(q))' = Len(SendRows(q))
      /\ \A q \in Clients : LoggedOf(q)' = IF q = p THEN Append(LoggedOf(p), Levels[Len(LoggedOf(p)) + 1]) ELSE LoggedOf(q)
      /\ \A q \in Clients : proc'[q].dataset = proc[q].dataset
      /\ \A q \in Clients : ClientEnded(q)' = ClientEnded(q)
  BY Zenon DEF Unseen
<1>2. Recordings' = Recordings BY <1>1 DEF Recordings
<1>3. Ground' = [Ground EXCEPT ![p] = Append(@, Levels[Len(@) + 1])] BY <1>1 DEF Ground
<1>4. Confirmed' = Confirmed BY <1>1 DEF Confirmed
<1>5. Over' = Over BY <1>1 DEF Over
<1>6. Len(Levels) = NumPackets BY ClientAssumption DEF Levels
<1>7. Flights!Log(p)
  BY <1>2, <1>3, <1>4, <1>5, <1>6
  DEF Flights!Log, Recordings, Ground, Confirmed, Over, Levels
<1> QED BY <1>7 DEF Flights!Next

LEMMA ConfirmSeen ==
    ASSUME NEW p \in Clients, \A q \in Clients \ {p} : Unseen(q),
           ~ClientEnded(p), ~ClientEnded(p)', SendRows(p)' = SendRows(p),
           LoggedOf(p)' = LoggedOf(p), ~proc[p].dataset, proc'[p].dataset = TRUE,
           Len(SendRows(p)) = NumPackets, LoggedOf(p) = Levels
    PROVE  Flights!Next
<1>1. /\ \A q \in Clients : Len(SendRows(q))' = Len(SendRows(q))
      /\ \A q \in Clients : LoggedOf(q)' = LoggedOf(q)
      /\ proc'[p].dataset = TRUE
      /\ \A q \in Clients \ {p} : proc'[q].dataset = proc[q].dataset
      /\ \A q \in Clients : ClientEnded(q)' = ClientEnded(q)
  BY DEF Unseen, ClientEnded
<1>2. Recordings' = Recordings BY <1>1 DEF Recordings
<1>3. Ground' = Ground BY <1>1 DEF Ground
<1>4. Confirmed' = [Confirmed EXCEPT ![p] = TRUE] BY <1>1 DEF Confirmed
<1>5. Over' = Over BY <1>1 DEF Over
<1>6. Len(Levels) = NumPackets BY ClientAssumption DEF Levels
<1>7. Flights!Confirm(p)
  BY <1>2, <1>3, <1>4, <1>5, <1>6
  DEF Flights!Confirm, Recordings, Ground, Confirmed, Over, Levels
<1> QED BY <1>7 DEF Flights!Next

LEMMA EndSeen ==
    ASSUME NEW p \in Clients, \A q \in Clients \ {p} : Unseen(q),
           ~ClientEnded(p), ClientEnded(p)', SendRows(p)' = SendRows(p),
           LoggedOf(p)' = LoggedOf(p), proc'[p].dataset = proc[p].dataset
    PROVE  Flights!Next
<1>1. /\ \A q \in Clients : Len(SendRows(q))' = Len(SendRows(q))
      /\ \A q \in Clients : LoggedOf(q)' = LoggedOf(q)
      /\ \A q \in Clients : proc'[q].dataset = proc[q].dataset
      /\ \A q \in Clients : ClientEnded(q)' = IF q = p THEN TRUE ELSE ClientEnded(q)
  BY DEF Unseen, ClientEnded
<1>2. Recordings' = Recordings BY <1>1 DEF Recordings
<1>3. Ground' = Ground BY <1>1 DEF Ground
<1>4. Confirmed' = Confirmed BY <1>1 DEF Confirmed
<1>5. Over' = [Over EXCEPT ![p] = TRUE] BY <1>1 DEF Over
<1>7. Flights!End(p)
  BY <1>2, <1>3, <1>4, <1>5
  DEF Flights!End, Recordings, Ground, Confirmed, Over
<1> QED BY <1>7 DEF Flights!Next

-----------------------------------------------------------------------------
\* The rows of a client, and what its handlers have logged.
LEMMA SendRowsAre ==
    ASSUME NEW p \in Clients
    PROVE  SendRows(p) = Sends(proc[p].log) /\ SendRows(p)' = Sends(proc'[p].log)
BY DEF SendRows, Sends, RowsOf, RowsIn

LEMMA LoggedIs ==
    ASSUME NEW c \in Conns
    PROVE  /\ LoggedReadings(c) = ReadingsIn(thread[c].log)
           /\ LoggedReadings(c)' = ReadingsIn(thread'[c].log)
BY DEF LoggedReadings, ReadingsIn

LEMMA LoggedAlone ==
    ASSUME NEW p \in Clients
    PROVE  /\ \A c \in Conns : user[c] = p /\ (\A d \in Conns : user[d] = p => d = c) =>
                 LoggedOf(p) = LoggedReadings(c)
           /\ (\A d \in Conns : user[d] # p) => LoggedOf(p) = <<>>
<1>1. ASSUME NEW c \in Conns, user[c] = p, \A d \in Conns : user[d] = p => d = c
      PROVE  LoggedOf(p) = LoggedReadings(c)
  <2>1. {d \in Conns : user[d] = p} = {c} BY <1>1
  <2>2. (CHOOSE d \in {c} : TRUE) = c OBVIOUS
  <2> QED BY <2>1, <2>2 DEF LoggedOf
<1>2. ASSUME \A d \in Conns : user[d] # p PROVE LoggedOf(p) = <<>>
  <2>1. {d \in Conns : user[d] = p} = {} BY <1>2
  <2> QED BY <2>1 DEF LoggedOf
<1> QED BY <1>1, <1>2

LEMMA LoggedAloneNext ==
    ASSUME NEW p \in Clients
    PROVE  /\ \A c \in Conns : user'[c] = p /\ (\A d \in Conns : user'[d] = p => d = c) =>
                 LoggedOf(p)' = LoggedReadings(c)'
           /\ (\A d \in Conns : user'[d] # p) => LoggedOf(p)' = <<>>
<1>1. ASSUME NEW c \in Conns, user'[c] = p, \A d \in Conns : user'[d] = p => d = c
      PROVE  LoggedOf(p)' = LoggedReadings(c)'
  <2>1. {d \in Conns : user'[d] = p} = {c} BY <1>1
  <2>2. (CHOOSE d \in {c} : TRUE) = c OBVIOUS
  <2>3. (CHOOSE d \in {e \in Conns : user'[e] = p} : TRUE) = c BY <2>1, <2>2
  <2> QED BY <2>1, <2>3 DEF LoggedOf, LoggedReadings
<1>2. ASSUME \A d \in Conns : user'[d] # p PROVE LoggedOf(p)' = <<>>
  <2>1. {d \in Conns : user'[d] = p} = {} BY <1>2
  <2> QED BY <2>1 DEF LoggedOf
<1> QED BY <1>1, <1>2

LEMMA LoggedStays ==
    ASSUME NEW p \in Clients, NEW H, Single(p, H),
           \A d \in Conns : user'[d] = p <=> user[d] = p,
           \A d \in Conns : user[d] = p => LoggedReadings(d)' = LoggedReadings(d)
    PROVE  LoggedOf(p)' = LoggedOf(p)
<1>1. \A c, d \in Conns : user[c] = p /\ user[d] = p => c = d BY DEF Single
<1>2. CASE \A d \in Conns : user[d] # p BY <1>2, LoggedAlone, LoggedAloneNext
<1>3. ASSUME NEW c \in Conns, user[c] = p PROVE LoggedOf(p)' = LoggedOf(p)
  <2>1. LoggedOf(p) = LoggedReadings(c) BY <1>1, <1>3, LoggedAlone
  <2>2. LoggedOf(p)' = LoggedReadings(c)' BY <1>1, <1>3, LoggedAloneNext
  <2> QED BY <1>3, <2>1, <2>2
<1> QED BY <1>2, <1>3

\* One reading more in the log is the next one of the flight.
LEMMA NextLogged ==
    ASSUME NEW t \in Thread, NEW u \in Thread, NEW r, NEW h \in Past, h.from = 0,
           Track(u, r, h.pend, h.sent),
           ReadingsOf(HandedOver(h.pend, h.sent)) = Window(0, h.upto),
           NEW x, ReadingsIn(u.log) = Append(ReadingsIn(t.log), x)
    PROVE  /\ Len(ReadingsIn(t.log)) \in Nat /\ Len(ReadingsIn(t.log)) < h.upto
           /\ ReadingsIn(u.log) = Append(ReadingsIn(t.log), Levels[Len(ReadingsIn(t.log)) + 1])
<1> DEFINE v == ReadingsIn(t.log)
           w == ReadingsIn(u.log)
           n == Len(v)
<1>1. /\ h.sent \in Seq(WholeFrames) /\ h.upto \in 0..NumPackets /\ h.upto \in Nat
      /\ NumPackets \in Nat
  BY PastParts, ClientAssumption
<1>2. Prefix(w, Window(0, h.upto)) BY <1>1, TrackedLog
<1>3. Len(Window(0, h.upto)) = h.upto
      /\ \A i \in 1..h.upto : Window(0, h.upto)[i] = FuelAt(i - 1)
  <2>1. h.upto - 0 = h.upto /\ \A i \in 1..h.upto : 0 + i - 1 = i - 1 BY <1>1
  <2>2. Window(0, h.upto) = [i \in 1..h.upto |-> FuelAt(i - 1)] BY <2>1 DEF Window
  <2> QED BY <1>1, <2>2
<1>4. PICK T : v \in Seq(T) BY LoggedIsSequence
<1>5. w = Append(v, x) OBVIOUS
<1> HIDE DEF v, w
<1>6. n \in Nat /\ Len(w) = n + 1 /\ w[n + 1] = x
  <2>1. v \in Seq(T \cup {x}) BY <1>4, SeqDef, LenProperties
  <2> QED BY <1>5, <2>1, AppendProperties
<1> HIDE DEF n
<1>7. n + 1 <= h.upto /\ w[n + 1] = FuelAt(n)
  <2>1. n + 1 <= h.upto BY <1>2, <1>3, <1>6 DEF Prefix
  <2>2. n + 1 \in 1..(n + 1) /\ n + 1 \in 1..h.upto /\ (n + 1) - 1 = n BY <1>1, <1>6, <2>1
  <2>3. w[n + 1] = Window(0, h.upto)[n + 1] BY <1>2, <1>6, <2>2 DEF Prefix
  <2> QED BY <1>3, <2>1, <2>2, <2>3
<1>8. Levels[n + 1] = FuelAt(n)
  <2>1. n + 1 \in 1..NumPackets /\ (n + 1) - 1 = n BY <1>1, <1>6, <1>7
  <2> QED BY <2>1 DEF Levels
<1>9. n < h.upto BY <1>1, <1>6, <1>7
<1>10. w = Append(v, Levels[n + 1]) BY <1>5, <1>6, <1>7, <1>8
<1> QED BY <1>6, <1>9, <1>10 DEF v, w, n

\* What Flight sees of the server: a reading logged.
LEMMA ServerSeen ==
    ASSUME SystemInv, SystemInv', NEW H, Sessions(H), \A p \in Clients : Single(p, H), ServerMoves
    PROVE  Flights!Next \/ UNCHANGED Flights!vars
<1>1. /\ UNCHANGED <<proc, user>> /\ ServerInv /\ mpc' # "terminated"
      /\ H \in [Conns -> Past] /\ \A c \in Conns : Carried(c, H[c])'
      /\ thread \in [Conns -> Thread] /\ conn \in [Conns -> Connection]
      /\ thread' \in [Conns -> Thread]
  BY ServerSessions
  DEF ServerMoves, Sessions, SystemInv, ServerInv, ServerTypeOK, NetTypeOK, NoInvalidTransition
<1>2. ASSUME NEW p \in Clients
      PROVE  /\ SendRows(p)' = SendRows(p) /\ proc'[p].dataset = proc[p].dataset
             /\ ClientEnded(p)' = ClientEnded(p)
  BY <1>1, SendRowsAre DEF ClientEnded
<1>3. ASSUME NEW p \in Clients,
             \A d \in Conns : user[d] = p => ReadingsIn(thread'[d].log) = ReadingsIn(thread[d].log)
      PROVE  Unseen(p)
  <2>1. \A d \in Conns : user[d] = p => LoggedReadings(d)' = LoggedReadings(d)
    BY <1>3, LoggedIs
  <2>2. LoggedOf(p)' = LoggedOf(p) BY <1>1, <2>1, LoggedStays
  <2> QED BY <1>2, <2>2 DEF Unseen
<1>4. ASSUME \A d \in Conns : thread'[d].log = thread[d].log PROVE UNCHANGED Flights!vars
  <2>1. \A p \in Clients : Unseen(p) BY <1>3, <1>4
  <2> QED BY <2>1, NothingSeen
<1>5. CASE MainThread
  <2>1. UNCHANGED thread \/ \E c \in Conns : thread' = [thread EXCEPT ![c].pc = "spawned"]
    BY <1>5
    DEF MainThread, InitializeWinsock, StartServer, Accept, AcceptFails, Cleanup, Return
  <2>2. ASSUME NEW c \in Conns, thread' = [thread EXCEPT ![c].pc = "spawned"], NEW d \in Conns
        PROVE  thread'[d].log = thread[d].log
    <3>1. thread[c] \in Thread BY <1>1
    <3>2. [thread[c] EXCEPT !.pc = "spawned"].log = thread[c].log BY <3>1 DEF Thread
    <3>3. thread'[d] = IF d = c THEN [thread[c] EXCEPT !.pc = "spawned"] ELSE thread[d]
      BY <1>1, <2>2
    <3> QED BY <3>2, <3>3
  <2>3. \A d \in Conns : thread'[d].log = thread[d].log BY <2>1, <2>2
  <2> QED BY <1>4, <2>3
<1>6. ASSUME NEW c \in Conns, Handler(c) PROVE Flights!Next \/ UNCHANGED Flights!vars
  <2>1. \A d \in Conns \ {c} : thread'[d] = thread[d] BY <1>1, <1>6, HandlerLocal
  <2>2. \A p \in Clients : user[c] # p => Unseen(p)
    <3>1. SUFFICES ASSUME NEW p \in Clients, user[c] # p PROVE Unseen(p) OBVIOUS
    <3>2. \A d \in Conns : user[d] = p => thread'[d] = thread[d] BY <2>1, <3>1
    <3> QED BY <1>3, <3>2
  <2>3. CASE ReadingsIn(thread'[c].log) = ReadingsIn(thread[c].log)
    <3>1. \A d \in Conns : ReadingsIn(thread'[d].log) = ReadingsIn(thread[d].log)
      BY <2>1, <2>3
    <3>2. \A p \in Clients : Unseen(p) BY <1>3, <3>1
    <3> QED BY <3>2, NothingSeen
  <2>4. CASE user[c] \notin Clients
    <3>1. \A p \in Clients : Unseen(p) BY <2>2, <2>4
    <3> QED BY <3>1, NothingSeen
  <2>5. ASSUME NEW p \in Clients, user[c] = p,
               NEW x, ReadingsIn(thread'[c].log) = Append(ReadingsIn(thread[c].log), x)
        PROVE  Flights!Next
    <3>1. PICK h : h = H[c] OBVIOUS
    <3>2. /\ h \in Past /\ h.upto \in Nat /\ h.upto <= NumPackets /\ h.from = 0
          /\ h.upto <= Len(Sends(proc[p].log)) + 1
          /\ \A d \in Conns : user[d] = p => d = c
      <4>1. h \in Past BY <1>1, <3>1
      <4> QED BY <2>5, <3>1, <4>1, PastParts, ClientAssumption DEF Single
    <3>3. /\ Track(thread'[c], conn'[c], h.pend, h.sent)
          /\ ReadingsOf(HandedOver(h.pend, h.sent)) = Window(0, h.upto)
      BY <1>1, <3>1, <3>2 DEF Carried, TrackAt
    <3>4. PICK v : v = ReadingsIn(thread[c].log) OBVIOUS
    <3>5. /\ Len(v) \in Nat /\ Len(v) < h.upto
          /\ ReadingsIn(thread'[c].log) = Append(v, Levels[Len(v) + 1])
      <4>1. thread[c] \in Thread /\ thread'[c] \in Thread BY <1>1
      <4> QED BY <2>5, <3>2, <3>3, <3>4, <4>1, NextLogged
    <3>6. LoggedOf(p) = v BY <2>5, <3>2, <3>4, LoggedAlone, LoggedIs
    <3>7. LoggedOf(p)' = Append(v, Levels[Len(v) + 1])
      <4>1. user'[c] = p /\ \A d \in Conns : user'[d] = p => d = c BY <1>1, <2>5, <3>2
      <4>2. LoggedOf(p)' = LoggedReadings(c)' BY <4>1, LoggedAloneNext
      <4> QED BY <3>5, <4>2, LoggedIs
    <3>8. Len(v) <= Len(SendRows(p)) /\ Len(v) < NumPackets
      <4>1. Len(Sends(proc[p].log)) \in Nat
        <5>1. proc[p].log \in Seq(ClientRow)
          BY DEF SystemInv, ClientInv, ClientTypeOK, Process
        <5>2. Sends(proc[p].log) \in Seq(ClientRow) BY <5>1, ClientRowTypes, OneMoreRow
        <5> QED BY <5>2
      <4>2. SendRows(p) = Sends(proc[p].log) BY SendRowsAre
      <4> QED BY <3>2, <3>5, <4>1, <4>2, ClientAssumption
    <3>9. \A q \in Clients \ {p} : Unseen(q) BY <2>2, <2>5
    <3> QED BY <1>2, <3>6, <3>7, <3>8, <3>9, LogSeen
  <2> QED BY <1>1, <1>6, <2>3, <2>4, <2>5, OneReadingAtMost
<1> QED BY <1>5, <1>6 DEF ServerMoves, ServerNext

\* Nothing has been logged on a connection nobody has opened.
LEMMA NothingLogged ==
    ASSUME NEW c \in Conns, NEW h \in Past, Carried(c, h), conn[c].link = "none",
           thread[c] \in Thread
    PROVE  LoggedReadings(c) = <<>>
<1>1. h.sent \in Seq(WholeFrames) /\ Track(thread[c], conn[c], h.pend, h.sent)
  BY PastParts DEF Carried, TrackAt
<1>2. h.sent = <<>> /\ h.pend = <<>> BY <1>1 DEF Track, Tracked
<1>3. ReadingsOf(HandedOver(h.pend, h.sent)) = <<>> BY <1>2, OfNothing DEF HandedOver
<1>4. PICK w : w = ReadingsIn(thread[c].log) OBVIOUS
<1>5. Prefix(w, <<>>) BY <1>1, <1>3, <1>4, TrackedLog
<1>6. PICK T : w \in Seq(T) BY <1>4, LoggedIsSequence
<1>7. Len(w) = 0
  <2>1. Len(<<>>) = 0 /\ Len(w) \in Nat BY <1>6
  <2> QED BY <1>5, <2>1 DEF Prefix
<1>8. w = <<>> BY <1>6, <1>7, EmptySeq
<1> QED BY <1>4, <1>8, LoggedIs

\* A step of a client leaves what each has in the log of the ground.
LEMMA GroundKept ==
    ASSUME SystemInv, NEW H, Sessions(H), \A q \in Clients : Single(q, H), NEW p \in Clients,
           ClientMoves(p), NEW G, Evolves(p, H, G)
    PROVE  \A q \in Clients : LoggedOf(q)' = LoggedOf(q)
<1> DEFINE s == proc'[p]
<1>1. /\ H \in [Conns -> Past] /\ proc[p] \in Process /\ UNCHANGED thread
      /\ \A d \in Conns : user'[d] = IF s.sock = d THEN p ELSE user[d]
      /\ \A d \in Conns : proc[p].sock = d => user[d] = p
      /\ \A d \in Conns : user[d] \in Clients => conn[d].link # "none"
      /\ \A d \in Conns : Carried(d, H[d]) /\ thread[d] \in Thread
      /\ \A t : Becomes(p, t) => s = t
  <2>1. UNCHANGED thread /\ \A d \in Conns : user'[d] = IF s.sock = d THEN p ELSE user[d]
    BY DEF ClientMoves, serverVars
  <2>2. /\ proc[p] \in Process /\ \A d \in Conns : thread[d] \in Thread
        /\ \A t : Becomes(p, t) => s = t
    BY DEF SystemInv, ClientInv, ClientTypeOK, ServerInv, ServerTypeOK, Becomes
  <2> QED BY <2>1, <2>2 DEF Sessions, InOrderOn
<1>2. \A d \in Conns : LoggedReadings(d)' = LoggedReadings(d) BY <1>1, LoggedIs
<1>3. ASSUME NEW q \in Clients, \A d \in Conns : user'[d] = q <=> user[d] = q
      PROVE  LoggedOf(q)' = LoggedOf(q)
  BY <1>2, <1>3, LoggedStays
<1>4. ASSUME \A d \in Conns : s.sock = d => user[d] = p
      PROVE  \A q \in Clients : LoggedOf(q)' = LoggedOf(q)
  BY <1>1, <1>3, <1>4
<1>5. ASSUME NEW c \in Conns, Connects(p, c)
      PROVE  \A q \in Clients : LoggedOf(q)' = LoggedOf(q)
  <2>1. s.sock = c /\ conn[c].link = "none" /\ user[c] \notin Clients
    BY <1>1, <1>5 DEF Connects, ClientConnects, Process
  <2>2. ASSUME NEW q \in Clients \ {p} PROVE LoggedOf(q)' = LoggedOf(q)
    BY <1>1, <1>3, <2>1, <2>2
  <2>3. \A d \in Conns : user[d] # p
    <3>1. proc[p].pc = "connect" /\ proc[p].wsa > 0 /\ proc[p].wsa \in Nat
      BY <1>1, <1>5 DEF Connects, Trying, MainAt, Process
    <3>2. ~proc[p].reconnecting BY <3>1 DEF Single, Straight, OneConnection
    <3> QED BY <3>1, <3>2 DEF Single
  <2>4. LoggedOf(p) = <<>> BY <2>3, LoggedAlone
  <2>5. user'[c] = p /\ \A d \in Conns : user'[d] = p => d = c BY <1>1, <2>1, <2>3
  <2>6. LoggedOf(p)' = LoggedReadings(c)' BY <2>5, LoggedAloneNext
  <2>7. LoggedReadings(c) = <<>> BY <1>1, <2>1, NothingLogged
  <2> QED BY <1>2, <2>2, <2>4, <2>6, <2>7
<1>6. CASE Conveys(p)
  <2>1. s.sock = proc[p].sock
    BY <1>6 DEF Conveys, Fails, Proceeds, Hears, Hands, Begins, Notes, StaysPut
  <2> QED BY <1>1, <1>4, <2>1
<1>7. CASE GivesUp(p) \/ Idles(p)
  BY <1>4, <1>7 DEF GivesUp, Idles
<1>8. CASE ClientCrash(p)
  <2>1. s.sock = proc[p].sock BY <1>1, <1>8 DEF ClientCrash, Process
  <2> QED BY <1>1, <1>4, <2>1
<1> QED BY <1>5, <1>6, <1>7, <1>8 DEF Evolves

\* What Flight sees of a client: a reading noted, the dataset taken, the end.
LEMMA ClientSeen ==
    ASSUME OtherWsaRefs = 0, SystemInv, SystemInv', RecordsInv, NEW H, Sessions(H),
           \A q \in Clients : Single(q, H), NEW p \in Clients, ClientMoves(p)
    PROVE  Flights!Next \/ UNCHANGED Flights!vars
<1> DEFINE r == proc[p]
           s == proc'[p]
<1>1. /\ ClientInv /\ Recorded(r) /\ r \in Process /\ s \in Process
      /\ ClientStep(p) \/ ClientCrash(p)
      /\ \A q \in Clients \ {p} : proc'[q] = proc[q]
      /\ \A t : Becomes(p, t) => s = t
  BY ClientLeaves DEF SystemInv, RecordsInv, ClientMoves, ClientInv, ClientTypeOK, Becomes
<1>2. ~ClientEnded(p) BY <1>1, PlacesBehind DEF ClientEnded, ClientCrash
<1>3. \A q \in Clients : LoggedOf(q)' = LoggedOf(q)
  BY <1>1, ClientSessions, GroundKept
<1>4. \A q \in Clients \ {p} : Unseen(q)
  BY <1>1, <1>3, SendRowsAre DEF Unseen, ClientEnded
<1>5. SendRows(p) = Sends(r.log) /\ SendRows(p)' = Sends(s.log) BY SendRowsAre
<1>6. CASE RecordsSend(r, s)
  <2>1. s.pc = "packet" /\ r.iter < NumPackets BY <1>6 DEF RecordsSend
  <2>2. ~GotDataset(p) BY <1>1, <2>1 DEF GotDataset, Process
  <2>3. s.dataset = r.dataset BY <1>1, <2>2, DatasetSteps
  <2>4. Len(SendRows(p)) \in Nat /\ Len(SendRows(p))' = Len(SendRows(p)) + 1
    BY <1>1, <1>5, <1>6, SendNoted
  <2>5. Len(SendRows(p)) < NumPackets
    <3>1. Len(SendRows(p)) <= r.iter BY <1>1, <1>5 DEF Recorded
    <3>2. r.iter \in Nat /\ NumPackets \in Nat BY <1>1, ClientAssumption DEF Process
    <3> QED BY <2>1, <2>4, <3>1, <3>2
  <2>6. ~ClientEnded(p)' BY <2>1 DEF ClientEnded
  <2> QED BY <1>2, <1>3, <1>4, <2>3, <2>4, <2>5, <2>6, RecordSeen
<1>7. CASE Sends(s.log) = Sends(r.log) /\ GotDataset(p)
  <2>1. r.pc = "got_data" /\ s.pc = "bye" /\ s.dataset = TRUE
    BY <1>1, <1>7 DEF GotDataset, MainAt, Process
  <2>2. ~r.dataset BY <2>1 DEF Single, Straight
  <2>3. /\ r.sock \in Conns /\ user[r.sock] = p
        /\ LoggedReadings(r.sock) = Window(0, NumPackets)
        /\ AllNoted(r) /\ r.iter = NumPackets
    BY <2>1, FlightServed
  <2>4. Len(SendRows(p)) = NumPackets BY <1>5, <2>3 DEF AllNoted
  <2>5. LoggedOf(p) = Levels
    <3>1. LoggedOf(p) = LoggedReadings(r.sock)
      <4>1. \A d \in Conns : user[d] = p => d = r.sock BY <2>3 DEF Single
      <4> QED BY <2>3, <4>1, LoggedAlone
    <3>2. Window(0, NumPackets) = Levels
      <4>1. NumPackets - 0 = NumPackets /\ \A i \in 1..NumPackets : 0 + i - 1 = i - 1
        BY ClientAssumption
      <4> QED BY <4>1 DEF Window, Levels
    <3> QED BY <2>3, <3>1, <3>2
  <2>6. ~ClientEnded(p)' BY <2>1 DEF ClientEnded
  <2> QED BY <1>2, <1>3, <1>4, <1>5, <1>7, <2>1, <2>2, <2>4, <2>5, <2>6, ConfirmSeen
<1>8. CASE Sends(s.log) = Sends(r.log) /\ ~GotDataset(p)
  <2>1. s.dataset = r.dataset BY <1>1, <1>8, DatasetSteps
  <2>2. CASE ClientEnded(p)'
    BY <1>2, <1>3, <1>4, <1>5, <1>8, <2>1, <2>2, EndSeen
  <2>3. CASE ~ClientEnded(p)'
    <3>1. Unseen(p)
      <4>1. ClientEnded(p)' = ClientEnded(p) BY <1>2, <2>3 DEF ClientEnded
      <4> QED BY <1>3, <1>5, <1>8, <2>1, <4>1 DEF Unseen
    <3>2. \A q \in Clients : Unseen(q) BY <1>4, <3>1
    <3> QED BY <3>2, NothingSeen
  <2> QED BY <2>2, <2>3
<1> QED BY <1>1, <1>6, <1>7, <1>8, SendsGrow

LEMMA FlightsStep ==
    ASSUME OtherWsaRefs = 0, SystemInv, SystemInv', FlightInv, [Next]_vars
    PROVE  [Flights!Next]_Flights!vars
<1>1. PICK H : Sessions(H) /\ \A p \in Clients : Single(p, H) BY DEF FlightInv
<1>2. CASE ServerMoves BY <1>1, <1>2, ServerSeen
<1>3. ASSUME NEW p \in Clients, ClientMoves(p) PROVE [Flights!Next]_Flights!vars
  BY <1>1, <1>3, ClientSeen DEF FlightInv
<1>4. CASE UNCHANGED <<thread, proc, user>>
  <2>1. ASSUME NEW p \in Clients PROVE Unseen(p)
    <3>1. \A d \in Conns : LoggedReadings(d)' = LoggedReadings(d) BY <1>4, LoggedIs
    <3>2. LoggedOf(p)' = LoggedOf(p) BY <1>1, <1>4, <3>1, LoggedStays
    <3>3. SendRows(p)' = SendRows(p) BY <1>4, SendRowsAre
    <3> QED BY <1>4, <3>2, <3>3 DEF Unseen, ClientEnded
  <2> QED BY <2>1, NothingSeen
<1> QED
  BY <1>2, <1>3, <1>4 DEF Next, LinkBreaks, Quiescent, vars, serverVars

LEMMA FlightsInit == Init => Flights!Init
<1> SUFFICES ASSUME Init PROVE Flights!Init OBVIOUS
<1>1. ASSUME NEW p \in Clients
      PROVE  /\ Len(SendRows(p)) = 0 /\ LoggedOf(p) = <<>>
             /\ proc[p].dataset = FALSE /\ ClientEnded(p) = FALSE
  <2>1. /\ proc[p].log = <<>> /\ proc[p].pc = "winsock" /\ proc[p].dataset = FALSE
        /\ proc[p].iter = 0 /\ \A d \in Conns : user[d] # p
    BY NobodyAssumption DEF Init, ClientInit
  <2>2. Len(Sends(proc[p].log)) \in Nat /\ Len(Sends(proc[p].log)) <= 0
    <3>1. Recorded(proc[p]) BY RecordsInitially DEF Init, RecordsInv
    <3>2. Sends(<<>>) \in Seq(ClientRow)
      <4>1. <<>> \in Seq(ClientRow) OBVIOUS
      <4> QED BY <4>1, ClientRowTypes, OneMoreRow
    <3> QED BY <2>1, <3>1, <3>2 DEF Recorded
  <2>3. Len(SendRows(p)) = 0 BY <2>2, SendRowsAre
  <2>4. LoggedOf(p) = <<>> BY <2>1, LoggedAlone
  <2> QED BY <2>1, <2>3, <2>4 DEF ClientEnded
<1>2. Recordings = [p \in Clients |-> 0] BY <1>1 DEF Recordings
<1>3. Ground = [p \in Clients |-> <<>>] BY <1>1 DEF Ground
<1>4. Confirmed = [p \in Clients |-> FALSE] BY <1>1 DEF Confirmed
<1>5. Over = [p \in Clients |-> FALSE] BY <1>1 DEF Over
<1> QED BY <1>2, <1>3, <1>4, <1>5 DEF Flights!Init, Recordings, Ground, Confirmed, Over

\* In main_client.exe the programs implement Flight: whatever fails and
\* whenever, for any number of aircraft and readings, the server's log grows
\* by the readings in their order and at most one ahead of the client's own
\* record, which goes on in order too, and who holds the dataset has recorded
\* the whole flight and the server has logged it.  That every client ends is
\* the rest of KeepsFlightPromise.
THEOREM ImplementsFlight ==
    ASSUME OtherWsaRefs = 0 PROVE Spec => Flights!Spec
<1>1. Init => FlightInv BY FlightInitially
<1>2. SystemInv /\ SystemInv' /\ FlightInv /\ [Next]_vars => FlightInv'
  BY FlightStep
<1>3. SystemInv /\ SystemInv' /\ FlightInv /\ [Next]_vars => [Flights!Next]_Flights!vars
  BY FlightsStep
<1> QED BY <1>1, <1>2, <1>3, FlightsInit, SystemInvariant, PTL DEF Spec, Flights!Spec
=============================================================================
