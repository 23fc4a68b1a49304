---------------------------- MODULE ServerProofs ----------------------------
(***************************************************************************)
(* Proofs about the server process (module Server), for every set of       *)
(* connections, every buffer capacity and every choice of what may fail:   *)
(* what its steps keep, whoever is at the other end.  OpenServerProofs and *)
(* FuelSystemProofs put them together with the peers and the clients.      *)
(*                                                                         *)
(* The inductive invariant is the server's types together with HandlersFit *)
(* and NoInvalidTransition.  None of the three is inductive alone:         *)
(* Head(out) is a cell only where out is known not to be empty, the fuel   *)
(* level logged is a number only where the whole payload has been read,    *)
(* and a transition is valid only from the state the place stands for.     *)
(***************************************************************************)
EXTENDS Server, NetworkProofs

-----------------------------------------------------------------------------
\* Rows appended to a log keep it a log.
LEMMA RowTypes ==
    /\ {<<"CONNECT">>, <<"DISCONNECT">>, <<"ERROR">>} \subseteq Row
    /\ \A from, to \in ServerState : Transitioned(from, to) \in Row
    /\ \A n \in Nat : Received(n) \in Row /\ FuelAlert(n) \in Row
BY DEF Row, Transitioned, Received, FuelAlert

-----------------------------------------------------------------------------
(***************************************************************************)
(* The inductive invariant, and the steps of the network.                  *)
(***************************************************************************)
ServerInv == NetTypeOK /\ ServerTypeOK /\ HandlersFit /\ NoInvalidTransition

\* A step of the network that takes no socket from a handler and gives none.
Undisturbed ==
    \A d \in Conns :
        /\ conn'[d].serverOpen = conn[d].serverOpen
        /\ conn'[d].link \in {"none", "backlog"} => conn[d].link \in {"none", "backlog"}

\* Replacing the record of a connection by one that serves the server alike.
LEMMA UpdateStep ==
    ASSUME NetTypeOK, NEW c \in Conns, NEW q \in Connection, Update(c, q),
           q.serverOpen = conn[c].serverOpen,
           q.link \in {"none", "backlog"} => conn[c].link \in {"none", "backlog"}
    PROVE  NetTypeOK' /\ Undisturbed
BY DEF NetTypeOK, Update, Undisturbed

\* The client's operations, a failure of the link, and the reads and writes
\* of the server leave the sockets of the handlers alone.
LEMMA NetworkSteps ==
    ASSUME NetTypeOK, NEW c \in Conns, NEW cell \in Cell,
           \/ ClientConnects(c) \/ ClientSends(c, cell) \/ ClientTakes(c)
           \/ ClientCloses(c) \/ ClientDies(c) \/ Break(c)
           \/ ServerSends(c, cell) \/ ServerTakes(c) \/ UNCHANGED netVars
    PROVE  NetTypeOK' /\ Undisturbed
<1>0. conn[c] \in Connection
  BY DEF NetTypeOK
<1>1. CASE UNCHANGED netVars
  BY <1>1 DEF NetTypeOK, Undisturbed, netVars
<1>2. CASE \/ Update(c, ResetOf(conn[c]))
           \/ Update(c, [conn[c] EXCEPT !.up = Append(@, cell)])
           \/ Update(c, [conn[c] EXCEPT !.down = Append(@, cell)])
           \/ conn[c].up # <<>> /\ Update(c, [conn[c] EXCEPT !.up = Tail(@)])
           \/ conn[c].down # <<>> /\ Update(c, [conn[c] EXCEPT !.down = Tail(@)])
  <2>1. /\ [conn[c] EXCEPT !.up = Append(@, cell)].serverOpen = conn[c].serverOpen
        /\ [conn[c] EXCEPT !.up = Append(@, cell)].link = conn[c].link
        /\ [conn[c] EXCEPT !.down = Append(@, cell)].serverOpen = conn[c].serverOpen
        /\ [conn[c] EXCEPT !.down = Append(@, cell)].link = conn[c].link
        /\ [conn[c] EXCEPT !.up = Tail(@)].serverOpen = conn[c].serverOpen
        /\ [conn[c] EXCEPT !.up = Tail(@)].link = conn[c].link
        /\ [conn[c] EXCEPT !.down = Tail(@)].serverOpen = conn[c].serverOpen
        /\ [conn[c] EXCEPT !.down = Tail(@)].link = conn[c].link
    BY <1>0 DEF Connection
  <2> QED BY <1>0, <1>2, <2>1, ResetTypes, ConnectionTypes, UpdateStep
<1>3. CASE ClientConnects(c)
  <2> DEFINE q == [conn[c] EXCEPT !.link = "backlog", !.clientOpen = TRUE]
  <2>1. q \in Connection /\ q.serverOpen = conn[c].serverOpen
    BY <1>0 DEF Connection, LinkStates
  <2>2. Update(c, q) /\ conn[c].link = "none"
    BY <1>3 DEF ClientConnects
  <2> QED BY <2>1, <2>2, UpdateStep
<1>4. CASE ClientCloses(c) \/ ClientDies(c)
  <2> DEFINE q == [conn[c] EXCEPT !.clientOpen = FALSE]
  <2>1. q \in Connection /\ q.serverOpen = conn[c].serverOpen /\ q.link = conn[c].link
    BY <1>0 DEF Connection
  <2>2. /\ ResetOf(q) \in Connection
        /\ ResetOf(q).serverOpen = q.serverOpen /\ ResetOf(q).link = "broken"
    BY <2>1, ResetTypes
  <2>3. Update(c, q) \/ Update(c, ResetOf(q))
    BY <1>4 DEF ClientCloses, ClientDies
  <2> QED BY <2>1, <2>2, <2>3, UpdateStep
<1>5. CASE ClientSends(c, cell)
  BY <1>1, <1>2, <1>5 DEF ClientSends
<1>6. CASE ServerSends(c, cell)
  BY <1>1, <1>2, <1>6 DEF ServerSends
<1>7. CASE ClientTakes(c)
  BY <1>2, <1>7 DEF ClientTakes
<1>8. CASE ServerTakes(c)
  BY <1>2, <1>8 DEF ServerTakes
<1>9. CASE Break(c)
  BY <1>2, <1>9 DEF Break
<1> QED BY <1>1, <1>3, <1>4, <1>5, <1>6, <1>7, <1>8, <1>9

\* The end of the server's Winsock resets connections and closes no handler's
\* socket.
LEMMA SocketsGone ==
    ASSUME NetTypeOK, ServerSocketsGone PROVE NetTypeOK' /\ Undisturbed
<1>1. \A c \in Conns :
        /\ ResetOf(conn[c]) \in Connection
        /\ ResetOf(conn[c]).serverOpen = conn[c].serverOpen
        /\ ResetOf(conn[c]).link = "broken"
  BY ResetTypes DEF NetTypeOK
<1> QED BY <1>1 DEF ServerSocketsGone, NetTypeOK, Undisturbed

-----------------------------------------------------------------------------
(***************************************************************************)
(* What the steps of a handler are made of.                                *)
(***************************************************************************)
\* The updates of a handler's record keep it typed.
LEMMA ThreadTypes ==
    ASSUME NEW t \in Thread, NEW place \in HandlerPCs, NEW row \in Row
    PROVE  /\ [t EXCEPT !.pc = place] \in Thread
           /\ [t EXCEPT !.log = Append(@, row), !.pc = place] \in Thread
           /\ \A sm \in ServerState :
                [t EXCEPT !.log = Append(@, row), !.sm = sm, !.pc = place] \in Thread
           /\ \A h \in Cell : [t EXCEPT !.hdr = h, !.buf = <<>>, !.pc = place] \in Thread
           /\ \A cell \in Cell : [t EXCEPT !.buf = Append(@, cell), !.pc = place] \in Thread
           /\ t.out # <<>> => [t EXCEPT !.out = Tail(@), !.pc = place] \in Thread
           /\ [t EXCEPT !.out = <<>>, !.log = Append(@, row), !.pc = place] \in Thread
           /\ \A out \in Seq(Cell) : [t EXCEPT !.out = out, !.pc = place] \in Thread
<1>1. /\ t.log \in Seq(Row) /\ Append(t.log, row) \in Seq(Row)
      /\ t.buf \in Seq(Cell) /\ \A cell \in Cell : Append(t.buf, cell) \in Seq(Cell)
      /\ t.out \in Seq(Cell) /\ <<>> \in Seq(Cell)
      /\ t.out # <<>> => Tail(t.out) \in Seq(Cell)
  BY DEF Thread
<1>2. /\ [t EXCEPT !.pc = place] \in Thread
      /\ [t EXCEPT !.log = Append(@, row), !.pc = place] \in Thread
  BY <1>1 DEF Thread
<1>3. \A sm \in ServerState :
        [t EXCEPT !.log = Append(@, row), !.sm = sm, !.pc = place] \in Thread
  BY <1>1 DEF Thread
<1>4. \A h \in Cell : [t EXCEPT !.hdr = h, !.buf = <<>>, !.pc = place] \in Thread
  BY <1>1 DEF Thread
<1>5. \A cell \in Cell : [t EXCEPT !.buf = Append(@, cell), !.pc = place] \in Thread
  BY <1>1 DEF Thread
<1>6. t.out # <<>> => [t EXCEPT !.out = Tail(@), !.pc = place] \in Thread
  BY <1>1 DEF Thread
<1>7. [t EXCEPT !.out = <<>>, !.log = Append(@, row), !.pc = place] \in Thread
  BY <1>1 DEF Thread
<1>8. \A out \in Seq(Cell) : [t EXCEPT !.out = out, !.pc = place] \in Thread
  BY <1>1 DEF Thread
<1> QED BY <1>2, <1>3, <1>4, <1>5, <1>6, <1>7, <1>8

\* A handler's step that leaves it fitting its place keeps the invariant.
LEMMA BecomeStep ==
    ASSUME ServerInv, NEW c \in Conns, NEW t \in Thread, Become(c, t),
           NetTypeOK', Undisturbed, HandlerFits(t, conn[c])
    PROVE  ServerInv'
<1>1. ServerTypeOK' /\ NoInvalidTransition'
  BY DEF ServerInv, ServerTypeOK, NoInvalidTransition, Become
<1>2. \A d \in Conns : HandlerFits(thread'[d], conn[d])
  BY DEF ServerInv, ServerTypeOK, HandlersFit, Become
<1>3. \A d \in Conns : HandlerFits(thread'[d], conn'[d])
  BY <1>2 DEF HandlerFits, Undisturbed
<1> QED BY <1>1, <1>3 DEF ServerInv, HandlersFit

\* Local computation and rows of the log.
LEMMA JumpStep ==
    ASSUME ServerInv, NEW c \in Conns, NEW place \in HandlerPCs, NEW row \in Row,
           Jump(c, place) \/ LogRow(c, row, place),
           HandlerFits([thread[c] EXCEPT !.pc = place], conn[c])
    PROVE  ServerInv'
<1>1. thread[c] \in Thread
  BY DEF ServerInv, ServerTypeOK
<1>2. NetTypeOK' /\ Undisturbed
  BY DEF Jump, LogRow, ServerInv, NetTypeOK, Undisturbed, netVars
<1>3. CASE Jump(c, place)
  BY <1>1, <1>2, <1>3, ThreadTypes, BecomeStep DEF Jump
<1>4. CASE LogRow(c, row, place)
  <2> DEFINE t == [thread[c] EXCEPT !.log = Append(@, row), !.pc = place]
  <2>1. t \in Thread
    BY <1>1, ThreadTypes
  <2>2. HandlerFits(t, conn[c])
    BY <1>1 DEF HandlerFits, Thread
  <2>3. Become(c, t)
    BY <1>4 DEF LogRow
  <2> QED BY <1>2, <2>1, <2>2, <2>3, BecomeStep
<1> QED BY <1>3, <1>4

\* A transition isValid accepts.
LEMMA TransitionStep ==
    ASSUME ServerInv, NEW c \in Conns, NEW next \in ServerState,
           NEW complete \in BOOLEAN, NEW place \in HandlerPCs,
           Transition(c, next, complete, place),
           isValid(thread[c].sm, next, complete),
           HandlerFits([thread[c] EXCEPT !.sm = next, !.pc = place], conn[c])
    PROVE  ServerInv'
<1> DEFINE row == Transitioned(thread[c].sm, next)
           t == [thread[c] EXCEPT !.log = Append(@, row), !.sm = next, !.pc = place]
<1>1. thread[c] \in Thread /\ thread[c].sm \in ServerState
  BY DEF ServerInv, ServerTypeOK, Thread
<1>2. t \in Thread
  BY <1>1, ThreadTypes, RowTypes
<1>3. HandlerFits(t, conn[c])
  BY <1>1 DEF HandlerFits, Thread
<1>4. Become(c, t) /\ UNCHANGED netVars
  BY DEF Transition
<1>5. NetTypeOK' /\ Undisturbed
  BY <1>4 DEF ServerInv, NetTypeOK, Undisturbed, netVars
<1> QED BY <1>2, <1>3, <1>4, <1>5, BecomeStep

\* recvAll of a header, when the handler fits the place it then goes to.
LEMMA ReadHeaderStep ==
    ASSUME ServerInv, NEW c \in Conns, NEW h \in HeadersIn(conn[c].up),
           NEW place \in HandlerPCs, ReadHeader(c, h, place),
           HandlerFits([thread[c] EXCEPT !.hdr = h, !.buf = <<>>, !.pc = place], conn[c])
    PROVE  ServerInv'
<1>1. thread[c] \in Thread /\ conn[c].up \in Seq(Cell)
  BY DEF ServerInv, ServerTypeOK, NetTypeOK, Connection
<1>2. [thread[c] EXCEPT !.hdr = h, !.buf = <<>>, !.pc = place] \in Thread
  BY <1>1, ThreadTypes, HeadersInCell, RowTypes
<1>3. NetTypeOK' /\ Undisturbed
  BY NetworkSteps, CellTypes DEF ReadHeader, ServerInv
<1> QED BY <1>2, <1>3, BecomeStep DEF ReadHeader

\* One turn of recvAll over a payload: the handler stays until the payload is
\* complete, and fits the place after when it is.
LEMMA ReadPayloadStep ==
    ASSUME ServerInv, NEW c \in Conns, NEW after \in HandlerPCs, ReadPayload(c, after),
           thread[c].pc \in {"auth_token", "payload", "drain"},
           after \in {"check_token", "log_receive", "header"},
           StateOf(after) = StateOf(thread[c].pc)
    PROVE  ServerInv'
<1> DEFINE buf == Append(thread[c].buf, Head(conn[c].up))
           place == IF Len(thread[c].buf) + 1 = thread[c].hdr.num THEN after
                    ELSE thread[c].pc
           t == [thread[c] EXCEPT !.buf = buf, !.pc = place]
<1>1. /\ thread[c] \in Thread /\ conn[c].up \in Seq(Cell) /\ conn[c].up # <<>>
      /\ thread[c].buf \in Seq(Cell) /\ thread[c].hdr.num \in Nat
      /\ HandlerFits(thread[c], conn[c])
  BY DEF ServerInv, ServerTypeOK, HandlersFit, NetTypeOK, Connection, Thread, Cell,
         ReadPayload, ServerTakes
<1>2. Head(conn[c].up) \in Cell /\ place \in HandlerPCs
  BY <1>1 DEF Thread
<1>3. t \in Thread
  BY <1>1, <1>2, ThreadTypes, RowTypes
<1>4. Len(buf) = Len(thread[c].buf) + 1 /\ Len(thread[c].buf) < thread[c].hdr.num
      /\ Len(thread[c].buf) \in Nat
  BY <1>1, <1>2 DEF HandlerFits
<1>5. /\ t.pc = place /\ t.buf = buf /\ t.sm = thread[c].sm /\ t.hdr = thread[c].hdr
      /\ t.out = thread[c].out
  BY <1>1 DEF Thread
<1>6. HandlerFits(t, conn[c])
  <2>1. CASE place = thread[c].pc
    BY <1>1, <1>4, <1>5, <2>1 DEF HandlerFits
  <2>2. CASE place = after /\ Len(buf) = thread[c].hdr.num
    <3>1. recvLength(thread[c].hdr.num) = thread[c].hdr.num
      BY <1>1, RecvLengths DEF HandlerFits
    <3> QED BY <1>1, <1>4, <1>5, <2>2, <3>1 DEF HandlerFits, HoldsSocket, HandlerPCs
  <2> QED BY <1>1, <1>4, <2>1, <2>2
<1>7. NetTypeOK' /\ Undisturbed
  BY <1>2, NetworkSteps DEF ReadPayload, ServerInv
<1>8. Become(c, t)
  BY <1>1 DEF ReadPayload, Thread
<1> QED BY <1>3, <1>6, <1>7, <1>8, BecomeStep

\* One turn of sendAll: the handler stays until nothing is left, and goes to
\* the place after when that is so or send has failed.
LEMMA SendNextStep ==
    ASSUME ServerInv, NEW c \in Conns, NEW after \in HandlerPCs, SendNext(c, after),
           thread[c].pc \in {"auth_ack", "send_dataset"},
           after \in {"authenticated", "auth_failed", "transferred"},
           StateOf(after) = StateOf(thread[c].pc)
    PROVE  ServerInv'
<1>1. /\ thread[c] \in Thread /\ thread[c].out \in Seq(Cell) /\ thread[c].out # <<>>
      /\ HandlerFits(thread[c], conn[c])
  BY DEF ServerInv, ServerTypeOK, HandlersFit, Thread, HandlerFits
<1>2. /\ Head(thread[c].out) \in Cell /\ Tail(thread[c].out) \in Seq(Cell)
      /\ Len(thread[c].out) # 1 => Tail(thread[c].out) # <<>>
  <2> DEFINE out == thread[c].out
  <2>1. Head(out) \in Cell /\ Tail(out) \in Seq(Cell) /\ Len(Tail(out)) = Len(out) - 1
    BY <1>1
  <2>2. Len(out) \in Nat /\ Len(out) # 0
    BY <1>1
  <2>3. Len(out) # 1 => Len(Tail(out)) # 0
    BY <2>1, <2>2
  <2> QED BY <2>1, <2>3, EmptySeq
<1>3. CASE ServerSendFails(c) /\ UNCHANGED netVars
             /\ Become(c, [thread[c] EXCEPT !.out = <<>>, !.log = Append(@, <<"ERROR">>),
                                            !.pc = after])
  <2> DEFINE t == [thread[c] EXCEPT !.out = <<>>, !.log = Append(@, <<"ERROR">>),
                                    !.pc = after]
  <2>1. t \in Thread
    BY <1>1, ThreadTypes, RowTypes
  <2>2. t.pc = after /\ t.sm = thread[c].sm
    BY <1>1 DEF Thread
  <2>3. HandlerFits(t, conn[c])
    BY <1>1, <2>2 DEF HandlerFits, HoldsSocket, HandlerPCs
  <2>4. NetTypeOK' /\ Undisturbed
    BY <1>3 DEF ServerInv, NetTypeOK, Undisturbed, netVars
  <2> QED BY <1>3, <2>1, <2>3, <2>4, BecomeStep
<1>4. CASE ServerSends(c, Head(thread[c].out))
             /\ Become(c, [thread[c] EXCEPT !.out = Tail(@),
                             !.pc = IF Len(thread[c].out) = 1 THEN after ELSE @])
  <2> DEFINE place == IF Len(thread[c].out) = 1 THEN after ELSE thread[c].pc
             t == [thread[c] EXCEPT !.out = Tail(@), !.pc = place]
  <2>1. t \in Thread
    BY <1>1, ThreadTypes, RowTypes DEF Thread
  <2>2. HandlerFits(t, conn[c])
    <3>1. /\ t.pc = place /\ t.sm = thread[c].sm /\ t.out = Tail(thread[c].out)
          /\ t.buf = thread[c].buf /\ t.hdr = thread[c].hdr
      BY <1>1 DEF Thread
    <3>2. CASE Len(thread[c].out) = 1
      BY <1>1, <3>1, <3>2 DEF HandlerFits, HoldsSocket, HandlerPCs
    <3>3. CASE Len(thread[c].out) # 1
      BY <1>1, <1>2, <3>1, <3>3 DEF HandlerFits
    <3> QED BY <3>2, <3>3
  <2>3. NetTypeOK' /\ Undisturbed
    <3>1. \A cell \in Cell : ServerSends(c, cell) => NetTypeOK' /\ Undisturbed
      BY NetworkSteps DEF ServerInv
    <3> QED BY <1>2, <1>4, <3>1
  <2>4. Become(c, t)
    BY <1>1, <1>4 DEF Thread
  <2> QED BY <2>1, <2>2, <2>3, <2>4, BecomeStep
<1> QED BY <1>3, <1>4 DEF SendNext

-----------------------------------------------------------------------------
(***************************************************************************)
(* The actions of a handler.                                               *)
(***************************************************************************)
\* Places that ask nothing of the buffers.
Free == HoldsSocket \ {"unknown", "auth_token", "payload", "drain", "log_receive",
                       "alert", "auth_ack", "send_dataset"}

\* A handler that keeps its socket fits a free place of the same state.
LEMMA FreeFits ==
    ASSUME NEW t \in Thread, NEW r, HandlerFits(t, r), NEW place \in Free,
           t.pc \in HoldsSocket, StateOf(place) = StateOf(t.pc)
    PROVE  HandlerFits([t EXCEPT !.pc = place], r)
<1>1. /\ [t EXCEPT !.pc = place].pc = place
      /\ [t EXCEPT !.pc = place].sm = t.sm
  BY DEF Thread
<1> QED BY <1>1 DEF HandlerFits, Free, HoldsSocket

\* And one of another state, once its machine has made the transition.
LEMMA FreeFitsAfterTransition ==
    ASSUME NEW t \in Thread, NEW r, HandlerFits(t, r), NEW place \in Free,
           t.pc \in HoldsSocket
    PROVE  HandlerFits([t EXCEPT !.sm = StateOf(place), !.pc = place], r)
<1>1. StateOf(place) \in ServerState
  BY DEF StateOf, ServerState
<1>2. /\ [t EXCEPT !.sm = StateOf(place), !.pc = place].pc = place
      /\ [t EXCEPT !.sm = StateOf(place), !.pc = place].sm = StateOf(place)
  BY <1>1 DEF Thread
<1> QED BY <1>2 DEF HandlerFits, Free, HoldsSocket

\* Local computation and log rows that lead to a free place.
LEMMA FreeJump ==
    ASSUME ServerInv, NEW c \in Conns, NEW place \in Free, NEW row \in Row,
           Jump(c, place) \/ LogRow(c, row, place),
           thread[c].pc \in HoldsSocket, StateOf(place) = StateOf(thread[c].pc)
    PROVE  ServerInv'
<1>1. thread[c] \in Thread /\ HandlerFits(thread[c], conn[c])
  BY DEF ServerInv, ServerTypeOK, HandlersFit
<1>2. HandlerFits([thread[c] EXCEPT !.pc = place], conn[c])
  BY <1>1, FreeFits
<1>3. place \in HandlerPCs
  BY DEF Free, HoldsSocket
<1> QED BY <1>2, <1>3, JumpStep

\* Transitions that lead to a free place.
LEMMA FreeTransition ==
    ASSUME ServerInv, NEW c \in Conns, NEW place \in Free, NEW complete \in BOOLEAN,
           NEW next \in ServerState, Transition(c, next, complete, place),
           thread[c].pc \in HoldsSocket, StateOf(place) = next,
           isValid(StateOf(thread[c].pc), next, complete)
    PROVE  ServerInv'
<1>1. thread[c] \in Thread /\ HandlerFits(thread[c], conn[c])
  BY DEF ServerInv, ServerTypeOK, HandlersFit
<1>2. HandlerFits([thread[c] EXCEPT !.sm = next, !.pc = place], conn[c])
  BY <1>1, FreeFitsAfterTransition
<1>3. place \in HandlerPCs /\ isValid(thread[c].sm, next, complete)
  BY <1>1 DEF Free, HoldsSocket, HandlerFits
<1> QED BY <1>2, <1>3, TransitionStep

\* closesocket keeps the network typed, and takes the socket of this handler
\* only.
LEMMA CloseStep ==
    ASSUME ServerInv, NEW c \in Conns, ServerCloses(c),
           NEW place \in {"auth_disconnect", "done"},
           Become(c, [thread[c] EXCEPT !.pc = place]),
           thread[c].pc \in HoldsSocket, StateOf(place) = StateOf(thread[c].pc)
    PROVE  ServerInv'
<1> DEFINE closed == [conn[c] EXCEPT !.serverOpen = FALSE]
           t == [thread[c] EXCEPT !.pc = place]
<1>1. /\ thread[c] \in Thread /\ HandlerFits(thread[c], conn[c])
      /\ conn[c] \in Connection /\ conn \in [Conns -> Connection]
      /\ thread \in [Conns -> Thread]
  BY DEF ServerInv, ServerTypeOK, HandlersFit, NetTypeOK
<1>2. /\ closed \in Connection /\ closed.serverOpen = FALSE
      /\ closed.link = conn[c].link
  BY <1>1 DEF Connection
<1>3. /\ ResetOf(closed) \in Connection /\ ResetOf(closed).serverOpen = FALSE
      /\ ResetOf(closed).link = "broken"
  BY <1>2, ResetTypes
<1>4. PICK q \in {closed, ResetOf(closed)} : Update(c, q)
  BY DEF ServerCloses
<1>5. /\ q \in Connection /\ q.serverOpen = FALSE
      /\ q.link \in {"none", "backlog"} => conn[c].link \in {"none", "backlog"}
  BY <1>2, <1>3
<1>6. NetTypeOK'
  BY <1>4, <1>5 DEF ServerInv, NetTypeOK, Update
<1>7. t \in Thread /\ t.pc = place /\ t.sm = thread[c].sm
  BY <1>1 DEF Thread, HandlerPCs
<1>8. HandlerFits(t, q)
  BY <1>1, <1>5, <1>7 DEF HandlerFits, HoldsSocket
<1>9. conn' = [conn EXCEPT ![c] = q] /\ thread' = [thread EXCEPT ![c] = t]
  BY <1>4 DEF Update, Become
<1>10. HandlersFit'
  BY <1>1, <1>8, <1>9 DEF ServerInv, HandlersFit
<1>11. ServerTypeOK' /\ NoInvalidTransition'
  BY <1>7 DEF ServerInv, ServerTypeOK, NoInvalidTransition, Become
<1> QED BY <1>6, <1>10, <1>11 DEF ServerInv

\* The fuel level a handler logs and compares is a number, also where the
\* payload it looks into has not been read.
LEMMA PacketFuelType ==
    ASSUME ServerTypeOK, NEW c \in Conns, HandlerFits(thread[c], conn[c]),
           thread[c].pc \in {"log_receive", "alert"}
    PROVE  PacketFuel(c) \in Nat
<1>1. thread[c].buf \in Seq(Cell) /\ thread[c].hdr.num \in Nat
  BY DEF ServerTypeOK, Thread, Cell
<1>2. CASE thread[c].hdr.num >= 1 /\ thread[c].buf # <<>>
  <2>1. thread[c].buf[1] \in Cell
    BY <1>1, <1>2
  <2> QED BY <1>2, <2>1 DEF PacketFuel, DeserializedFuel, TelemetrySize, Cell
<1>3. CASE ~(thread[c].hdr.num >= 1 /\ thread[c].buf # <<>>)
  BY <1>3 DEF PacketFuel, DeserializedFuel, TelemetrySize
<1> QED BY <1>2, <1>3

\* Everything handleClient does up to its loop.
LEMMA AuthenticatingStep ==
    ASSUME ServerInv, NEW c \in Conns, Authenticating(c) PROVE ServerInv'
<1> USE DEF At
<1>1. /\ thread[c] \in Thread /\ HandlerFits(thread[c], conn[c])
      /\ thread[c].sm = StateOf(thread[c].pc)
      /\ conn[c].up \in Seq(Cell)
  BY DEF ServerInv, ServerTypeOK, HandlersFit, HandlerFits, NetTypeOK, Connection
<1>2. CASE Begin(c)
  <2>1. /\ thread[c].pc \in HoldsSocket /\ "log_connect" \in Free
        /\ StateOf("log_connect") = "CONNECTED"
        /\ isValid(StateOf(thread[c].pc), "CONNECTED", FALSE)
    BY <1>2 DEF Begin, Free, HoldsSocket, HandlerPCs, StateOf, isValid, Successors
  <2> QED BY <1>2, <2>1, FreeTransition DEF Begin, ServerState
<1>3. CASE LogConnect(c)
  <2>1. /\ thread[c].pc \in HoldsSocket /\ "auth_header" \in Free
        /\ StateOf("auth_header") = StateOf(thread[c].pc)
    BY <1>3 DEF LogConnect, Free, HoldsSocket, HandlerPCs, StateOf
  <2> QED BY <1>3, <2>1, FreeJump, RowTypes DEF LogConnect
<1>4. CASE AuthHeader(c)
  <2>1. PICK h \in HeadersIn(conn[c].up) : ReadHeader(c, h, PlaceAfterLogin(h))
    BY <1>4 DEF AuthHeader
  <2> DEFINE place == PlaceAfterLogin(h)
             t == [thread[c] EXCEPT !.hdr = h, !.buf = <<>>, !.pc = place]
  <2>2. h \in Cell /\ h.num \in Nat
    BY <1>1, HeadersInCell DEF Cell
  <2>3. /\ t.pc = place /\ t.sm = thread[c].sm /\ t.hdr = h /\ t.buf = <<>>
    BY <1>1 DEF Thread
  <2>4. /\ place \in {"auth_failed", "auth_token", "check_token"}
        /\ place = "auth_token" => h.num > 0 /\ h.num <= INT_MAX
    BY <2>2, RecvLengths DEF PlaceAfterLogin
  <2>5. HandlerFits(t, conn[c])
    <3>1. thread[c].pc = "auth_header" /\ Len(t.buf) = 0
      BY <1>4, <2>3, EmptySeq DEF AuthHeader
    <3> HIDE DEF t, place
    <3> QED BY <1>1, <2>2, <2>3, <2>4, <3>1 DEF HandlerFits, HoldsSocket, HandlerPCs, StateOf
  <2> QED BY <2>1, <2>4, <2>5, ReadHeaderStep DEF HandlerPCs
<1>5. CASE AuthToken(c)
  BY <1>5, ReadPayloadStep DEF AuthToken, HandlerPCs, StateOf
<1>6. CASE AuthReadFails(c)
  <2>1. /\ thread[c].pc \in HoldsSocket /\ "auth_failed" \in Free
        /\ StateOf("auth_failed") = StateOf(thread[c].pc)
    BY <1>6 DEF AuthReadFails, Free, HoldsSocket, HandlerPCs, StateOf
  <2> QED BY <1>6, <2>1, FreeJump, RowTypes DEF AuthReadFails
<1>7. CASE CheckToken(c)
  <2> DEFINE ok == thread[c].buf = <<Bytes(AUTH_TOKEN)>>
             t == [thread[c] EXCEPT !.authOK = ok, !.out = AuthAck(ok), !.pc = "auth_ack"]
  <2>1. AuthAck(ok) \in Seq(Cell) /\ AuthAck(ok) # <<>>
    BY ReplyTypes
  <2>2. /\ t \in Thread /\ t.pc = "auth_ack" /\ t.sm = thread[c].sm
        /\ t.out = AuthAck(ok)
    BY <1>1, <2>1 DEF Thread, HandlerPCs
  <2>3. HandlerFits(t, conn[c])
    BY <1>1, <1>7, <2>1, <2>2
    DEF HandlerFits, CheckToken, HoldsSocket, HandlerPCs, StateOf
  <2>4. NetTypeOK' /\ Undisturbed
    BY <1>7 DEF CheckToken, ServerInv, NetTypeOK, Undisturbed, netVars
  <2> QED BY <1>7, <2>2, <2>3, <2>4, BecomeStep DEF CheckToken
<1>8. CASE SendAck(c)
  <2> DEFINE after == IF thread[c].authOK THEN "authenticated" ELSE "auth_failed"
  <2>1. StateOf(after) = StateOf(thread[c].pc) /\ after \in HandlerPCs
    BY <1>8 DEF SendAck, StateOf, HandlerPCs
  <2> QED BY <1>8, <2>1, SendNextStep DEF SendAck
<1>9. CASE AuthFailed(c)
  <2>1. /\ thread[c].pc \in HoldsSocket /\ "auth_close" \in Free
        /\ StateOf("auth_close") = StateOf(thread[c].pc)
    BY <1>9 DEF AuthFailed, Free, HoldsSocket, HandlerPCs, StateOf
  <2> QED BY <1>9, <2>1, FreeJump, RowTypes DEF AuthFailed
<1>10. CASE AuthClose(c)
  BY <1>10, CloseStep DEF AuthClose, HoldsSocket, HandlerPCs, StateOf
<1>11. CASE AuthDisconnect(c)
  <2>1. thread[c].pc = "auth_disconnect" /\ thread[c].sm = "CONNECTED"
    BY <1>1, <1>11 DEF AuthDisconnect, StateOf
  <2>2. isValid(thread[c].sm, "DISCONNECTED", TRUE)
    BY <2>1 DEF isValid
  <2> DEFINE t == [thread[c] EXCEPT !.sm = "DISCONNECTED", !.pc = "done"]
  <2>3. t.pc = "done" /\ t.sm = "DISCONNECTED"
    BY <1>1 DEF Thread
  <2>4. HandlerFits(t, conn[c])
    BY <1>1, <2>1, <2>3 DEF HandlerFits, HoldsSocket, StateOf
  <2> QED BY <1>11, <2>2, <2>4, TransitionStep DEF AuthDisconnect, ServerState, HandlerPCs
<1>12. CASE Authenticated(c)
  <2>1. /\ thread[c].pc \in HoldsSocket /\ "receiving" \in Free
        /\ StateOf("receiving") = "AUTHENTICATED"
        /\ isValid(StateOf(thread[c].pc), "AUTHENTICATED", FALSE)
    BY <1>12 DEF Authenticated, Free, HoldsSocket, HandlerPCs, StateOf, isValid, Successors
  <2> QED BY <1>12, <2>1, FreeTransition DEF Authenticated, ServerState
<1>13. CASE StartReceiving(c)
  <2>1. /\ thread[c].pc \in HoldsSocket /\ "header" \in Free
        /\ StateOf("header") = "DATA_RECEIVING"
        /\ isValid(StateOf(thread[c].pc), "DATA_RECEIVING", FALSE)
    BY <1>13 DEF StartReceiving, Free, HoldsSocket, HandlerPCs, StateOf, isValid, Successors
  <2> QED BY <1>13, <2>1, FreeTransition DEF StartReceiving, ServerState
<1> QED
  BY <1>2, <1>3, <1>4, <1>5, <1>6, <1>7, <1>8, <1>9, <1>10, <1>11, <1>12, <1>13
  DEF Authenticating

\* Everything handleClient does from its loop on.
LEMMA ServingStep ==
    ASSUME ServerInv, NEW c \in Conns, Serving(c) PROVE ServerInv'
<1> USE DEF At
<1>1. /\ thread[c] \in Thread /\ HandlerFits(thread[c], conn[c])
      /\ thread[c].sm = StateOf(thread[c].pc)
      /\ conn[c].up \in Seq(Cell)
      /\ thread[c].hdr \in Cell /\ thread[c].hdr.num \in Nat
  BY DEF ServerInv, ServerTypeOK, HandlersFit, HandlerFits, NetTypeOK, Connection, Thread, Cell
<1>2. CASE NextHeader(c)
  <2>1. PICK h \in HeadersIn(conn[c].up) : ReadHeader(c, h, PlaceAfter(h))
    BY <1>2 DEF NextHeader
  <2> DEFINE place == PlaceAfter(h)
             t == [thread[c] EXCEPT !.hdr = h, !.buf = <<>>, !.pc = place]
  <2>2. h \in Cell /\ h.num \in Nat
    BY <1>1, HeadersInCell DEF Cell
  <2>3. /\ place \in {"transfer", "payload", "log_receive", "unknown"}
        /\ place = "payload" => h.num > 0 /\ h.num <= INT_MAX
        /\ place = "log_receive" => recvLength(h.num) = 0
    BY <2>2, RecvLengths DEF PlaceAfter
  <2>4. /\ t.pc = place /\ t.sm = thread[c].sm /\ t.hdr = h /\ t.buf = <<>>
    BY <1>1 DEF Thread
  <2>5. HandlerFits(t, conn[c])
    <3>1. thread[c].pc = "header" /\ Len(t.buf) = 0
      BY <1>2, <2>4, EmptySeq DEF NextHeader
    <3> HIDE DEF t, place
    <3> QED BY <1>1, <2>2, <2>3, <2>4, <3>1 DEF HandlerFits, HoldsSocket, HandlerPCs, StateOf
  <2> QED BY <2>1, <2>3, <2>5, ReadHeaderStep DEF HandlerPCs
<1>3. CASE HeaderFails(c)
  <2>1. /\ thread[c].pc \in HoldsSocket /\ "log_lost" \in Free
        /\ StateOf("log_lost") = StateOf(thread[c].pc)
    BY <1>3 DEF HeaderFails, Free, HoldsSocket, HandlerPCs, StateOf
  <2> QED BY <1>3, <2>1, FreeJump, RowTypes DEF HeaderFails
<1>4. CASE BeginTransfer(c)
  <2>1. /\ thread[c].pc \in HoldsSocket /\ "build_dataset" \in Free
        /\ StateOf("build_dataset") = "DATA_TRANSFER"
        /\ isValid(StateOf(thread[c].pc), "DATA_TRANSFER", FALSE)
    BY <1>4 DEF BeginTransfer, Free, HoldsSocket, HandlerPCs, StateOf, isValid, Successors
  <2> QED BY <1>4, <2>1, FreeTransition DEF BeginTransfer, ServerState
<1>5. CASE BuildDataset(c)
  <2> DEFINE t == [thread[c] EXCEPT !.out = DataResponse, !.pc = "send_dataset"]
  <2>1. DataResponse \in Seq(Cell) /\ DataResponse # <<>>
    BY ReplyTypes
  <2>2. t \in Thread
    BY <1>1, <2>1, ThreadTypes, RowTypes DEF HandlerPCs
  <2>3. /\ t.pc = "send_dataset" /\ t.sm = thread[c].sm /\ t.out = DataResponse
    BY <1>1 DEF Thread
  <2>4. HandlerFits(t, conn[c])
    BY <1>1, <1>5, <2>1, <2>3
    DEF HandlerFits, BuildDataset, HoldsSocket, HandlerPCs, StateOf
  <2>5. NetTypeOK' /\ Undisturbed
    BY <1>5 DEF BuildDataset, ServerInv, NetTypeOK, Undisturbed, netVars
  <2> QED BY <1>5, <2>2, <2>4, <2>5, BecomeStep DEF BuildDataset
<1>6. CASE SendDataset(c)
  BY <1>6, SendNextStep DEF SendDataset, StateOf, HandlerPCs
<1>7. CASE EndTransfer(c)
  <2>1. /\ thread[c].pc \in HoldsSocket /\ "header" \in Free
        /\ StateOf("header") = "DATA_RECEIVING"
        /\ isValid(StateOf(thread[c].pc), "DATA_RECEIVING", FALSE)
    BY <1>7 DEF EndTransfer, Free, HoldsSocket, HandlerPCs, StateOf, isValid, Successors
  <2> QED BY <1>7, <2>1, FreeTransition DEF EndTransfer, ServerState
<1>8. CASE TelemetryPayload(c)
  BY <1>8, ReadPayloadStep DEF TelemetryPayload, HandlerPCs, StateOf
<1>9. CASE PayloadFails(c)
  <2>1. /\ thread[c].pc \in HoldsSocket /\ "log_lost" \in Free
        /\ StateOf("log_lost") = StateOf(thread[c].pc)
    BY <1>9 DEF PayloadFails, Free, HoldsSocket, HandlerPCs, StateOf
  <2> QED BY <1>9, <2>1, FreeJump, RowTypes DEF PayloadFails
<1>10. CASE LogReceive(c)
  <2> DEFINE t == [thread[c] EXCEPT !.pc = "alert"]
  <2>1. PacketFuel(c) \in Nat
    BY <1>1, <1>10, PacketFuelType DEF LogReceive, ServerInv
  <2>2. t.pc = "alert" /\ t.sm = thread[c].sm /\ t.buf = thread[c].buf /\ t.hdr = thread[c].hdr
    BY <1>1 DEF Thread
  <2>3. HandlerFits(t, conn[c])
    BY <1>1, <1>10, <2>2 DEF HandlerFits, LogReceive, HoldsSocket, HandlerPCs, StateOf
  <2> QED BY <1>10, <2>1, <2>3, JumpStep, RowTypes DEF LogReceive, HandlerPCs
<1>11. CASE CheckFuelAlert(c)
  <2>1. FuelAlert(PacketFuel(c)) \in Row
    BY <1>1, <1>11, PacketFuelType, RowTypes DEF CheckFuelAlert, ServerInv
  <2>2. /\ thread[c].pc \in HoldsSocket /\ "header" \in Free
        /\ StateOf("header") = StateOf(thread[c].pc)
    BY <1>11 DEF CheckFuelAlert, Free, HoldsSocket, HandlerPCs, StateOf
  <2> QED BY <1>11, <2>1, <2>2, FreeJump DEF CheckFuelAlert
<1>12. CASE UnknownType(c)
  <2>1. /\ thread[c].pc = "unknown" /\ thread[c].buf = <<>> /\ Len(thread[c].buf) = 0
    BY <1>1, <1>12, EmptySeq DEF UnknownType, HandlerFits
  <2>2. CASE recvLength(thread[c].hdr.num) > 0
    <3> DEFINE t == [thread[c] EXCEPT !.pc = "drain"]
    <3>3. thread[c].hdr.num > 0 /\ thread[c].hdr.num <= INT_MAX
      BY <1>1, <2>2, RecvLengths
    <3>1. t.pc = "drain" /\ t.sm = thread[c].sm /\ t.buf = thread[c].buf /\ t.hdr = thread[c].hdr
      BY <1>1 DEF Thread
    <3>2. HandlerFits(t, conn[c])
      BY <1>1, <2>1, <3>1, <3>3 DEF HandlerFits, HoldsSocket, HandlerPCs, StateOf
    <3> QED BY <1>12, <2>2, <3>2, JumpStep, RowTypes DEF UnknownType, HandlerPCs
  <2>3. CASE ~(recvLength(thread[c].hdr.num) > 0)
    <3>1. /\ thread[c].pc \in HoldsSocket /\ "header" \in Free
          /\ StateOf("header") = StateOf(thread[c].pc)
      BY <2>1 DEF Free, HoldsSocket, HandlerPCs, StateOf
    <3> QED BY <1>12, <2>3, <3>1, FreeJump, RowTypes DEF UnknownType
  <2> QED BY <2>2, <2>3
<1>13. CASE Drain(c)
  <2>1. /\ thread[c].pc \in HoldsSocket /\ "header" \in Free
        /\ StateOf("header") = StateOf(thread[c].pc)
    BY <1>13 DEF Drain, Free, HoldsSocket, HandlerPCs, StateOf
  <2>2. CASE ReadPayload(c, "header")
    BY <1>13, <2>1, <2>2, ReadPayloadStep DEF Drain, HandlerPCs
  <2>3. CASE Jump(c, "header")
    BY <2>1, <2>3, FreeJump, RowTypes
  <2> QED BY <1>13, <2>2, <2>3 DEF Drain
<1>14. CASE LogLost(c)
  <2>1. /\ thread[c].pc \in HoldsSocket /\ "log_disconnect" \in Free
        /\ StateOf("log_disconnect") = StateOf(thread[c].pc)
    BY <1>14 DEF LogLost, Free, HoldsSocket, HandlerPCs, StateOf
  <2> QED BY <1>14, <2>1, FreeJump, RowTypes DEF LogLost
<1>15. CASE LogDisconnect(c)
  <2>1. /\ thread[c].pc \in HoldsSocket /\ "disconnect" \in Free
        /\ StateOf("disconnect") = StateOf(thread[c].pc)
    BY <1>15 DEF LogDisconnect, Free, HoldsSocket, HandlerPCs, StateOf
  <2> QED BY <1>15, <2>1, FreeJump, RowTypes DEF LogDisconnect
<1>16. CASE Disconnect(c)
  <2>1. /\ thread[c].pc \in HoldsSocket /\ "close" \in Free
        /\ StateOf("close") = "DISCONNECTED"
        /\ isValid(StateOf(thread[c].pc), "DISCONNECTED", TRUE)
    BY <1>16 DEF Disconnect, Free, HoldsSocket, HandlerPCs, StateOf, isValid
  <2> QED BY <1>16, <2>1, FreeTransition DEF Disconnect, ServerState
<1>17. CASE Close(c)
  BY <1>17, CloseStep DEF Close, HoldsSocket, HandlerPCs, StateOf
<1> QED
  BY <1>2, <1>3, <1>4, <1>5, <1>6, <1>7, <1>8, <1>9, <1>10, <1>11, <1>12, <1>13, <1>14,
     <1>15, <1>16, <1>17
  DEF Serving

-----------------------------------------------------------------------------
(***************************************************************************)
(* The main thread and the peers.                                          *)
(***************************************************************************)
\* A step that leaves every handler where it is, with the socket it has.
LEMMA QuietStep ==
    ASSUME ServerInv, NetTypeOK', Undisturbed, UNCHANGED thread,
           mpc' \in MainPCs \ {"terminated"}
    PROVE  ServerInv'
<1>1. ServerTypeOK' /\ NoInvalidTransition'
  BY DEF ServerInv, ServerTypeOK, NoInvalidTransition
<1>2. HandlersFit'
  BY DEF ServerInv, HandlersFit, HandlerFits, Undisturbed
<1> QED BY <1>1, <1>2 DEF ServerInv

\* Every step of the main thread.  A connection that accept hands out is
\* fresh, so its handler has not run.
LEMMA MainStep ==
    ASSUME ServerInv, MainThread PROVE ServerInv'
<1>1. NetTypeOK /\ conn \in [Conns -> Connection] /\ thread \in [Conns -> Thread]
  BY DEF ServerInv, NetTypeOK, ServerTypeOK
<1>2. UNCHANGED netVars => NetTypeOK' /\ Undisturbed
  BY <1>1 DEF NetTypeOK, Undisturbed, netVars
<1>3. CASE InitializeWinsock
  BY <1>2, <1>3, QuietStep DEF InitializeWinsock, MainPCs
<1>4. CASE StartServer
  <2>1. NetTypeOK' /\ Undisturbed
    BY <1>1, <1>4 DEF StartServer, NetTypeOK, Undisturbed
  <2> QED BY <1>4, <2>1, QuietStep DEF StartServer, MainPCs
<1>5. CASE \E c \in Conns : Accept(c)
  <2>1. PICK c \in Conns : Accept(c)
    BY <1>5
  <2> DEFINE r == [conn[c] EXCEPT !.link = "open", !.serverOpen = TRUE]
             t == [thread[c] EXCEPT !.pc = "spawned"]
  <2>2. /\ conn[c].link = "backlog" /\ UNCHANGED <<mpc, listening>>
        /\ conn' = [conn EXCEPT ![c] = r]
        /\ thread' = [thread EXCEPT ![c] = t]
    BY <1>1, <2>1 DEF Accept, ServerAccepts, Update
  <2>3. /\ r \in Connection /\ r.link = "open" /\ r.serverOpen = TRUE
    BY <1>1 DEF Connection, LinkStates
  <2>4. /\ t \in Thread /\ t.pc = "spawned" /\ t.sm = thread[c].sm
    BY <1>1 DEF Thread, HandlerPCs
  <2>5. thread[c].pc = "none" /\ thread[c].sm = "DISCONNECTED"
    BY <2>2 DEF ServerInv, HandlersFit, HandlerFits, StateOf
  <2>6. HandlerFits(t, r)
    BY <2>3, <2>4, <2>5 DEF HandlerFits, HoldsSocket, HandlerPCs, StateOf
  <2>7. HandlersFit'
    BY <1>1, <2>2, <2>6 DEF ServerInv, HandlersFit
  <2>8. NetTypeOK' /\ ServerTypeOK' /\ NoInvalidTransition'
    BY <2>2, <2>3, <2>4 DEF ServerInv, NetTypeOK, ServerTypeOK, NoInvalidTransition
  <2> QED BY <2>7, <2>8 DEF ServerInv
<1>6. CASE AcceptFails
  BY <1>2, <1>6, QuietStep DEF AcceptFails, MainPCs
<1>7. CASE Cleanup
  BY <1>1, <1>7, SocketsGone, QuietStep DEF Cleanup, MainPCs
<1>8. CASE Return
  BY <1>2, <1>8, QuietStep DEF Return, MainPCs
<1> QED BY <1>3, <1>4, <1>5, <1>6, <1>7, <1>8 DEF MainThread

\* The invariant holds before anything has happened.
LEMMA ServerInitially == NetInit /\ ServerInit => ServerInv
<1> SUFFICES ASSUME NetInit, ServerInit PROVE ServerInv
  OBVIOUS
<1>1. <<>> \in Seq(Cell) /\ <<>> \in Seq(Row)
  OBVIOUS
<1>2. Header("PKT_OTHER", 0) \in Cell
  BY CellTypes DEF PacketTypes
<1>3. NetTypeOK
  BY <1>1 DEF NetInit, NetTypeOK, Connection, LinkStates
<1>4. ServerTypeOK
  BY <1>1, <1>2 DEF ServerInit, ServerTypeOK, MainPCs, Thread, HandlerPCs, ServerState
<1>5. HandlersFit
  BY DEF NetInit, ServerInit, HandlersFit, HandlerFits, HoldsSocket, HandlerPCs, StateOf
<1>6. NoInvalidTransition
  BY DEF ServerInit, NoInvalidTransition
<1> QED BY <1>3, <1>4, <1>5, <1>6 DEF ServerInv

\* Rows that are not readings.
LEMMA OtherRows ==
    /\ ~IsReceived(<<"ERROR">>) /\ ~IsReceived(<<"CONNECT">>)
    /\ \A from, to \in ServerState : ~IsReceived(Transitioned(from, to))
BY DEF IsReceived, Transitioned

\* A handler's step that does not bring the process down touches its own
\* connection only.
LEMMA HandlerLocal ==
    ASSUME mpc' # "terminated", NEW c \in Conns, NEW d \in Conns, d # c,
           thread \in [Conns -> Thread], conn \in [Conns -> Connection], Handler(c)
    PROVE  thread'[d] = thread[d] /\ conn'[d] = conn[d]
<1>1. \A t : Become(c, t) => thread'[d] = thread[d] BY DEF Become
<1>2. \A q : Update(c, q) => conn'[d] = conn[d] BY DEF Update
<1>3. UNCHANGED netVars => conn'[d] = conn[d] BY DEF netVars
<1>4. \A place : Jump(c, place) => thread'[d] = thread[d] /\ conn'[d] = conn[d]
  BY <1>1, <1>3 DEF Jump
<1>5. \A row, place : LogRow(c, row, place) => thread'[d] = thread[d] /\ conn'[d] = conn[d]
  BY <1>1, <1>3 DEF LogRow
<1>6. \A next, complete, place :
        Transition(c, next, complete, place) => thread'[d] = thread[d] /\ conn'[d] = conn[d]
  BY <1>1, <1>3 DEF Transition
<1>7. ServerTakes(c) => conn'[d] = conn[d] BY <1>2 DEF ServerTakes
<1>8. \A cell : ServerSends(c, cell) => conn'[d] = conn[d] BY <1>2, <1>3 DEF ServerSends
<1>9. ServerCloses(c) => conn'[d] = conn[d]
  BY <1>2 DEF ServerCloses
<1>10. \A h, place : ReadHeader(c, h, place) => thread'[d] = thread[d] /\ conn'[d] = conn[d]
  BY <1>1, <1>7 DEF ReadHeader
<1>11. \A place : ReadPayload(c, place) => thread'[d] = thread[d] /\ conn'[d] = conn[d]
  BY <1>1, <1>7 DEF ReadPayload
<1>12. \A place : SendNext(c, place) => thread'[d] = thread[d] /\ conn'[d] = conn[d]
  BY <1>1, <1>3, <1>8 DEF SendNext
<1>13. CASE Authenticating(c)
  BY <1>1, <1>3, <1>4, <1>5, <1>6, <1>9, <1>10, <1>11, <1>12, <1>13
  DEF Authenticating, Begin, LogConnect, AuthHeader, AuthToken, AuthReadFails, CheckToken,
      SendAck, AuthFailed, AuthClose, AuthDisconnect, Authenticated, StartReceiving
<1>14. CASE Serving(c)
  BY <1>1, <1>3, <1>4, <1>5, <1>6, <1>9, <1>10, <1>11, <1>12, <1>14
  DEF Serving, NextHeader, HeaderFails, BeginTransfer, BuildDataset, SendDataset,
      EndTransfer, TelemetryPayload, PayloadFails, LogReceive, CheckFuelAlert,
      UnknownType, Drain, LogLost, LogDisconnect, Disconnect, Close
<1> QED BY <1>13, <1>14 DEF Handler

-----------------------------------------------------------------------------
(***************************************************************************)
(* Alerts and readings go together in the log of every handler.  That is   *)
(* not inductive: that the alert appended at place "alert" carries the     *)
(* fuel level of the reading before it follows only from knowing that this *)
(* reading is the one still in the handler's buffer.                       *)
(***************************************************************************)
\* AlertFollowsReading of one log; awaiting when its handler is at "alert".
Paired(log, awaiting) ==
    \A i \in DOMAIN log :
        /\ Low(log[i]) =>
              IF i = Len(log) THEN awaiting ELSE log[i + 1] = FuelAlert(log[i][2])
        /\ log[i][1] = "FUEL_ALERT" =>
              i > 1 /\ Low(log[i - 1]) /\ log[i - 1][2] = log[i][2]

\* At "alert" the row appended last is the reading in the buffer.
ReadingLast(t) ==
    t.pc = "alert" =>
        t.log # <<>> /\ t.log[Len(t.log)] = Received(DeserializedFuel(t.hdr.num, t.buf))

LogsFit ==
    \A c \in Conns :
        Paired(thread[c].log, thread[c].pc = "alert") /\ ReadingLast(thread[c])

\* Rows that are neither readings nor alerts.
OtherRow == {<<"CONNECT">>, <<"DISCONNECT">>, <<"ERROR">>}
                \cup ({"STATE_TRANSITION"} \X ServerState \X ServerState)

-----------------------------------------------------------------------------
(***************************************************************************)
(* Logs.                                                                   *)
(***************************************************************************)
\* What Append does, element by element.
LEMMA AppendElements ==
    ASSUME NEW log \in Seq(Row), NEW row \in Row
    PROVE  /\ Append(log, row) \in Seq(Row)
           /\ Len(Append(log, row)) = Len(log) + 1 /\ Len(log) \in Nat
           /\ DOMAIN Append(log, row) = 1..(Len(log) + 1) /\ DOMAIN log = 1..Len(log)
           /\ \A i \in 1..Len(log) : Append(log, row)[i] = log[i]
           /\ Append(log, row)[Len(log) + 1] = row
OBVIOUS

\* Rows of other kinds leave a log paired.
LEMMA AppendOther ==
    ASSUME NEW log \in Seq(Row), NEW row \in OtherRow, Paired(log, FALSE)
    PROVE  Paired(Append(log, row), FALSE)
<1>1. row \in Row /\ ~Low(row) /\ row[1] # "FUEL_ALERT"
  BY DEF OtherRow, Row, Low
<1>2. \A i \in 1..Len(log) : ~(Low(log[i]) /\ i = Len(log))
  BY DEF Paired
<1> QED BY <1>1, <1>2, AppendElements DEF Paired

\* A reading leaves it paired up to the alert it may call for.
LEMMA AppendReading ==
    ASSUME NEW log \in Seq(Row), NEW n \in Nat, Paired(log, FALSE)
    PROVE  Paired(Append(log, Received(n)), TRUE)
<1>1. Received(n) \in Row /\ Received(n)[1] # "FUEL_ALERT"
  BY RowTypes DEF Received
<1>2. \A i \in 1..Len(log) : ~(Low(log[i]) /\ i = Len(log))
  BY DEF Paired
<1> QED BY <1>1, <1>2, AppendElements DEF Paired

\* That alert completes the pair.
LEMMA AppendAlert ==
    ASSUME NEW log \in Seq(Row), NEW n \in Nat, Paired(log, TRUE), log # <<>>,
           log[Len(log)] = Received(n), n < FUEL_ALERT_THRESHOLD
    PROVE  Paired(Append(log, FuelAlert(n)), FALSE)
<1>1. /\ FuelAlert(n) \in Row /\ ~Low(FuelAlert(n))
      /\ FuelAlert(n)[1] = "FUEL_ALERT" /\ FuelAlert(n)[2] = n
  BY RowTypes DEF FuelAlert, Low
<1>2. Low(log[Len(log)]) /\ log[Len(log)][2] = n
  BY DEF Received, Low
<1>3. Len(log) \in Nat \ {0}
  BY EmptySeq
<1> QED BY <1>1, <1>2, <1>3, AppendElements DEF Paired

\* A reading that is not low calls for none.
LEMMA NoAlertDue ==
    ASSUME NEW log \in Seq(Row), NEW n \in Nat, Paired(log, TRUE), log # <<>>,
           log[Len(log)] = Received(n), ~(n < FUEL_ALERT_THRESHOLD)
    PROVE  Paired(log, FALSE)
<1>1. ~Low(log[Len(log)])
  BY DEF Received, Low
<1> QED BY <1>1 DEF Paired

-----------------------------------------------------------------------------
(***************************************************************************)
(* Steps.                                                                  *)
(***************************************************************************)
\* A step of one handler from and to places other than "alert" that appends
\* at most a row of another kind.
Plain(c) ==
    /\ \A d \in Conns \ {c} : thread'[d] = thread[d]
    /\ thread[c].pc # "alert" /\ thread'[c].pc # "alert"
    /\ \/ thread'[c].log = thread[c].log
       \/ \E row \in OtherRow : thread'[c].log = Append(thread[c].log, row)

\* Such a step keeps the logs fitting.
LEMMA PlainStep ==
    ASSUME ServerTypeOK, LogsFit, NEW c \in Conns, Plain(c) PROVE LogsFit'
<1>1. thread[c].log \in Seq(Row) /\ Paired(thread[c].log, FALSE)
  BY DEF ServerTypeOK, Thread, LogsFit, Plain
<1>2. Paired(thread'[c].log, FALSE)
  BY <1>1, AppendOther DEF Plain
<1>3. Paired(thread'[c].log, thread'[c].pc = "alert") /\ ReadingLast(thread'[c])
  BY <1>2 DEF Plain, ReadingLast
<1>4. ASSUME NEW d \in Conns \ {c}
      PROVE  Paired(thread'[d].log, thread'[d].pc = "alert") /\ ReadingLast(thread'[d])
  BY DEF Plain, LogsFit
<1> QED BY <1>3, <1>4 DEF LogsFit

\* The parts the handler's steps are made of are such steps, where they do
\* not come from or lead to "alert".
LEMMA PartsPlain ==
    ASSUME ServerTypeOK, NEW c \in Conns, thread[c].pc # "alert",
           NEW place \in HandlerPCs \ {"alert"}
    PROVE  /\ Jump(c, place) => Plain(c)
           /\ \A row \in OtherRow : LogRow(c, row, place) => Plain(c)
           /\ \A next \in ServerState, complete \in BOOLEAN :
                Transition(c, next, complete, place) => Plain(c)
           /\ \A h \in Cell : ReadHeader(c, h, place) => Plain(c)
           /\ ReadPayload(c, place) => Plain(c)
           /\ SendNext(c, place) => Plain(c)
<1>1. thread \in [Conns -> Thread] /\ thread[c] \in Thread /\ thread[c].sm \in ServerState
  BY DEF ServerTypeOK, Thread
<1>2. ASSUME NEW t, thread' = [thread EXCEPT ![c] = t], t.pc # "alert",
             \/ t.log = thread[c].log
             \/ \E row \in OtherRow : t.log = Append(thread[c].log, row)
      PROVE  Plain(c)
  BY <1>1, <1>2 DEF Plain
<1>3. Jump(c, place) => Plain(c)
  <2> DEFINE t == [thread[c] EXCEPT !.pc = place]
  <2>1. t.pc = place /\ t.log = thread[c].log
    BY <1>1 DEF Thread
  <2> QED BY <1>2, <2>1 DEF Jump, Become
<1>4. ASSUME NEW row \in OtherRow, LogRow(c, row, place) PROVE Plain(c)
  <2> DEFINE t == [thread[c] EXCEPT !.log = Append(@, row), !.pc = place]
  <2>1. t.pc = place /\ t.log = Append(thread[c].log, row)
    BY <1>1 DEF Thread
  <2> QED BY <1>2, <1>4, <2>1 DEF LogRow, Become
<1>5. ASSUME NEW next \in ServerState, NEW complete \in BOOLEAN,
             Transition(c, next, complete, place)
      PROVE  Plain(c)
  <2> DEFINE row == Transitioned(thread[c].sm, next)
             t == [thread[c] EXCEPT !.log = Append(@, row), !.sm = next, !.pc = place]
  <2>1. t.pc = place /\ t.log = Append(thread[c].log, row)
    BY <1>1 DEF Thread
  <2>2. row \in OtherRow
    BY <1>1 DEF OtherRow, Transitioned
  <2>3. CASE UNCHANGED thread
    BY <2>3 DEF Plain
  <2>4. CASE Become(c, t)
    BY <1>2, <2>1, <2>2, <2>4 DEF Become
  <2> QED BY <1>5, <2>3, <2>4 DEF Transition
<1>6. ASSUME NEW h \in Cell, ReadHeader(c, h, place) PROVE Plain(c)
  <2> DEFINE t == [thread[c] EXCEPT !.hdr = h, !.buf = <<>>, !.pc = place]
  <2>1. t.pc = place /\ t.log = thread[c].log
    BY <1>1 DEF Thread
  <2> QED BY <1>2, <1>6, <2>1 DEF ReadHeader, Become
<1>7. ReadPayload(c, place) => Plain(c)
  <2> DEFINE t == [thread[c] EXCEPT
                     !.buf = Append(@, Head(conn[c].up)),
                     !.pc = IF Len(thread[c].buf) + 1 = thread[c].hdr.num THEN place
                            ELSE thread[c].pc]
  <2>1. t.pc # "alert" /\ t.log = thread[c].log
    BY <1>1 DEF Thread
  <2>2. ReadPayload(c, place) => Become(c, t)
    BY <1>1 DEF ReadPayload, Thread
  <2> QED BY <1>2, <2>1, <2>2 DEF Become
<1>8. SendNext(c, place) => Plain(c)
  <2> DEFINE t == [thread[c] EXCEPT
                     !.out = Tail(@),
                     !.pc = IF Len(thread[c].out) = 1 THEN place ELSE thread[c].pc]
             u == [thread[c] EXCEPT !.out = <<>>, !.log = Append(@, <<"ERROR">>),
                                    !.pc = place]
  <2>1. t.pc # "alert" /\ t.log = thread[c].log
    BY <1>1 DEF Thread
  <2>2. u.pc = place /\ u.log = Append(thread[c].log, <<"ERROR">>) /\ <<"ERROR">> \in OtherRow
    BY <1>1 DEF Thread, OtherRow
  <2>3. SendNext(c, place) => Become(c, t) \/ Become(c, u)
    BY <1>1 DEF SendNext, Thread
  <2> QED BY <1>2, <2>1, <2>2, <2>3 DEF Become
<1> QED BY <1>3, <1>4, <1>5, <1>6, <1>7, <1>8

\* Every action of a handler but LogReceive and CheckFuelAlert is plain.
LEMMA ActionsPlain ==
    ASSUME ServerInv, NEW c \in Conns, Handler(c)
    PROVE  Plain(c) \/ LogReceive(c) \/ CheckFuelAlert(c)
<1> USE DEF At
<1>1. /\ ServerTypeOK /\ thread \in [Conns -> Thread] /\ thread[c] \in Thread
      /\ conn[c].up \in Seq(Cell)
  BY DEF ServerInv, ServerTypeOK, NetTypeOK, Connection
<1>2. {<<"CONNECT">>, <<"DISCONNECT">>, <<"ERROR">>} \subseteq OtherRow
  BY DEF OtherRow
<1>3. CASE \/ Begin(c) \/ AuthDisconnect(c) \/ Authenticated(c) \/ StartReceiving(c)
           \/ BeginTransfer(c) \/ EndTransfer(c) \/ Disconnect(c)
  BY <1>1, <1>3, PartsPlain
  DEF Begin, AuthDisconnect, Authenticated, StartReceiving, BeginTransfer, EndTransfer,
      Disconnect, ServerState, HandlerPCs
<1>4. CASE \/ LogConnect(c) \/ AuthFailed(c) \/ UnknownType(c) \/ LogLost(c)
           \/ LogDisconnect(c)
  BY <1>1, <1>2, <1>4, PartsPlain
  DEF LogConnect, AuthFailed, UnknownType, LogLost, LogDisconnect, HandlerPCs
<1>5. CASE AuthReadFails(c) \/ HeaderFails(c) \/ PayloadFails(c)
  BY <1>1, <1>5, PartsPlain DEF AuthReadFails, HeaderFails, PayloadFails, HandlerPCs
<1>6. CASE AuthHeader(c) \/ NextHeader(c)
  <2>1. PICK h \in HeadersIn(conn[c].up), place \in HandlerPCs \ {"alert"} :
          ReadHeader(c, h, place) /\ thread[c].pc # "alert"
    BY <1>6 DEF AuthHeader, NextHeader, PlaceAfter, PlaceAfterLogin, HandlerPCs
  <2> QED BY <1>1, <2>1, HeadersInCell, PartsPlain
<1>7. CASE AuthToken(c) \/ TelemetryPayload(c) \/ Drain(c)
  BY <1>1, <1>7, PartsPlain DEF AuthToken, TelemetryPayload, Drain, HandlerPCs
<1>8. CASE SendAck(c) \/ SendDataset(c)
  BY <1>1, <1>8, PartsPlain DEF SendAck, SendDataset, HandlerPCs
<1>9. CASE AuthClose(c) \/ Close(c)
  <2>1. PICK place \in HandlerPCs \ {"alert"} :
          thread[c].pc # "alert" /\ thread' = [thread EXCEPT ![c] = [thread[c] EXCEPT !.pc = place]]
    BY <1>9 DEF AuthClose, Close, Become, HandlerPCs
  <2> QED BY <1>1, <2>1 DEF Plain, Thread
<1>10. CASE BuildDataset(c)
  <2> DEFINE t == [thread[c] EXCEPT !.out = DataResponse, !.pc = "send_dataset"]
  <2>1. t.pc = "send_dataset" /\ t.log = thread[c].log
    BY <1>1 DEF Thread
  <2> QED BY <1>1, <1>10, <2>1 DEF BuildDataset, Become, Plain
<1>11. CASE CheckToken(c)
  <2> DEFINE ok == thread[c].buf = <<Bytes(AUTH_TOKEN)>>
             t == [thread[c] EXCEPT !.authOK = ok, !.out = AuthAck(ok), !.pc = "auth_ack"]
  <2>1. t.pc = "auth_ack" /\ t.log = thread[c].log
    BY <1>1 DEF Thread
  <2>2. thread[c].pc # "alert" /\ thread' = [thread EXCEPT ![c] = t]
    BY <1>11 DEF CheckToken, Become
  <2> HIDE DEF t
  <2> QED BY <1>1, <2>1, <2>2 DEF Plain
<1> QED
  BY <1>3, <1>4, <1>5, <1>6, <1>7, <1>8, <1>9, <1>10, <1>11
  DEF Handler, Authenticating, Serving

\* The handler's steps keep the logs fitting.
LEMMA HandlerKeepsLogs ==
    ASSUME ServerInv, LogsFit, NEW c \in Conns, Handler(c) PROVE LogsFit'
<1> DEFINE fuel == PacketFuel(c)
           log == thread[c].log
<1>1. /\ ServerTypeOK /\ thread \in [Conns -> Thread] /\ thread[c] \in Thread
      /\ log \in Seq(Row) /\ HandlerFits(thread[c], conn[c])
      /\ Paired(log, thread[c].pc = "alert") /\ ReadingLast(thread[c])
  BY DEF ServerInv, ServerTypeOK, HandlersFit, Thread, LogsFit
<1>2. CASE Plain(c)
  BY <1>1, <1>2, PlainStep
<1>3. CASE LogReceive(c)
  <2> DEFINE t == [thread[c] EXCEPT !.log = Append(@, Received(fuel)), !.pc = "alert"]
  <2>1. thread[c].pc = "log_receive" /\ thread' = [thread EXCEPT ![c] = t]
    BY <1>3 DEF LogReceive, LogRow, Become, At
  <2>2. fuel \in Nat
    BY <1>1, <2>1, PacketFuelType
  <2>3. /\ t.pc = "alert" /\ t.log = Append(log, Received(fuel))
        /\ t.hdr = thread[c].hdr /\ t.buf = thread[c].buf
    BY <1>1 DEF Thread
  <2>4. Paired(t.log, t.pc = "alert")
    <3>1. Paired(log, FALSE)
      BY <1>1, <2>1
    <3>2. Paired(t.log, TRUE)
      BY <1>1, <2>2, <2>3, <3>1, AppendReading
    <3> QED BY <2>3, <3>2
  <2>5. ReadingLast(t)
    <3>1. Received(fuel) \in Row
      BY <2>2, RowTypes
    <3>2. /\ t.log \in Seq(Row) /\ Len(t.log) = Len(log) + 1 /\ Len(log) \in Nat
          /\ t.log[Len(log) + 1] = Received(fuel)
      BY <1>1, <2>3, <3>1, AppendElements
    <3>3. t.log # <<>>
      BY <3>2, EmptySeq
    <3> QED BY <2>3, <3>2, <3>3 DEF ReadingLast, PacketFuel
  <2> QED BY <1>1, <2>1, <2>4, <2>5 DEF LogsFit
<1>4. CASE CheckFuelAlert(c)
  <2>1. thread[c].pc = "alert"
    BY <1>4 DEF CheckFuelAlert, At
  <2>2. fuel \in Nat
    BY <1>1, <2>1, PacketFuelType
  <2>3. /\ log # <<>> /\ log[Len(log)] = Received(fuel) /\ Paired(log, TRUE)
    BY <1>1, <2>1 DEF ReadingLast, PacketFuel
  <2>4. CASE fuel < FUEL_ALERT_THRESHOLD /\ LogRow(c, FuelAlert(fuel), "header")
    <3> DEFINE t == [thread[c] EXCEPT !.log = Append(@, FuelAlert(fuel)), !.pc = "header"]
    <3>1. t.pc = "header" /\ t.log = Append(log, FuelAlert(fuel))
      BY <1>1 DEF Thread
    <3>2. Paired(t.log, FALSE)
      BY <1>1, <2>2, <2>3, <2>4, <3>1, AppendAlert
    <3>3. Paired(t.log, t.pc = "alert") /\ ReadingLast(t)
      BY <3>1, <3>2 DEF ReadingLast
    <3> QED BY <1>1, <2>4, <3>3 DEF LogRow, Become, LogsFit
  <2>5. CASE fuel >= FUEL_ALERT_THRESHOLD /\ Jump(c, "header")
    <3> DEFINE t == [thread[c] EXCEPT !.pc = "header"]
    <3>1. t.pc = "header" /\ t.log = log
      BY <1>1 DEF Thread
    <3>2. Paired(log, FALSE)
      <4>1. ~(fuel < FUEL_ALERT_THRESHOLD)
        BY <2>2, <2>5, ServerAssumption
      <4> HIDE DEF fuel, log
      <4> QED BY <1>1, <2>2, <2>3, <4>1, NoAlertDue
    <3>3. Paired(t.log, t.pc = "alert") /\ ReadingLast(t)
      BY <3>1, <3>2 DEF ReadingLast
    <3> QED BY <1>1, <2>5, <3>3 DEF Jump, Become, LogsFit
  <2> QED BY <1>4, <2>4, <2>5 DEF CheckFuelAlert
<1> QED BY <1>2, <1>3, <1>4, ActionsPlain

\* So do the steps of the main thread: a connection it accepts is fresh.
LEMMA MainKeepsLogs ==
    ASSUME ServerInv, LogsFit, MainThread PROVE LogsFit'
<1>1. CASE UNCHANGED thread
  BY <1>1 DEF LogsFit
<1>2. CASE \E c \in Conns : Accept(c)
  <2>1. PICK c \in Conns : Accept(c)
    BY <1>2
  <2>2. ServerTypeOK /\ thread[c] \in Thread /\ thread[c].pc = "none"
    BY <2>1 DEF ServerInv, ServerTypeOK, HandlersFit, HandlerFits, Accept, ServerAccepts
  <2>3. Plain(c)
    BY <2>1, <2>2 DEF Accept, Plain, ServerTypeOK, Thread
  <2> QED BY <2>2, <2>3, PlainStep
<1> QED
  BY <1>1, <1>2
  DEF MainThread, InitializeWinsock, StartServer, AcceptFails, Cleanup, Return

-----------------------------------------------------------------------------
(***************************************************************************)
(* What a step of the server touches on the network: one operation on the  *)
(* handler's own connection, or the end of all of them.                    *)
(***************************************************************************)
OnOwnConnection(c) ==
    \/ UNCHANGED netVars
    \/ \E cell \in Cell : ServerSends(c, cell) \/ ServerTakes(c) \/ ServerCloses(c)

LEMMA PartsOnOwnConnection ==
    ASSUME ServerInv, NEW c \in Conns
    PROVE  /\ \A place : Jump(c, place) => OnOwnConnection(c)
           /\ \A row, place : LogRow(c, row, place) => OnOwnConnection(c)
           /\ \A next, complete, place :
                Transition(c, next, complete, place) => OnOwnConnection(c) \/ ServerSocketsGone
           /\ \A h, place : ReadHeader(c, h, place) => OnOwnConnection(c)
           /\ \A place : ReadPayload(c, place) => OnOwnConnection(c)
           /\ \A place : thread[c].pc \in {"auth_ack", "send_dataset"} /\ SendNext(c, place)
                           => OnOwnConnection(c)
           /\ ServerCloses(c) => OnOwnConnection(c)
<1>1. Bytes("OK") \in Cell BY CellTypes DEF Texts
<1>2. ASSUME thread[c].pc \in {"auth_ack", "send_dataset"} PROVE Head(thread[c].out) \in Cell
  <2>1. thread[c].out \in Seq(Cell) /\ thread[c].out # <<>>
    BY <1>2 DEF ServerInv, ServerTypeOK, HandlersFit, HandlerFits, Thread
  <2> QED BY <2>1, HeadTailProperties
<1>3. /\ \A place : Jump(c, place) => OnOwnConnection(c)
      /\ \A row, place : LogRow(c, row, place) => OnOwnConnection(c)
      /\ \A next, complete, place :
           Transition(c, next, complete, place) => OnOwnConnection(c) \/ ServerSocketsGone
  BY DEF Jump, LogRow, Transition, OnOwnConnection
<1>4. /\ \A h, place : ReadHeader(c, h, place) => OnOwnConnection(c)
      /\ \A place : ReadPayload(c, place) => OnOwnConnection(c)
  BY <1>1 DEF ReadHeader, ReadPayload, OnOwnConnection
<1>5. \A place : thread[c].pc \in {"auth_ack", "send_dataset"} /\ SendNext(c, place)
                           => OnOwnConnection(c)
  BY <1>2 DEF SendNext, OnOwnConnection
<1>6. ServerCloses(c) => OnOwnConnection(c)
  BY <1>1 DEF OnOwnConnection
<1> QED BY <1>3, <1>4, <1>5, <1>6

LEMMA HandlerOnOwnConnection ==
    ASSUME ServerInv, NEW c \in Conns, Handler(c)
    PROVE  OnOwnConnection(c) \/ ServerSocketsGone
<1>1. CASE Authenticating(c)
  BY <1>1, PartsOnOwnConnection
  DEF Authenticating, Begin, LogConnect, AuthHeader, AuthToken, AuthReadFails, CheckToken,
      SendAck, AuthFailed, AuthClose, AuthDisconnect, Authenticated, StartReceiving, At,
      OnOwnConnection
<1>2. CASE Serving(c)
  BY <1>2, PartsOnOwnConnection
  DEF Serving, NextHeader, HeaderFails, BeginTransfer, BuildDataset, SendDataset,
      EndTransfer, TelemetryPayload, PayloadFails, LogReceive, CheckFuelAlert,
      UnknownType, Drain, LogLost, LogDisconnect, Disconnect, Close, At, OnOwnConnection
<1> QED BY <1>1, <1>2 DEF Handler

-----------------------------------------------------------------------------
(***************************************************************************)
(* The log tells the truth: what a handler has logged are the readings     *)
(* among the frames it has read to the end.  The invariant that says so    *)
(* finds the frame the handler is in: the cells of it that it has read,    *)
(* what is under way and what the sender still holds back spell that frame *)
(* and all those behind it.  Nothing is said here of who sends: frames s,  *)
(* of which the cells p are still to be handed over.                       *)
(***************************************************************************)
\* Places of a handler up to the last read of a token.
Before  == {"none", "spawned", "log_connect", "auth_header", "auth_token"}

\* The frames are such as the repository's client sends: data requests come
\* without a payload (the handler would leave it in the stream), telemetry
\* with one (a bare telemetry header is logged as a reading of 0), and no
\* payload is too long for recvAll (it would stay in the stream, too).
ClientLike(s) ==
    \A i \in 1..Len(s) :
        /\ IsRequest(s[i]) => Len(s[i]) = 1
        /\ s[i][1].text = "PKT_TELEMETRY" => Len(s[i]) > TelemetrySize
        /\ s[i][1].num <= INT_MAX

\* The parts of the server's state, typed.
LEMMA HandlerParts ==
    ASSUME ServerInv, NEW c \in Conns
    PROVE  /\ thread[c] \in Thread /\ conn[c] \in Connection
           /\ thread[c].log \in Seq(Row) /\ thread[c].buf \in Seq(Cell)
           /\ thread[c].out \in Seq(Cell) /\ thread[c].hdr \in Cell
           /\ conn[c].up \in Seq(Cell) /\ conn[c].down \in Seq(Cell)
           /\ HandlerFits(thread[c], conn[c])
           /\ thread \in [Conns -> Thread] /\ conn \in [Conns -> Connection]
BY DEF ServerInv, ServerTypeOK, NetTypeOK, HandlersFit, Thread, Connection

\* The fuel levels in a sequence of frames and in a log.
ReadingsOf(s) ==
    LET readings == Selected(s, {i \in DOMAIN s : IsReading(s[i])})
    IN [k \in DOMAIN readings |-> readings[k][2].num]

ReadingsIn(log) ==
    LET rows == Selected(log, {i \in DOMAIN log : IsReceived(log[i])})
    IN [k \in DOMAIN rows |-> rows[k][2]]

RequestsOf(s) == Cardinality({i \in DOMAIN s : IsRequest(s[i])})

\* Transfers begun, by the rows of the log.
IsTransfer(row) == row = Transitioned("DATA_RECEIVING", "DATA_TRANSFER")

TransfersIn(log) == Cardinality({i \in DOMAIN log : IsTransfer(log[i])})

\* Places from which the handler may read on.
Listening == HandlerPCs \ {"auth_failed", "auth_close", "auth_disconnect", "log_lost",
                           "log_disconnect", "disconnect", "close", "done"}

\* What the handler has read of the frame it is in.
Held(t) ==
    IF t.pc \in {"auth_token", "unknown", "drain", "payload"} THEN <<t.hdr>> \o t.buf ELSE <<>>

\* Nothing that is missing will be missing for ever.
Flowing(r, p) ==
    \/ r.link \in {"none", "backlog"}
    \/ r.link = "open" /\ r.serverOpen /\ (r.clientOpen \/ r.up # <<>> \/ p = <<>>)

\* The readings logged, and the one about to be.
Due(t) ==
    IF t.pc = "log_receive" THEN Append(ReadingsIn(t.log), DeserializedFuel(t.hdr.num, t.buf))
    ELSE ReadingsIn(t.log)

\* The transfers begun, and the one about to be.
Asked(t) == TransfersIn(t.log) + (IF t.pc = "transfer" THEN 1 ELSE 0)

\* The type of the packet the handler is in is the one its place is for, and
\* one it is about to read away is not too long.
TypeFits(t) ==
    /\ t.pc \in {"auth_token", "check_token"} => t.hdr.text = "PKT_AUTH_REQUEST"
    /\ t.pc = "payload" => t.hdr.text = "PKT_TELEMETRY"
    /\ t.pc \in {"unknown", "drain"} =>
          t.hdr.text \notin {"PKT_TELEMETRY", "PKT_DATA_REQUEST"}
    /\ t.pc = "unknown" => t.hdr.num <= INT_MAX

\* Handler t on connection r has read k of the frames s, whose cells p have
\* not left the peer.
Tracked(t, r, p, s, k, F) ==
    /\ p # <<>> => k < Len(s)
    /\ r.link = "none" => s = <<>> /\ p = <<>> /\ ~r.clientOpen
    /\ t.pc \in Listening /\ Flowing(r, p) => Held(t) \o (r.up \o p) = F[k]
    /\ Due(t) = ReadingsOf(SubSeq(s, 1, k))
    /\ Asked(t) = RequestsOf(SubSeq(s, 1, k))
    /\ t.pc \in Before => k = 0
    /\ t.pc = "check_token" => k > 0 /\ s[1] = <<t.hdr>> \o t.buf
    /\ t.pc = "log_receive" => k > 0 /\ ~IsRequest(s[k])
    /\ TypeFits(t)

Track(t, r, p, s) ==
    \E k \in 0..Len(s) : \E F \in [0..Len(s) -> Seq(Cell)] :
        Unrolls(F, s) /\ Tracked(t, r, p, s, k, F)

-----------------------------------------------------------------------------
(***************************************************************************)
(* Readings, requests and rows, one more.                                  *)
(***************************************************************************)
\* A frame adds its fuel level to the readings, or nothing.
LEMMA ReadingsAppend ==
    ASSUME NEW s \in Seq(WholeFrames), NEW f \in WholeFrames
    PROVE  /\ IsReading(f) => ReadingsOf(Append(s, f)) = Append(ReadingsOf(s), f[2].num)
           /\ ~IsReading(f) => ReadingsOf(Append(s, f)) = ReadingsOf(s)
<1> DEFINE T == {x[2].num : x \in WholeFrames}
           g == [x \in WholeFrames |-> x[2].num]
           I == {i \in DOMAIN s : IsReading(s[i])}
           t == Append(s, f)
           J == {i \in DOMAIN t : IsReading(t[i])}
<1>1. /\ Len(s) \in Nat /\ DOMAIN s = 1..Len(s) /\ DOMAIN t = 1..(Len(s) + 1)
      /\ t \in Seq(WholeFrames) /\ Len(t) = Len(s) + 1 /\ t[Len(s) + 1] = f
      /\ \A i \in 1..Len(s) : t[i] = s[i]
  BY AppendProperties, LenProperties
<1>2. g \in [WholeFrames -> T] OBVIOUS
<1>3. I \in SUBSET (1..Len(s)) BY <1>1
<1> HIDE DEF t
<1>4. J = IF IsReading(f) THEN I \cup {Len(s) + 1} ELSE I BY <1>1
<1>5. J \in SUBSET (1..Len(t)) BY <1>1
<1> HIDE DEF I, J, T, g
<1>6. /\ Selected(t, I) = Selected(s, I)
      /\ Selected(t, I \cup {Len(s) + 1}) = Append(Selected(s, I), f)
  BY <1>3, SelectedAppend DEF t
<1>7. Selected(s, I) \in Seq(WholeFrames) /\ Selected(t, J) \in Seq(WholeFrames)
  BY <1>1, <1>3, <1>5, SelectedType
<1>8. \A u \in Seq(WholeFrames) : [k \in DOMAIN u |-> u[k][2].num] = Mapped(g, u)
  BY LenProperties, ElementOfSeq DEF Mapped, g
<1>9. ReadingsOf(s) = Mapped(g, Selected(s, I)) BY <1>7, <1>8 DEF ReadingsOf, I
<1>10. ReadingsOf(t) = Mapped(g, Selected(t, J)) BY <1>7, <1>8 DEF ReadingsOf, J
<1>11. Mapped(g, Append(Selected(s, I), f)) = Append(Mapped(g, Selected(s, I)), g[f])
  BY <1>2, <1>7, MappedAppend
<1>12. g[f] = f[2].num BY DEF g
<1> QED BY <1>4, <1>6, <1>9, <1>10, <1>11, <1>12 DEF t

\* So does a row to those logged.
LEMMA RowAppend ==
    ASSUME NEW log \in Seq(Row), NEW row \in Row
    PROVE  /\ IsReceived(row) => ReadingsIn(Append(log, row)) = Append(ReadingsIn(log), row[2])
           /\ ~IsReceived(row) => ReadingsIn(Append(log, row)) = ReadingsIn(log)
<1> DEFINE T == {x[2] : x \in Row}
           g == [x \in Row |-> x[2]]
           I == {i \in DOMAIN log : IsReceived(log[i])}
           t == Append(log, row)
           J == {i \in DOMAIN t : IsReceived(t[i])}
<1>1. /\ Len(log) \in Nat /\ DOMAIN log = 1..Len(log) /\ DOMAIN t = 1..(Len(log) + 1)
      /\ t \in Seq(Row) /\ Len(t) = Len(log) + 1 /\ t[Len(log) + 1] = row
      /\ \A i \in 1..Len(log) : t[i] = log[i]
  BY AppendProperties, LenProperties
<1>2. g \in [Row -> T] OBVIOUS
<1>3. I \in SUBSET (1..Len(log)) BY <1>1
<1> HIDE DEF t
<1>4. J = IF IsReceived(row) THEN I \cup {Len(log) + 1} ELSE I BY <1>1
<1>5. J \in SUBSET (1..Len(t)) BY <1>1
<1> HIDE DEF I, J, T, g
<1>6. /\ Selected(t, I) = Selected(log, I)
      /\ Selected(t, I \cup {Len(log) + 1}) = Append(Selected(log, I), row)
  BY <1>3, SelectedAppend DEF t
<1>7. Selected(log, I) \in Seq(Row) /\ Selected(t, J) \in Seq(Row)
  BY <1>1, <1>3, <1>5, SelectedType
<1>8. \A u \in Seq(Row) : [k \in DOMAIN u |-> u[k][2]] = Mapped(g, u)
  BY LenProperties, ElementOfSeq DEF Mapped, g
<1>9. ReadingsIn(log) = Mapped(g, Selected(log, I)) BY <1>7, <1>8 DEF ReadingsIn, I
<1>10. ReadingsIn(t) = Mapped(g, Selected(t, J)) BY <1>7, <1>8 DEF ReadingsIn, J
<1>11. Mapped(g, Append(Selected(log, I), row)) = Append(Mapped(g, Selected(log, I)), g[row])
  BY <1>2, <1>7, MappedAppend
<1>12. g[row] = row[2] BY DEF g
<1> QED BY <1>4, <1>6, <1>9, <1>10, <1>11, <1>12 DEF t

\* A frame is one request more, or none.
LEMMA RequestsAppend ==
    ASSUME NEW s \in Seq(WholeFrames), NEW f \in WholeFrames
    PROVE  /\ RequestsOf(s) \in Nat
           /\ IsRequest(f) => RequestsOf(Append(s, f)) = RequestsOf(s) + 1
           /\ ~IsRequest(f) => RequestsOf(Append(s, f)) = RequestsOf(s)
<1> DEFINE I == {i \in DOMAIN s : IsRequest(s[i])}
           t == Append(s, f)
           J == {i \in DOMAIN t : IsRequest(t[i])}
<1>1. /\ Len(s) \in Nat /\ DOMAIN s = 1..Len(s) /\ DOMAIN t = 1..(Len(s) + 1)
      /\ t[Len(s) + 1] = f /\ \A i \in 1..Len(s) : t[i] = s[i]
  BY AppendProperties, LenProperties
<1> HIDE DEF t
<1>2. J = IF IsRequest(f) THEN I \cup {Len(s) + 1} ELSE I BY <1>1
<1>3. Len(s) + 1 \notin I /\ I \in SUBSET (1..Len(s)) BY <1>1
<1> HIDE DEF I, J
<1>4. IsFiniteSet(I) /\ Cardinality(I) \in Nat
  <2>1. IsFiniteSet(1..Len(s)) BY <1>1, FS_Interval
  <2> QED BY <1>3, <2>1, FS_Subset, FS_CardinalityType
<1>5. Cardinality(I \cup {Len(s) + 1}) = Cardinality(I) + 1 BY <1>3, <1>4, FS_AddElement
<1> QED BY <1>2, <1>4, <1>5 DEF RequestsOf, I, J, t

\* A row is one transfer more, or none.
LEMMA TransfersAppend ==
    ASSUME NEW log \in Seq(Row), NEW row \in Row
    PROVE  /\ TransfersIn(log) \in Nat
           /\ IsTransfer(row) => TransfersIn(Append(log, row)) = TransfersIn(log) + 1
           /\ ~IsTransfer(row) => TransfersIn(Append(log, row)) = TransfersIn(log)
<1> DEFINE I == {i \in DOMAIN log : IsTransfer(log[i])}
           t == Append(log, row)
           J == {i \in DOMAIN t : IsTransfer(t[i])}
<1>1. /\ Len(log) \in Nat /\ DOMAIN log = 1..Len(log) /\ DOMAIN t = 1..(Len(log) + 1)
      /\ t[Len(log) + 1] = row /\ \A i \in 1..Len(log) : t[i] = log[i]
  BY AppendProperties, LenProperties
<1> HIDE DEF t
<1>2. J = IF IsTransfer(row) THEN I \cup {Len(log) + 1} ELSE I BY <1>1
<1>3. Len(log) + 1 \notin I /\ I \in SUBSET (1..Len(log)) BY <1>1
<1> HIDE DEF I, J
<1>4. IsFiniteSet(I) /\ Cardinality(I) \in Nat
  <2>1. IsFiniteSet(1..Len(log)) BY <1>1, FS_Interval
  <2> QED BY <1>3, <2>1, FS_Subset, FS_CardinalityType
<1>5. Cardinality(I \cup {Len(log) + 1}) = Cardinality(I) + 1 BY <1>3, <1>4, FS_AddElement
<1> QED BY <1>2, <1>4, <1>5 DEF TransfersIn, I, J, t
\* A member of a sequence of frames is a frame.
LEMMA FrameMembers ==
    \A s \in Seq(WholeFrames) : \A i \in 1..Len(s) : s[i] \in WholeFrames
BY ElementOfSeq

\* What the first k frames report is what all of them report, or begins it.
LEMMA ReadingsPrefix ==
    ASSUME NEW s \in Seq(WholeFrames), NEW n \in 0..Len(s), NEW k \in 0..n
    PROVE  /\ Prefix(ReadingsOf(SubSeq(s, 1, k)), ReadingsOf(SubSeq(s, 1, n)))
           /\ Len(ReadingsOf(SubSeq(s, 1, n))) \in Nat
<1> DEFINE u == SubSeq(s, 1, k)
           v == SubSeq(s, 1, n)
           I == {i \in DOMAIN u : IsReading(u[i])}
           J == {i \in DOMAIN v : IsReading(v[i])}
<1>1. /\ k \in 0..Len(s) /\ k \in Nat /\ n \in Nat /\ k <= n
      /\ \A i \in Nat : i \in 1..k <=> i \in 1..n /\ i <= k
  <2>1. Len(s) \in Nat BY LenProperties
  <2> QED BY <2>1
<1>2. u \in Seq(WholeFrames) /\ Len(u) = k /\ DOMAIN u = 1..k /\ \A i \in 1..k : u[i] = s[i]
  BY <1>1, FirstOnes, LenProperties
<1>3. v \in Seq(WholeFrames) /\ Len(v) = n /\ DOMAIN v = 1..n /\ \A i \in 1..n : v[i] = s[i]
  BY <1>1, FirstOnes, LenProperties
<1> HIDE DEF u, v
<1>4. I \in SUBSET (1..Len(u)) /\ J \in SUBSET (1..Len(v)) BY <1>2, <1>3
<1>5. \A i \in Nat : i \in 1..k => u[i] = v[i] BY <1>1, <1>2, <1>3
<1>6. I = UpTo(J, k) BY <1>1, <1>2, <1>3, <1>5 DEF UpTo
<1> HIDE DEF I, J
<1>7. /\ Cardinality(I) \in Nat /\ Len(Selected(u, I)) = Cardinality(I)
      /\ Selected(u, I) \in Seq(WholeFrames)
      /\ \A m \in 1..Cardinality(I) : Nth(I, m) \in 1..k /\ Selected(u, I)[m] = u[Nth(I, m)]
  BY <1>2, <1>4, SelectedType
<1>8. /\ Cardinality(J) \in Nat /\ Len(Selected(v, J)) = Cardinality(J) /\ IsFiniteSet(J)
      /\ Selected(v, J) \in Seq(WholeFrames)
      /\ \A m \in 1..Cardinality(J) : Selected(v, J)[m] = v[Nth(J, m)]
  BY <1>3, <1>4, SelectedType
<1>9. /\ Cardinality(I) <= Cardinality(J)
      /\ \A m \in 1..Cardinality(I) : Nth(J, m) = Nth(I, m)
  <2>1. J \subseteq Nat BY <1>3, <1>4
  <2>2. LET K == UpTo(J, k) IN
          /\ IsFiniteSet(K) /\ K \subseteq Nat
          /\ Cardinality(K) \in Nat /\ Cardinality(K) <= Cardinality(J)
          /\ \A m \in 1..Cardinality(K) : Nth(J, m) = Nth(K, m)
    BY <1>1, <1>8, <2>1, NthUpTo
  <2> QED BY <1>6, <2>2
<1>10. ASSUME NEW m \in 1..Cardinality(I) PROVE Selected(u, I)[m] = Selected(v, J)[m]
  <2>1. m \in 1..Cardinality(J) BY <1>7, <1>8, <1>9
  <2>2. Nth(I, m) \in 1..k BY <1>7
  <2>3. u[Nth(I, m)] = v[Nth(I, m)] BY <1>1, <1>5, <2>2
  <2> QED BY <1>7, <1>8, <1>9, <2>1, <2>3
<1> DEFINE a == ReadingsOf(u)
           b == ReadingsOf(v)
           p == Selected(u, I)
           q == Selected(v, J)
<1>11. a = [m \in 1..Cardinality(I) |-> p[m][2].num]
  BY <1>7, LenProperties DEF ReadingsOf, I
<1>12. b = [m \in 1..Cardinality(J) |-> q[m][2].num]
  BY <1>8, LenProperties DEF ReadingsOf, J
<1> HIDE DEF p, q
<1>13. Len(a) = Cardinality(I) /\ \A m \in 1..Cardinality(I) : a[m] = p[m][2].num
  BY <1>7, <1>11
<1>14. Len(b) = Cardinality(J) /\ \A m \in 1..Cardinality(J) : b[m] = q[m][2].num
  BY <1>8, <1>12
<1> HIDE DEF a, b
<1>15. Prefix(a, b)
  <2>1. \A m \in 1..Cardinality(I) : m \in 1..Cardinality(J) BY <1>7, <1>8, <1>9
  <2>2. \A m \in 1..Cardinality(I) : a[m] = b[m] BY <1>10, <1>13, <1>14, <2>1 DEF p, q
  <2> QED BY <1>9, <1>13, <1>14, <2>2 DEF Prefix
<1> QED BY <1>8, <1>14, <1>15 DEF a, b, u, v

-----------------------------------------------------------------------------
(***************************************************************************)
(* What steps do to the place in the frames.                               *)
(***************************************************************************)
TrackAt(c, p, s) == Track(thread[c], conn[c], p, s)

\* After a step of the server.
TracksOn(c, p, s) == Track(thread'[c], conn'[c], p, s)

\* What the record of connection q has lost of r's is not missed: nothing
\* under way, or nothing will come of it.
Alike(r, q, p) ==
    /\ q.link = "none" => r.link = "none" /\ ~q.clientOpen
    /\ Flowing(q, p) => Flowing(r, p) /\ q.up = r.up

\* A step that reads nothing of the stream.
LEMMA TrackAlike ==
    ASSUME NEW t, NEW u, NEW r, NEW q, NEW p, NEW s, Track(t, r, p, s),
           Due(u) = Due(t), Asked(u) = Asked(t),
           u.pc \in Before => t.pc \in Before,
           u.pc = "check_token" => t.pc = "check_token" /\ u.hdr = t.hdr /\ u.buf = t.buf,
           u.pc = "log_receive" => t.pc = "log_receive",
           TypeFits(u),
           q.link = "none" => r.link = "none" /\ ~q.clientOpen,
           u.pc \in Listening /\ Flowing(q, p) =>
              t.pc \in Listening /\ Flowing(r, p) /\ q.up = r.up /\ Held(u) = Held(t)
    PROVE  Track(u, q, p, s)
<1>1. PICK k \in 0..Len(s), F \in [0..Len(s) -> Seq(Cell)] :
        Unrolls(F, s) /\ Tracked(t, r, p, s, k, F)
  BY DEF Track
<1>2. Tracked(u, q, p, s, k, F) BY <1>1 DEF Tracked
<1> QED BY <1>1, <1>2 DEF Track

\* A step of the connection.
LEMMA TrackLink ==
    ASSUME NEW t, NEW r, NEW q, NEW p, NEW s, Track(t, r, p, s), Alike(r, q, p)
    PROVE  Track(t, q, p, s)
<1>1. TypeFits(t) BY DEF Track, Tracked
<1> QED BY <1>1, TrackAlike DEF Alike

\* A row that is neither a reading nor a transfer.
NoRecord(row) == ~IsReceived(row) /\ ~IsTransfer(row)

\* A handler's step that reads nothing and logs no such row.
LEMMA QuietTracked ==
    ASSUME NEW t \in Thread, NEW u, NEW r, NEW q, NEW p, NEW s, Track(t, r, p, s),
           u.hdr = t.hdr, u.buf = t.buf,
           u.log = t.log \/ \E row \in Row : NoRecord(row) /\ u.log = Append(t.log, row),
           t.pc \notin {"log_receive", "transfer"},
           u.pc \notin {"log_receive", "transfer", "check_token"},
           u.pc \in Before => t.pc \in Before,
           TypeFits(u),
           q.link = "none" => r.link = "none" /\ ~q.clientOpen,
           u.pc \in Listening /\ Flowing(q, p) =>
              t.pc \in Listening /\ Flowing(r, p) /\ q.up = r.up /\ Held(u) = Held(t)
    PROVE  Track(u, q, p, s)
<1>1. t.log \in Seq(Row) BY DEF Thread
<1>2. ReadingsIn(u.log) = ReadingsIn(t.log) /\ TransfersIn(u.log) = TransfersIn(t.log)
  BY <1>1, RowAppend, TransfersAppend DEF NoRecord
<1>3. Due(u) = Due(t) /\ Asked(u) = Asked(t) BY <1>2 DEF Due, Asked
<1> QED BY <1>3, TrackAlike

\* A frame read to the end: a is what the handler has had of it.
LEMMA FrameRead ==
    ASSUME NEW t, NEW u, NEW r, NEW q, NEW p \in Seq(Cell), NEW s \in Seq(WholeFrames),
           NEW k \in 0..Len(s), NEW F \in [0..Len(s) -> Seq(Cell)], Unrolls(F, s),
           Tracked(t, r, p, s, k, F),
           NEW a \in Seq(Cell), a # <<>>, Len(a) = a[1].num + 1,
           q.up \in Seq(Cell), a \o (q.up \o p) = F[k], q.link # "none",
           Held(u) = <<>>, u.pc \notin Before, TypeFits(u),
           IsReading(a) => Due(u) = Append(Due(t), a[2].num),
           ~IsReading(a) => Due(u) = Due(t),
           IsRequest(a) => Asked(u) = Asked(t) + 1,
           ~IsRequest(a) => Asked(u) = Asked(t),
           u.pc = "check_token" => t.pc \in Before /\ a = <<u.hdr>> \o u.buf,
           u.pc = "log_receive" => ~IsRequest(a)
    PROVE  Track(u, q, p, s)
<1>1. q.up \o p \in Seq(Cell) BY ConcatProperties
<1>2. k < Len(s) /\ k + 1 \in 1..Len(s) /\ a = s[k + 1] /\ q.up \o p = F[k + 1]
  <2> DEFINE b == q.up \o p
  <2>1. /\ a \in Seq(Cell) /\ a # <<>> /\ Len(a) = a[1].num + 1
        /\ b \in Seq(Cell) /\ a \o b = F[k]
    BY <1>1
  <2> HIDE DEF b
  <2>2. s \in Seq(WholeFrames) /\ Unrolls(F, s) /\ k \in 0..Len(s) BY FrameMembers
  <2>3. k < Len(s) /\ k + 1 \in 1..Len(s) /\ a = s[k + 1] /\ b = F[k + 1]
    <3>1. \A G : Unrolls(G, s) => \A j \in 0..Len(s) :
            \A x, y \in Seq(Cell) : x # <<>> /\ x \o y = G[j] /\ Len(x) = x[1].num + 1 =>
               j < Len(s) /\ j + 1 \in 1..Len(s) /\ x = s[j + 1] /\ y = G[j + 1]
      BY ONLY <2>2, UnrollsFrame, Zenon
    <3>2. \A x, y \in Seq(Cell) : x # <<>> /\ x \o y = F[k] /\ Len(x) = x[1].num + 1 =>
             k < Len(s) /\ k + 1 \in 1..Len(s) /\ x = s[k + 1] /\ y = F[k + 1]
      BY ONLY <2>2, <3>1, Zenon
    <3> QED BY ONLY <2>1, <3>2, Zenon
  <2> QED BY <2>3 DEF b
<1>3. k \in Nat /\ Len(s) \in Nat /\ k + 1 \in 0..Len(s) BY <1>2, LenProperties
<1>4. a \in WholeFrames BY <1>2, FrameMembers, FrameCells
<1>5. /\ SubSeq(s, 1, k) \in Seq(WholeFrames)
      /\ SubSeq(s, 1, k + 1) = Append(SubSeq(s, 1, k), a)
  BY <1>2, FirstOnes
<1> DEFINE v == SubSeq(s, 1, k)
           w == SubSeq(s, 1, k + 1)
<1>6. Due(t) = ReadingsOf(v) /\ Asked(t) = RequestsOf(v) BY DEF Tracked
<1> HIDE DEF v, w
<1>7. v \in Seq(WholeFrames) /\ w = Append(v, a) BY <1>5 DEF v, w
<1>8. Due(u) = ReadingsOf(w) BY <1>4, <1>6, <1>7, ReadingsAppend
<1>9. Asked(u) = RequestsOf(w) BY <1>4, <1>6, <1>7, RequestsAppend
<1>10. p # <<>> => k + 1 < Len(s)
  <2> SUFFICES ASSUME p # <<>> PROVE k + 1 < Len(s)
    OBVIOUS
  <2>1. q.up \o p # <<>> BY ConcatEqualIffEmpty
  <2> QED BY <1>2, <1>3, <2>1, FrameMembers, UnrollsHead
<1>11. Held(u) \o (q.up \o p) = F[k + 1]
  <2> DEFINE b == q.up \o p
  <2>1. <<>> \o b = b BY <1>1, ConcatEmptySeq
  <2> QED BY <1>2, <2>1
<1>12. u.pc = "check_token" => k + 1 > 0 /\ s[1] = <<u.hdr>> \o u.buf
  <2> SUFFICES ASSUME u.pc = "check_token" PROVE k + 1 > 0 /\ s[1] = <<u.hdr>> \o u.buf
    OBVIOUS
  <2>1. k = 0 BY DEF Tracked
  <2> QED BY <1>2, <2>1
<1>13. Tracked(u, q, p, s, k + 1, F)
  BY <1>2, <1>3, <1>8, <1>9, <1>10, <1>11, <1>12 DEF Tracked, w
<1> QED BY <1>3, <1>13 DEF Track

-----------------------------------------------------------------------------
(***************************************************************************)
(* The steps of a handler.                                                 *)
(***************************************************************************)
\* What every transition, every row and every jump leaves as it was.
LEMMA TransitionLeaves ==
    ASSUME ServerInv, ServerInv', NEW c \in Conns, NEW next, NEW complete, NEW place,
           Transition(c, next, complete, place)
    PROVE  /\ thread'[c].pc = place /\ conn'[c] = conn[c]
           /\ thread'[c].hdr = thread[c].hdr /\ thread'[c].buf = thread[c].buf
           /\ thread'[c].log = Append(thread[c].log, Transitioned(thread[c].sm, next))
           /\ thread'[c].out = thread[c].out /\ thread'[c].authOK = thread[c].authOK
<1>1. thread[c] \in Thread /\ thread \in [Conns -> Thread] BY HandlerParts
<1>2. mpc' # "terminated" BY DEF ServerInv, NoInvalidTransition
<1> DEFINE t == thread[c]
<1>3. /\ thread'[c] = [t EXCEPT !.log = Append(@, Transitioned(t.sm, next)),
                                !.sm = next, !.pc = place]
      /\ conn'[c] = conn[c]
  BY <1>1, <1>2 DEF Transition, Become, netVars
<1> QED BY <1>1, <1>3 DEF Thread

LEMMA RowLeaves ==
    ASSUME ServerInv, NEW c \in Conns, NEW row, NEW place, LogRow(c, row, place)
    PROVE  /\ thread'[c].pc = place /\ conn'[c] = conn[c]
           /\ thread'[c].hdr = thread[c].hdr /\ thread'[c].buf = thread[c].buf
           /\ thread'[c].log = Append(thread[c].log, row)
           /\ thread'[c].out = thread[c].out /\ thread'[c].authOK = thread[c].authOK
<1>1. thread[c] \in Thread /\ thread \in [Conns -> Thread] BY HandlerParts
<1>2. /\ thread'[c] = [thread[c] EXCEPT !.log = Append(@, row), !.pc = place]
      /\ conn'[c] = conn[c]
  BY <1>1 DEF LogRow, Become, netVars
<1> QED BY <1>1, <1>2 DEF Thread

LEMMA JumpLeaves ==
    ASSUME ServerInv, NEW c \in Conns, NEW place, Jump(c, place)
    PROVE  /\ thread'[c].pc = place /\ conn'[c] = conn[c]
           /\ thread'[c].hdr = thread[c].hdr /\ thread'[c].buf = thread[c].buf
           /\ thread'[c].log = thread[c].log
           /\ thread'[c].out = thread[c].out /\ thread'[c].authOK = thread[c].authOK
<1>1. thread[c] \in Thread /\ thread \in [Conns -> Thread] BY HandlerParts
<1>2. thread'[c] = [thread[c] EXCEPT !.pc = place] /\ conn'[c] = conn[c]
  BY <1>1 DEF Jump, Become, netVars
<1> QED BY <1>1, <1>2 DEF Thread

\* A turn of sendAll: a cell goes out, or the rest is given up.
LEMMA SendLeaves ==
    ASSUME ServerInv, NEW c \in Conns, NEW place, SendNext(c, place)
    PROVE  /\ thread'[c].pc \in {thread[c].pc, place}
           /\ thread'[c].hdr = thread[c].hdr /\ thread'[c].buf = thread[c].buf
           /\ thread'[c].authOK = thread[c].authOK
           /\ thread'[c].log \in {thread[c].log, Append(thread[c].log, <<"ERROR">>)}
           /\ \A p : Alike(conn[c], conn'[c], p)
<1> DEFINE t == thread[c]
           r == conn[c]
           u == thread'[c]
           q == conn'[c]
<1>1. /\ t \in Thread /\ thread \in [Conns -> Thread]
      /\ r \in Connection /\ conn \in [Conns -> Connection]
  BY HandlerParts
<1>2. CASE /\ ServerSends(c, Head(t.out))
           /\ Become(c, [t EXCEPT !.out = Tail(@),
                                  !.pc = IF Len(t.out) = 1 THEN place ELSE @])
  <2>1. u = [t EXCEPT !.out = Tail(@), !.pc = IF Len(t.out) = 1 THEN place ELSE @]
    BY <1>1, <1>2 DEF Become
  <2>2. /\ u.pc \in {t.pc, place} /\ u.hdr = t.hdr /\ u.buf = t.buf
        /\ u.authOK = t.authOK /\ u.log = t.log
    BY <1>1, <2>1 DEF Thread
  <2>3. /\ r.link = "open"
        /\ \/ q = [r EXCEPT !.down = Append(@, Head(t.out))]
           \/ q = r
           \/ q = ResetOf(r)
    BY <1>1, <1>2 DEF ServerSends, Update, netVars
  <2>4. \A p : Alike(r, q, p)
    <3>1. CASE q = r BY <2>3, <3>1 DEF Alike
    <3>2. CASE q = ResetOf(r)
      <4>1. q.link = "broken" BY <1>1, <3>2, ResetParts
      <4> QED BY <4>1 DEF Alike, Flowing
    <3>3. CASE q = [r EXCEPT !.down = Append(@, Head(t.out))]
      <4>1. /\ q.link = r.link /\ q.up = r.up /\ q.clientOpen = r.clientOpen
            /\ q.serverOpen = r.serverOpen
        BY <1>1, <3>3 DEF Connection
      <4> HIDE DEF r, q
      <4> QED BY <2>3, <4>1 DEF Alike, Flowing
    <3> QED BY <2>3, <3>1, <3>2, <3>3
  <2> QED BY <2>2, <2>4
<1>3. CASE /\ ServerSendFails(c)
           /\ Become(c, [t EXCEPT !.out = <<>>, !.log = Append(@, <<"ERROR">>), !.pc = place])
           /\ UNCHANGED netVars
  <2>1. /\ u = [t EXCEPT !.out = <<>>, !.log = Append(@, <<"ERROR">>), !.pc = place]
        /\ q = r /\ r.link = "broken"
    BY <1>1, <1>3 DEF Become, netVars, ServerSendFails
  <2>2. /\ u.pc = place /\ u.hdr = t.hdr /\ u.buf = t.buf
        /\ u.authOK = t.authOK /\ u.log = Append(t.log, <<"ERROR">>)
    BY <1>1, <2>1 DEF Thread
  <2>3. \A p : Alike(r, q, p) BY <2>1 DEF Alike
  <2> QED BY <2>2, <2>3
<1> QED BY <1>2, <1>3 DEF SendNext

\* closesocket.
LEMMA CloseLeaves ==
    ASSUME ServerInv, NEW c \in Conns, NEW place, ServerCloses(c),
           Become(c, [thread[c] EXCEPT !.pc = place])
    PROVE  /\ thread'[c].pc = place
           /\ thread'[c].hdr = thread[c].hdr /\ thread'[c].buf = thread[c].buf
           /\ thread'[c].log = thread[c].log
           /\ thread'[c].out = thread[c].out /\ thread'[c].authOK = thread[c].authOK
           /\ conn'[c].link = "none" => conn[c].link = "none" 
           /\ conn'[c].clientOpen = conn[c].clientOpen /\ ~conn'[c].serverOpen
           /\ conn'[c].down \in {conn[c].down, <<>>}
<1> DEFINE r == conn[c]
           closed == [r EXCEPT !.serverOpen = FALSE]
           q == conn'[c]
<1>1. /\ thread[c] \in Thread /\ thread \in [Conns -> Thread]
      /\ r \in Connection /\ conn \in [Conns -> Connection]
  BY HandlerParts
<1>2. thread'[c] = [thread[c] EXCEPT !.pc = place] BY <1>1 DEF Become
<1>3. q = closed \/ q = ResetOf(closed) BY <1>1 DEF ServerCloses, Update
<1>4. /\ closed \in Connection /\ closed.link = r.link /\ closed.down = r.down
      /\ closed.clientOpen = r.clientOpen /\ ~closed.serverOpen
  BY <1>1 DEF Connection
<1> HIDE DEF closed
<1>5. /\ ResetOf(closed).link = "broken" /\ ResetOf(closed).down = <<>>
      /\ ResetOf(closed).clientOpen = closed.clientOpen
      /\ ResetOf(closed).serverOpen = closed.serverOpen
  BY <1>4, ResetParts, ResetTypes
<1>6. /\ q.link = "none" => r.link = "none"
      /\ q.clientOpen = r.clientOpen /\ ~q.serverOpen /\ q.down \in {r.down, <<>>}
  BY <1>3, <1>4, <1>5
<1> QED BY <1>1, <1>2, <1>6 DEF Thread

\* Rows that are neither readings nor transfers.
LEMMA NoRecordRows ==
    /\ NoRecord(<<"ERROR">>) /\ NoRecord(<<"CONNECT">>) /\ NoRecord(<<"DISCONNECT">>)
    /\ \A n \in Nat : NoRecord(FuelAlert(n))
    /\ \A from, to \in ServerState : from # "DATA_RECEIVING" \/ to # "DATA_TRANSFER" =>
          NoRecord(Transitioned(from, to))
    /\ \A from, to \in ServerState : ~IsReceived(Transitioned(from, to))
    /\ \A n \in Nat : IsReceived(Received(n)) /\ ~IsTransfer(Received(n))
<1>1. /\ ~IsReceived(<<"ERROR">>) /\ ~IsReceived(<<"CONNECT">>) /\ ~IsReceived(<<"DISCONNECT">>)
      /\ \A n \in Nat : ~IsReceived(FuelAlert(n)) /\ IsReceived(Received(n))
      /\ \A from, to \in ServerState : ~IsReceived(Transitioned(from, to))
  BY DEF IsReceived, FuelAlert, Received, Transitioned
<1>2. /\ ~IsTransfer(<<"ERROR">>) /\ ~IsTransfer(<<"CONNECT">>) /\ ~IsTransfer(<<"DISCONNECT">>)
      /\ \A n \in Nat : ~IsTransfer(FuelAlert(n)) /\ ~IsTransfer(Received(n))
      /\ \A from, to \in ServerState : from # "DATA_RECEIVING" \/ to # "DATA_TRANSFER" =>
            ~IsTransfer(Transitioned(from, to))
  BY DEF IsTransfer, FuelAlert, Received, Transitioned
<1> QED BY <1>1, <1>2 DEF NoRecord

\* Places between two packets, from where the handler may read on.
Calm == Listening \ {"auth_token", "check_token", "unknown", "drain", "payload",
                     "log_receive", "transfer"}

\* A step between two packets, or out of the loop.
LEMMA CalmTracked ==
    ASSUME ServerInv, NEW c \in Conns, NEW p \in Seq(Cell),
           NEW s \in Seq(WholeFrames), TrackAt(c, p, s),
           thread'[c].hdr = thread[c].hdr, thread'[c].buf = thread[c].buf,
           thread'[c].log = thread[c].log
             \/ \E row \in Row : NoRecord(row) /\ thread'[c].log = Append(thread[c].log, row),
           thread[c].pc \notin {"log_receive", "transfer"},
           thread'[c].pc \in Calm \cup (HandlerPCs \ Listening),
           thread'[c].pc \in Calm => thread[c].pc \in Calm \cup {"check_token"},
           thread'[c].pc \in Before => thread[c].pc \in Before,
           \/ conn'[c] = conn[c]
           \/ Alike(conn[c], conn'[c], p)
           \/ /\ thread'[c].pc \notin Calm
              /\ conn'[c].link = "none" => conn[c].link = "none"
              /\ conn'[c].clientOpen = conn[c].clientOpen
    PROVE  TracksOn(c, p, s)
<1> DEFINE t == thread[c]
           u == thread'[c]
           r == conn[c]
           q == conn'[c]
<1>1. t \in Thread BY HandlerParts
<1>2. Track(t, r, p, s) BY DEF TrackAt
<1>3. r.link = "none" => ~r.clientOpen BY <1>2 DEF Track, Tracked
<1>4. q.link = "none" => r.link = "none" /\ ~q.clientOpen BY <1>3 DEF Alike
<1>5. u.pc \notin {"log_receive", "transfer", "check_token"} /\ TypeFits(u)
  BY DEF Calm, Listening, TypeFits
<1>6. u.pc \in Listening /\ Flowing(q, p) =>
        t.pc \in Listening /\ Flowing(r, p) /\ q.up = r.up /\ Held(u) = Held(t)
  <2> SUFFICES ASSUME u.pc \in Listening, Flowing(q, p)
               PROVE  t.pc \in Listening /\ Flowing(r, p) /\ q.up = r.up /\ Held(u) = Held(t)
    OBVIOUS
  <2>1. u.pc \in Calm /\ t.pc \in Calm \cup {"check_token"} OBVIOUS
  <2>2. t.pc \in Listening BY <2>1 DEF Calm, Listening, HandlerPCs
  <2>3. Held(u) = <<>> /\ Held(t) = <<>> BY <2>1 DEF Calm, Held
  <2>4. Flowing(r, p) /\ q.up = r.up BY <2>1 DEF Alike
  <2> QED BY <2>2, <2>3, <2>4
<1>7. u.hdr = t.hdr /\ u.buf = t.buf
      /\ (u.log = t.log \/ \E row \in Row : NoRecord(row) /\ u.log = Append(t.log, row))
      /\ t.pc \notin {"log_receive", "transfer"} /\ (u.pc \in Before => t.pc \in Before)
  OBVIOUS
<1> HIDE DEF t, u, r, q
<1>8. Track(u, q, p, s) BY <1>1, <1>2, <1>4, <1>5, <1>6, <1>7, QuietTracked
<1> QED BY <1>8 DEF TracksOn, t, u, q

\* Rows, transitions and failed reads.
LEMMA PlainStepTracked ==
    ASSUME ServerInv, ServerInv', NEW c \in Conns, NEW p \in Seq(Cell),
           NEW s \in Seq(WholeFrames), TrackAt(c, p, s),
           \/ Begin(c) \/ LogConnect(c) \/ AuthReadFails(c) \/ AuthFailed(c)
           \/ AuthDisconnect(c) \/ Authenticated(c) \/ StartReceiving(c)
           \/ HeaderFails(c) \/ PayloadFails(c) \/ EndTransfer(c) \/ CheckFuelAlert(c)
           \/ LogLost(c) \/ LogDisconnect(c) \/ Disconnect(c)
    PROVE  TracksOn(c, p, s)
<1> DEFINE t == thread[c]
           u == thread'[c]
<1>1. /\ t \in Thread /\ t.sm \in ServerState /\ t.sm = StateOf(t.pc)
      /\ HandlerFits(t, conn[c]) /\ t.hdr \in Cell /\ t.buf \in Seq(Cell)
  BY HandlerParts DEF Thread, HandlerFits
<1>2. ASSUME NEW place \in Calm \cup (HandlerPCs \ Listening),
             t.pc \notin {"log_receive", "transfer"},
             place \in Calm => t.pc \in Calm, place \in Before => t.pc \in Before,
             \/ Jump(c, place)
             \/ \E row \in Row : NoRecord(row) /\ LogRow(c, row, place)
             \/ \E next \in ServerState, complete \in BOOLEAN :
                  /\ t.sm # "DATA_RECEIVING" \/ next # "DATA_TRANSFER"
                  /\ Transition(c, next, complete, place)
      PROVE  TracksOn(c, p, s)
  <2>1. CASE Jump(c, place) BY <1>2, <2>1, JumpLeaves, CalmTracked
  <2>2. ASSUME NEW row \in Row, NoRecord(row), LogRow(c, row, place) PROVE TracksOn(c, p, s)
    BY <1>2, <2>2, RowLeaves, CalmTracked
  <2>3. ASSUME NEW next \in ServerState, NEW complete \in BOOLEAN,
               t.sm # "DATA_RECEIVING" \/ next # "DATA_TRANSFER",
               Transition(c, next, complete, place)
        PROVE  TracksOn(c, p, s)
    <3>1. Transitioned(t.sm, next) \in Row /\ NoRecord(Transitioned(t.sm, next))
      BY <1>1, <2>3, RowTypes, NoRecordRows
    <3> QED BY <1>2, <2>3, <3>1, TransitionLeaves, CalmTracked
  <2> QED BY <1>2, <2>1, <2>2, <2>3
<1>3. /\ {"CONNECTED", "DISCONNECTED", "AUTHENTICATED", "DATA_RECEIVING"} \subseteq ServerState
      /\ {<<"ERROR">>, <<"CONNECT">>, <<"DISCONNECT">>} \subseteq Row
  BY RowTypes DEF ServerState
<1>4. NoRecord(<<"ERROR">>) /\ NoRecord(<<"CONNECT">>) /\ NoRecord(<<"DISCONNECT">>) BY NoRecordRows
<1>5. CASE Begin(c) \/ LogConnect(c)
  <2>1. /\ {"log_connect", "auth_header"} \subseteq Calm /\ "spawned" \in Calm
        /\ {"log_connect", "auth_header", "spawned"} \subseteq Before
    BY DEF Calm, Listening, HandlerPCs, Before
  <2> QED BY <1>2, <1>3, <1>4, <1>5, <2>1 DEF Begin, LogConnect, At
<1>6. CASE AuthReadFails(c) \/ HeaderFails(c) \/ PayloadFails(c)
  <2>1. /\ {"auth_failed", "log_lost"} \subseteq HandlerPCs \ Listening
        /\ {"auth_failed", "log_lost"} \cap (Calm \cup Before) = {}
    BY DEF Calm, Listening, HandlerPCs, Before
  <2> QED BY <1>2, <1>6, <2>1 DEF AuthReadFails, HeaderFails, PayloadFails, At
<1>7. CASE AuthFailed(c) \/ AuthDisconnect(c)
  <2>1. /\ {"auth_close", "done"} \subseteq HandlerPCs \ Listening
        /\ {"auth_close", "done"} \cap (Calm \cup Before) = {}
    BY DEF Calm, Listening, HandlerPCs, Before
  <2> QED BY <1>2, <1>3, <1>4, <1>7, <2>1 DEF AuthFailed, AuthDisconnect, At
<1>8. CASE LogLost(c) \/ LogDisconnect(c) \/ Disconnect(c)
  <2>1. /\ {"log_disconnect", "disconnect", "close"} \subseteq HandlerPCs \ Listening
        /\ {"log_disconnect", "disconnect", "close"} \cap (Calm \cup Before) = {}
    BY DEF Calm, Listening, HandlerPCs, Before
  <2> QED BY <1>2, <1>3, <1>4, <1>8, <2>1 DEF LogLost, LogDisconnect, Disconnect, At
<1>9. CASE Authenticated(c) \/ StartReceiving(c) \/ EndTransfer(c)
  <2>1. /\ {"authenticated", "receiving", "transferred", "header"} \subseteq Calm
        /\ {"receiving", "header"} \cap Before = {}
    BY DEF Calm, Listening, HandlerPCs, Before
  <2> QED BY <1>2, <1>3, <1>9, <2>1 DEF Authenticated, StartReceiving, EndTransfer, At
<1>10. CASE CheckFuelAlert(c)
  <2>1. {"alert", "header"} \subseteq Calm /\ "header" \notin Before
    BY DEF Calm, Listening, HandlerPCs, Before
  <2>2. t.pc = "alert" /\ PacketFuel(c) \in Nat
    <3>1. t.pc = "alert" BY <1>10 DEF CheckFuelAlert, At
    <3> QED BY <1>1, <3>1, PacketFuelType DEF ServerInv
  <2>3. FuelAlert(PacketFuel(c)) \in Row /\ NoRecord(FuelAlert(PacketFuel(c)))
    BY <2>2, RowTypes, NoRecordRows
  <2> QED BY <1>2, <1>10, <2>1, <2>2, <2>3 DEF CheckFuelAlert
<1> QED BY <1>5, <1>6, <1>7, <1>8, <1>9, <1>10

\* Replies made and sent, and sockets closed.
LEMMA ReplyStepTracked ==
    ASSUME ServerInv, NEW c \in Conns, NEW p \in Seq(Cell),
           NEW s \in Seq(WholeFrames), TrackAt(c, p, s),
           \/ CheckToken(c) \/ BuildDataset(c) \/ SendAck(c) \/ SendDataset(c)
           \/ AuthClose(c) \/ Close(c)
    PROVE  TracksOn(c, p, s)
<1> DEFINE t == thread[c]
           u == thread'[c]
<1>1. t \in Thread /\ thread \in [Conns -> Thread] BY HandlerParts
<1>2. /\ {"auth_ack", "authenticated", "send_dataset", "build_dataset", "transferred"} \subseteq Calm
      /\ {"auth_failed", "auth_disconnect", "done"} \subseteq HandlerPCs \ Listening
      /\ {"auth_failed", "auth_disconnect", "done", "close", "auth_close"} \cap Calm = {}
      /\ {"auth_ack", "authenticated", "send_dataset", "build_dataset", "transferred",
          "auth_failed", "auth_disconnect", "done"} \cap Before = {}
  BY DEF Calm, Listening, HandlerPCs, Before
<1>3. CASE CheckToken(c) \/ BuildDataset(c)
  <2>1. CASE CheckToken(c)
    <3>1. PICK ok \in BOOLEAN :
            u = [t EXCEPT !.authOK = ok, !.out = AuthAck(ok), !.pc = "auth_ack"]
      BY <1>1, <2>1 DEF CheckToken, Become
    <3>2. t.pc = "check_token" /\ conn'[c] = conn[c] BY <2>1 DEF CheckToken, At, netVars
    <3>3. u.hdr = t.hdr /\ u.buf = t.buf /\ u.log = t.log /\ u.pc = "auth_ack"
      BY <1>1, <3>1 DEF Thread
    <3> QED BY <1>2, <3>2, <3>3, CalmTracked
  <2>2. CASE BuildDataset(c)
    <3>1. u = [t EXCEPT !.out = DataResponse, !.pc = "send_dataset"]
      BY <1>1, <2>2 DEF BuildDataset, Become
    <3>2. t.pc = "build_dataset" /\ conn'[c] = conn[c] BY <2>2 DEF BuildDataset, At, netVars
    <3>3. u.hdr = t.hdr /\ u.buf = t.buf /\ u.log = t.log /\ u.pc = "send_dataset"
      BY <1>1, <3>1 DEF Thread
    <3> QED BY <1>2, <3>2, <3>3, CalmTracked
  <2> QED BY <1>3, <2>1, <2>2
<1>4. CASE SendAck(c) \/ SendDataset(c)
  <2>1. \E place \in {"auth_failed", "authenticated", "transferred"} :
          SendNext(c, place) /\ t.pc \in {"auth_ack", "send_dataset"}
    BY <1>4 DEF SendAck, SendDataset, At
  <2>2. /\ u.hdr = t.hdr /\ u.buf = t.buf
        /\ u.log \in {t.log, Append(t.log, <<"ERROR">>)}
        /\ Alike(conn[c], conn'[c], p)
        /\ u.pc \in {"auth_ack", "send_dataset", "auth_failed", "authenticated", "transferred"}
        /\ t.pc \in {"auth_ack", "send_dataset"}
    BY <2>1, SendLeaves
  <2>3. <<"ERROR">> \in Row /\ NoRecord(<<"ERROR">>) BY RowTypes, NoRecordRows
  <2> QED BY <1>2, <2>2, <2>3, CalmTracked
<1>5. CASE AuthClose(c) \/ Close(c)
  <2>1. \E place \in {"auth_disconnect", "done"} :
          /\ ServerCloses(c) /\ Become(c, [t EXCEPT !.pc = place])
          /\ t.pc \in {"auth_close", "close"}
    BY <1>5 DEF AuthClose, Close, At
  <2>2. /\ u.hdr = t.hdr /\ u.buf = t.buf /\ u.log = t.log
        /\ u.pc \in {"auth_disconnect", "done"} /\ t.pc \in {"auth_close", "close"}
        /\ conn'[c].link = "none" => conn[c].link = "none"
        /\ conn'[c].clientOpen = conn[c].clientOpen
    BY <2>1, CloseLeaves
  <2> QED BY <1>2, <2>2, CalmTracked
<1> QED BY <1>3, <1>4, <1>5

\* A reading logged, and a transfer begun: now they are in the log.
LEMMA RecordTracked ==
    ASSUME ServerInv, ServerInv', NEW c \in Conns, NEW p \in Seq(Cell),
           NEW s \in Seq(WholeFrames), TrackAt(c, p, s),
           LogReceive(c) \/ BeginTransfer(c)
    PROVE  TracksOn(c, p, s)
<1> DEFINE t == thread[c]
           u == thread'[c]
           r == conn[c]
<1>1. /\ t \in Thread /\ t.log \in Seq(Row) /\ HandlerFits(t, r) BY HandlerParts
<1>2. Track(t, r, p, s) BY DEF TrackAt
<1>3. r.link = "none" => ~r.clientOpen BY <1>2 DEF Track, Tracked
<1>4. ASSUME u.pc \in {"alert", "build_dataset"}, t.pc \in {"log_receive", "transfer"},
             conn'[c] = r, Due(u) = Due(t), Asked(u) = Asked(t)
      PROVE  TracksOn(c, p, s)
  <2>1. /\ TypeFits(u) /\ t.pc \in Listening
        /\ u.pc \notin Before \cup {"check_token", "log_receive"}
        /\ Held(u) = <<>> /\ Held(t) = <<>>
    BY <1>4 DEF TypeFits, Before, Listening, HandlerPCs, Held
  <2> HIDE DEF t, u, r
  <2>2. Track(u, r, p, s) BY <1>2, <1>3, <1>4, <2>1, TrackAlike
  <2> QED BY <1>4, <2>2 DEF TracksOn, u, r
<1>5. CASE LogReceive(c)
  <2> DEFINE fuel == PacketFuel(c)
  <2>1. t.pc = "log_receive" /\ LogRow(c, Received(fuel), "alert")
    BY <1>5 DEF LogReceive, At
  <2>2. u.pc = "alert" /\ u.log = Append(t.log, Received(fuel)) /\ conn'[c] = r
    BY <2>1, RowLeaves
  <2>3. fuel \in Nat BY <1>1, <2>1, PacketFuelType DEF ServerInv
  <2>4. Received(fuel) \in Row BY <2>3, RowTypes
  <2>5. IsReceived(Received(fuel)) /\ ~IsTransfer(Received(fuel)) /\ Received(fuel)[2] = fuel
    BY <2>3, NoRecordRows DEF Received
  <2>6. fuel = DeserializedFuel(t.hdr.num, t.buf) BY DEF PacketFuel
  <2> HIDE DEF fuel
  <2>7. Due(u) = Due(t)
    <3>1. ReadingsIn(u.log) = Append(ReadingsIn(t.log), fuel)
      BY <1>1, <2>2, <2>4, <2>5, RowAppend
    <3> QED BY <2>1, <2>2, <2>6, <3>1 DEF Due
  <2>8. Asked(u) = Asked(t)
    <3>1. TransfersIn(u.log) = TransfersIn(t.log)
      BY <1>1, <2>2, <2>4, <2>5, TransfersAppend
    <3> QED BY <2>1, <2>2, <3>1 DEF Asked
  <2> QED BY <1>4, <2>1, <2>2, <2>7, <2>8
<1>6. CASE BeginTransfer(c)
  <2> DEFINE row == Transitioned(t.sm, "DATA_TRANSFER")
  <2>1. t.pc = "transfer" /\ Transition(c, "DATA_TRANSFER", FALSE, "build_dataset")
    BY <1>6 DEF BeginTransfer, At
  <2>2. u.pc = "build_dataset" /\ u.log = Append(t.log, row) /\ conn'[c] = r
    <3>1. PICK complete \in BOOLEAN : Transition(c, "DATA_TRANSFER", complete, "build_dataset")
      BY <2>1
    <3> QED BY <3>1, TransitionLeaves
  <2>3. t.sm = "DATA_RECEIVING" BY <1>1, <2>1 DEF HandlerFits, StateOf
  <2>4. row \in Row /\ IsTransfer(row) /\ ~IsReceived(row)
    <3>1. {"DATA_RECEIVING", "DATA_TRANSFER"} \subseteq ServerState BY DEF ServerState
    <3> QED BY <2>3, <3>1, RowTypes, NoRecordRows DEF IsTransfer
  <2> HIDE DEF row
  <2>5. Due(u) = Due(t)
    <3>1. ReadingsIn(u.log) = ReadingsIn(t.log) BY <1>1, <2>2, <2>4, RowAppend
    <3> QED BY <2>1, <2>2, <3>1 DEF Due
  <2>6. Asked(u) = Asked(t)
    <3>1. TransfersIn(u.log) = TransfersIn(t.log) + 1 /\ TransfersIn(t.log) \in Nat
      BY <1>1, <2>2, <2>4, TransfersAppend
    <3> QED BY <2>1, <2>2, <3>1 DEF Asked
  <2> QED BY <1>4, <2>1, <2>2, <2>5, <2>6
<1> QED BY <1>5, <1>6

\* What a read finds: the connection open, and everything as it was behind
\* the cell it takes.
LEMMA ReadFinds ==
    ASSUME ServerInv, NEW c \in Conns, ServerTakes(c), thread[c].pc \in HoldsSocket
    PROVE  /\ conn[c].link = "open" /\ conn[c].serverOpen /\ conn[c].up # <<>>
           /\ conn'[c].link = "open" /\ conn'[c].up = Tail(conn[c].up)
           /\ conn'[c].up \in Seq(Cell) /\ conn'[c].down = conn[c].down
           /\ \A p : Flowing(conn[c], p)
<1> DEFINE r == conn[c]
           q == conn'[c]
<1>1. /\ r \in Connection /\ r.up \in Seq(Cell) /\ conn \in [Conns -> Connection]
      /\ HandlerFits(thread[c], r)
  BY HandlerParts
<1>2. r.link = "open" /\ r.up # <<>> /\ q = [r EXCEPT !.up = Tail(@)]
  BY <1>1 DEF ServerTakes, Update
<1>3. q.link = r.link /\ q.up = Tail(r.up) /\ q.down = r.down BY <1>1, <1>2 DEF Connection
<1>4. Tail(r.up) \in Seq(Cell) BY <1>1, <1>2, HeadTailProperties
<1>5. r.serverOpen BY <1>1 DEF HandlerFits
<1> QED BY <1>2, <1>3, <1>4, <1>5 DEF Flowing

\* The header of the next frame.
LEMMA HeaderTracked ==
    ASSUME NEW c \in Conns, NEW p \in Seq(Cell), NEW s \in Seq(WholeFrames), ClientLike(s),
           ServerInv,
           TrackAt(c, p, s),
           AuthHeader(c) \/ NextHeader(c)
    PROVE  TracksOn(c, p, s)
<1> DEFINE t == thread[c]
           u == thread'[c]
           r == conn[c]
           q == conn'[c]
<1>1. /\ t \in Thread /\ r \in Connection /\ r.up \in Seq(Cell) /\ t.log \in Seq(Row)
      /\ p \in Seq(Cell) /\ s \in Seq(WholeFrames) /\ thread \in [Conns -> Thread]
  BY HandlerParts
<1>2. PICK h \in HeadersIn(r.up), place \in HandlerPCs :
        /\ ReadHeader(c, h, place)
        /\ \/ t.pc = "auth_header" /\ place = PlaceAfterLogin(h)
           \/ t.pc = "header" /\ place = PlaceAfter(h)
  BY DEF AuthHeader, NextHeader, At, PlaceAfter, PlaceAfterLogin, HandlerPCs
<1>3. /\ t.pc \in {"auth_header", "header"} /\ t.pc \in HoldsSocket /\ t.pc \in Listening
      /\ Held(t) = <<>> /\ ServerTakes(c)
      /\ u = [t EXCEPT !.hdr = h, !.buf = <<>>, !.pc = place]
  BY <1>1, <1>2 DEF ReadHeader, Become, HoldsSocket, Listening, HandlerPCs, Held
<1>4. u.pc = place /\ u.hdr = h /\ u.buf = <<>> /\ u.log = t.log BY <1>1, <1>3 DEF Thread
<1>5. /\ r.link = "open" /\ r.serverOpen /\ r.up # <<>> /\ q.link = "open"
      /\ q.up = Tail(r.up) /\ q.up \in Seq(Cell) /\ Flowing(r, p)
  BY <1>3, ReadFinds
<1>6. PICK k \in 0..Len(s), F \in [0..Len(s) -> Seq(Cell)] :
        Unrolls(F, s) /\ Tracked(t, r, p, s, k, F)
  BY DEF TrackAt, Track
<1>7. r.up \o p = F[k]
  <2>1. Held(t) \o (r.up \o p) = F[k] BY <1>3, <1>5, <1>6 DEF Tracked
  <2>2. r.up \o p \in Seq(Cell) BY <1>1, ConcatProperties
  <2> QED BY <1>3, <2>1, <2>2, ConcatEmptySeq
<1>8. /\ k < Len(s) /\ k + 1 \in 1..Len(s) /\ h = s[k + 1][1] /\ h \in Cell
      /\ <<h>> \o (q.up \o p) = F[k]
  <2> HIDE DEF t, u, r, q
  <2>1. /\ k < Len(s) /\ k + 1 \in 1..Len(s) /\ h = s[k + 1][1] /\ h \in Cell
        /\ <<h>> \o (Tail(r.up) \o p) = F[k]
    <3>1. /\ r.up \in Seq(Cell) /\ p \in Seq(Cell) /\ s \in Seq(WholeFrames) /\ k \in 0..Len(s)
          /\ Unrolls(F, s) /\ r.up # <<>> /\ r.up \o p = F[k] /\ h \in HeadersIn(r.up)
      BY <1>1, <1>5, <1>6, <1>7
    <3>2. \A G : Unrolls(G, s) => \A j \in 0..Len(s) :
            \A x, y \in Seq(Cell) : x # <<>> /\ x \o y = G[j] => \A i \in HeadersIn(x) :
              /\ j < Len(s) /\ j + 1 \in 1..Len(s) /\ i = s[j + 1][1] /\ i \in Cell
              /\ <<i>> \o (Tail(x) \o y) = G[j]
      BY ONLY <3>1, FrameMembers, HeaderRead, Zenon
    <3>3. \A x, y \in Seq(Cell) : x # <<>> /\ x \o y = F[k] => \A i \in HeadersIn(x) :
              /\ k < Len(s) /\ k + 1 \in 1..Len(s) /\ i = s[k + 1][1] /\ i \in Cell
              /\ <<i>> \o (Tail(x) \o y) = F[k]
      BY ONLY <3>1, <3>2, Zenon
    <3> QED BY ONLY <3>1, <3>3, Zenon
  <2>2. <<h>> \o (q.up \o p) = F[k] BY ONLY <1>5, <2>1, Zenon
  <2> QED BY <2>1, <2>2
<1>9. /\ s[k + 1] \in WholeFrames /\ Len(s[k + 1]) = h.num + 1 /\ h.num \in Nat
      /\ h.num <= INT_MAX /\ recvLength(h.num) = h.num
  <2>1. s[k + 1] \in WholeFrames /\ Len(s[k + 1]) = h.num + 1 /\ h.num \in Nat
    BY <1>1, <1>8, FrameMembers, FrameCells
  <2>2. h.num <= INT_MAX BY <1>8 DEF ClientLike
  <2> QED BY <2>1, <2>2, RecvLengths
<1> HIDE DEF t, u, r, q
<1>14. \/ /\ t.pc = "auth_header" /\ place \in {"auth_token", "auth_failed"}
          /\ place = "auth_token" => h.text = "PKT_AUTH_REQUEST"
       \/ t.pc = "header" /\ place = PlaceAfter(h)
  <2>1. CASE t.pc = "auth_header" /\ place = PlaceAfterLogin(h)
    <3>1. ~(recvLength(h.num) > 0) => h.num = 0 BY <1>9
    <3> QED BY <2>1, <3>1 DEF PlaceAfterLogin
  <2> QED BY <1>2, <2>1
<1>10. CASE place = "auth_failed"
  <2>1. Due(u) = Due(t) /\ Asked(u) = Asked(t) /\ TypeFits(u)
    BY <1>3, <1>4, <1>10 DEF Due, Asked, TypeFits
  <2>2. u.pc \notin Before \cup Listening \cup {"check_token", "log_receive"}
    BY <1>4, <1>10 DEF Before, Listening
  <2>3. Track(t, r, p, s) BY DEF TrackAt, t, r
  <2>4. Track(u, q, p, s) BY <1>5, <2>1, <2>2, <2>3, TrackAlike
  <2> QED BY <2>4 DEF TracksOn, u, q
<1>11. CASE place \in {"auth_token", "payload", "unknown"}
  <2>1. Due(u) = Due(t) /\ Asked(u) = Asked(t)
    BY <1>3, <1>4, <1>11 DEF Due, Asked
  <2>2. TypeFits(u)
    BY <1>3, <1>4, <1>9, <1>11, <1>14 DEF TypeFits, PlaceAfter
  <2>3. Held(u) \o (q.up \o p) = F[k]
    <3>1. Held(u) = <<h>>
      <4>1. <<h>> \o <<>> = <<h>> BY <1>8, ConcatEmptySeq
      <4> QED BY <1>4, <1>11, <4>1 DEF Held
    <3> QED BY <1>8, <3>1
  <2>4. u.pc \in Before => k = 0
    <3>1. CASE t.pc = "auth_header" BY <1>6, <3>1 DEF Tracked, Before
    <3>2. CASE t.pc = "header" /\ place = PlaceAfter(h)
      BY <1>4, <3>2 DEF PlaceAfter, Before
    <3> QED BY <1>14, <3>1, <3>2
  <2>5. u.pc \notin {"check_token", "log_receive"} BY <1>4, <1>11
  <2>6. Tracked(u, q, p, s, k, F) BY <1>5, <1>6, <2>1, <2>2, <2>3, <2>4, <2>5 DEF Tracked
  <2>7. Track(u, q, p, s) BY <1>6, <2>6 DEF Track
  <2> QED BY <2>7 DEF TracksOn, u, q
<1>12. CASE place = "transfer"
  <2> DEFINE a == <<h>>
  <2>1. t.pc = "header" /\ h.text = "PKT_DATA_REQUEST" BY <1>12, <1>14 DEF PlaceAfter
  <2>2. IsRequest(s[k + 1]) /\ h.num = 0
    <3>1. IsRequest(s[k + 1]) BY <1>8, <2>1 DEF IsRequest
    <3>2. Len(s[k + 1]) = 1 BY <1>8, <3>1 DEF ClientLike
    <3>3. h.num + 1 = 1 BY <1>9, <3>2
    <3>4. h.num = 0 BY <1>9, <3>3
    <3> QED BY <3>1, <3>4
  <2>3. /\ a \in Seq(Cell) /\ a # <<>> /\ Len(a) = a[1].num + 1
        /\ IsRequest(a) /\ ~IsReading(a)
    BY <1>8, <2>1, <2>2 DEF IsRequest, IsReading
  <2>4. a \o (q.up \o p) = F[k] BY <1>8
  <2>5. Due(u) = Due(t) /\ Asked(u) = Asked(t) + 1
    <3>1. TransfersIn(t.log) \in Nat
      <4>1. <<"ERROR">> \in Row BY RowTypes
      <4> QED BY <1>1, <4>1, TransfersAppend
    <3> QED BY <1>4, <1>12, <2>1, <3>1 DEF Due, Asked
  <2>6. /\ Held(u) = <<>> /\ u.pc \notin Before \cup {"check_token", "log_receive"} /\ TypeFits(u)
    BY <1>4, <1>12 DEF Held, Before, TypeFits
  <2> HIDE DEF a
  <2>7. Track(u, q, p, s) BY <1>1, <1>5, <1>6, <2>3, <2>4, <2>5, <2>6, FrameRead
  <2> QED BY <2>7 DEF TracksOn, u, q
<1>13. CASE place = "log_receive"
  <2>1. h.text = "PKT_TELEMETRY" /\ ~(h.num > 0) BY <1>9, <1>13, <1>14 DEF PlaceAfter
  <2>2. h.num > 0 BY <1>8, <1>9, <2>1 DEF ClientLike, TelemetrySize
  <2> QED BY <2>1, <2>2
<1> QED BY <1>10, <1>11, <1>12, <1>13, <1>14 DEF PlaceAfter

\* A cell of a payload: one of several, or the last.
LEMMA PayloadTracked ==
    ASSUME ServerInv, NEW c \in Conns, NEW p \in Seq(Cell),
           NEW s \in Seq(WholeFrames), TrackAt(c, p, s), NEW after \in HandlerPCs,
           ReadPayload(c, after),
           \/ thread[c].pc = "auth_token" /\ after = "check_token"
           \/ thread[c].pc = "payload" /\ after = "log_receive"
           \/ thread[c].pc = "drain" /\ after = "header"
    PROVE  TracksOn(c, p, s)
<1> DEFINE t == thread[c]
           u == thread'[c]
           r == conn[c]
           q == conn'[c]
           more == Append(t.buf, Head(r.up))
<1>1. /\ t \in Thread /\ r \in Connection /\ r.up \in Seq(Cell) /\ t.log \in Seq(Row)
      /\ p \in Seq(Cell) /\ s \in Seq(WholeFrames) /\ thread \in [Conns -> Thread]
      /\ t.hdr \in Cell /\ t.buf \in Seq(Cell) /\ t.hdr.num \in Nat /\ Len(t.buf) \in Nat
  <2>1. /\ t \in Thread /\ r \in Connection /\ r.up \in Seq(Cell) /\ t.log \in Seq(Row)
        /\ p \in Seq(Cell) /\ s \in Seq(WholeFrames) /\ thread \in [Conns -> Thread]
        /\ t.hdr \in Cell /\ t.buf \in Seq(Cell)
    BY HandlerParts
  <2>2. t.hdr.num \in Nat BY <2>1 DEF Cell
  <2> QED BY <2>1, <2>2, LenProperties
<1>2. /\ t.pc \in HoldsSocket /\ t.pc \in Listening /\ Held(t) = <<t.hdr>> \o t.buf
      /\ ServerTakes(c)
  BY DEF ReadPayload, HoldsSocket, Listening, HandlerPCs, Held
<1>3. /\ r.link = "open" /\ r.serverOpen /\ r.up # <<>> /\ q.link = "open"
      /\ q.up = Tail(r.up) /\ q.up \in Seq(Cell) /\ Flowing(r, p)
  BY <1>2, ReadFinds
<1>4. PICK place \in {t.pc, after} :
        /\ u = [t EXCEPT !.buf = more, !.pc = place]
        /\ place = after => Len(t.buf) + 1 = t.hdr.num
  BY <1>1 DEF ReadPayload, Become
<1>5. u.pc = place /\ u.hdr = t.hdr /\ u.buf = more /\ u.log = t.log
  BY <1>1, <1>4 DEF Thread
<1>6. PICK k \in 0..Len(s), F \in [0..Len(s) -> Seq(Cell)] :
        Unrolls(F, s) /\ Tracked(t, r, p, s, k, F)
  BY DEF TrackAt, Track
<1>7. more \in Seq(Cell) /\ Len(more) = Len(t.buf) + 1
  <2>1. Head(r.up) \in Cell BY <1>1, <1>3, HeadTailProperties
  <2> QED BY <1>1, <2>1, AppendProperties
<1> DEFINE a == <<t.hdr>> \o more
<1>8. a \o (q.up \o p) = F[k]
  <2>1. (<<t.hdr>> \o t.buf) \o (r.up \o p) = F[k] BY <1>2, <1>3, <1>6 DEF Tracked
  <2>2. /\ t.hdr \in Cell /\ t.buf \in Seq(Cell) /\ r.up \in Seq(Cell) /\ p \in Seq(Cell)
        /\ r.up # <<>>
    BY <1>1, <1>3
  <2> HIDE DEF t, r
  <2>3. (<<t.hdr>> \o Append(t.buf, Head(r.up))) \o (Tail(r.up) \o p)
          = (<<t.hdr>> \o t.buf) \o (r.up \o p)
    BY ONLY <2>2, ShiftedThrough, Zenon
  <2> QED BY <1>3, <2>1, <2>3
<1> HIDE DEF more
<1>9. /\ a \in Seq(Cell) /\ a # <<>> /\ Len(a) = Len(more) + 1 /\ a[1] = t.hdr
      /\ \A i \in 1..Len(more) : a[i + 1] = more[i]
  BY <1>1, <1>7, CellBehind, ZenonT(40)
<1>10. TypeFits(t) BY <1>6 DEF Tracked
<1>11. t.pc \in {"auth_token", "payload", "drain"} /\ after # t.pc OBVIOUS
<1>12. \/ t.pc = "auth_token" /\ after = "check_token"
       \/ t.pc = "payload" /\ after = "log_receive"
       \/ t.pc = "drain" /\ after = "header"
  OBVIOUS
<1> HIDE DEF t, u, r, q
<1>13. CASE place = t.pc
  <2>1. Due(u) = Due(t) /\ Asked(u) = Asked(t) /\ TypeFits(u) /\ Held(u) = a
    BY <1>5, <1>10, <1>11, <1>13 DEF Due, Asked, TypeFits, Held
  <2>2. u.pc \notin {"check_token", "log_receive"} /\ u.pc = t.pc BY <1>5, <1>11, <1>13
  <2>3. Tracked(u, q, p, s, k, F) BY <1>3, <1>6, <1>8, <2>1, <2>2 DEF Tracked
  <2>4. Track(u, q, p, s) BY <1>6, <2>3 DEF Track
  <2> QED BY <2>4 DEF TracksOn, u, q
<1>14. CASE place = after
  <2>1. Len(more) = t.hdr.num /\ Len(a) = a[1].num + 1 /\ Len(a) > TelemetrySize
    BY <1>1, <1>4, <1>7, <1>9, <1>14 DEF TelemetrySize
  <2>2. Held(u) = <<>> /\ u.pc = after BY <1>5, <1>12, <1>14 DEF Held
  <2>3. TypeFits(u) /\ u.pc \notin Before BY <1>5, <1>10, <1>12, <2>2 DEF TypeFits, Before
  <2>4. Asked(u) = Asked(t) BY <1>5, <1>11, <1>12, <2>2 DEF Asked
  <2>5. IsReading(a) <=> t.pc = "payload"
    BY <1>9, <1>10, <1>12, <2>1 DEF IsReading, TypeFits
  <2>6. ~IsRequest(a) BY <1>9, <1>10, <1>12 DEF IsRequest, TypeFits
  <2>7. IsReading(a) => Due(u) = Append(Due(t), a[2].num)
    <3> SUFFICES ASSUME IsReading(a) PROVE Due(u) = Append(Due(t), a[2].num)
      OBVIOUS
    <3>1. t.pc = "payload" /\ u.pc = "log_receive" BY <1>12, <2>2, <2>5
    <3>2. a[2] = more[1]
      <4>1. 1 \in 1..Len(more) /\ 1 + 1 = 2 BY <1>1, <1>7
      <4> QED BY <1>9, <4>1
    <3>3. DeserializedFuel(u.hdr.num, u.buf) = a[2].num
      <4>1. t.hdr.num >= TelemetrySize /\ more # <<>>
        BY <1>1, <1>7, <2>1 DEF TelemetrySize
      <4> QED BY <1>5, <3>2, <4>1 DEF DeserializedFuel
    <3> QED BY <1>5, <3>1, <3>3 DEF Due
  <2>8. ~IsReading(a) => Due(u) = Due(t) BY <1>5, <1>12, <2>2, <2>5 DEF Due
  <2>9. u.pc = "check_token" => t.pc \in Before /\ a = <<u.hdr>> \o u.buf
    BY <1>5, <1>12, <2>2 DEF Before
  <2> HIDE DEF a
  <2>10. Track(u, q, p, s)
    <3>1. q.link # "none" BY <1>3
    <3>2. /\ p \in Seq(Cell) /\ s \in Seq(WholeFrames) /\ k \in 0..Len(s)
          /\ F \in [0..Len(s) -> Seq(Cell)] /\ Unrolls(F, s) /\ Tracked(t, r, p, s, k, F)
          /\ a \in Seq(Cell) /\ a # <<>> /\ Len(a) = a[1].num + 1
          /\ q.up \in Seq(Cell) /\ a \o (q.up \o p) = F[k]
      BY <1>1, <1>3, <1>6, <1>8, <1>9, <2>1
    <3> QED
      BY ONLY <2>2, <2>3, <2>4, <2>6, <2>7, <2>8, <2>9, <3>1, <3>2, FrameRead
  <2> QED BY <2>10 DEF TracksOn, u, q
<1> QED BY <1>4, <1>13, <1>14

\* A frame that has begun is not over before as many cells as it announces.
LEMMA NoneCut ==
    ASSUME NEW s \in Seq(WholeFrames), NEW F, Unrolls(F, s), NEW k \in 0..Len(s),
           NEW x \in Cell, NEW b \in Seq(Cell), F[k] = <<x>> \o b
    PROVE  Len(b) >= x.num
<1> DEFINE z == <<x>> \o b
<1>1. z \in Seq(Cell) /\ z # <<>> /\ Len(z) = Len(b) + 1 /\ z[1] = x /\ Len(b) \in Nat
  BY CellBehind, LenProperties
<1>2. F[k] = z OBVIOUS
<1> HIDE DEF z
<1>3. Head(z) = x BY <1>1
<1>4. /\ k + 1 \in 1..Len(s) /\ F[k] = s[k + 1] \o F[k + 1] /\ F[k + 1] \in Seq(Cell)
      /\ x = s[k + 1][1]
  BY <1>1, <1>2, <1>3, FrameMembers, UnrollsHead
<1> DEFINE f == s[k + 1]
           g == F[k + 1]
<1>5. f \in Seq(Cell) /\ Len(f) = x.num + 1 /\ x.num \in Nat BY <1>4, FrameMembers, FrameCells
<1>6. g \in Seq(Cell) /\ Len(g) \in Nat /\ z = f \o g BY <1>2, <1>4, LenProperties
<1> HIDE DEF f, g
<1>7. Len(z) = Len(f) + Len(g) BY <1>5, <1>6, ConcatProperties
<1> QED BY <1>1, <1>5, <1>6, <1>7

\* A packet of another type: its row, then its payload, if it has one.
LEMMA UnknownTracked ==
    ASSUME ServerInv, NEW c \in Conns, NEW p \in Seq(Cell),
           NEW s \in Seq(WholeFrames), TrackAt(c, p, s), UnknownType(c)
    PROVE  TracksOn(c, p, s)
<1> DEFINE t == thread[c]
           u == thread'[c]
           r == conn[c]
           row == <<"ERROR">>
<1>1. /\ t \in Thread /\ r \in Connection /\ r.up \in Seq(Cell) /\ t.log \in Seq(Row)
      /\ p \in Seq(Cell) /\ s \in Seq(WholeFrames) /\ t.hdr \in Cell /\ t.hdr.num \in Nat
      /\ HandlerFits(t, r) /\ TypeFits(t)
  <2>1. /\ t \in Thread /\ r \in Connection /\ r.up \in Seq(Cell) /\ t.log \in Seq(Row)
        /\ p \in Seq(Cell) /\ s \in Seq(WholeFrames) /\ t.hdr \in Cell /\ HandlerFits(t, r)
    BY HandlerParts
  <2>2. TypeFits(t) BY DEF TrackAt, Track, Tracked
  <2> QED BY <2>1, <2>2 DEF Cell
<1>2. t.pc = "unknown" /\ t.buf = <<>> /\ r.link \notin {"none", "backlog"}
  BY <1>1 DEF UnknownType, At, HandlerFits
<1>3. PICK place \in {"drain", "header"} :
        /\ LogRow(c, row, place)
        /\ place = "drain" <=> t.hdr.num > 0
  <2>1. recvLength(t.hdr.num) = t.hdr.num BY <1>1, <1>2, RecvLengths DEF TypeFits
  <2> QED BY <2>1 DEF UnknownType
<1>4. /\ u.pc = place /\ conn'[c] = r /\ u.hdr = t.hdr /\ u.buf = t.buf
      /\ u.log = Append(t.log, row)
  BY <1>3, RowLeaves
<1>5. row \in Row /\ NoRecord(row) BY RowTypes, NoRecordRows
<1>6. Track(t, r, p, s) BY DEF TrackAt
<1> HIDE DEF t, u, r, row
<1>7. PICK k \in 0..Len(s), F \in [0..Len(s) -> Seq(Cell)] :
        Unrolls(F, s) /\ Tracked(t, r, p, s, k, F)
  BY <1>6 DEF Track
<1>8. t.hdr.text \notin {"PKT_TELEMETRY", "PKT_DATA_REQUEST"}
  BY <1>2, <1>7 DEF Tracked, TypeFits
<1>9. /\ TypeFits(u) /\ u.pc \notin {"log_receive", "transfer", "check_token"}
      /\ u.pc \notin Before
  BY <1>3, <1>4, <1>8 DEF TypeFits, Before
<1>10. CASE place = "drain" \/ ~Flowing(r, p)
  <2>1. u.pc \in Listening /\ Flowing(r, p) =>
          t.pc \in Listening /\ Flowing(r, p) /\ r.up = r.up /\ Held(u) = Held(t)
    BY <1>2, <1>4, <1>10 DEF Held, Listening, HandlerPCs
  <2>2. r.link # "none" /\ t.pc \notin {"log_receive", "transfer"} BY <1>2
  <2>3. Track(u, r, p, s)
    BY <1>1, <1>4, <1>5, <1>6, <1>9, <2>1, <2>2, QuietTracked
  <2> QED BY <1>4, <2>3 DEF TracksOn, u, r
<1>11. CASE place = "header" /\ Flowing(r, p)
  <2> DEFINE a == <<t.hdr>>
  <2>1. /\ a \in Seq(Cell) /\ a # <<>> /\ Len(a) = 1 /\ a[1] = t.hdr /\ a \o <<>> = a
    BY <1>1, ConcatEmptySeq
  <2>2. t.hdr.num = 0 BY <1>1, <1>3, <1>11
  <2> HIDE DEF a
  <2>3. Len(a) = a[1].num + 1 /\ ~IsRequest(a) /\ ~IsReading(a)
    BY <1>8, <2>1, <2>2 DEF IsRequest, IsReading
  <2>4. Held(t) = a BY <1>2, <2>1 DEF Held, a
  <2>5. a \o (r.up \o p) = F[k]
    <3>1. t.pc \in Listening BY <1>2 DEF Listening, HandlerPCs
    <3> QED BY <1>7, <1>11, <2>4, <3>1 DEF Tracked
  <2>6. ReadingsIn(u.log) = ReadingsIn(t.log) /\ TransfersIn(u.log) = TransfersIn(t.log)
    BY <1>1, <1>4, <1>5, RowAppend, TransfersAppend DEF NoRecord
  <2>7. Due(u) = Due(t) /\ Asked(u) = Asked(t) /\ Held(u) = <<>>
    BY <1>2, <1>4, <1>11, <2>6 DEF Due, Asked, Held
  <2>8. Track(u, r, p, s)
    <3>1. r.link # "none" /\ u.pc # "check_token" BY <1>2, <1>9
    <3>2. /\ p \in Seq(Cell) /\ s \in Seq(WholeFrames) /\ k \in 0..Len(s)
          /\ F \in [0..Len(s) -> Seq(Cell)] /\ Unrolls(F, s) /\ Tracked(t, r, p, s, k, F)
          /\ r.up \in Seq(Cell)
      BY <1>1, <1>7
    <3> QED BY ONLY <1>9, <2>1, <2>3, <2>5, <2>7, <3>1, <3>2, FrameRead
  <2> QED BY <1>4, <2>8 DEF TracksOn, u, r
<1> QED BY <1>3, <1>10, <1>11

\* A payload that is being read away and breaks off: nothing comes any more.
LEMMA DrainTracked ==
    ASSUME ServerInv, NEW c \in Conns, NEW p \in Seq(Cell),
           NEW s \in Seq(WholeFrames), TrackAt(c, p, s), Drain(c)
    PROVE  TracksOn(c, p, s)
<1> DEFINE t == thread[c]
           u == thread'[c]
           r == conn[c]
<1>1. /\ t \in Thread /\ r \in Connection /\ HandlerFits(t, r)
      /\ p \in Seq(Cell) /\ s \in Seq(WholeFrames) /\ t.hdr \in Cell /\ t.buf \in Seq(Cell)
      /\ t.hdr.num \in Nat /\ Len(t.buf) \in Nat
  <2>1. /\ t \in Thread /\ r \in Connection /\ HandlerFits(t, r)
        /\ p \in Seq(Cell) /\ s \in Seq(WholeFrames) /\ t.hdr \in Cell /\ t.buf \in Seq(Cell)
    BY HandlerParts
  <2> QED BY <2>1, LenProperties DEF Cell
<1>2. t.pc = "drain" /\ Len(t.buf) < t.hdr.num /\ r.link \notin {"none", "backlog"}
  BY <1>1 DEF Drain, At, HandlerFits
<1>3. CASE ReadPayload(c, "header")
  <2>1. "header" \in HandlerPCs BY DEF HandlerPCs
  <2> QED BY <1>2, <1>3, <2>1, PayloadTracked
<1>4. CASE ServerRecvFails(c) /\ Jump(c, "header")
  <2>1. /\ u.pc = "header" /\ conn'[c] = r /\ u.hdr = t.hdr /\ u.buf = t.buf
        /\ u.log = t.log
    BY <1>4, JumpLeaves
  <2>2. r.link = "broken" \/ (~r.clientOpen /\ r.up = <<>>)
    BY <1>4 DEF ServerRecvFails, ClientGone
  <2>3. Track(t, r, p, s) BY DEF TrackAt
  <2> HIDE DEF t, u, r
  <2>4. PICK k \in 0..Len(s), F \in [0..Len(s) -> Seq(Cell)] :
          Unrolls(F, s) /\ Tracked(t, r, p, s, k, F)
    BY <2>3 DEF Track
  <2>5. ~Flowing(r, p)
    <3> SUFFICES ASSUME Flowing(r, p) PROVE FALSE
      OBVIOUS
    <3>1. p = <<>> /\ r.up = <<>> BY <1>2, <2>2 DEF Flowing
    <3>2. t.pc \in Listening BY <1>2 DEF Listening, HandlerPCs
    <3>3. (<<t.hdr>> \o t.buf) \o (r.up \o p) = F[k]
      BY <1>2, <2>4, <3>2 DEF Tracked, Held
    <3> DEFINE z == <<t.hdr>> \o t.buf
    <3>4. z \in Seq(Cell) BY <1>1, CellBehind
    <3> HIDE DEF z
    <3>5. z \o <<>> = z /\ <<>> \o <<>> = <<>> BY <3>4, ConcatEmptySeq
    <3>6. F[k] = z BY <3>1, <3>3, <3>5 DEF z
    <3>7. Len(t.buf) >= t.hdr.num BY <1>1, <2>4, <3>6, NoneCut DEF z
    <3> QED BY <1>1, <1>2, <3>7
  <2>6. TypeFits(u) /\ u.pc \notin Before \cup {"log_receive", "transfer", "check_token"}
    BY <2>1 DEF TypeFits, Before
  <2>7. r.link # "none" /\ t.pc \notin {"log_receive", "transfer"} BY <1>2
  <2>8. Track(u, r, p, s) BY <1>1, <2>1, <2>3, <2>5, <2>6, <2>7, QuietTracked
  <2> QED BY <2>1, <2>8 DEF TracksOn, u, r
<1> QED BY <1>3, <1>4 DEF Drain

\* Every step of a handler.
LEMMA HandlerTracked ==
    ASSUME NEW c \in Conns, NEW p \in Seq(Cell), NEW s \in Seq(WholeFrames), ClientLike(s),
           ServerInv, ServerInv',
           TrackAt(c, p, s), Handler(c)
    PROVE  TracksOn(c, p, s)
<1>1. {"check_token", "log_receive"} \subseteq HandlerPCs BY DEF HandlerPCs
<1>2. CASE AuthToken(c) BY <1>1, <1>2, PayloadTracked DEF AuthToken, At
<1>3. CASE TelemetryPayload(c) BY <1>1, <1>3, PayloadTracked DEF TelemetryPayload, At
<1>4. CASE AuthHeader(c) \/ NextHeader(c) BY <1>4, HeaderTracked
<1>5. CASE UnknownType(c) BY <1>5, UnknownTracked
<1>6. CASE Drain(c) BY <1>6, DrainTracked
<1>7. CASE LogReceive(c) \/ BeginTransfer(c) BY <1>7, RecordTracked
<1>8. CASE \/ CheckToken(c) \/ BuildDataset(c) \/ SendAck(c) \/ SendDataset(c)
           \/ AuthClose(c) \/ Close(c)
  BY <1>8, ReplyStepTracked
<1>9. CASE \/ Begin(c) \/ LogConnect(c) \/ AuthReadFails(c) \/ AuthFailed(c)
           \/ AuthDisconnect(c) \/ Authenticated(c) \/ StartReceiving(c)
           \/ HeaderFails(c) \/ PayloadFails(c) \/ EndTransfer(c) \/ CheckFuelAlert(c)
           \/ LogLost(c) \/ LogDisconnect(c) \/ Disconnect(c)
  BY <1>9, PlainStepTracked
<1> QED
  BY <1>2, <1>3, <1>4, <1>5, <1>6, <1>7, <1>8, <1>9 DEF Handler, Authenticating, Serving

-----------------------------------------------------------------------------
(***************************************************************************)
(* The main thread and the peers.                                          *)
(***************************************************************************)
\* A connection that is reset misses nothing.
LEMMA ResetAlike ==
    ASSUME NEW r, NEW x \in Connection, NEW p
    PROVE  Alike(r, ResetOf(x), p)
<1>1. ResetOf(x).link = "broken" BY ResetTypes
<1> QED BY <1>1 DEF Alike, Flowing

\* The main thread starts a handler, or takes the connections away.
LEMMA MainTracked ==
    ASSUME ServerInv, NEW c \in Conns, NEW p \in Seq(Cell),
           NEW s \in Seq(WholeFrames), TrackAt(c, p, s), MainThread
    PROVE  TracksOn(c, p, s)
<1>1. /\ thread \in [Conns -> Thread] /\ conn \in [Conns -> Connection]
      /\ thread[c] \in Thread /\ conn[c] \in Connection
      /\ HandlerFits(thread[c], conn[c])
  BY HandlerParts
<1>2. Track(thread[c], conn[c], p, s) BY DEF TrackAt
<1>3. CASE UNCHANGED <<conn, thread>> BY <1>2, <1>3 DEF TracksOn
<1>4. CASE ServerSocketsGone /\ UNCHANGED thread
  <2>1. Track(thread[c], ResetOf(conn[c]), p, s)
    <3>1. Alike(conn[c], ResetOf(conn[c]), p) BY <1>1, ResetAlike
    <3> QED BY <1>2, <3>1, TrackLink
  <2>2. conn'[c] = conn[c] \/ conn'[c] = ResetOf(conn[c])
    BY <1>4 DEF ServerSocketsGone
  <2> QED BY <1>2, <1>4, <2>1, <2>2 DEF TracksOn
<1>5. ASSUME NEW d \in Conns, Accept(d) PROVE TracksOn(c, p, s)
  <2>1. CASE d # c
    <3>1. thread'[c] = thread[c] /\ conn'[c] = conn[c]
      BY <1>1, <1>5, <2>1 DEF Accept, ServerAccepts, Update
    <3> QED BY <1>2, <3>1 DEF TracksOn
  <2>2. CASE d = c
    <3> DEFINE t == thread[c]
               u == thread'[c]
               r == conn[c]
               q == conn'[c]
    <3>1. /\ r.link = "backlog"
          /\ q = [r EXCEPT !.link = "open", !.serverOpen = TRUE]
          /\ u = [t EXCEPT !.pc = "spawned"]
      BY <1>1, <1>5, <2>2 DEF Accept, ServerAccepts, Update
    <3>2. q.link = "open" /\ q.up = r.up /\ u.pc = "spawned" /\ u.log = t.log
      BY <1>1, <3>1 DEF Connection, Thread
    <3>3. t.pc = "none" BY <1>1, <3>1 DEF HandlerFits
    <3>4. Track(t, r, p, s) BY <1>2
    <3> HIDE DEF t, u, r, q
    <3>5. Due(u) = Due(t) /\ Asked(u) = Asked(t) BY <3>2, <3>3 DEF Due, Asked
    <3>6. TypeFits(u) /\ Held(u) = Held(t) BY <3>2, <3>3 DEF TypeFits, Held
    <3>7. t.pc \in Before /\ t.pc \in Listening /\ Flowing(r, p)
      BY <3>1, <3>3 DEF Before, Listening, HandlerPCs, Flowing
    <3>8. Track(u, q, p, s) BY <3>2, <3>4, <3>5, <3>6, <3>7, TrackAlike
    <3> QED BY <3>8 DEF TracksOn, u, q
  <2> QED BY <2>1, <2>2
<1> QED
  BY <1>3, <1>4, <1>5 DEF MainThread, InitializeWinsock, StartServer, AcceptFails, Cleanup,
     Return, netVars

\* The peer begins another frame.
LEMMA BegunTracked ==
    ASSUME NEW t, NEW r, r.up \in Seq(Cell), r.clientOpen,
           Held(t) \in Seq(Cell), NEW s \in Seq(WholeFrames), NEW f \in WholeFrames, Track(t, r, <<>>, s)
    PROVE  Track(t, r, f, Append(s, f))
<1> DEFINE w == Append(s, f)
           x == Held(t)
           y == r.up
<1>1. PICK k \in 0..Len(s), F \in [0..Len(s) -> Seq(Cell)] :
        Unrolls(F, s) /\ Tracked(t, r, <<>>, s, k, F)
  BY DEF Track
<1>2. PICK G \in [0..Len(w) -> Seq(Cell)] :
        Unrolls(G, w) /\ \A j \in 0..Len(s) : G[j] = F[j] \o f
  <2>1. s \in Seq(WholeFrames) /\ f \in WholeFrames BY FrameMembers
  <2> QED BY <1>1, <2>1, UnrollsMore, ZenonT(40)
<1>3. /\ Len(s) \in Nat /\ k \in Nat /\ Len(w) = Len(s) + 1 /\ f \in Seq(Cell)
      /\ \A j \in 1..Len(s) : w[j] = s[j]
  BY AppendProperties, LenProperties DEF WholeFrames
<1>4. SubSeq(w, 1, k) = SubSeq(s, 1, k) BY <1>1, FirstOnes
<1> HIDE DEF w
<1>5. k \in 0..Len(w) /\ k < Len(w) BY <1>1, <1>3
<1>6. r.link # "none" BY <1>1 DEF Tracked
<1>7. ASSUME t.pc \in Listening, Flowing(r, f) PROVE Held(t) \o (r.up \o f) = G[k]
  <2>1. Flowing(r, <<>>) BY <1>7 DEF Flowing
  <2>2. x \o (y \o <<>>) = F[k] BY <1>1, <1>7, <2>1 DEF Tracked
  <2>3. x \in Seq(Cell) /\ y \in Seq(Cell) OBVIOUS
  <2> HIDE DEF x, y
  <2>4. y \o <<>> = y BY <2>3, ConcatEmptySeq
  <2>5. (x \o y) \o f = x \o (y \o f)
    <3>1. \A a, b, d \in Seq(Cell) : (a \o b) \o d = a \o (b \o d) BY ONLY Regrouped, Zenon
    <3> QED BY ONLY <1>3, <2>3, <3>1, Zenon
  <2>6. G[k] = F[k] \o f BY <1>1, <1>2
  <2>7. x \o y = F[k] BY ONLY <2>2, <2>4, Zenon
  <2>8. x \o (y \o f) = G[k] BY ONLY <2>5, <2>6, <2>7, Zenon
  <2> QED BY <2>8 DEF x, y
<1>8. t.pc = "check_token" => k > 0 /\ w[1] = <<t.hdr>> \o t.buf
  <2> SUFFICES ASSUME t.pc = "check_token" PROVE k > 0 /\ w[1] = <<t.hdr>> \o t.buf
    OBVIOUS
  <2>1. k > 0 /\ s[1] = <<t.hdr>> \o t.buf BY <1>1 DEF Tracked
  <2>2. 1 \in 1..Len(s) BY <1>1, <1>3, <2>1
  <2> QED BY <1>3, <2>1, <2>2
<1>9. t.pc = "log_receive" => k > 0 /\ ~IsRequest(w[k])
  <2> SUFFICES ASSUME t.pc = "log_receive" PROVE k > 0 /\ ~IsRequest(w[k]) OBVIOUS
  <2>1. k > 0 /\ ~IsRequest(s[k]) BY <1>1 DEF Tracked
  <2>2. k \in 1..Len(s) BY <1>1, <1>3, <2>1
  <2> QED BY <1>3, <2>1, <2>2
<1>10. Tracked(t, r, f, w, k, G) BY <1>1, <1>4, <1>5, <1>6, <1>7, <1>8, <1>9 DEF Tracked
<1>11. Track(t, r, f, w) BY <1>2, <1>5, <1>10 DEF Track
<1> QED BY <1>11 DEF w

\* The peer hands over a cell.
LEMMA SentTracked ==
    ASSUME NEW t, NEW r, NEW q, NEW p \in Seq(Cell), p # <<>>, NEW s, r.up \in Seq(Cell),
           Track(t, r, p, s), r.clientOpen, r.link # "none", q.link # "none",
           \/ ~Flowing(q, Tail(p))
           \/ /\ q.up = Append(r.up, Head(p))
              /\ q.link = r.link /\ q.serverOpen = r.serverOpen
    PROVE  Track(t, q, Tail(p), s)
<1>1. PICK k \in 0..Len(s), F \in [0..Len(s) -> Seq(Cell)] :
        Unrolls(F, s) /\ Tracked(t, r, p, s, k, F)
  BY DEF Track
<1>2. ASSUME t.pc \in Listening, Flowing(q, Tail(p))
      PROVE  Held(t) \o (q.up \o Tail(p)) = F[k]
  <2>1. q.up = Append(r.up, Head(p)) /\ q.link = r.link /\ q.serverOpen = r.serverOpen
    BY <1>2
  <2>2. Flowing(r, p) BY <1>2, <2>1 DEF Flowing
  <2>3. Held(t) \o (r.up \o p) = F[k] BY <1>1, <1>2, <2>2 DEF Tracked
  <2> DEFINE a == r.up
  <2>4. a \in Seq(Cell) /\ p \in Seq(Cell) /\ p # <<>> OBVIOUS
  <2> HIDE DEF a
  <2>5. Append(a, Head(p)) \o Tail(p) = a \o p BY ONLY <2>4, Shifted
  <2> QED BY <2>1, <2>3, <2>5 DEF a
<1>3. Tracked(t, q, Tail(p), s, k, F) BY <1>1, <1>2 DEF Tracked
<1> QED BY <1>1, <1>3 DEF Track
\* As many frames as there are.
LEMMA AllOnes ==
    ASSUME NEW S, NEW s \in Seq(S)
    PROVE  SubSeq(s, 1, Len(s)) = s
<1> DEFINE u == SubSeq(s, 1, Len(s))
<1>1. Len(s) \in Nat /\ Len(s) \in 0..Len(s) BY LenProperties
<1>2. u \in Seq(S) /\ Len(u) = Len(s) /\ \A i \in 1..Len(s) : u[i] = s[i]
  BY <1>1, FirstOnes
<1> HIDE DEF u
<1>3. u = s BY <1>2, SeqEqual
<1> QED BY <1>3 DEF u

\* What is about to be logged comes behind what is logged.
LEMMA DueBehind ==
    ASSUME NEW t \in Thread, NEW v, Len(v) \in Nat, Prefix(Due(t), v)
    PROVE  Prefix(ReadingsIn(t.log), v)
<1> DEFINE T == {x[2] : x \in Row}
           I == {i \in DOMAIN t.log : IsReceived(t.log[i])}
           rows == Selected(t.log, I)
           w == ReadingsIn(t.log)
<1>1. t.log \in Seq(Row) BY DEF Thread
<1>2. I \in SUBSET (1..Len(t.log)) BY <1>1, LenProperties
<1> HIDE DEF I
<1>3. rows \in Seq(Row) BY <1>1, <1>2, SelectedType
<1>4. w = [k \in DOMAIN rows |-> rows[k][2]] BY DEF ReadingsIn, I
<1> HIDE DEF rows, w
<1>5. Len(w) \in Nat /\ w \in Seq(T)
  <2>1. DOMAIN rows = 1..Len(rows) /\ Len(rows) \in Nat BY <1>3, LenProperties
  <2>2. \A k \in 1..Len(rows) : rows[k] \in Row BY <1>3, ElementOfSeq
  <2>3. \A k \in 1..Len(rows) : rows[k][2] \in T BY <2>2
  <2> HIDE DEF T
  <2>4. w \in Seq(T) BY <1>4, <2>1, <2>3, SeqDef
  <2> QED BY <2>4, LenProperties
<1>6. CASE t.pc # "log_receive" BY <1>6 DEF Due, w
<1>7. CASE t.pc = "log_receive"
  <2> DEFINE x == DeserializedFuel(t.hdr.num, t.buf)
             U == T \cup {x}
             d == Append(w, x)
  <2>1. d = Due(t) BY <1>7 DEF Due, w
  <2>2. w \in Seq(U) BY <1>5, SeqDef
  <2> HIDE DEF x, T
  <2>3. x \in U OBVIOUS
  <2> HIDE DEF U
  <2>4. Len(d) = Len(w) + 1 /\ \A k \in 1..Len(w) : d[k] = w[k]
    BY <2>2, <2>3, AppendProperties
  <2> HIDE DEF d
  <2>5. Len(w) + 1 <= Len(v) /\ \A k \in 1..(Len(w) + 1) : d[k] = v[k]
    BY <2>1, <2>4 DEF Prefix
  <2>6. Len(w) <= Len(v) BY <1>5, <2>5
  <2>7. \A k \in 1..Len(w) : k \in 1..(Len(w) + 1) BY <1>5
  <2> QED BY <2>4, <2>5, <2>6, <2>7 DEF Prefix, w
<1> QED BY <1>6, <1>7

-----------------------------------------------------------------------------
(***************************************************************************)
(* What the sender's end of a connection does to the place in the frames,  *)
(* and what the place says of the log.                                     *)
(***************************************************************************)
\* Nothing reports nothing.
LEMMA OfNothing ==
    /\ ReadingsIn(<<>>) = <<>> /\ ReadingsOf(<<>>) = <<>>
    /\ TransfersIn(<<>>) = 0 /\ RequestsOf(<<>>) = 0
<1>1. Cardinality({}) = 0 BY FS_EmptySet
<1>2. ReadingsOf(<<>>) = <<>>
  <2>1. {i \in DOMAIN <<>> : IsReading(<<>>[i])} = {} OBVIOUS
  <2>2. Selected(<<>>, {}) = <<>> BY <1>1 DEF Selected
  <2> QED BY <2>1, <2>2 DEF ReadingsOf
<1>3. ReadingsIn(<<>>) = <<>>
  <2>1. {i \in DOMAIN <<>> : IsReceived(<<>>[i])} = {} OBVIOUS
  <2>2. Selected(<<>>, {}) = <<>> BY <1>1 DEF Selected
  <2> QED BY <2>1, <2>2 DEF ReadingsIn
<1>4. TransfersIn(<<>>) = 0 /\ RequestsOf(<<>>) = 0
  <2>1. {i \in DOMAIN <<>> : IsTransfer(<<>>[i])} = {} OBVIOUS
  <2>2. {i \in DOMAIN <<>> : IsRequest(<<>>[i])} = {} OBVIOUS
  <2> QED BY <1>1, <2>1, <2>2 DEF TransfersIn, RequestsOf
<1> QED BY <1>2, <1>3, <1>4

\* Nobody has sent anything and nothing is logged.
LEMMA EmptyTrack ==
    ASSUME NEW t, NEW r, t.pc = "none", t.log = <<>>, r.link = "none", r.up = <<>>,
           ~r.clientOpen
    PROVE  Track(t, r, <<>>, <<>>)
<1> DEFINE s == <<>>
           F == [j \in 0..0 |-> <<>>]
<1>1. /\ F \in [0..Len(s) -> Seq(Cell)] /\ F[0] = <<>> /\ Len(s) = 0
      /\ \A j \in 0..(Len(s) - 1) : FALSE
  OBVIOUS
<1> HIDE DEF F
<1>2. Unrolls(F, s) BY <1>1 DEF Unrolls
<1>4. SubSeq(s, 1, 0) = <<>>
  <2>1. <<>> \in Seq(WholeFrames) BY EmptySeq
  <2>2. SubSeq(s, 1, 0) \in Seq(WholeFrames) /\ Len(SubSeq(s, 1, 0)) = 0
    BY <1>1, <2>1, FirstOnes
  <2> QED BY <2>2, EmptySeq
<1>5. /\ ReadingsIn(<<>>) = <<>> /\ ReadingsOf(<<>>) = <<>>
      /\ TransfersIn(<<>>) = 0 /\ RequestsOf(<<>>) = 0
  BY OfNothing
<1>7. Due(t) = <<>> /\ Asked(t) = 0 /\ TypeFits(t) /\ Held(t) = <<>>
  BY <1>5 DEF Due, Asked, TypeFits, Held
<1>8. <<>> \o (<<>> \o <<>>) = <<>> OBVIOUS
<1>9. Tracked(t, r, <<>>, s, 0, F)
  BY <1>1, <1>4, <1>5, <1>7, <1>8 DEF Tracked
<1>10. 0 \in 0..Len(s) BY <1>1
<1> QED BY <1>1, <1>2, <1>9, <1>10 DEF Track

\* Whatever else the sender's end does, and a failure of the link, loses
\* nothing that would be missed.
LEMMA ClientAlike ==
    ASSUME NetTypeOK, NEW c \in Conns, conn[c].link = "none" => ~conn[c].clientOpen, NEW p,
           ClientConnects(c) \/ ClientTakes(c) \/ ClientCloses(c) \/ ClientDies(c) \/ Break(c)
    PROVE  Alike(conn[c], conn'[c], p)
<1> DEFINE r == conn[c]
           q == conn'[c]
           closed == [r EXCEPT !.clientOpen = FALSE]
<1>1. conn \in [Conns -> Connection] /\ r \in Connection BY DEF NetTypeOK
<1>2. CASE ClientConnects(c)
  <2>1. r.link = "none" /\ q = [r EXCEPT !.link = "backlog", !.clientOpen = TRUE]
    BY <1>1, <1>2 DEF ClientConnects, Update
  <2>2. q.link = "backlog" /\ q.up = r.up BY <1>1, <2>1 DEF Connection
  <2> QED BY <2>1, <2>2 DEF Alike, Flowing
<1>3. CASE ClientTakes(c)
  <2>1. q = [r EXCEPT !.down = Tail(@)] BY <1>1, <1>3 DEF ClientTakes, Update
  <2>2. /\ q.up = r.up /\ q.link = r.link /\ q.clientOpen = r.clientOpen
        /\ q.serverOpen = r.serverOpen
    BY <1>1, <2>1 DEF Connection
  <2> QED BY <2>2 DEF Alike, Flowing
<1>4. CASE ClientCloses(c) \/ ClientDies(c)
  <2>1. /\ closed \in Connection /\ closed.up = r.up /\ closed.link = r.link
        /\ ~closed.clientOpen /\ closed.serverOpen = r.serverOpen
    BY <1>1 DEF Connection
  <2>2. q = closed \/ q = ResetOf(closed)
    BY <1>1, <1>4 DEF ClientCloses, ClientDies, Update
  <2> HIDE DEF closed
  <2>3. Alike(r, closed, p) BY <2>1 DEF Alike, Flowing
  <2>4. Alike(r, ResetOf(closed), p) BY <2>1, ResetAlike
  <2> QED BY <2>2, <2>3, <2>4
<1>5. CASE Break(c)
  <2>1. q = ResetOf(r) BY <1>1, <1>5 DEF Break, Update
  <2> QED BY <1>1, <2>1, ResetAlike
<1> QED BY <1>2, <1>3, <1>4, <1>5

\* A cell handed over to the connection, or lost with it.
LEMMA CellSent ==
    ASSUME NetTypeOK, NEW c \in Conns, NEW t, NEW p \in Seq(Cell), p # <<>>, NEW s,
           Track(t, conn[c], p, s), conn[c].clientOpen, ClientSends(c, Head(p))
    PROVE  Track(t, conn'[c], Tail(p), s)
<1> DEFINE r == conn[c]
           q == conn'[c]
           x == Head(p)
<1>1. conn \in [Conns -> Connection] /\ r \in Connection /\ r.up \in Seq(Cell)
  BY DEF NetTypeOK, Connection
<1>2. Connected(c) /\ r.link # "none" BY DEF ClientSends, Connected
<1>3. /\ q.link # "none"
      /\ \/ ~Flowing(q, Tail(p))
         \/ q.up = Append(r.up, x) /\ q.link = r.link /\ q.serverOpen = r.serverOpen
  <2>1. CASE q = ResetOf(r)
    <3>1. q.link = "broken" BY <1>1, <2>1, ResetTypes
    <3> QED BY <3>1 DEF Flowing
  <2>2. CASE ServerGone(c) /\ q = r BY <1>2, <2>2 DEF Flowing, ServerGone
  <2>3. CASE q = [r EXCEPT !.up = Append(@, x)]
    <3>1. q.up = Append(r.up, x) /\ q.link = r.link /\ q.serverOpen = r.serverOpen
      BY <1>1, <2>3 DEF Connection
    <3> QED BY <1>2, <3>1
  <2> QED BY <1>1, <2>1, <2>2, <2>3 DEF ClientSends, Update, netVars
<1>4. Track(t, r, p, s) OBVIOUS
<1> HIDE DEF r, q, x
<1>5. r.clientOpen BY DEF r
<1>6. Track(t, q, Tail(p), s) BY <1>1, <1>2, <1>3, <1>4, <1>5, SentTracked DEF x
<1> QED BY <1>6 DEF q

\* What a handler has read of a frame is cells.
LEMMA HeldCells ==
    ASSUME ServerInv, NEW c \in Conns
    PROVE  Held(thread[c]) \in Seq(Cell)
<1> DEFINE t == thread[c]
<1>1. t.hdr \in Cell /\ t.buf \in Seq(Cell) BY HandlerParts
<1>2. <<t.hdr>> \o t.buf \in Seq(Cell) /\ <<>> \in Seq(Cell) BY <1>1, CellBehind
<1> QED BY <1>2 DEF Held

\* The frames handed over to the last cell.
HandedOver(p, s) == IF p = <<>> THEN s ELSE SubSeq(s, 1, Len(s) - 1)

\* The readings logged are the first of those handed over.
LEMMA TrackedLog ==
    ASSUME NEW t \in Thread, NEW r, NEW p, NEW s \in Seq(WholeFrames), Track(t, r, p, s)
    PROVE  Prefix(ReadingsIn(t.log), ReadingsOf(HandedOver(p, s)))
<1>1. PICK k \in 0..Len(s), F \in [0..Len(s) -> Seq(Cell)] : Tracked(t, r, p, s, k, F)
  BY DEF Track
<1>2. PICK n \in 0..Len(s) : k \in 0..n /\ HandedOver(p, s) = SubSeq(s, 1, n)
  <2>1. Len(s) \in Nat BY LenProperties
  <2>2. CASE p = <<>>
    <3>1. SubSeq(s, 1, Len(s)) = s BY AllOnes
    <3>2. HandedOver(p, s) = SubSeq(s, 1, Len(s)) BY <2>2, <3>1 DEF HandedOver
    <3>3. Len(s) \in 0..Len(s) /\ k \in 0..Len(s) BY <2>1
    <3> QED BY <3>2, <3>3
  <2>3. CASE p # <<>>
    <3>1. k < Len(s) BY <1>1, <2>3 DEF Tracked
    <3>2. Len(s) - 1 \in 0..Len(s) /\ k \in 0..(Len(s) - 1) BY <2>1, <3>1
    <3> QED BY <2>3, <3>2 DEF HandedOver
  <2> QED BY <2>2, <2>3
<1>3. /\ Prefix(Due(t), ReadingsOf(SubSeq(s, 1, n)))
      /\ Len(ReadingsOf(SubSeq(s, 1, n))) \in Nat
  <2>1. Due(t) = ReadingsOf(SubSeq(s, 1, k)) BY <1>1 DEF Tracked
  <2> QED BY <1>2, <2>1, ReadingsPrefix
<1> QED BY <1>2, <1>3, DueBehind

\* Where nothing is left of the frames, the last of them has been read.
LEMMA NoneLeft ==
    ASSUME NEW s \in Seq(WholeFrames), NEW F \in [0..Len(s) -> Seq(Cell)], Unrolls(F, s),
           NEW k \in 0..Len(s), F[k] = <<>>
    PROVE  k = Len(s)
<1> SUFFICES ASSUME k # Len(s) PROVE FALSE
  OBVIOUS
<1>1. Len(s) \in Nat BY LenProperties
<1>2. k \in 0..(Len(s) - 1) /\ k + 1 \in 1..Len(s) /\ k + 1 \in 0..Len(s) BY <1>1
<1> DEFINE f == s[k + 1]
           g == F[k + 1]
<1>3. f \o g = <<>> BY <1>2 DEF Unrolls
<1>4. f \in Seq(Cell) /\ f # <<>> /\ g \in Seq(Cell) BY <1>1, <1>2, FrameMembers, FrameCells
<1> HIDE DEF f, g
<1> QED BY <1>3, <1>4, ConcatEqualIffEmpty

-----------------------------------------------------------------------------
(***************************************************************************)
(* A client can follow the replies.  What its peer has read, what is on    *)
(* its way and what is left to send spell the verdict and one dataset for  *)
(* each transfer begun, as long as both ends are there; what is cut off is *)
(* cut off at the end.                                                     *)
(***************************************************************************)
\* Places before the verdict, and those from which datasets follow it.
Silent == Before \cup {"check_token"}

Answering == {"auth_ack", "authenticated", "receiving", "header", "transfer", "build_dataset",
             "send_dataset", "transferred", "payload", "log_receive", "alert", "unknown",
             "drain"}

Live(r) == r.link = "open" /\ r.clientOpen /\ r.serverOpen

\* The i-th cell of the replies after verdict ok.
Expected(ok, i) ==
    IF i <= 2 THEN AuthAck(ok)[i] ELSE DataResponse[((i - 3) % (DatasetSize + 1)) + 1]

Framed(ok, w) == \A i \in DOMAIN w : w[i] = Expected(ok, i)

\* The cells of the verdict and m datasets.
Room(m) == 2 + m * (DatasetSize + 1)

\* The datasets built: one for each transfer begun, but the one under way.
Built(t) == TransfersIn(t.log) - (IF t.pc = "build_dataset" THEN 1 ELSE 0)

\* The first frame asks for a verdict, is complete, and ok is the verdict.
Judged(ok, p, s) ==
    /\ s # <<>>
    /\ Len(s) = 1 => p = <<>>
    /\ s[1][1].text = "PKT_AUTH_REQUEST"
    /\ ok <=> s[1] = AuthRequest(AUTH_TOKEN)

\* A handler t on connection r; w are the cells its peer has read or will.
Replied(t, r, p, s, w) ==
    /\ t.pc \in Silent => w = <<>> /\ TransfersIn(t.log) = 0
    /\ t.pc \notin {"auth_ack", "send_dataset"} => t.out = <<>>
    /\ t.pc \in Answering \/ w # <<>> => Judged(t.authOK, p, s)
    /\ Framed(t.authOK, w)
    /\ Len(w) <= Room(TransfersIn(t.log))
    /\ Built(t) \in Nat
    /\ t.pc \in Answering /\ Live(r) =>
          /\ Framed(t.authOK, w \o t.out)
          /\ Len(w) + Len(t.out) = Room(Built(t))

-----------------------------------------------------------------------------
(***************************************************************************)
(* Counting the cells of the replies.                                      *)
(***************************************************************************)
LEMMA Remainder ==
    ASSUME NEW a \in Nat, NEW b \in Nat, NEW q \in Nat, NEW r \in Nat,
           b > 0, r < b, a = b * q + r
    PROVE  a % b = r
OBVIOUS

\* Behind the verdict and m datasets, the next dataset begins.
LEMMA DatasetPlace ==
    ASSUME NEW ok, NEW m \in Nat, NEW j \in 1..(DatasetSize + 1)
    PROVE  Expected(ok, Room(m) + j) = DataResponse[j]
<1> DEFINE b == DatasetSize + 1
           i == Room(m) + j
           a == i - 3
           r == j - 1
<1>1. b * m \in Nat /\ b \in Nat /\ b > 0 /\ r \in Nat /\ r < b BY PacketsAssumption
<1>2. a = b * m + r /\ ~(i <= 2) BY <1>1, PacketsAssumption DEF Room
<1>3. a \in Nat BY <1>1, <1>2
<1>4. Expected(ok, i) = DataResponse[(a % b) + 1] BY <1>2 DEF Expected
<1>5. r + 1 = j OBVIOUS
<1> HIDE DEF a, b, r, i
<1>6. a % b = r BY <1>1, <1>2, <1>3, Remainder
<1> QED BY <1>4, <1>5, <1>6 DEF i

\* One dataset more takes as much more.
LEMMA RoomMore ==
    /\ Room(0) = 2
    /\ \A m \in Nat : Room(m) \in Nat /\ Room(m) >= 2
    /\ \A m \in Nat : Room(m + 1) = Room(m) + (DatasetSize + 1)
    /\ \A m, n \in Nat : m <= n => Room(m) <= Room(n)
<1> DEFINE b == DatasetSize + 1
<1>1. b \in Nat /\ \A m \in Nat : Room(m) = 2 + m * b BY PacketsAssumption DEF Room
<1> HIDE DEF b
<1>2. \A m \in Nat : m * b \in Nat BY <1>1
<1>3. \A m \in Nat : Room(m + 1) = Room(m) + b BY <1>1
<1>4. ASSUME NEW m \in Nat, NEW n \in Nat, m <= n PROVE Room(m) <= Room(n)
  <2> DEFINE d == n - m
  <2>1. d \in Nat /\ n = m + d BY <1>4
  <2> HIDE DEF d
  <2>2. d * b \in Nat /\ m * b \in Nat BY <1>2, <2>1
  <2>3. n * b = m * b + d * b BY <1>1, <2>1
  <2> QED BY <1>1, <2>2, <2>3
<1>5. Room(0) = 2 BY <1>1
<1>6. \A m \in Nat : Room(m) \in Nat /\ Room(m) >= 2 BY <1>1, <1>2
<1> QED BY <1>3, <1>4, <1>5, <1>6 DEF b

\* How long the replies are.
LEMMA ReplyLengths ==
    /\ DataResponse \in Seq(Cell) /\ Len(DataResponse) = DatasetSize + 1
    /\ \A ok \in BOOLEAN : AuthAck(ok) \in Seq(Cell) /\ Len(AuthAck(ok)) = 2
<1> DEFINE h == Header("PKT_DATA_RESPONSE", DatasetSize)
           rows == [i \in 1..DatasetSize |-> Bytes("row")]
<1>1. h \in Cell /\ Bytes("row") \in Cell
  BY CellTypes, PacketsAssumption DEF PacketTypes, Texts
<1>2. rows \in Seq(Cell) /\ Len(rows) = DatasetSize
  BY <1>1, PacketsAssumption, SeqDef
<1>3. DataResponse = <<h>> \o rows BY DEF DataResponse
<1> HIDE DEF h, rows
<1>4. Len(<<h>> \o rows) = Len(rows) + 1 BY <1>1, <1>2, CellBehind
<1>5. Len(DataResponse) = DatasetSize + 1 BY <1>2, <1>3, <1>4
<1>6. \A ok \in BOOLEAN : Len(AuthAck(ok)) = 2 BY DEF AuthAck
<1> QED BY <1>5, <1>6, ReplyTypes

\* The beginning of what is framed is framed.
LEMMA FramedPrefix ==
    ASSUME NEW ok, NEW a \in Seq(Cell), NEW b \in Seq(Cell), Framed(ok, a \o b)
    PROVE  Framed(ok, a)
<1> DEFINE ab == a \o b
<1>1. /\ Len(a) \in Nat /\ Len(b) \in Nat /\ ab \in Seq(Cell) /\ Len(ab) = Len(a) + Len(b)
      /\ \A i \in 1..(Len(a) + Len(b)) : ab[i] = IF i <= Len(a) THEN a[i] ELSE b[i - Len(a)]
  BY ConcatProperties, LenProperties
<1>2. Framed(ok, ab) OBVIOUS
<1> HIDE DEF ab
<1>3. DOMAIN a = 1..Len(a) /\ DOMAIN ab = 1..(Len(a) + Len(b)) BY <1>1, LenProperties
<1>4. \A i \in 1..Len(a) : i \in 1..(Len(a) + Len(b)) /\ i <= Len(a) BY <1>1
<1> QED BY <1>1, <1>2, <1>3, <1>4 DEF Framed

\* A whole dataset behind whole datasets.
LEMMA FramedMore ==
    ASSUME NEW ok, NEW w \in Seq(Cell), NEW m \in Nat, Framed(ok, w), Len(w) = Room(m)
    PROVE  Framed(ok, w \o DataResponse)
<1> DEFINE b == DataResponse
           wb == w \o b
           n == DatasetSize + 1
<1>1. b \in Seq(Cell) /\ Len(b) = n /\ n \in Nat /\ Len(w) \in Nat
  BY ReplyLengths, PacketsAssumption, LenProperties
<1> HIDE DEF b, n
<1>2. /\ wb \in Seq(Cell) /\ Len(wb) = Len(w) + n
      /\ \A i \in 1..(Len(w) + n) : wb[i] = IF i <= Len(w) THEN w[i] ELSE b[i - Len(w)]
  <2>1. /\ wb \in Seq(Cell) /\ Len(wb) = Len(w) + Len(b)
        /\ \A i \in 1..(Len(w) + Len(b)) : wb[i] = IF i <= Len(w) THEN w[i] ELSE b[i - Len(w)]
    BY <1>1, ConcatProperties
  <2> HIDE DEF wb
  <2> QED BY <1>1, <2>1
<1> HIDE DEF wb
<1>3. ASSUME NEW i \in 1..(Len(w) + n) PROVE wb[i] = Expected(ok, i)
  <2>1. CASE i <= Len(w)
    <3>1. i \in DOMAIN w BY <1>1, <2>1, LenProperties
    <3> QED BY <1>2, <2>1, <3>1 DEF Framed
  <2>2. CASE ~(i <= Len(w))
    <3> DEFINE j == i - Len(w)
    <3>1. j \in 1..n /\ i = Len(w) + j BY <1>1, <2>2
    <3>2. wb[i] = b[j] BY <1>2, <2>2
    <3> HIDE DEF j
    <3>3. Expected(ok, Room(m) + j) = DataResponse[j] BY <3>1, DatasetPlace DEF n
    <3> QED BY <3>1, <3>2, <3>3 DEF b
  <2> QED BY <2>1, <2>2
<1>4. DOMAIN wb = 1..(Len(w) + n) BY <1>2, LenProperties
<1>5. Framed(ok, wb) BY <1>3, <1>4 DEF Framed
<1> QED BY <1>5 DEF wb, b

\* The verdict alone.
LEMMA FramedVerdict ==
    ASSUME NEW ok \in BOOLEAN PROVE Framed(ok, <<>> \o AuthAck(ok)) /\ Framed(ok, <<>>)
<1> DEFINE a == AuthAck(ok)
<1>1. a \in Seq(Cell) /\ Len(a) = 2 BY ReplyLengths
<1> HIDE DEF a
<1>2. <<>> \o a = a BY <1>1, ConcatEmptySeq
<1>3. DOMAIN a = 1..2 BY <1>1, LenProperties
<1>4. \A i \in 1..2 : a[i] = Expected(ok, i) BY DEF Expected, a
<1>5. Framed(ok, a) BY <1>3, <1>4 DEF Framed
<1>6. Framed(ok, <<>>) BY DEF Framed
<1> QED BY <1>2, <1>5, <1>6 DEF a

-----------------------------------------------------------------------------
(***************************************************************************)
(* What steps do to the replies.                                           *)
(***************************************************************************)
RepliedAt(c, p, s, g) == Replied(thread[c], conn[c], p, s, g \o conn[c].down)

\* After a step of the server.
RepliedOn(c, p, s, g) == Replied(thread'[c], conn'[c], p, s, g \o conn'[c].down)

\* A connection that has become q loses replies or keeps them.
Shrinks(r, q) ==
    /\ q.down \in {r.down, <<>>}
    /\ Live(q) => Live(r) /\ q.down = r.down

\* A handler that has become u has made and sent nothing.
Mute(t, u) ==
    /\ u.authOK = t.authOK /\ u.out = t.out
    /\ TransfersIn(t.log) \in Nat /\ TransfersIn(u.log) \in Nat
    /\ TransfersIn(u.log) >= TransfersIn(t.log)
    /\ Built(u) = Built(t)
    /\ u.pc \in Silent => t.pc \in Silent
    /\ u.pc \in Answering => t.pc \in Answering
    /\ u.pc \notin {"auth_ack", "send_dataset"} => t.pc \notin {"auth_ack", "send_dataset"}

\* Such a step.
LEMMA MuteReplied ==
    ASSUME NEW t, NEW u, NEW r, NEW q, NEW p, NEW s, NEW g \in Seq(Cell),
           r.down \in Seq(Cell), Replied(t, r, p, s, g \o r.down), Mute(t, u), Shrinks(r, q)
    PROVE  Replied(u, q, p, s, g \o q.down)
<1> DEFINE d == r.down
           e == q.down
           w == g \o d
           v == g \o e
<1>1. /\ d \in Seq(Cell) /\ e \in Seq(Cell) /\ Len(g) \in Nat /\ Len(d) \in Nat
      /\ w \in Seq(Cell) /\ Len(w) = Len(g) + Len(d)
  <2>1. e \in Seq(Cell) /\ d \in Seq(Cell) BY EmptySeq DEF Shrinks
  <2> HIDE DEF d, e
  <2> QED BY <2>1, LenProperties, ConcatProperties
<1>2. /\ e = d => v = w
      /\ e # d => v = g
  <2>1. e # d => e = <<>> BY DEF Shrinks
  <2> HIDE DEF d, e
  <2> QED BY <2>1, ConcatEmptySeq
<1>3. /\ Framed(t.authOK, v) /\ Len(v) <= Len(w) /\ Len(v) \in Nat
      /\ v # <<>> => w # <<>>
  <2>1. Framed(t.authOK, w) BY DEF Replied
  <2> HIDE DEF d, e
  <2>2. Framed(t.authOK, g) BY <1>1, <2>1, FramedPrefix
  <2>3. g # <<>> => w # <<>> BY <1>1, ConcatEqualIffEmpty
  <2> HIDE DEF v, w
  <2> QED BY <1>1, <1>2, <2>1, <2>2, <2>3
<1>4. Room(TransfersIn(t.log)) <= Room(TransfersIn(u.log))
      /\ Room(TransfersIn(t.log)) \in Nat /\ Room(TransfersIn(u.log)) \in Nat
  BY RoomMore DEF Mute
<1>5. Live(q) => Live(r) /\ v = w BY <1>2 DEF Shrinks
<1>6. Replied(t, r, p, s, w) OBVIOUS
<1> HIDE DEF d, e, w, v
<1>7. w = <<>> => v = <<>> BY <1>3
<1>8. Len(w) <= Room(TransfersIn(t.log)) /\ Len(w) \in Nat BY <1>1, <1>6 DEF Replied
<1>9. Len(v) <= Room(TransfersIn(u.log)) BY <1>3, <1>4, <1>8
<1>10. u.pc \in Answering /\ Live(q) =>
          /\ Framed(u.authOK, v \o u.out)
          /\ Len(v) + Len(u.out) = Room(Built(u))
  BY <1>5, <1>6 DEF Replied, Mute
<1>11. /\ u.pc \in Silent => v = <<>>
       /\ u.pc \notin {"auth_ack", "send_dataset"} => u.out = <<>>
       /\ u.pc \in Answering \/ v # <<>> => Judged(u.authOK, p, s)
       /\ Framed(u.authOK, v)
       /\ Built(u) \in Nat
  BY <1>3, <1>6, <1>7 DEF Replied, Mute
<1>12. u.pc \in Silent => TransfersIn(u.log) = 0
  <2> SUFFICES ASSUME u.pc \in Silent PROVE TransfersIn(u.log) = 0
    OBVIOUS
  <2>1. t.pc \in Silent /\ Built(u) = Built(t) BY DEF Mute
  <2>2. TransfersIn(t.log) = 0 /\ TransfersIn(u.log) \in Nat BY <1>6, <2>1 DEF Replied, Mute
  <2>3. u.pc # "build_dataset" /\ t.pc # "build_dataset" BY <2>1 DEF Silent, Before
  <2> QED BY <2>1, <2>2, <2>3 DEF Built
<1>13. Replied(u, q, p, s, v) BY <1>9, <1>10, <1>11, <1>12 DEF Replied
<1> QED BY <1>13 DEF v, e

\* The log after a step.
LEMMA MuteLog ==
    ASSUME NEW t \in Thread, NEW u,
           u.authOK = t.authOK, u.out = t.out,
           u.log = t.log \/ \E row \in Row : ~IsTransfer(row) /\ u.log = Append(t.log, row),
           t.pc # "build_dataset", u.pc # "build_dataset",
           u.pc \in Silent => t.pc \in Silent,
           u.pc \in Answering => t.pc \in Answering,
           t.pc \notin {"auth_ack", "send_dataset"}
    PROVE  Mute(t, u)
<1>1. t.log \in Seq(Row) BY DEF Thread
<1>2. TransfersIn(t.log) \in Nat
  <2>1. <<"ERROR">> \in Row BY RowTypes
  <2> QED BY <1>1, <2>1, TransfersAppend
<1>3. TransfersIn(u.log) = TransfersIn(t.log) BY <1>1, TransfersAppend
<1> QED BY <1>2, <1>3 DEF Mute, Built

\* A connection as it was.
LEMMA SameShrinks == ASSUME NEW r PROVE Shrinks(r, r)
BY DEF Shrinks

\* A step of the handler that neither makes nor sends a reply.
LEMMA MuteStep ==
    ASSUME ServerInv, NEW c \in Conns, NEW p \in Seq(Cell),
           NEW s \in Seq(WholeFrames), NEW g \in Seq(Cell), RepliedAt(c, p, s, g),
           Mute(thread[c], thread'[c]), Shrinks(conn[c], conn'[c])
    PROVE  RepliedOn(c, p, s, g)
<1>1. g \in Seq(Cell) /\ conn[c].down \in Seq(Cell) BY HandlerParts
<1>2. Replied(thread[c], conn[c], p, s, g \o conn[c].down)
  BY DEF RepliedAt
<1> QED BY <1>1, <1>2, MuteReplied DEF RepliedOn

\* Rows, transitions and failed reads.
LEMMA PlainStepReplied ==
    ASSUME ServerInv, ServerInv', NEW c \in Conns, NEW p \in Seq(Cell),
           NEW s \in Seq(WholeFrames), NEW g \in Seq(Cell), RepliedAt(c, p, s, g),
           \/ Begin(c) \/ LogConnect(c) \/ AuthReadFails(c) \/ AuthFailed(c)
           \/ AuthDisconnect(c) \/ Authenticated(c) \/ StartReceiving(c)
           \/ HeaderFails(c) \/ PayloadFails(c) \/ EndTransfer(c) \/ CheckFuelAlert(c)
           \/ LogReceive(c) \/ UnknownType(c)
           \/ LogLost(c) \/ LogDisconnect(c) \/ Disconnect(c)
    PROVE  RepliedOn(c, p, s, g)
<1> DEFINE t == thread[c]
           u == thread'[c]
           Quiet == HandlerPCs \ {"auth_ack", "send_dataset", "build_dataset"}
<1>1. /\ t \in Thread /\ t.sm \in ServerState /\ t.sm = StateOf(t.pc)
      /\ HandlerFits(t, conn[c]) /\ t.hdr \in Cell /\ t.buf \in Seq(Cell)
  BY HandlerParts DEF Thread, HandlerFits
<1>2. ASSUME t.pc \in Quiet, NEW place \in Quiet,
             place \in Silent => t.pc \in Silent, place \in Answering => t.pc \in Answering,
             \/ Jump(c, place)
             \/ \E row \in Row : ~IsTransfer(row) /\ LogRow(c, row, place)
             \/ \E next \in ServerState, complete \in BOOLEAN :
                  /\ t.sm # "DATA_RECEIVING" \/ next # "DATA_TRANSFER"
                  /\ Transition(c, next, complete, place)
      PROVE  RepliedOn(c, p, s, g)
  <2>1. /\ u.pc = place /\ conn'[c] = conn[c] /\ u.out = t.out /\ u.authOK = t.authOK
        /\ u.log = t.log \/ \E row \in Row : ~IsTransfer(row) /\ u.log = Append(t.log, row)
    <3>1. CASE Jump(c, place) BY <3>1, JumpLeaves
    <3>2. ASSUME NEW row \in Row, ~IsTransfer(row), LogRow(c, row, place)
          PROVE  /\ u.pc = place /\ conn'[c] = conn[c] /\ u.out = t.out
                 /\ u.authOK = t.authOK /\ u.log = Append(t.log, row)
      BY <3>2, RowLeaves
    <3>3. ASSUME NEW next \in ServerState, NEW complete \in BOOLEAN,
                 t.sm # "DATA_RECEIVING" \/ next # "DATA_TRANSFER",
                 Transition(c, next, complete, place)
          PROVE  /\ u.pc = place /\ conn'[c] = conn[c] /\ u.out = t.out
                 /\ u.authOK = t.authOK /\ u.log = Append(t.log, Transitioned(t.sm, next))
                 /\ Transitioned(t.sm, next) \in Row /\ ~IsTransfer(Transitioned(t.sm, next))
      <4>1. Transitioned(t.sm, next) \in Row /\ ~IsTransfer(Transitioned(t.sm, next))
        BY <1>1, <3>3, RowTypes, NoRecordRows DEF NoRecord
      <4> QED BY <3>3, <4>1, TransitionLeaves
    <3> QED BY <1>2, <3>1, <3>2, <3>3
  <2>2. Mute(t, u) BY <1>1, <1>2, <2>1, MuteLog
  <2> QED BY <2>1, <2>2, SameShrinks, MuteStep
<1> HIDE DEF Quiet
<1>3. /\ {"CONNECTED", "DISCONNECTED", "AUTHENTICATED", "DATA_RECEIVING"} \subseteq ServerState
      /\ {<<"ERROR">>, <<"CONNECT">>, <<"DISCONNECT">>} \subseteq Row
  BY RowTypes DEF ServerState
<1>4. ~IsTransfer(<<"ERROR">>) /\ ~IsTransfer(<<"CONNECT">>) /\ ~IsTransfer(<<"DISCONNECT">>)
  BY NoRecordRows DEF NoRecord
<1>5. {"spawned", "log_connect", "auth_header", "auth_token", "auth_failed", "auth_close",
       "auth_disconnect", "done", "authenticated", "receiving", "header", "payload",
       "transferred", "alert", "log_receive", "unknown", "drain", "log_lost",
       "log_disconnect", "disconnect", "close"} \subseteq Quiet
  BY DEF Quiet, HandlerPCs
<1>6. /\ {"spawned", "log_connect", "auth_header", "auth_token"} \subseteq Silent
      /\ {"auth_failed", "auth_close", "auth_disconnect", "done", "receiving", "header",
          "alert", "drain", "log_lost", "log_disconnect", "disconnect", "close"}
            \cap Silent = {}
      /\ {"authenticated", "receiving", "header", "payload", "transferred", "alert",
          "log_receive", "unknown", "drain"} \subseteq Answering
      /\ {"auth_failed", "auth_close", "auth_disconnect", "done", "log_lost",
          "log_disconnect", "disconnect", "close", "log_connect", "auth_header"}
            \cap Answering = {}
  BY DEF Silent, Before, Answering
<1>7. CASE Begin(c) \/ LogConnect(c)
  BY <1>2, <1>3, <1>4, <1>5, <1>6, <1>7 DEF Begin, LogConnect, At
<1>8. CASE AuthReadFails(c) \/ HeaderFails(c) \/ PayloadFails(c)
  BY <1>2, <1>5, <1>6, <1>8 DEF AuthReadFails, HeaderFails, PayloadFails, At
<1>9. CASE AuthFailed(c) \/ AuthDisconnect(c)
  BY <1>2, <1>3, <1>4, <1>5, <1>6, <1>9 DEF AuthFailed, AuthDisconnect, At
<1>10. CASE LogLost(c) \/ LogDisconnect(c) \/ Disconnect(c)
  BY <1>2, <1>3, <1>4, <1>5, <1>6, <1>10 DEF LogLost, LogDisconnect, Disconnect, At
<1>11. CASE Authenticated(c) \/ StartReceiving(c) \/ EndTransfer(c)
  BY <1>2, <1>3, <1>5, <1>6, <1>11 DEF Authenticated, StartReceiving, EndTransfer, At
<1>12. CASE CheckFuelAlert(c) \/ LogReceive(c)
  <2>1. t.pc \in {"alert", "log_receive"} /\ PacketFuel(c) \in Nat
    <3>1. t.pc \in {"alert", "log_receive"} BY <1>12 DEF CheckFuelAlert, LogReceive, At
    <3> QED BY <1>1, <3>1, PacketFuelType DEF ServerInv
  <2>2. /\ FuelAlert(PacketFuel(c)) \in Row /\ ~IsTransfer(FuelAlert(PacketFuel(c)))
        /\ Received(PacketFuel(c)) \in Row /\ ~IsTransfer(Received(PacketFuel(c)))
    BY <2>1, RowTypes, NoRecordRows DEF NoRecord
  <2> QED BY <1>2, <1>5, <1>6, <1>12, <2>1, <2>2 DEF CheckFuelAlert, LogReceive
<1>13. CASE UnknownType(c)
  <2>1. t.pc = "unknown" /\ \E place \in {"drain", "header"} : LogRow(c, <<"ERROR">>, place)
    BY <1>13 DEF UnknownType, At
  <2> QED BY <1>2, <1>3, <1>4, <1>5, <1>6, <2>1
<1> QED BY <1>7, <1>8, <1>9, <1>10, <1>11, <1>12, <1>13

\* A header read, or a part of a payload, or the end of it given up.
LEMMA ReadReplied ==
    ASSUME ServerInv, NEW c \in Conns, NEW p \in Seq(Cell),
           NEW s \in Seq(WholeFrames), NEW g \in Seq(Cell), RepliedAt(c, p, s, g),
           AuthHeader(c) \/ NextHeader(c) \/ AuthToken(c) \/ TelemetryPayload(c) \/ Drain(c)
    PROVE  RepliedOn(c, p, s, g)
<1> DEFINE t == thread[c]
           u == thread'[c]
           r == conn[c]
           q == conn'[c]
<1>1. /\ t \in Thread /\ thread \in [Conns -> Thread] /\ r \in Connection
      /\ conn \in [Conns -> Connection]
  BY HandlerParts
<1>2. /\ t.pc \in {"auth_header", "auth_token", "header", "payload", "drain"}
      /\ \/ t.pc \in {"auth_header", "auth_token"}
            /\ u.pc \in {"auth_token", "check_token", "auth_failed"}
         \/ t.pc \in {"header", "payload", "drain"}
            /\ u.pc \in {"transfer", "payload", "log_receive", "unknown", "drain", "header"}
      /\ u.authOK = t.authOK /\ u.out = t.out /\ u.log = t.log
      /\ q = r \/ ServerTakes(c)
  <2>1. CASE Drain(c) /\ Jump(c, "header")
    <3>1. t.pc = "drain" BY <2>1 DEF Drain, At
    <3> QED BY <2>1, <3>1, JumpLeaves
  <2>2. ASSUME NEW h \in HeadersIn(r.up), NEW place, ReadHeader(c, h, place)
        PROVE  /\ u.pc = place /\ u.authOK = t.authOK /\ u.out = t.out /\ u.log = t.log
               /\ ServerTakes(c)
    <3>1. u = [t EXCEPT !.hdr = h, !.buf = <<>>, !.pc = place]
      BY <1>1, <2>2 DEF ReadHeader, Become
    <3> QED BY <1>1, <2>2, <3>1 DEF Thread, ReadHeader
  <2>3. ASSUME NEW after, ReadPayload(c, after)
        PROVE  /\ u.pc \in {t.pc, after} /\ u.authOK = t.authOK /\ u.out = t.out
               /\ u.log = t.log /\ ServerTakes(c)
    <3>1. \E place \in {t.pc, after} :
             u = [t EXCEPT !.buf = Append(@, Head(conn[c].up)), !.pc = place]
      BY <1>1, <2>3 DEF ReadPayload, Become
    <3> QED BY <1>1, <2>3, <3>1 DEF Thread, ReadPayload
  <2>4. CASE AuthHeader(c)
    <3>1. t.pc = "auth_header"
          /\ \E h \in HeadersIn(r.up),
                place \in {"auth_token", "check_token", "auth_failed"} :
               ReadHeader(c, h, place)
      BY <2>4 DEF AuthHeader, PlaceAfterLogin, At
    <3> QED BY <2>2, <3>1
  <2>5. CASE NextHeader(c)
    <3>1. t.pc = "header" /\ \E h \in HeadersIn(r.up) : ReadHeader(c, h, PlaceAfter(h))
      BY <2>5 DEF NextHeader, At
    <3>2. \A h : PlaceAfter(h) \in {"transfer", "payload", "log_receive", "unknown"}
      BY DEF PlaceAfter
    <3> QED BY <2>2, <3>1, <3>2
  <2>6. CASE AuthToken(c)
    <3>1. t.pc = "auth_token" /\ ReadPayload(c, "check_token") BY <2>6 DEF AuthToken, At
    <3> QED BY <2>3, <3>1
  <2>7. CASE TelemetryPayload(c)
    <3>1. t.pc = "payload" /\ ReadPayload(c, "log_receive") BY <2>7 DEF TelemetryPayload, At
    <3> QED BY <2>3, <3>1
  <2>8. CASE Drain(c) /\ ReadPayload(c, "header")
    <3>1. t.pc = "drain" BY <2>8 DEF Drain, At
    <3> QED BY <2>3, <2>8, <3>1
  <2> QED BY <2>1, <2>4, <2>5, <2>6, <2>7, <2>8 DEF Drain
<1>3. Shrinks(r, q)
  <2>1. CASE q = r BY <2>1, SameShrinks
  <2>2. CASE ServerTakes(c)
    <3>1. q = [r EXCEPT !.up = Tail(@)] BY <1>1, <2>2 DEF ServerTakes, Update
    <3>2. /\ q.down = r.down /\ q.link = r.link /\ q.clientOpen = r.clientOpen
          /\ q.serverOpen = r.serverOpen
      BY <1>1, <3>1 DEF Connection
    <3> QED BY <3>2 DEF Shrinks, Live
  <2> QED BY <1>2, <2>1, <2>2
<1>4. Mute(t, u)
  <2>1. /\ u.pc \in Silent => t.pc \in Silent
        /\ u.pc \in Answering => t.pc \in Answering
        /\ t.pc \notin {"auth_ack", "send_dataset", "build_dataset"}
        /\ u.pc # "build_dataset"
    BY <1>2 DEF Silent, Before, Answering
  <2> HIDE DEF t, u
  <2> QED BY <1>1, <1>2, <2>1, MuteLog
<1> QED BY <1>3, <1>4, MuteStep

\* closesocket, on both ways out.
LEMMA CloseReplied ==
    ASSUME ServerInv, NEW c \in Conns, NEW p \in Seq(Cell),
           NEW s \in Seq(WholeFrames), NEW g \in Seq(Cell), RepliedAt(c, p, s, g), AuthClose(c) \/ Close(c)
    PROVE  RepliedOn(c, p, s, g)
<1> DEFINE t == thread[c]
           u == thread'[c]
<1>1. \E place \in {"auth_disconnect", "done"} :
        /\ ServerCloses(c) /\ Become(c, [t EXCEPT !.pc = place])
        /\ t.pc \in {"auth_close", "close"}
  BY DEF AuthClose, Close, At
<1>2. /\ u.pc \in {"auth_disconnect", "done"} /\ t.pc \in {"auth_close", "close"}
      /\ u.log = t.log /\ u.out = t.out /\ u.authOK = t.authOK
      /\ ~conn'[c].serverOpen /\ conn'[c].down \in {conn[c].down, <<>>}
  BY <1>1, CloseLeaves
<1>3. Shrinks(conn[c], conn'[c]) BY <1>2 DEF Shrinks, Live
<1>4. t \in Thread BY HandlerParts
<1>5. Mute(t, u)
  <2>1. /\ u.pc \notin Silent \cup Answering \cup {"build_dataset"}
        /\ t.pc \notin {"auth_ack", "send_dataset", "build_dataset"}
    BY <1>2 DEF Silent, Before, Answering
  <2> HIDE DEF t, u
  <2> QED BY <1>2, <1>4, <2>1, MuteLog
<1> QED BY <1>3, <1>5, MuteStep

\* A transfer begun: a dataset is owed.
LEMMA TransferReplied ==
    ASSUME ServerInv, ServerInv', NEW c \in Conns, NEW p \in Seq(Cell),
           NEW s \in Seq(WholeFrames), NEW g \in Seq(Cell), RepliedAt(c, p, s, g), BeginTransfer(c)
    PROVE  RepliedOn(c, p, s, g)
<1> DEFINE t == thread[c]
           u == thread'[c]
           row == Transitioned(t.sm, "DATA_TRANSFER")
<1>1. t \in Thread /\ t.log \in Seq(Row) /\ HandlerFits(t, conn[c]) BY HandlerParts
<1>2. t.pc = "transfer" /\ Transition(c, "DATA_TRANSFER", FALSE, "build_dataset")
  BY DEF BeginTransfer, At
<1>3. /\ u.pc = "build_dataset" /\ u.log = Append(t.log, row) /\ conn'[c] = conn[c]
      /\ u.out = t.out /\ u.authOK = t.authOK
  <2>1. PICK complete \in BOOLEAN : Transition(c, "DATA_TRANSFER", complete, "build_dataset")
    BY <1>2
  <2> QED BY <2>1, TransitionLeaves
<1>4. row \in Row /\ IsTransfer(row)
  <2>1. t.sm = "DATA_RECEIVING" BY <1>1, <1>2 DEF HandlerFits, StateOf
  <2>2. {"DATA_RECEIVING", "DATA_TRANSFER"} \subseteq ServerState BY DEF ServerState
  <2> QED BY <2>1, <2>2, RowTypes DEF IsTransfer
<1> HIDE DEF row
<1>5. TransfersIn(u.log) = TransfersIn(t.log) + 1 /\ TransfersIn(t.log) \in Nat
  BY <1>1, <1>3, <1>4, TransfersAppend
<1>6. Built(u) = Built(t) BY <1>2, <1>3, <1>5 DEF Built
<1>7. t.pc \in Answering /\ u.pc \notin Silent BY <1>2, <1>3 DEF Answering, Silent, Before
<1>8. Mute(t, u) BY <1>2, <1>3, <1>5, <1>6, <1>7 DEF Mute
<1> QED BY <1>3, <1>8, SameShrinks, MuteStep

\* The dataset built.
LEMMA BuildReplied ==
    ASSUME ServerInv, NEW c \in Conns, NEW p \in Seq(Cell),
           NEW s \in Seq(WholeFrames), NEW g \in Seq(Cell), RepliedAt(c, p, s, g), BuildDataset(c)
    PROVE  RepliedOn(c, p, s, g)
<1> DEFINE t == thread[c]
           u == thread'[c]
           r == conn[c]
           w == g \o conn[c].down
           m == Built(t)
<1>1. /\ t \in Thread /\ thread \in [Conns -> Thread] /\ t.log \in Seq(Row)
      /\ g \in Seq(Cell) /\ r.down \in Seq(Cell)
  BY HandlerParts
<1>2. t.pc = "build_dataset" /\ u = [t EXCEPT !.out = DataResponse, !.pc = "send_dataset"]
      /\ conn'[c] = r
  BY <1>1 DEF BuildDataset, Become, At, netVars
<1>3. /\ u.pc = "send_dataset" /\ u.out = DataResponse /\ u.log = t.log
      /\ u.authOK = t.authOK
  BY <1>1, <1>2 DEF Thread
<1>4. w \in Seq(Cell) BY <1>1, ConcatProperties
<1>5. Replied(t, r, p, s, w) BY DEF RepliedAt
<1>6. TransfersIn(t.log) \in Nat
  <2>1. <<"ERROR">> \in Row BY RowTypes
  <2> QED BY <1>1, <2>1, TransfersAppend
<1>7. m = TransfersIn(t.log) - 1 /\ Built(u) = TransfersIn(t.log) BY <1>2, <1>3, <1>6 DEF Built
<1> HIDE DEF t, u, w, m
<1>8. t.out = <<>> /\ t.pc \in Answering BY <1>2, <1>5 DEF Replied, Answering
<1>9. ASSUME Live(r)
      PROVE  Framed(u.authOK, w \o u.out) /\ Len(w) + Len(u.out) = Room(Built(u))
  <2>1. Framed(t.authOK, w) /\ Len(w) + Len(t.out) = Room(Built(t))
    BY <1>5, <1>8, <1>9 DEF Replied
  <2>2. Len(w) = Room(m) /\ Len(w) \in Nat
    <3>1. Len(w) \in Nat /\ Len(t.out) = 0 BY <1>4, <1>8, LenProperties
    <3> QED BY <2>1, <3>1 DEF m
  <2>3. m \in Nat BY <1>5 DEF Replied, m
  <2>4. Framed(t.authOK, w \o DataResponse) BY <1>4, <2>1, <2>2, <2>3, FramedMore
  <2>5. Room(m + 1) = Room(m) + (DatasetSize + 1) BY <2>3, RoomMore
  <2>6. m + 1 = Built(u) BY <1>6, <1>7
  <2> QED BY <1>3, <2>2, <2>4, <2>5, <2>6, ReplyLengths
<1>10. u.pc \notin Silent /\ Built(u) \in Nat BY <1>3, <1>6, <1>7 DEF Silent, Before
<1>11. Replied(u, r, p, s, w)
  BY <1>3, <1>5, <1>8, <1>9, <1>10 DEF Replied
<1> QED BY <1>2, <1>11 DEF RepliedOn, u, r, w

\* A request read to the end carries the token exactly if its payload is it.
LEMMA TokenFrame ==
    ASSUME NEW h \in Cell, NEW b \in Seq(Cell), NEW f \in Seq(Cell), f = <<h>> \o b,
           h.kind = "header", h.text = "PKT_AUTH_REQUEST", Len(f) = h.num + 1
    PROVE  b = <<Bytes(AUTH_TOKEN)>> <=> f = AuthRequest(AUTH_TOKEN)
<1> DEFINE a == Bytes(AUTH_TOKEN)
           g == AuthRequest(AUTH_TOKEN)
<1>1. /\ Len(f) = Len(b) + 1 /\ f[1] = h /\ Len(b) \in Nat
      /\ \A i \in 1..Len(b) : f[i + 1] = b[i]
  <2> DEFINE y == <<h>> \o b
  <2>1. /\ Len(y) = Len(b) + 1 /\ y[1] = h /\ Len(b) \in Nat
        /\ \A i \in 1..Len(b) : y[i + 1] = b[i]
    BY CellBehind, LenProperties
  <2>2. f = y OBVIOUS
  <2> HIDE DEF y
  <2> QED BY <2>1, <2>2
<1>2. g = <<Header("PKT_AUTH_REQUEST", 1), a>> BY DEF AuthRequest
<1>3. Len(g) = 2 /\ g[1] = Header("PKT_AUTH_REQUEST", 1) /\ g[2] = a BY <1>2
<1>4. g \in Seq({Header("PKT_AUTH_REQUEST", 1), a}) BY <1>2
<1> HIDE DEF a
<1>7. Len(b) = 1 => f[2] = b[1]
  <2>1. Len(b) = 1 => 1 \in 1..Len(b) OBVIOUS
  <2>2. Len(b) = 1 => f[1 + 1] = b[1] BY <1>1, <2>1
  <2> QED BY <2>2
<1>8. h.num \in Nat BY DEF Cell
<1>5. CASE b = <<a>>
  <2>1. Len(b) = 1 /\ b[1] = a BY <1>5
  <2>2. Len(f) = 2 /\ f[2] = a /\ h.num = 1 BY <1>1, <1>7, <1>8, <2>1
  <2>3. h = Header("PKT_AUTH_REQUEST", 1) BY <2>2 DEF Header, Cell
  <2> DEFINE T == Cell \cup {Header("PKT_AUTH_REQUEST", 1), a}
  <2>4. f \in Seq(T) /\ g \in Seq(T) /\ \A i \in 1..2 : f[i] = g[i]
    BY <1>1, <1>3, <1>4, <2>2, <2>3, SeqDef
  <2> HIDE DEF T
  <2>5. f = g BY <1>3, <2>2, <2>4, SeqEqual
  <2> QED BY <1>5, <2>5 DEF a
<1>6. CASE f = g
  <2>0. Len(f) = 2 BY ONLY <1>3, <1>6, Zenon
  <2>4. Len(f) = Len(b) + 1 /\ Len(b) \in Nat BY <1>1
  <2> DEFINE m == Len(b)
             n == Len(f)
  <2>5. n = 2 /\ n = m + 1 /\ m \in Nat BY <2>0, <2>4
  <2> HIDE DEF m, n
  <2>6. m = 1 BY <2>5
  <2>1. Len(b) = 1 BY <2>6 DEF m
  <2>3. b[1] = a BY <1>3, <1>6, <1>7, <2>1
  <2>2. b = <<a>> BY <2>1, <2>3
  <2> QED BY <1>6, <2>2 DEF a
<1> QED BY <1>5, <1>6 DEF a

\* The token checked.
LEMMA CheckReplied ==
    ASSUME ServerInv, NEW c \in Conns, NEW p \in Seq(Cell),
           NEW s \in Seq(WholeFrames), NEW g \in Seq(Cell), RepliedAt(c, p, s, g),
           TrackAt(c, p, s), CheckToken(c)
    PROVE  RepliedOn(c, p, s, g)
<1> DEFINE t == thread[c]
           u == thread'[c]
           r == conn[c]
           w == g \o conn[c].down
           ok == t.buf = <<Bytes(AUTH_TOKEN)>>
<1>1. /\ t \in Thread /\ thread \in [Conns -> Thread] /\ t.hdr \in Cell
      /\ t.buf \in Seq(Cell) /\ s \in Seq(WholeFrames) /\ Len(s) \in Nat
  BY HandlerParts, LenProperties
<1>2. /\ t.pc = "check_token" /\ conn'[c] = r
      /\ u = [t EXCEPT !.authOK = ok, !.out = AuthAck(ok), !.pc = "auth_ack"]
  BY <1>1 DEF CheckToken, Become, At, netVars
<1>3. ok \in BOOLEAN OBVIOUS
<1>4. u.pc = "auth_ack" /\ u.authOK = ok /\ u.out = AuthAck(ok) /\ u.log = t.log
  BY <1>1, <1>2 DEF Thread
<1>5. PICK k \in 0..Len(s) :
        /\ p # <<>> => k < Len(s)
        /\ k > 0 /\ s[1] = <<t.hdr>> \o t.buf
        /\ t.hdr.text = "PKT_AUTH_REQUEST"
  BY <1>2 DEF TrackAt, Track, Tracked, TypeFits
<1>6. 1 \in 1..Len(s) /\ (Len(s) = 1 => p = <<>>) /\ s # <<>>
  <2>1. Len(s) > 0 BY <1>1, <1>5
  <2>2. s # <<>> BY <2>1, EmptySeq
  <2>3. k \in Nat /\ k > 0 /\ (p # <<>> => k < Len(s)) /\ Len(s) \in Nat BY <1>1, <1>5
  <2>4. Len(s) = 1 => p = <<>> BY ONLY <2>3
  <2>5. 1 \in 1..Len(s) BY ONLY <2>1, <2>3
  <2> QED BY <2>2, <2>4, <2>5
<1>7. /\ s[1] \in Seq(Cell) /\ s[1][1].kind = "header" /\ Len(s[1]) = s[1][1].num + 1
  BY <1>1, <1>6, FrameMembers, FrameCells
<1>8. s[1][1] = t.hdr
  <2> DEFINE y == <<t.hdr>> \o t.buf
             h == t.hdr
  <2>1. y[1] = h BY <1>1, CellBehind
  <2> HIDE DEF y
  <2> QED BY <1>5, <2>1 DEF y
<1>9. ok <=> s[1] = AuthRequest(AUTH_TOKEN)
  <2> DEFINE f == s[1]
             h == t.hdr
             b == t.buf
  <2>1. /\ h \in Cell /\ b \in Seq(Cell) /\ f \in Seq(Cell) /\ f = <<h>> \o b
        /\ h.kind = "header" /\ h.text = "PKT_AUTH_REQUEST" /\ Len(f) = h.num + 1
    BY <1>1, <1>5, <1>7, <1>8
  <2> HIDE DEF f, h, b
  <2>2. b = <<Bytes(AUTH_TOKEN)>> <=> f = AuthRequest(AUTH_TOKEN) BY <2>1, TokenFrame
  <2> QED BY <2>2 DEF f, b
<1>10. Judged(ok, p, s) BY <1>5, <1>6, <1>8, <1>9 DEF Judged
<1>11. Replied(t, r, p, s, w) BY DEF RepliedAt
<1> HIDE DEF t, u, w, ok
<1>12. w = <<>> /\ TransfersIn(t.log) = 0 /\ Len(w) = 0
  <2>1. t.pc \in Silent BY <1>2 DEF Silent
  <2> QED BY <1>11, <2>1 DEF Replied
<1>13. Framed(ok, w) /\ Framed(ok, w \o u.out) BY <1>3, <1>4, <1>12, FramedVerdict
<1>14. Built(u) = 0 /\ Room(0) = 2 BY <1>4, <1>12, RoomMore DEF Built
<1>15. Len(u.out) = 2 BY <1>3, <1>4, ReplyLengths
<1>16. Replied(u, r, p, s, w)
  <2>1. u.pc \notin Silent BY <1>4 DEF Silent, Before
  <2> QED BY <1>4, <1>10, <1>12, <1>13, <1>14, <1>15, <2>1 DEF Replied
<1> QED BY <1>2, <1>16 DEF RepliedOn, u, w

\* A cell of a reply that goes nowhere, or is not sent.
LEMMA LostReplied ==
    ASSUME NEW t, NEW u, NEW r, NEW q, NEW p, NEW s, NEW g \in Seq(Cell),
           r.down \in Seq(Cell), Replied(t, r, p, s, g \o r.down), Shrinks(r, q), ~Live(q),
           t.pc \in Answering, u.authOK = t.authOK,
           u.pc \notin Silent, Built(u) \in Nat,
           TransfersIn(u.log) = TransfersIn(t.log), TransfersIn(t.log) \in Nat,
           u.pc \notin {"auth_ack", "send_dataset"} => u.out = <<>>
    PROVE  Replied(u, q, p, s, g \o q.down)
<1> DEFINE d == r.down
           e == q.down
           w == g \o d
           v == g \o e
<1>1. /\ d \in Seq(Cell) /\ e \in {d, <<>>} /\ Len(g) \in Nat /\ Len(d) \in Nat
      /\ w \in Seq(Cell) /\ Len(w) = Len(g) + Len(d)
  <2>1. e \in {d, <<>>} /\ d \in Seq(Cell) BY DEF Shrinks
  <2> HIDE DEF d, e
  <2> QED BY <2>1, LenProperties, ConcatProperties
<1>2. Replied(t, r, p, s, w) OBVIOUS
<1> HIDE DEF d, e
<1>3. v = w \/ v = g BY <1>1, ConcatEmptySeq
<1>4. Framed(t.authOK, w) /\ Len(w) <= Room(TransfersIn(t.log)) BY <1>2 DEF Replied
<1>5. Framed(t.authOK, g) BY <1>1, <1>4, FramedPrefix
<1>6. Room(TransfersIn(t.log)) \in Nat BY RoomMore
<1>7. Len(g) <= Room(TransfersIn(t.log)) BY <1>1, <1>4, <1>6
<1> HIDE DEF w, v
<1>8. Framed(u.authOK, v) /\ Len(v) <= Room(TransfersIn(u.log)) BY <1>3, <1>4, <1>5, <1>7
<1>9. Judged(u.authOK, p, s) BY <1>2 DEF Replied
<1>10. Replied(u, q, p, s, v) BY <1>8, <1>9 DEF Replied
<1> QED BY <1>10 DEF v, e

\* A cell of a reply on its way.
LEMMA CarriedReplied ==
    ASSUME NEW t, NEW u, NEW r, NEW q, NEW p, NEW s, NEW w \in Seq(Cell),
           Replied(t, r, p, s, w), Live(r), t.pc \in {"auth_ack", "send_dataset"},
           t.out \in Seq(Cell), t.out # <<>>, u.out = Tail(t.out),
           u.authOK = t.authOK, u.log = t.log, TransfersIn(t.log) \in Nat,
           u.pc \in {t.pc, "authenticated", "auth_failed", "transferred"},
           u.pc = t.pc \/ Len(t.out) = 1
    PROVE  Replied(u, q, p, s, Append(w, Head(t.out)))
<1> DEFINE o == t.out
           x == Head(o)
           y == Tail(o)
           v == Append(w, x)
           n == Room(TransfersIn(t.log))
<1>1. /\ t.pc \in Answering /\ t.pc # "build_dataset" /\ u.pc # "build_dataset"
      /\ u.pc \notin Silent
  BY DEF Answering, Silent, Before
<1>2. Built(t) = TransfersIn(t.log) /\ Built(u) = TransfersIn(t.log) BY <1>1 DEF Built
<1>3. /\ Framed(t.authOK, w \o o) /\ Len(w) + Len(o) = n /\ Judged(t.authOK, p, s)
  BY <1>1, <1>2 DEF Replied
<1>4. n \in Nat BY RoomMore
<1>5. o \in Seq(Cell) /\ o # <<>> /\ Len(o) \in Nat /\ Len(w) \in Nat BY LenProperties
<1> HIDE DEF n
<1>6. /\ v \in Seq(Cell) /\ y \in Seq(Cell) /\ v \o y = w \o o
      /\ Len(v) = Len(w) + 1 /\ Len(y) = Len(o) - 1
  <2> HIDE DEF o
  <2>4. \A a, b \in Seq(Cell) : b # <<>> =>
           /\ Append(a, Head(b)) \in Seq(Cell) /\ Tail(b) \in Seq(Cell)
           /\ Append(a, Head(b)) \o Tail(b) = a \o b
    BY Shifted
  <2>5. w \in Seq(Cell) OBVIOUS
  <2>1. v \in Seq(Cell) /\ y \in Seq(Cell) /\ v \o y = w \o o
    BY ONLY <1>5, <2>4, <2>5, Zenon
  <2>2. x \in Cell /\ Len(y) = Len(o) - 1 BY <1>5, HeadTailProperties
  <2> HIDE DEF x, y
  <2>3. Len(v) = Len(w) + 1 BY <2>2, AppendProperties
  <2> QED BY <2>1, <2>2, <2>3
<1>7. u.out = y /\ (Len(o) = 1 => y = <<>>)
  <2>1. u.out = y OBVIOUS
  <2> HIDE DEF y, o
  <2>2. Len(o) = 1 => Len(y) = 0 BY <1>6
  <2> QED BY <1>6, <2>1, <2>2, EmptySeq
<1>8. u.pc \notin {"auth_ack", "send_dataset"} => u.out = <<>> BY <1>7
<1> HIDE DEF o, x, y, v
<1>9. Framed(u.authOK, v \o u.out) BY <1>3, <1>6, <1>7
<1>10. Framed(u.authOK, v) BY <1>6, <1>7, <1>9, FramedPrefix
<1>11. Len(o) > 0 BY <1>5, EmptySeq
<1>12. Len(v) <= n /\ Len(v) + Len(u.out) = n
  <2>1. Len(u.out) = Len(o) - 1 BY <1>6, <1>7
  <2>2. Len(w) + Len(o) = n /\ Len(v) = Len(w) + 1 BY <1>3, <1>6
  <2> QED BY ONLY <1>4, <1>5, <1>11, <2>1, <2>2
<1>13. Replied(u, q, p, s, v)
  BY <1>1, <1>2, <1>3, <1>8, <1>9, <1>10, <1>12 DEF Replied, n
<1> QED BY <1>13 DEF v, x, o

\* A turn of sendAll.
LEMMA SendReplied ==
    ASSUME ServerInv, NEW c \in Conns, NEW p \in Seq(Cell),
           NEW s \in Seq(WholeFrames), NEW g \in Seq(Cell), RepliedAt(c, p, s, g), SendAck(c) \/ SendDataset(c)
    PROVE  RepliedOn(c, p, s, g)
<1> DEFINE t == thread[c]
           u == thread'[c]
           r == conn[c]
           q == conn'[c]
           x == Head(t.out)
<1>1. /\ t \in Thread /\ thread \in [Conns -> Thread] /\ t.out \in Seq(Cell)
      /\ r \in Connection /\ conn \in [Conns -> Connection] /\ t.log \in Seq(Row)
      /\ r.down \in Seq(Cell) /\ g \in Seq(Cell) /\ HandlerFits(t, r)
  BY HandlerParts
<1>2. PICK place \in {"authenticated", "auth_failed", "transferred"} :
        t.pc \in {"auth_ack", "send_dataset"} /\ SendNext(c, place)
  BY DEF SendAck, SendDataset, At
<1>3. t.out # <<>> /\ r.serverOpen BY <1>1, <1>2 DEF HandlerFits, HoldsSocket, HandlerPCs
<1>4. /\ t.pc \in Answering /\ place \notin Silent /\ t.pc \notin Silent
      /\ t.pc # "build_dataset" /\ place # "build_dataset"
  BY <1>2 DEF Answering, Silent, Before
<1>5. /\ TransfersIn(t.log) \in Nat
      /\ TransfersIn(Append(t.log, <<"ERROR">>)) = TransfersIn(t.log)
  <2>1. <<"ERROR">> \in Row /\ ~IsTransfer(<<"ERROR">>)
    BY RowTypes, NoRecordRows DEF NoRecord
  <2> QED BY <1>1, <2>1, TransfersAppend
<1>6. Replied(t, r, p, s, g \o r.down) BY DEF RepliedAt
<1>7. ASSUME ~Live(q), Shrinks(r, q), u.authOK = t.authOK, u.pc \in {t.pc, place},
             u.log \in {t.log, Append(t.log, <<"ERROR">>)},
             u.pc \notin {"auth_ack", "send_dataset"} => u.out = <<>>
      PROVE  RepliedOn(c, p, s, g)
  <2>3. u.pc \notin Silent /\ u.pc # "build_dataset" BY <1>4, <1>7
  <2>4. TransfersIn(u.log) = TransfersIn(t.log) BY <1>5, <1>7
  <2>1. /\ u.pc \notin Silent /\ TransfersIn(u.log) = TransfersIn(t.log)
        /\ Built(u) \in Nat
    BY <1>5, <2>3, <2>4 DEF Built
  <2>2. Replied(u, q, p, s, g \o q.down)
    <3> HIDE DEF t, u, r, q
    <3> QED BY <1>1, <1>4, <1>5, <1>6, <1>7, <2>1, LostReplied
  <2> QED BY <2>2 DEF RepliedOn
<1>8. CASE /\ ServerSends(c, x)
           /\ Become(c, [t EXCEPT !.out = Tail(@),
                                  !.pc = IF Len(t.out) = 1 THEN place ELSE @])
  <2>1. u = [t EXCEPT !.out = Tail(@), !.pc = IF Len(t.out) = 1 THEN place ELSE @]
    BY <1>1, <1>8 DEF Become
  <2>2. /\ u.pc = (IF Len(t.out) = 1 THEN place ELSE t.pc) /\ u.out = Tail(t.out)
        /\ u.authOK = t.authOK /\ u.log = t.log
    BY <1>1, <2>1 DEF Thread
  <2>3. Len(t.out) = 1 => Tail(t.out) = <<>>
    <3> DEFINE o == t.out
    <3>1. o \in Seq(Cell) /\ o # <<>> BY <1>1, <1>3
    <3> HIDE DEF o
    <3>2. Tail(o) \in Seq(Cell) /\ Len(Tail(o)) = Len(o) - 1 BY <3>1, HeadTailProperties
    <3>4. Len(o) = 1 => Len(Tail(o)) = 0 BY <3>2
    <3>3. Len(o) = 1 => Tail(o) = <<>> BY <3>2, <3>4, EmptySeq
    <3> QED BY <3>3 DEF o
  <2>4. u.pc \notin {"auth_ack", "send_dataset"} => u.out = <<>> BY <1>2, <2>2, <2>3
  <2>5. CASE ClientGone(c) /\ q = r
    <3>1. ~Live(q) BY <2>5 DEF ClientGone, Live
    <3> QED BY <1>7, <2>2, <2>4, <2>5, <3>1, SameShrinks
  <2>6. CASE q = ResetOf(r)
    <3>1. q.link = "broken" /\ q.down = <<>> BY <1>1, <2>6, ResetParts
    <3>2. ~Live(q) /\ Shrinks(r, q) BY <3>1 DEF Live, Shrinks
    <3> QED BY <1>7, <2>2, <2>4, <3>2
  <2>7. CASE /\ r.link = "open" /\ ~ClientGone(c)
             /\ q = [r EXCEPT !.down = Append(@, x)]
    <3>1. Live(r) BY <1>3, <2>7 DEF ClientGone, Live
    <3>2. q.down = Append(r.down, x) BY <1>1, <2>7 DEF Connection
    <3>3. g \o r.down \in Seq(Cell) BY <1>1, ConcatProperties
    <3> DEFINE w == g \o r.down
    <3>4. u.pc \in {t.pc, "authenticated", "auth_failed", "transferred"}
          /\ (u.pc = t.pc \/ Len(t.out) = 1)
      BY <2>2
    <3>5. Replied(u, q, p, s, Append(w, Head(t.out)))
      <4> HIDE DEF t, u, r, q, w
      <4>1. w \in Seq(Cell) /\ Replied(t, r, p, s, w) BY <1>6, <3>3 DEF w
      <4> QED BY <1>1, <1>2, <1>3, <1>5, <2>2, <3>1, <3>4, <4>1, CarriedReplied
    <3>6. Append(w, Head(t.out)) = g \o q.down
      <4> DEFINE d == r.down
      <4>1. x \in Cell
        <5> DEFINE o == t.out
        <5>1. o \in Seq(Cell) /\ o # <<>> BY <1>1, <1>3
        <5> HIDE DEF o
        <5>2. Head(o) \in Cell BY <5>1, HeadTailProperties
        <5> QED BY <5>2 DEF o
      <4>2. g \in Seq(Cell) /\ d \in Seq(Cell) /\ q.down = Append(d, x) BY <1>1, <3>2
      <4> HIDE DEF x, d
      <4>3. g \o Append(d, x) = Append(g \o d, x) BY ONLY <4>1, <4>2, AppendUnder, Zenon
      <4> QED BY <4>2, <4>3 DEF x, d
    <3> QED BY <3>5, <3>6 DEF RepliedOn
  <2> QED BY <1>1, <1>8, <2>5, <2>6, <2>7 DEF ServerSends, Update, netVars
<1>9. CASE /\ ServerSendFails(c) /\ UNCHANGED netVars
           /\ Become(c, [t EXCEPT !.out = <<>>, !.log = Append(@, <<"ERROR">>), !.pc = place])
  <2>1. /\ u.pc = place /\ u.out = <<>> /\ u.authOK = t.authOK
        /\ u.log = Append(t.log, <<"ERROR">>)
    BY <1>1, <1>9 DEF Become, Thread
  <2>2. q = r /\ ~Live(q) BY <1>9 DEF ServerSendFails, netVars, Live
  <2> QED BY <1>7, <2>1, <2>2, SameShrinks
<1> QED BY <1>2, <1>8, <1>9 DEF SendNext

\* Every step of a handler.
LEMMA HandlerReplied ==
    ASSUME ServerInv, ServerInv', NEW c \in Conns, NEW p \in Seq(Cell),
           NEW s \in Seq(WholeFrames), NEW g \in Seq(Cell), TrackAt(c, p, s), RepliedAt(c, p, s, g),
           Handler(c)
    PROVE  RepliedOn(c, p, s, g)
<1>1. CASE AuthHeader(c) \/ NextHeader(c) \/ AuthToken(c) \/ TelemetryPayload(c) \/ Drain(c)
  BY <1>1, ReadReplied
<1>2. CASE CheckToken(c) BY <1>2, CheckReplied
<1>3. CASE SendAck(c) \/ SendDataset(c) BY <1>3, SendReplied
<1>4. CASE AuthClose(c) \/ Close(c) BY <1>4, CloseReplied
<1>5. CASE BeginTransfer(c) BY <1>5, TransferReplied
<1>6. CASE BuildDataset(c) BY <1>6, BuildReplied
<1>7. CASE \/ Begin(c) \/ LogConnect(c) \/ AuthReadFails(c) \/ AuthFailed(c)
           \/ AuthDisconnect(c) \/ Authenticated(c) \/ StartReceiving(c)
           \/ HeaderFails(c) \/ PayloadFails(c) \/ EndTransfer(c) \/ CheckFuelAlert(c)
           \/ LogReceive(c) \/ UnknownType(c)
           \/ LogLost(c) \/ LogDisconnect(c) \/ Disconnect(c)
  BY <1>7, PlainStepReplied
<1> QED
  BY <1>1, <1>2, <1>3, <1>4, <1>5, <1>6, <1>7 DEF Handler, Authenticating, Serving

-----------------------------------------------------------------------------
(***************************************************************************)
(* The main thread and the peers.                                          *)
(***************************************************************************)
\* A handler as it was.
LEMMA SameMute == ASSUME ServerInv, NEW c \in Conns PROVE Mute(thread[c], thread[c])
<1>1. thread[c].log \in Seq(Row) BY HandlerParts
<1>2. TransfersIn(thread[c].log) \in Nat
  <2>1. <<"ERROR">> \in Row BY RowTypes
  <2> QED BY <1>1, <2>1, TransfersAppend
<1> QED BY <1>2 DEF Mute

\* A connection that is reset has lost what was on its way.
LEMMA ResetShrinks ==
    ASSUME NEW r, NEW x \in Connection
    PROVE  Shrinks(r, ResetOf(x)) /\ ~Live(ResetOf(x))
<1>1. ResetOf(x).link = "broken" /\ ResetOf(x).down = <<>> BY ResetParts
<1> QED BY <1>1 DEF Shrinks, Live

\* The main thread starts a handler, or takes the connections away.
LEMMA MainReplied ==
    ASSUME ServerInv, NEW c \in Conns, NEW p \in Seq(Cell),
           NEW s \in Seq(WholeFrames), NEW g \in Seq(Cell), RepliedAt(c, p, s, g), MainThread
    PROVE  RepliedOn(c, p, s, g)
<1>1. /\ thread \in [Conns -> Thread] /\ conn \in [Conns -> Connection]
      /\ thread[c] \in Thread /\ conn[c] \in Connection
      /\ HandlerFits(thread[c], conn[c])
  BY HandlerParts
<1>2. ASSUME thread'[c] = thread[c], Shrinks(conn[c], conn'[c]) PROVE RepliedOn(c, p, s, g)
  <2>1. Mute(thread[c], thread'[c]) BY <1>2, SameMute
  <2> QED BY <1>2, <2>1, MuteStep
<1>3. CASE UNCHANGED <<conn, thread>> BY <1>2, <1>3, SameShrinks
<1>4. CASE ServerSocketsGone /\ UNCHANGED thread
  <2>1. conn'[c] = conn[c] \/ conn'[c] = ResetOf(conn[c])
    BY <1>4 DEF ServerSocketsGone
  <2>2. Shrinks(conn[c], conn'[c]) BY <1>1, <2>1, SameShrinks, ResetShrinks
  <2> QED BY <1>2, <1>4, <2>2
<1>5. ASSUME NEW d \in Conns, Accept(d) PROVE RepliedOn(c, p, s, g)
  <2>1. CASE d # c
    <3>1. thread'[c] = thread[c] /\ conn'[c] = conn[c]
      BY <1>1, <1>5, <2>1 DEF Accept, ServerAccepts, Update
    <3> QED BY <1>2, <3>1, SameShrinks
  <2>2. CASE d = c
    <3> DEFINE t == thread[c]
               u == thread'[c]
               r == conn[c]
               q == conn'[c]
               w == g \o conn[c].down
    <3>1. /\ r.link = "backlog"
          /\ q = [r EXCEPT !.link = "open", !.serverOpen = TRUE]
          /\ u = [t EXCEPT !.pc = "spawned"]
      BY <1>1, <1>5, <2>2 DEF Accept, ServerAccepts, Update
    <3>2. /\ q.down = r.down /\ u.pc = "spawned" /\ u.authOK = t.authOK /\ u.log = t.log
          /\ u.out = t.out
      BY <1>1, <3>1 DEF Connection, Thread
    <3>3. t.pc = "none" BY <1>1, <3>1 DEF HandlerFits
    <3>4. Replied(t, r, p, s, w) BY DEF RepliedAt
    <3> HIDE DEF t, u, r, q, w
    <3>5. u.pc \notin Answering /\ t.pc \in Silent /\ Built(u) = Built(t)
      BY <3>2, <3>3 DEF Answering, Silent, Before, Built
    <3>6. Replied(u, q, p, s, w) BY <3>2, <3>3, <3>4, <3>5 DEF Replied
    <3> QED BY <3>2, <3>6 DEF RepliedOn, u, q, r, w
  <2> QED BY <2>1, <2>2
<1> QED
  BY <1>3, <1>4, <1>5 DEF MainThread, InitializeWinsock, StartServer, AcceptFails, Cleanup,
     Return, netVars

-----------------------------------------------------------------------------
(***************************************************************************)
(* What the other end of a connection does to the replies.                 *)
(***************************************************************************)
\* Nothing has been sent.
LEMMA EmptyReplied ==
    ASSUME NEW t, NEW r, t.pc = "none", t.log = <<>>, t.out = <<>>
    PROVE  Replied(t, r, <<>>, <<>>, <<>>)
<1>1. TransfersIn(t.log) = 0
  <2>1. {i \in DOMAIN <<>> : IsTransfer(<<>>[i])} = {} OBVIOUS
  <2> QED BY <2>1, FS_EmptySet DEF TransfersIn
<1>2. Built(t) = 0 /\ Room(0) = 2 BY <1>1, RoomMore DEF Built
<1>3. Framed(t.authOK, <<>>) BY DEF Framed
<1>4. t.pc \notin Answering BY DEF Answering
<1>5. Len(<<>>) = 0 OBVIOUS
<1> QED BY <1>1, <1>2, <1>3, <1>4, <1>5 DEF Replied

\* What it does but read, and a failure of the link, adds no reply.
LEMMA ClientShrinks ==
    ASSUME NetTypeOK, NEW c \in Conns, NEW x,
           \/ ClientConnects(c) \/ ClientSends(c, x) \/ ClientCloses(c) \/ ClientDies(c)
           \/ Break(c)
    PROVE  Shrinks(conn[c], conn'[c])
<1> DEFINE r == conn[c]
           q == conn'[c]
           closed == [r EXCEPT !.clientOpen = FALSE]
<1>1. conn \in [Conns -> Connection] /\ r \in Connection BY DEF NetTypeOK
<1>2. CASE ClientConnects(c)
  <2>1. q = [r EXCEPT !.link = "backlog", !.clientOpen = TRUE]
    BY <1>1, <1>2 DEF ClientConnects, Update
  <2>2. q.link = "backlog" /\ q.down = r.down BY <1>1, <2>1 DEF Connection
  <2> QED BY <2>2 DEF Shrinks, Live
<1>3. CASE ClientSends(c, x)
  <2>1. CASE q = ResetOf(r) BY <1>1, <2>1, ResetShrinks
  <2>2. CASE q = r BY <2>2, SameShrinks
  <2>3. CASE q = [r EXCEPT !.up = Append(@, x)]
    <3>1. /\ q.down = r.down /\ q.link = r.link /\ q.serverOpen = r.serverOpen
          /\ q.clientOpen = r.clientOpen
      BY <1>1, <2>3 DEF Connection
    <3> QED BY <3>1 DEF Shrinks, Live
  <2> QED BY <1>1, <1>3, <2>1, <2>2, <2>3 DEF ClientSends, Update, netVars
<1>4. CASE ClientCloses(c) \/ ClientDies(c)
  <2>1. /\ closed \in Connection /\ closed.down = r.down /\ ~closed.clientOpen
    BY <1>1 DEF Connection
  <2>2. q = closed \/ q = ResetOf(closed)
    BY <1>1, <1>4 DEF ClientCloses, ClientDies, Update
  <2> HIDE DEF closed
  <2>3. Shrinks(r, closed) BY <2>1 DEF Shrinks, Live
  <2>4. Shrinks(r, ResetOf(closed)) BY <2>1, ResetShrinks
  <2> QED BY <2>2, <2>3, <2>4
<1>5. CASE Break(c)
  <2>1. q = ResetOf(r) BY <1>1, <1>5 DEF Break, Update
  <2> QED BY <1>1, <2>1, ResetShrinks
<1> QED BY <1>2, <1>3, <1>4, <1>5

\* Replies that are lost, while the frames grow.
LEMMA LessReplied ==
    ASSUME ServerInv, NEW c \in Conns, NEW p, NEW s, NEW g \in Seq(Cell),
           RepliedAt(c, p, s, g), NEW x, NEW y,
           \A ok : Judged(ok, p, s) => Judged(ok, x, y), NEW q, Shrinks(conn[c], q)
    PROVE  Replied(thread[c], q, x, y, g \o q.down)
<1> DEFINE t == thread[c]
           r == conn[c]
           w == g \o r.down
<1>1. r.down \in Seq(Cell) BY HandlerParts
<1>2. Replied(t, r, p, s, w) BY DEF RepliedAt
<1>3. Mute(t, t) BY SameMute
<1> HIDE DEF t, r, w
<1>4. Replied(t, r, x, y, w) BY <1>2 DEF Replied
<1>5. Replied(t, r, x, y, g \o r.down) BY <1>4 DEF w
<1>6. Shrinks(r, q) BY DEF r
<1>7. Replied(t, q, x, y, g \o q.down) BY <1>1, <1>3, <1>5, <1>6, MuteReplied
<1> QED BY <1>7 DEF t

\* A cell handed over, or another frame begun, leaves the first frame first.
LEMMA StillJudged ==
    ASSUME NEW p, NEW s \in Seq(WholeFrames)
    PROVE  /\ \A ok : Judged(ok, p, s) => p = <<>> \/ Len(s) # 1
           /\ \A ok : p # <<>> /\ Judged(ok, p, s) => Judged(ok, Tail(p), s)
           /\ \A f \in WholeFrames : \A ok : Judged(ok, p, s) => Judged(ok, f, Append(s, f))
<1>1. \A ok : p # <<>> /\ Judged(ok, p, s) => Judged(ok, Tail(p), s) BY DEF Judged
<1>2. ASSUME NEW f \in WholeFrames, NEW ok, Judged(ok, p, s)
      PROVE  Judged(ok, f, Append(s, f))
  <2>1. Len(s) \in Nat \ {0} BY <1>2, EmptySeq DEF Judged
  <2>2. Append(s, f) # <<>> /\ Len(Append(s, f)) # 1 /\ Append(s, f)[1] = s[1]
    BY <2>1, AppendedTo
  <2> QED BY <1>2, <2>2 DEF Judged
<1>3. \A ok : Judged(ok, p, s) => p = <<>> \/ Len(s) # 1 BY DEF Judged
<1> QED BY <1>1, <1>2, <1>3

\* A cell read from the connection.
LEMMA TakenReplied ==
    ASSUME NetTypeOK, NEW c \in Conns, NEW t, NEW p, NEW s, NEW g \in Seq(Cell),
           Replied(t, conn[c], p, s, g \o conn[c].down), ClientTakes(c)
    PROVE  Replied(t, conn'[c], p, s, Append(g, Head(conn[c].down)) \o conn'[c].down)
<1> DEFINE r == conn[c]
           q == conn'[c]
           d == r.down
           w == g \o d
<1>1. conn \in [Conns -> Connection] /\ r \in Connection /\ d \in Seq(Cell)
  BY DEF NetTypeOK, Connection
<1>2. d # <<>> /\ q = [r EXCEPT !.down = Tail(@)] BY <1>1 DEF ClientTakes, Update
<1>3. /\ q.down = Tail(d) /\ q.link = r.link /\ q.clientOpen = r.clientOpen
      /\ q.serverOpen = r.serverOpen
  BY <1>1, <1>2 DEF Connection
<1>4. Replied(t, r, p, s, w) OBVIOUS
<1>5. Live(q) <=> Live(r) BY <1>3 DEF Live
<1>6. Append(g, Head(d)) \o Tail(d) = g \o d
  <2>1. d \in Seq(Cell) /\ g \in Seq(Cell) /\ d # <<>> BY <1>1, <1>2
  <2>2. \A a, b \in Seq(Cell) : b # <<>> => Append(a, Head(b)) \o Tail(b) = a \o b
    BY Shifted
  <2> HIDE DEF d
  <2> QED BY ONLY <2>1, <2>2, Zenon
<1> HIDE DEF r, q, w
<1>7. Replied(t, q, p, s, w) BY <1>4, <1>5 DEF Replied
<1> QED BY <1>3, <1>6, <1>7 DEF q, w, r

\* More frames, no fewer requests.
LEMMA RequestsGrow ==
    ASSUME NEW s \in Seq(WholeFrames), NEW n \in 0..Len(s), NEW k \in 0..n
    PROVE  RequestsOf(SubSeq(s, 1, k)) <= RequestsOf(SubSeq(s, 1, n))
<1> DEFINE v == SubSeq(s, 1, k)
           w == SubSeq(s, 1, n)
           I == {i \in DOMAIN v : IsRequest(v[i])}
           J == {i \in DOMAIN w : IsRequest(w[i])}
<1>1. Len(s) \in Nat /\ k \in 0..Len(s) /\ n \in Nat /\ k \in Nat /\ k <= n BY LenProperties
<1>2. /\ v \in Seq(WholeFrames) /\ Len(v) = k /\ \A i \in 1..k : v[i] = s[i]
      /\ w \in Seq(WholeFrames) /\ Len(w) = n /\ \A i \in 1..n : w[i] = s[i]
  BY <1>1, FirstOnes
<1> HIDE DEF v, w
<1>3. DOMAIN v = 1..k /\ DOMAIN w = 1..n BY <1>2, LenProperties
<1>4. 1..k \subseteq 1..n BY <1>1
<1>5. I \in SUBSET J BY <1>2, <1>3, <1>4
<1>6. IsFiniteSet(J)
  <2>1. IsFiniteSet(1..n) BY <1>1, FS_Interval
  <2>2. J \in SUBSET (1..n) BY <1>3
  <2> QED BY <2>1, <2>2, FS_Subset
<1> HIDE DEF I, J
<1>7. Cardinality(I) <= Cardinality(J) BY <1>5, <1>6, FS_Subset
<1> QED BY <1>7 DEF RequestsOf, v, w, I, J

\* Who holds more than the verdict after one request, the last frame handed
\* over, has had every frame before it read, and every reading logged.
LEMMA ServedAll ==
    ASSUME NEW t \in Thread, NEW r, NEW s \in Seq(WholeFrames), s # <<>>, Track(t, r, <<>>, s),
           NEW w, Len(w) \in Nat, Len(w) >= 3, Replied(t, r, <<>>, s, w),
           RequestsOf(SubSeq(s, 1, Len(s) - 1)) = 0
    PROVE  ReadingsIn(t.log) = ReadingsOf(s)
<1> DEFINE n == Len(s)
           front == SubSeq(s, 1, n - 1)
<1>1. n \in Nat /\ n > 0 /\ front \in Seq(WholeFrames) /\ s[n] \in WholeFrames
      /\ Append(front, s[n]) = s
  OBVIOUS
<1>2. TransfersIn(t.log) \in Nat
  <2>1. t.log \in Seq(Row) BY DEF Thread
  <2>2. Row # {} BY DEF Row
  <2> QED BY <2>1, <2>2, TransfersAppend
<1>3. TransfersIn(t.log) >= 1
  <2>1. Len(w) <= Room(TransfersIn(t.log)) BY DEF Replied
  <2>2. TransfersIn(t.log) # 0 BY <2>1, RoomMore
  <2> QED BY <1>2, <2>2
<1>4. PICK k \in 0..n, F \in [0..n -> Seq(Cell)] : Unrolls(F, s) /\ Tracked(t, r, <<>>, s, k, F)
  BY DEF Track
<1>5. RequestsOf(SubSeq(s, 1, k)) >= 1
  <2>1. Asked(t) = RequestsOf(SubSeq(s, 1, k)) BY <1>4 DEF Tracked
  <2> QED BY <1>2, <1>3, <2>1 DEF Asked
<1>6. k = n
  <2> SUFFICES ASSUME k # n PROVE FALSE OBVIOUS
  <2>0. ASSUME NEW m \in Nat, m > 0, NEW j \in 0..m, j # m
        PROVE  m - 1 \in 0..m /\ j \in 0..(m - 1)
    BY <2>0
  <2>1. n - 1 \in 0..n /\ k \in 0..(n - 1) BY <1>1, <1>4, <2>0
  <2>2. RequestsOf(SubSeq(s, 1, k)) <= RequestsOf(SubSeq(s, 1, n - 1)) BY <2>1, RequestsGrow
  <2>3. RequestsOf(SubSeq(s, 1, k)) \in Nat
    <3>1. SubSeq(s, 1, k) \in Seq(WholeFrames) BY <1>1, <2>1, FirstOnes
    <3> QED BY <1>1, <3>1, RequestsAppend
  <2> QED BY <1>5, <2>2, <2>3
<1>7. SubSeq(s, 1, k) = s BY <1>6, AllOnes
<1>8. IsRequest(s[n])
  <2> SUFFICES ASSUME ~IsRequest(s[n]) PROVE FALSE OBVIOUS
  <2>1. RequestsOf(Append(front, s[n])) = RequestsOf(front) BY <1>1, RequestsAppend
  <2>2. RequestsOf(s) = 0 BY <1>1, <2>1
  <2>3. RequestsOf(SubSeq(s, 1, k)) = 0 BY <1>7, <2>2, Zenon
  <2> QED BY <1>5, <2>3
<1>9. t.pc # "log_receive" BY <1>4, <1>6, <1>8 DEF Tracked
<1>10. Due(t) = ReadingsOf(s) BY <1>4, <1>7 DEF Tracked
<1> QED BY <1>9, <1>10 DEF Due

\* A step of a handler logs one reading, or none.
LEMMA OneReadingAtMost ==
    ASSUME ServerInv, NEW c \in Conns, Handler(c)
    PROVE  \/ ReadingsIn(thread'[c].log) = ReadingsIn(thread[c].log)
           \/ \E x : ReadingsIn(thread'[c].log) = Append(ReadingsIn(thread[c].log), x)
<1> DEFINE log == thread[c].log
           fuel == PacketFuel(c)
<1>1. /\ thread[c] \in Thread /\ thread \in [Conns -> Thread] /\ log \in Seq(Row)
      /\ HandlerFits(thread[c], conn[c]) /\ ServerTypeOK
  BY HandlerParts DEF ServerInv
<1>2. ASSUME NEW row \in Row, thread'[c].log = Append(log, row)
      PROVE  \/ ReadingsIn(thread'[c].log) = ReadingsIn(log)
             \/ \E x : ReadingsIn(thread'[c].log) = Append(ReadingsIn(log), x)
  BY <1>1, <1>2, RowAppend
<1>3. CASE Plain(c)
  <2>1. OtherRow \subseteq Row BY DEF OtherRow, Row
  <2> QED BY <1>2, <1>3, <2>1 DEF Plain
<1>4. CASE LogReceive(c)
  <2>1. thread[c].pc = "log_receive" BY <1>4 DEF LogReceive, At
  <2>2. fuel \in Nat BY <1>1, <2>1, PacketFuelType
  <2>3. Received(fuel) \in Row BY <2>2, RowTypes
  <2>4. thread'[c].log = Append(log, Received(fuel))
    BY <1>1, <1>4 DEF LogReceive, LogRow, Become, Thread
  <2> QED BY <1>2, <2>3, <2>4
<1>5. CASE CheckFuelAlert(c)
  <2>1. thread[c].pc = "alert" BY <1>5 DEF CheckFuelAlert, At
  <2>2. fuel \in Nat BY <1>1, <2>1, PacketFuelType
  <2>3. FuelAlert(fuel) \in Row BY <2>2, RowTypes
  <2>4. thread'[c].log = Append(log, FuelAlert(fuel)) \/ thread'[c].log = log
    BY <1>1, <1>5 DEF CheckFuelAlert, LogRow, Jump, Become, Thread
  <2> QED BY <1>2, <2>3, <2>4
<1> QED BY <1>3, <1>4, <1>5, ActionsPlain
=============================================================================
