------------------------------ MODULE Network ------------------------------
(***************************************************************************)
(* The TCP connections between clients and server, as Winsock shows them   *)
(* to the two programs: send, recv, connect, accept, closesocket and the   *)
(* errors they return.  None of it is code of the repository; it is        *)
(* modelled from the calls Client.cpp and Server.cpp make.                 *)
(*                                                                         *)
(*   listening   the server's listening socket exists                      *)
(*   conn        of each connection:                                       *)
(*     link        none: never used; backlog: connect has returned and     *)
(*                 accept has not; open: accepted; broken: reset           *)
(*     up, down    cells on their way to the server, to the client         *)
(*     clientOpen, serverOpen                                              *)
(*                 that end has not called closesocket yet                 *)
(*                                                                         *)
(* At most Capacity cells are under way in one direction: a sender then    *)
(* waits, as send does once the socket buffers are full.                   *)
(***************************************************************************)
EXTENDS Packets

CONSTANTS Conns,      \* identifiers of connections, each used at most once
          Capacity

ASSUME CapacityAssumption == Capacity \in Nat \ {0}

VARIABLES listening, conn

netVars == <<listening, conn>>

LinkStates == {"none", "backlog", "open", "broken"}

Connection == [link : LinkStates, up : Seq(Cell), down : Seq(Cell),
               clientOpen : BOOLEAN, serverOpen : BOOLEAN]

NetTypeOK == listening \in BOOLEAN /\ conn \in [Conns -> Connection]

NetInit ==
    /\ listening = FALSE
    /\ conn = [c \in Conns |-> [link |-> "none", up |-> <<>>, down |-> <<>>,
                                clientOpen |-> FALSE, serverOpen |-> FALSE]]

Connected(c) == conn[c].link \in {"backlog", "open"}

\* The record of a connection after a reset: what neither side has read yet
\* is discarded.
ResetOf(r) == [r EXCEPT !.link = "broken", !.up = <<>>, !.down = <<>>]

Update(c, r) == conn' = [conn EXCEPT ![c] = r] /\ UNCHANGED listening

\* The connection fails at a moment neither program controls.
Break(c) == Connected(c) /\ Update(c, ResetOf(conn[c]))

\* WSACleanup, or the end of the server process: the sockets it has not
\* closed are reset, and nobody listens any more.
ServerSocketsGone ==
    /\ listening' = FALSE
    /\ conn' = [c \in Conns |->
          IF conn[c].link = "backlog" \/ (conn[c].link = "open" /\ conn[c].serverOpen)
          THEN ResetOf(conn[c]) ELSE conn[c]]

(***************************************************************************)
(* The client's end.                                                       *)
(***************************************************************************)
ClientConnects(c) ==
    /\ listening
    /\ conn[c].link = "none"
    /\ Update(c, [conn[c] EXCEPT !.link = "backlog", !.clientOpen = TRUE])

\* The server has closed the connection (in the backlog it has not).
ServerGone(c) == conn[c].link = "open" /\ ~conn[c].serverOpen

\* One cell accepted by send().  Towards an end that has closed it is
\* accepted too, thrown away there, and answered by a reset sooner or later.
ClientSends(c, cell) ==
    /\ Connected(c)
    /\ \/ /\ ~ServerGone(c)
          /\ Len(conn[c].up) < Capacity
          /\ Update(c, [conn[c] EXCEPT !.up = Append(@, cell)])
       \/ ServerGone(c) /\ UNCHANGED netVars
       \/ ServerGone(c) /\ Update(c, ResetOf(conn[c]))

ClientSendFails(c) == conn[c].link = "broken"

ClientTakes(c) ==
    /\ Connected(c)
    /\ conn[c].down # <<>>
    /\ Update(c, [conn[c] EXCEPT !.down = Tail(@)])

\* recv() returns 0 at the end of the stream and -1 on a reset.
ClientRecvFails(c) ==
    \/ conn[c].link = "broken"
    \/ ServerGone(c) /\ conn[c].down = <<>>

\* closesocket with unread data sends a reset, otherwise the stream ends
\* after what is under way.
ClientCloses(c) ==
    LET closed == [conn[c] EXCEPT !.clientOpen = FALSE] IN
      Update(c, IF Connected(c) /\ conn[c].down # <<>> THEN ResetOf(closed)
                ELSE closed)

\* The client process is killed.
ClientDies(c) ==
    LET closed == [conn[c] EXCEPT !.clientOpen = FALSE] IN
      Update(c, IF Connected(c) THEN ResetOf(closed) ELSE closed)

(***************************************************************************)
(* The server's end.                                                       *)
(***************************************************************************)
ServerAccepts(c) ==
    /\ listening
    /\ conn[c].link = "backlog"
    /\ Update(c, [conn[c] EXCEPT !.link = "open", !.serverOpen = TRUE])

\* The client has closed the connection.
ClientGone(c) == conn[c].link = "open" /\ ~conn[c].clientOpen

ServerSends(c, cell) ==
    /\ conn[c].link = "open"
    /\ \/ /\ ~ClientGone(c)
          /\ Len(conn[c].down) < Capacity
          /\ Update(c, [conn[c] EXCEPT !.down = Append(@, cell)])
       \/ ClientGone(c) /\ UNCHANGED netVars
       \/ ClientGone(c) /\ Update(c, ResetOf(conn[c]))

ServerSendFails(c) == conn[c].link = "broken"

ServerTakes(c) ==
    /\ conn[c].link = "open"
    /\ conn[c].up # <<>>
    /\ Update(c, [conn[c] EXCEPT !.up = Tail(@)])

ServerRecvFails(c) ==
    \/ conn[c].link = "broken"
    \/ ClientGone(c) /\ conn[c].up = <<>>

ServerCloses(c) ==
    LET closed == [conn[c] EXCEPT !.serverOpen = FALSE] IN
      Update(c, IF conn[c].link = "open" /\ conn[c].up # <<>>
                THEN ResetOf(closed) ELSE closed)
=============================================================================
