----------------------------- MODULE OpenServer -----------------------------
(***************************************************************************)
(* The server together with arbitrary peers: each connection is used by a  *)
(* peer that sends whichever frames of Frames it likes, reads replies when *)
(* it likes, closes when it likes and may be cut off at any moment.  This  *)
(* exercises the branches of handleClient that the repository's own client *)
(* never takes (wrong tokens, unknown types, requests out of order).       *)
(***************************************************************************)
EXTENDS Server

CONSTANTS Frames,      \* what a peer may send: header and payload cells
          MaxFrames    \* bound: frames one peer sends

ASSUME OpenServerAssumption ==
    /\ MaxFrames \in Nat
    /\ \A f \in Frames :
         /\ f \in Seq(Cell) \ {<<>>}
         /\ f[1].kind = "header" /\ f[1].num = Len(f) - 1

VARIABLES pending,   \* cells of the current frame the peer has not sent yet
          sent,      \* frames the peer has begun to send, the history
          got        \* cells the peer has read, the history

peerVars == <<pending, sent, got>>
vars == <<netVars, serverVars, peerVars>>

TypeOK ==
    /\ NetTypeOK
    /\ ServerTypeOK
    /\ pending \in [Conns -> Seq(Cell)]
    /\ sent \in [Conns -> Seq(Frames)]
    /\ got \in [Conns -> Seq(Cell)]

Init ==
    /\ NetInit
    /\ ServerInit
    /\ pending = [c \in Conns |-> <<>>]
    /\ sent = [c \in Conns |-> <<>>]
    /\ got = [c \in Conns |-> <<>>]

-----------------------------------------------------------------------------
PeerConnect(c) ==
    ClientConnects(c) /\ UNCHANGED <<serverVars, peerVars>>

PeerBegin(c, f) ==
    /\ conn[c].clientOpen
    /\ pending[c] = <<>>
    /\ Len(sent[c]) < MaxFrames
    /\ pending' = [pending EXCEPT ![c] = f]
    /\ sent' = [sent EXCEPT ![c] = Append(@, f)]
    /\ UNCHANGED <<netVars, serverVars, got>>

PeerSend(c) ==
    /\ conn[c].clientOpen
    /\ pending[c] # <<>>
    /\ ClientSends(c, Head(pending[c]))
    /\ pending' = [pending EXCEPT ![c] = Tail(@)]
    /\ UNCHANGED <<serverVars, sent, got>>

PeerRead(c) ==
    /\ conn[c].clientOpen
    /\ ClientTakes(c)
    /\ got' = [got EXCEPT ![c] = Append(@, Head(conn[c].down))]
    /\ UNCHANGED <<serverVars, pending, sent>>

PeerClose(c) ==
    /\ conn[c].clientOpen
    /\ ClientCloses(c)
    /\ UNCHANGED <<serverVars, peerVars>>

LinkBreaks(c) ==
    "break" \in Faults /\ Break(c) /\ UNCHANGED <<serverVars, peerVars>>

Peer(c) ==
    \/ PeerConnect(c)
    \/ \E f \in Frames : PeerBegin(c, f)
    \/ PeerSend(c)
    \/ PeerRead(c)
    \/ PeerClose(c)

\* Nothing is left to do: no handler runs and none can be started.
Quiescent ==
    /\ \/ ~ProcessAlive
       \/ \A c \in Conns : thread[c].pc = "done" \/ conn[c].link = "broken"
    /\ UNCHANGED vars

Next ==
    \/ ServerNext /\ UNCHANGED peerVars
    \/ \E c \in Conns : Peer(c) \/ LinkBreaks(c)
    \/ Quiescent

Spec == Init /\ [][Next]_vars

\* The operating system schedules every thread of the server.  Nothing is
\* promised of the peers and the network.
FairSpec ==
    /\ Spec
    /\ \A c \in Conns : WF_vars(Handler(c) /\ UNCHANGED peerVars)

-----------------------------------------------------------------------------
(***************************************************************************)
(* What the histories say.                                                 *)
(***************************************************************************)
\* The frames the peer has handed to its socket to the last cell.
Completed(c) ==
    IF pending[c] = <<>> THEN sent[c]
    ELSE SubSeq(sent[c], 1, Len(sent[c]) - 1)

\* The replies so far: what the peer has read, then what is on its way.
Replies(c) == got[c] \o conn[c].down

\* The fuel levels the peer reported.
SentReadings(c) ==
    LET frames == Completed(c)
        readings == Selected(frames, {i \in DOMAIN frames : IsReading(frames[i])})
    IN [k \in DOMAIN readings |-> readings[k][2].num]

RequestsSent(c) ==
    Cardinality({i \in DOMAIN Completed(c) : IsRequest(Completed(c)[i])})

PresentedToken(c) ==
    Completed(c) # <<>> /\ Completed(c)[1] = AuthRequest(AUTH_TOKEN)

-----------------------------------------------------------------------------
\* Access control (REQ-SVR-020): only a peer whose first frame was the right
\* token is ever told OK, sent a dataset, has a reading logged or brings its
\* handler past CONNECTED, however its cells are cut up and cut off.
ServedOnlyAfterToken ==
    \A c \in Conns :
        \/ PresentedToken(c)
        \/ /\ thread[c].sm \in {"DISCONNECTED", "CONNECTED"}
           /\ \A i \in DOMAIN thread[c].log : ~IsReceived(thread[c].log[i])
           /\ \A i \in DOMAIN Replies(c) :
                Replies(c)[i].text \notin {"OK", "PKT_DATA_RESPONSE"}

\* The log tells the truth about the flight (REQ-LOG-010): the readings a
\* handler logs are the readings its peer sent, in order, each at most once,
\* with none invented, whatever else was sent between them.
ReceivedFaithful ==
    \A c \in Conns : Prefix(LoggedReadings(c), SentReadings(c))

\* Nothing received stays unlogged (REQ-LOG-010): when a handler that serves
\* its peer waits for the next header and the stream is empty, it has logged
\* every reading the peer has sent in full, and lost none of them between or
\* behind packets of other types.  (Data requests have no payload here, as
\* the client of the repository sends them: the handler would not read it.)
AllReceivedLogged ==
    \A c \in Conns :
        /\ thread[c].pc = "header" /\ conn[c].link = "open"
        /\ conn[c].up = <<>> /\ pending[c] = <<>>
        => LoggedReadings(c) = SentReadings(c)

\* A client that reads header by header can follow the replies: one verdict
\* that fits the token, then one whole dataset after another, never more of
\* them than were requested, and nothing else on the stream.
RepliesWellFramed ==
    \A c \in Conns :
        LET r == Replies(c)
            asked == Completed(c) # <<>> /\ Completed(c)[1][1].text = "PKT_AUTH_REQUEST"
            place(i) == ((i - 3) % (DatasetSize + 1)) + 1
        IN /\ r # <<>> => asked
           /\ \A i \in DOMAIN r :
                r[i] = IF i <= 2 THEN AuthAck(PresentedToken(c))[i]
                       ELSE DataResponse[place(i)]
           /\ Len(r) <= 2 + RequestsSent(c) * (DatasetSize + 1)

\* No handler thread outlives its connection: once the peer has closed or the
\* link has failed, the thread gets out of whatever call it is in and ends,
\* with data still unread, a dataset half sent or the verdict not given.
HandlerEnds ==
    \A c \in Conns :
        (conn[c].link = "broken" \/ (conn[c].link = "open" /\ ~conn[c].clientOpen))
            ~> (thread[c].pc \in {"none", "done"} \/ ~ProcessAlive)
=============================================================================
