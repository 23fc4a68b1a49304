-------------------------- MODULE OpenServerProofs --------------------------
(***************************************************************************)
(* Proofs about the server with arbitrary peers (module OpenServer), for   *)
(* every set of connections, every set of frames, every buffer capacity    *)
(* and every choice of what may fail.                                      *)
(***************************************************************************)
EXTENDS OpenServer, ServerProofs

-----------------------------------------------------------------------------
\* What the peers keep, and nothing else of the state.
PeerTypeOK ==
    /\ pending \in [Conns -> Seq(Cell)]
    /\ sent \in [Conns -> Seq(Frames)]
    /\ got \in [Conns -> Seq(Cell)]

\* Every step of a peer and every failure of its link: neither moves a
\* handler or takes its socket.
LEMMA PeerStep ==
    ASSUME ServerInv, PeerTypeOK, NEW c \in Conns, Peer(c) \/ LinkBreaks(c)
    PROVE  ServerInv' /\ PeerTypeOK'
<1>1. /\ NetTypeOK /\ conn[c] \in Connection /\ conn[c].down \in Seq(Cell)
      /\ pending[c] \in Seq(Cell) /\ sent[c] \in Seq(Frames) /\ got[c] \in Seq(Cell)
      /\ mpc \in MainPCs \ {"terminated"}
  BY DEF ServerInv, NetTypeOK, ServerTypeOK, NoInvalidTransition, Connection, PeerTypeOK
<1>2. /\ UNCHANGED netVars => NetTypeOK' /\ Undisturbed
      /\ \A cell \in Cell : ClientSends(c, cell) => NetTypeOK' /\ Undisturbed
      /\ \/ ClientConnects(c) \/ ClientTakes(c) \/ ClientCloses(c) \/ Break(c)
         => NetTypeOK' /\ Undisturbed
  <2>1. Header("PKT_OTHER", 0) \in Cell
    BY CellTypes DEF PacketTypes
  <2> QED BY <1>1, <2>1, NetworkSteps
<1>3. NetTypeOK' /\ Undisturbed /\ UNCHANGED serverVars => ServerInv'
  BY <1>1, QuietStep DEF serverVars
<1>4. UNCHANGED peerVars => PeerTypeOK'
  BY DEF peerVars, PeerTypeOK
<1>5. CASE PeerConnect(c)
  BY <1>2, <1>3, <1>4, <1>5 DEF PeerConnect
<1>6. CASE \E f \in Frames : PeerBegin(c, f)
  <2>1. PICK f \in Frames : PeerBegin(c, f)
    BY <1>6
  <2>2. f \in Seq(Cell) /\ Append(sent[c], f) \in Seq(Frames)
    BY <1>1, OpenServerAssumption
  <2>3. PeerTypeOK'
    BY <2>1, <2>2 DEF PeerBegin, PeerTypeOK
  <2> QED BY <1>2, <1>3, <2>1, <2>3 DEF PeerBegin
<1>7. CASE PeerSend(c)
  <2>1. Head(pending[c]) \in Cell /\ Tail(pending[c]) \in Seq(Cell)
    BY <1>1, <1>7 DEF PeerSend
  <2>2. PeerTypeOK'
    BY <1>7, <2>1 DEF PeerSend, PeerTypeOK
  <2> QED BY <1>2, <1>3, <1>7, <2>1, <2>2 DEF PeerSend
<1>8. CASE PeerRead(c)
  <2>1. Head(conn[c].down) \in Cell
    BY <1>1, <1>8 DEF PeerRead, ClientTakes
  <2>2. Append(got[c], Head(conn[c].down)) \in Seq(Cell)
    BY <1>1, <2>1
  <2>3. PeerTypeOK'
    BY <1>8, <2>2 DEF PeerRead, PeerTypeOK
  <2> QED BY <1>2, <1>3, <1>8, <2>3 DEF PeerRead
<1>9. CASE PeerClose(c)
  BY <1>2, <1>3, <1>4, <1>9 DEF PeerClose
<1>10. CASE LinkBreaks(c)
  BY <1>2, <1>3, <1>4, <1>10 DEF LinkBreaks
<1> QED BY <1>5, <1>6, <1>7, <1>8, <1>9, <1>10 DEF Peer

-----------------------------------------------------------------------------
(***************************************************************************)
(* The theorems.                                                           *)
(***************************************************************************)
OpenServerInv == ServerInv /\ PeerTypeOK

\* The invariant holds before anything has happened.
LEMMA InitInv == Init => OpenServerInv
<1>1. <<>> \in Seq(Cell) /\ <<>> \in Seq(Frames)
  OBVIOUS
<1>2. Init => PeerTypeOK
  BY <1>1 DEF Init, PeerTypeOK
<1> QED BY <1>2, ServerInitially DEF Init, OpenServerInv

\* Every step keeps it.
LEMMA NextInv == OpenServerInv /\ [Next]_vars => OpenServerInv'
<1> SUFFICES ASSUME OpenServerInv, [Next]_vars PROVE OpenServerInv'
  OBVIOUS
<1>1. CASE UNCHANGED peerVars /\ MainThread
  <2>1. PeerTypeOK'
    BY <1>1 DEF OpenServerInv, PeerTypeOK, peerVars
  <2> QED BY <1>1, <2>1, MainStep DEF OpenServerInv
<1>2. CASE UNCHANGED peerVars /\ \E c \in Conns : Handler(c)
  <2>1. PeerTypeOK'
    BY <1>2 DEF OpenServerInv, PeerTypeOK, peerVars
  <2> QED BY <1>2, <2>1, AuthenticatingStep, ServingStep DEF OpenServerInv, Handler
<1>3. CASE \E c \in Conns : Peer(c) \/ LinkBreaks(c)
  BY <1>3, PeerStep DEF OpenServerInv
<1>4. CASE UNCHANGED vars
  <2>1. PeerTypeOK' /\ NetTypeOK' /\ Undisturbed
    BY <1>4 DEF OpenServerInv, ServerInv, PeerTypeOK, NetTypeOK, Undisturbed,
                vars, peerVars, netVars
  <2>2. UNCHANGED thread /\ mpc' \in MainPCs \ {"terminated"}
    BY <1>4 DEF OpenServerInv, ServerInv, ServerTypeOK, NoInvalidTransition, vars, serverVars
  <2> QED BY <2>1, <2>2, QuietStep DEF OpenServerInv
<1> QED BY <1>1, <1>2, <1>3, <1>4 DEF Next, ServerNext, Quiescent

\* The inductive invariant of the server with arbitrary peers.
THEOREM OpenServerInvariant == Spec => []OpenServerInv
BY InitInv, NextInv, PTL DEF Spec

\* Type correctness: whatever bytes a peer sends, every header, payload,
\* reply and log row handleClient handles is one, and no step is undefined
\* for want of an element (TypeOK).
THEOREM ServerTypeCorrect == Spec => []TypeOK
<1>1. OpenServerInv => TypeOK
  BY DEF OpenServerInv, ServerInv, PeerTypeOK, TypeOK
<1> QED BY <1>1, OpenServerInvariant, PTL

\* Whatever peers send and whenever links fail, no handler asks its state
\* machine for a transition it refuses, so no connection brings the server
\* down by an exception (StateMachine::transition called from handleClient).
THEOREM ServerNeverThrows == Spec => []NoInvalidTransition
<1>1. OpenServerInv => NoInvalidTransition
  BY DEF OpenServerInv, ServerInv
<1> QED BY <1>1, OpenServerInvariant, PTL

\* At every place of handleClient the state machine, the socket, the part of
\* the payload read and the part of the reply left are the ones the code
\* there relies on.
THEOREM HandlersAlwaysFit == Spec => []HandlersFit
<1>1. OpenServerInv => HandlersFit
  BY DEF OpenServerInv, ServerInv
<1> QED BY <1>1, OpenServerInvariant, PTL

\* No server, whatever its peers send and however their links fail, raises
\* an alert without the low reading just before it in its log, misses one
\* after a low reading, or raises it with another fuel level (checkFuelAlert
\* after logPacket in handleClient).
THEOREM AlertsFollowReadings == Spec => []AlertFollowsReading
<1>1. Init => LogsFit
  BY DEF Init, ServerInit, LogsFit, Paired, ReadingLast
<1>2. OpenServerInv /\ LogsFit /\ [Next]_vars => LogsFit'
  <2> SUFFICES ASSUME OpenServerInv, LogsFit, [Next]_vars PROVE LogsFit'
    OBVIOUS
  <2>1. CASE UNCHANGED thread
    BY <2>1 DEF LogsFit
  <2> QED
    BY <2>1, MainKeepsLogs, HandlerKeepsLogs
    DEF Next, ServerNext, Quiescent, OpenServerInv, vars, serverVars,
        Peer, PeerConnect, PeerBegin, PeerSend, PeerRead, PeerClose, LinkBreaks
<1>3. LogsFit => AlertFollowsReading
  BY DEF LogsFit, Paired, AlertFollowsReading
<1> QED BY <1>1, <1>2, <1>3, OpenServerInvariant, PTL DEF Spec

\* The parts of the state, typed.
LEMMA Parts ==
    ASSUME OpenServerInv, NEW c \in Conns
    PROVE  /\ thread[c] \in Thread /\ conn[c] \in Connection
           /\ pending[c] \in Seq(Cell) /\ sent[c] \in Seq(Frames) /\ got[c] \in Seq(Cell)
           /\ thread[c].log \in Seq(Row) /\ thread[c].buf \in Seq(Cell)
           /\ thread[c].out \in Seq(Cell) /\ thread[c].hdr \in Cell
           /\ conn[c].up \in Seq(Cell) /\ conn[c].down \in Seq(Cell)
           /\ HandlerFits(thread[c], conn[c])
           /\ thread \in [Conns -> Thread] /\ conn \in [Conns -> Connection]
BY DEF OpenServerInv, ServerInv, PeerTypeOK, ServerTypeOK, NetTypeOK, HandlersFit,
       Thread, Connection

-----------------------------------------------------------------------------
(***************************************************************************)
(* Access control: the property speaks of frames the peer has sent, the    *)
(* handler decides by the cells it has read.  What ties the two together   *)
(* is FirstFrame: until the token has been checked, what the handler has   *)
(* read, what is under way and what the peer still holds back make up its  *)
(* first frame.                                                            *)
(***************************************************************************)
\* No cell is part of a verdict OK or of a dataset.
Refusing(cells) ==
    \A i \in DOMAIN cells : cells[i].text \notin {"OK", "PKT_DATA_RESPONSE"}

NoReading(log) == \A i \in DOMAIN log : ~IsReceived(log[i])

\* Places of a handler whose peer has not presented the token: Before, up to
\* the last read of its token, and behind it.
Refused == {"auth_ack", "auth_failed", "auth_close", "auth_disconnect", "done"}

\* What the handler has read of the first frame.
Taken(t) == IF t.pc = "auth_token" THEN <<t.hdr>> \o t.buf ELSE <<>>

\* cells have left the peer, p are the cells of its last frame that have not,
\* s are its frames.
FirstFrame(cells, p, s) ==
    IF s = <<>> THEN cells = <<>> /\ p = <<>>
    ELSE IF Len(s) = 1 THEN cells \o p = s[1]
    ELSE Prefix(s[1], cells)

\* A handler t, on connection r, whose peer is not served; g is what the peer
\* has read.
Barred(t, r, p, s, g) ==
    /\ t.pc \in Before \cup Refused \cup {"check_token"}
    /\ ~t.authOK
    /\ NoReading(t.log)
    /\ Refusing(t.out) /\ Refusing(r.down) /\ Refusing(g)
    /\ t.pc = "none" => r.link # "open"
    /\ t.pc \in Before /\ r.link # "broken" => FirstFrame(Taken(t) \o r.up, p, s)
    /\ t.pc = "auth_token" => t.hdr.text = "PKT_AUTH_REQUEST"
    /\ t.pc = "check_token" => t.buf # <<Bytes(AUTH_TOKEN)>>

BarredAt(c) == Barred(thread[c], conn[c], pending[c], sent[c], got[c])

\* A first frame handed over to the last cell, and the right token.
TokenFirst(p, s) ==
    /\ s # <<>> /\ s[1] = AuthRequest(AUTH_TOKEN)
    /\ Len(s) = 1 => p = <<>>

AccessInv == \A c \in Conns : TokenFirst(pending[c], sent[c]) \/ BarredAt(c)

-----------------------------------------------------------------------------
(***************************************************************************)
(* Sequences.                                                              *)
(***************************************************************************)
\* Refusals stay refusals as their cells are read, sent and delivered.
LEMMA RefusingParts ==
    ASSUME NEW s \in Seq(Cell), Refusing(s)
    PROVE  /\ s # <<>> => Refusing(Tail(s)) /\ Refusing(<<Head(s)>>)
           /\ s # <<>> => Head(s).text \notin {"OK", "PKT_DATA_RESPONSE"}
           /\ \A cell \in Cell : cell.text \notin {"OK", "PKT_DATA_RESPONSE"} =>
                Refusing(Append(s, cell))
           /\ Refusing(<<>>)
BY DEF Refusing

\* What the peer has read, then what is on its way.
LEMMA RefusingConcat ==
    ASSUME NEW s \in Seq(Cell), NEW u \in Seq(Cell), Refusing(s), Refusing(u)
    PROVE  Refusing(s \o u)
BY DEF Refusing

\* A log without readings, one more row.
LEMMA NoReadingAppend ==
    ASSUME NEW log \in Seq(Row), NoReading(log), NEW row \in Row, ~IsReceived(row)
    PROVE  NoReading(Append(log, row))
BY DEF NoReading

\* The refusal itself, and silence.
LEMMA RefusalCells == Refusing(AuthAck(FALSE)) /\ Refusing(<<>>)
BY DEF Refusing, AuthAck, Header, Bytes

-----------------------------------------------------------------------------
(***************************************************************************)
(* Types and frames.                                                       *)
(***************************************************************************)
\* PresentedToken, said of the first frame.
LEMMA PresentedMeans ==
    ASSUME OpenServerInv, NEW c \in Conns
    PROVE  PresentedToken(c) <=> TokenFirst(pending[c], sent[c])
<1>1. sent[c] \in Seq(Frames) BY Parts
<1>2. CASE pending[c] = <<>> BY <1>1, <1>2 DEF PresentedToken, Completed, TokenFirst
<1>3. CASE pending[c] # <<>>
  <2> DEFINE s == SubSeq(sent[c], 1, Len(sent[c]) - 1)
  <2>1. Completed(c) = s BY <1>3 DEF Completed
  <2>2. CASE sent[c] = <<>>
    <3>1. s = <<>> BY <2>2
    <3> QED BY <2>1, <2>2, <3>1 DEF PresentedToken, TokenFirst
  <2>3. CASE sent[c] # <<>> /\ Len(sent[c]) = 1
    <3>1. s = <<>> BY <1>1, <2>3
    <3> QED BY <1>3, <2>1, <2>3, <3>1 DEF PresentedToken, TokenFirst
  <2>4. CASE sent[c] # <<>> /\ Len(sent[c]) >= 2 /\ Len(sent[c]) # 1
    <3>1. s # <<>> /\ s[1] = sent[c][1] BY <1>1, <2>4, AllButLast
    <3> QED BY <2>1, <2>4, <3>1 DEF PresentedToken, TokenFirst
  <2> QED BY <1>1, <2>2, <2>3, <2>4, OneOrMore
<1> QED BY <1>2, <1>3

\* The peer begins a frame.
LEMMA FrameBegun ==
    ASSUME NEW cells \in Seq(Cell), NEW s \in Seq(Frames), NEW f \in Frames,
           FirstFrame(cells, <<>>, s)
    PROVE  FirstFrame(cells, f, Append(s, f))
<1>1. f \in Seq(Cell) BY OpenServerAssumption
<1>2. CASE s = <<>>
  <2>1. cells \o f = f BY <1>1, <1>2, ConcatEmptySeq DEF FirstFrame
  <2> QED BY <1>2, <2>1 DEF FirstFrame
<1>3. CASE s # <<>>
  <2>1. Len(s) \in Nat \ {0} BY <1>3, EmptySeq
  <2>2. Append(s, f) # <<>> /\ Len(Append(s, f)) # 1 /\ Append(s, f)[1] = s[1]
    BY <2>1, AppendedTo
  <2>3. Prefix(s[1], cells)
    <3>1. CASE Len(s) = 1
      <4>1. cells \o <<>> = s[1] BY <1>3, <3>1 DEF FirstFrame
      <4>2. s[1] = cells BY <4>1, ConcatEmptySeq
      <4> QED BY <4>2 DEF Prefix
    <3>2. CASE Len(s) # 1 BY <1>3, <3>2 DEF FirstFrame
    <3> QED BY <3>1, <3>2
  <2> QED BY <2>2, <2>3 DEF FirstFrame
<1> QED BY <1>2, <1>3

\* The peer sends a cell of one.
LEMMA FrameSent ==
    ASSUME NEW cells \in Seq(Cell), NEW p \in Seq(Cell), p # <<>>,
           NEW s \in Seq(Frames), FirstFrame(cells, p, s)
    PROVE  FirstFrame(Append(cells, Head(p)), Tail(p), s)
<1>1. s # <<>> BY DEF FirstFrame
<1>2. Head(p) \in Cell BY HeadTailProperties
<1>3. CASE Len(s) = 1
  <2>1. cells \o p = s[1] BY <1>1, <1>3 DEF FirstFrame
  <2>2. Append(cells, Head(p)) \o Tail(p) = cells \o p BY <1>2, Shifted
  <2> QED BY <1>1, <1>3, <2>1, <2>2 DEF FirstFrame
<1>4. CASE Len(s) # 1
  <2>1. s[1] \in Seq(Cell)
    <3>1. Len(s) \in Nat \ {0} BY <1>1, EmptySeq
    <3>2. s[1] \in Frames BY <3>1
    <3> QED BY <3>2, OpenServerAssumption
  <2>2. Prefix(s[1], cells) BY <1>1, <1>4 DEF FirstFrame
  <2>3. /\ Len(Append(cells, Head(p))) = Len(cells) + 1 /\ Len(cells) \in Nat
        /\ Len(s[1]) \in Nat
        /\ \A i \in 1..Len(cells) : Append(cells, Head(p))[i] = cells[i]
    BY <1>2, <2>1, AppendProperties
  <2> HIDE DEF FirstFrame
  <2>4. Prefix(s[1], Append(cells, Head(p))) BY <2>2, <2>3 DEF Prefix
  <2> QED BY <1>1, <1>4, <2>4 DEF FirstFrame
<1> QED BY <1>3, <1>4

\* The first frame is there as soon as a cell is, and begins with its header.
LEMMA FirstHeader ==
    ASSUME NEW cells \in Seq(Cell), cells # <<>>, NEW p \in Seq(Cell),
           NEW s \in Seq(Frames), FirstFrame(cells, p, s)
    PROVE  /\ s # <<>> /\ s[1] \in Frames /\ s[1] \in Seq(Cell)
           /\ s[1][1] = cells[1] /\ cells[1].kind = "header"
           /\ Len(s[1]) = cells[1].num + 1
<1>1. s # <<>> BY DEF FirstFrame
<1>2. s[1] \in Frames
  <2>1. Len(s) \in Nat \ {0} BY <1>1, EmptySeq
  <2> QED BY <2>1
<1> DEFINE f == s[1]
<1>3. f \in Seq(Cell) /\ f # <<>> /\ f[1].kind = "header" /\ f[1].num = Len(f) - 1
  BY <1>2, OpenServerAssumption
<1>4. Len(f) \in Nat \ {0} /\ Len(cells) \in Nat \ {0} BY <1>3, EmptySeq
<1>5. f[1] = cells[1]
  <2>1. CASE Len(s) = 1
    <3>1. f = cells \o p BY <1>1, <2>1 DEF FirstFrame
    <3>2. (cells \o p)[1] = cells[1] BY <1>4
    <3> QED BY <3>1, <3>2
  <2>2. CASE Len(s) # 1
    <3>1. Prefix(f, cells) BY <1>1, <2>2 DEF FirstFrame
    <3> QED BY <1>4, <3>1 DEF Prefix
  <2> QED BY <2>1, <2>2
<1>6. Len(f) = f[1].num + 1 BY <1>3, <1>4
<1> QED BY <1>1, <1>2, <1>3, <1>5, <1>6

\* Two cells on their way that spell the token are the first frame, and all
\* of it.
LEMMA TokenOnItsWay ==
    ASSUME NEW cells \in Seq(Cell), NEW p \in Seq(Cell), NEW s \in Seq(Frames),
           FirstFrame(cells, p, s), Len(cells) >= 2,
           cells[1].text = "PKT_AUTH_REQUEST", cells[1].num = 1,
           cells[2] = Bytes(AUTH_TOKEN)
    PROVE  TokenFirst(p, s)
<1> DEFINE f == s[1]
<1>1. cells # <<>> /\ Len(cells) \in Nat /\ Len(p) \in Nat OBVIOUS
<1>2. /\ s # <<>> /\ f \in Seq(Cell) /\ f[1] = cells[1]
      /\ cells[1].kind = "header" /\ Len(f) = 1 + 1
  BY <1>1, FirstHeader
<1>3. Len(f) = 2 BY <1>2
<1>4. f[2] = cells[2] /\ (Len(s) = 1 => p = <<>>)
  <2>1. CASE Len(s) = 1
    <3>1. f = cells \o p BY <1>2, <2>1 DEF FirstFrame
    <3>2. /\ Len(cells \o p) = Len(cells) + Len(p)
          /\ \A i \in 1..(Len(cells) + Len(p)) :
                (cells \o p)[i] = IF i <= Len(cells) THEN cells[i] ELSE p[i - Len(cells)]
      BY ConcatProperties
    <3>3. Len(p) = 0 BY <1>1, <1>3, <3>1, <3>2
    <3>4. p = <<>> BY <3>3, EmptySeq
    <3>5. (cells \o p)[2] = cells[2] BY <1>1, <3>2
    <3> QED BY <3>1, <3>4, <3>5
  <2>2. CASE Len(s) # 1
    <3>1. Prefix(f, cells) BY <1>2, <2>2 DEF FirstFrame
    <3> QED BY <1>3, <2>2, <3>1 DEF Prefix
  <2> QED BY <2>1, <2>2
<1>5. cells[1] = Header("PKT_AUTH_REQUEST", 1)
  <2>1. cells[1] \in Cell BY <1>1
  <2> QED BY <1>2, <2>1 DEF Cell, Header
<1>6. f = <<cells[1], cells[2]>> BY <1>2, <1>3, <1>4
<1>7. f = AuthRequest(AUTH_TOKEN) BY <1>5, <1>6 DEF AuthRequest
<1> QED BY <1>2, <1>4, <1>7 DEF TokenFirst

-----------------------------------------------------------------------------
(***************************************************************************)
(* What leaves a peer barred.                                              *)
(***************************************************************************)
\* A reset: nothing of what the peer sent will be read any more.
LEMMA BarredByReset ==
    ASSUME NEW t, NEW r, NEW p, NEW s, NEW g, Barred(t, r, p, s, g),
           NEW q, q.link = "broken", Refusing(q.down), NEW p2, NEW s2
    PROVE  Barred(t, q, p2, s2, g)
BY DEF Barred

\* Once the handler is at a place in Refused the stream does not matter.
LEMMA BarredAfterRefusal ==
    ASSUME NEW t, NEW r, NEW p, NEW s, NEW g,
           t.pc \in Refused, ~t.authOK, NoReading(t.log),
           Refusing(t.out), Refusing(r.down), Refusing(g)
    PROVE  Barred(t, r, p, s, g)
BY DEF Barred, Refused, Before

\* The handler's row, place or machine changes, and nothing the peer sends.
LEMMA BarredBefore ==
    ASSUME NEW t, NEW u, NEW r, NEW p, NEW s, NEW g, Barred(t, r, p, s, g),
           t.pc \in {"spawned", "log_connect"}, u.pc \in {"log_connect", "auth_header"},
           u.authOK = t.authOK, NoReading(u.log), u.out = t.out
    PROVE  Barred(u, r, p, s, g)
<1>1. Taken(u) = <<>> /\ Taken(t) = <<>> BY DEF Taken
<1> QED BY <1>1 DEF Barred, Before

-----------------------------------------------------------------------------
(***************************************************************************)
(* The steps of a handler whose peer is barred: the peer stays barred.     *)
(***************************************************************************)
StaysBarred(c) == Barred(thread'[c], conn'[c], pending[c], sent[c], got[c])

\* The header of the first frame, read: it joins what has been taken, unless
\* it announces a token too long to be read.
LEMMA AuthHeaderBarred ==
    ASSUME OpenServerInv, NEW c \in Conns, BarredAt(c), AuthHeader(c)
    PROVE  StaysBarred(c)
<1> DEFINE t == thread[c]
           r == conn[c]
           u == thread'[c]
           q == conn'[c]
<1>1. t.pc = "auth_header" /\ Barred(t, r, pending[c], sent[c], got[c])
  BY DEF AuthHeader, At, BarredAt
<1>2. PICK h \in HeadersIn(r.up) : ReadHeader(c, h, PlaceAfterLogin(h))
  BY DEF AuthHeader
<1>3. /\ t \in Thread /\ r \in Connection /\ r.up \in Seq(Cell)
      /\ pending[c] \in Seq(Cell) /\ sent[c] \in Seq(Frames)
      /\ thread \in [Conns -> Thread] /\ conn \in [Conns -> Connection]
  BY Parts
<1>4. /\ r.link = "open" /\ r.up # <<>>
      /\ q.up = Tail(r.up) /\ q.down = r.down /\ q.link = r.link
  BY <1>2, <1>3 DEF ReadHeader, ServerTakes, Update, Connection
<1>5. PICK place \in {"auth_token", "check_token", "auth_failed"} :
        /\ u = [t EXCEPT !.hdr = h, !.buf = <<>>, !.pc = place]
        /\ place = "auth_token" => h.text = "PKT_AUTH_REQUEST" /\ h.num # 0
  BY <1>2, <1>3 DEF ReadHeader, Become, PlaceAfterLogin
<1>6. /\ u.pc = place /\ u.hdr = h /\ u.buf = <<>>
      /\ u.authOK = t.authOK /\ u.log = t.log /\ u.out = t.out
  BY <1>3, <1>5 DEF Thread
<1>7. CASE place = "auth_failed"
  <2>1. /\ u.pc \in Refused /\ ~u.authOK /\ NoReading(u.log)
        /\ Refusing(u.out) /\ Refusing(q.down) /\ Refusing(got[c])
    BY <1>1, <1>4, <1>6, <1>7 DEF Barred, Refused
  <2> QED BY <2>1, BarredAfterRefusal DEF StaysBarred
<1>8. CASE place = "auth_token"
  <2>1. FirstFrame(r.up, pending[c], sent[c])
    <3>1. Taken(t) = <<>> BY <1>1 DEF Taken
    <3>2. Taken(t) \o r.up = r.up BY <1>3, <3>1, ConcatEmptySeq
    <3> QED BY <1>1, <1>4, <3>2 DEF Barred, Before
  <2>2. r.up[1].kind = "header" BY <1>3, <1>4, <2>1, FirstHeader
  <2>3. h = Head(r.up) BY <1>3, <1>4, <2>2 DEF HeadersIn
  <2>4. Taken(u) \o q.up = r.up
    <3>1. Taken(u) = <<h>>
      <4>1. h \in Cell BY <1>3, HeadersInCell
      <4>2. <<h>> \o <<>> = <<h>> BY <4>1, ConcatEmptySeq
      <4> QED BY <1>6, <1>8, <4>2 DEF Taken
    <3>2. <<Head(r.up)>> \o Tail(r.up) = r.up BY <1>3, <1>4
    <3> QED BY <1>4, <2>3, <3>1, <3>2
  <2>5. FirstFrame(Taken(u) \o q.up, pending[c], sent[c]) BY <2>1, <2>4
  <2> HIDE DEF t, r, u, q
  <2> QED BY <1>1, <1>4, <1>5, <1>6, <1>8, <2>5 DEF Barred, StaysBarred, Before, t, r, u, q
<1>9. CASE place = "check_token"
  <2>1. u.buf # <<Bytes(AUTH_TOKEN)>> BY <1>6
  <2> HIDE DEF t, r, u, q
  <2> QED BY <1>1, <1>4, <1>6, <1>9, <2>1 DEF Barred, StaysBarred, Before, t, r, u, q
<1> QED BY <1>7, <1>8, <1>9

\* A cell of the token, read.  If it made the right one, the first frame
\* would be the right token, handed over to the last cell.
LEMMA AuthTokenBarred ==
    ASSUME OpenServerInv, NEW c \in Conns, ~TokenFirst(pending[c], sent[c]), BarredAt(c),
           AuthToken(c)
    PROVE  StaysBarred(c)
<1> DEFINE t == thread[c]
           r == conn[c]
           u == thread'[c]
           q == conn'[c]
           cells == (<<t.hdr>> \o t.buf) \o r.up
<1>1. t.pc = "auth_token" /\ Barred(t, r, pending[c], sent[c], got[c])
  BY DEF AuthToken, At, BarredAt
<1>2. /\ t \in Thread /\ r \in Connection /\ r.up \in Seq(Cell) /\ t.hdr \in Cell
      /\ t.buf \in Seq(Cell) /\ pending[c] \in Seq(Cell) /\ sent[c] \in Seq(Frames)
      /\ thread \in [Conns -> Thread] /\ conn \in [Conns -> Connection]
  BY Parts
<1>3. ReadPayload(c, "check_token") BY DEF AuthToken
<1>4. /\ r.link = "open" /\ r.up # <<>>
      /\ q.up = Tail(r.up) /\ q.down = r.down /\ q.link = r.link
  BY <1>2, <1>3 DEF ReadPayload, ServerTakes, Update, Connection
<1>5. PICK place \in {"auth_token", "check_token"} :
        /\ u = [t EXCEPT !.buf = Append(@, Head(r.up)), !.pc = place]
        /\ place = "check_token" => Len(t.buf) + 1 = t.hdr.num
  BY <1>1, <1>2, <1>3 DEF ReadPayload, Become
<1>6. /\ u.pc = place /\ u.hdr = t.hdr /\ u.buf = Append(t.buf, Head(r.up))
      /\ u.authOK = t.authOK /\ u.log = t.log /\ u.out = t.out
  BY <1>2, <1>5 DEF Thread
<1>7. FirstFrame(cells, pending[c], sent[c])
  <2>1. Taken(t) \o r.up = cells BY <1>1 DEF Taken
  <2> QED BY <1>1, <1>4, <2>1 DEF Barred, Before
<1>8. CASE place = "auth_token"
  <2>1. Taken(u) \o q.up = cells
    <3>1. Taken(u) = <<t.hdr>> \o Append(t.buf, Head(r.up)) BY <1>6, <1>8 DEF Taken
    <3>2. (<<t.hdr>> \o Append(t.buf, Head(r.up))) \o Tail(r.up) = cells
      <4>1. t.hdr \in Cell /\ t.buf \in Seq(Cell) /\ r.up \in Seq(Cell) /\ r.up # <<>>
        BY <1>2, <1>4
      <4> HIDE DEF t, r
      <4>2. (<<t.hdr>> \o Append(t.buf, Head(r.up))) \o Tail(r.up)
               = (<<t.hdr>> \o t.buf) \o r.up
        BY ONLY <4>1, ShiftedBehind, Zenon
      <4> QED BY <4>2
    <3> QED BY <1>4, <3>1, <3>2
  <2>2. FirstFrame(Taken(u) \o q.up, pending[c], sent[c]) BY <1>7, <2>1
  <2> HIDE DEF t, r, u, q, cells
  <2> QED BY <1>1, <1>4, <1>6, <1>8, <2>2 DEF Barred, StaysBarred, Before, t, r, u, q
<1>9. CASE place = "check_token"
  <2>1. ASSUME u.buf = <<Bytes(AUTH_TOKEN)>> PROVE FALSE
    <3>1. Append(t.buf, Head(r.up)) = <<Bytes(AUTH_TOKEN)>> BY <1>6, <2>1
    <3>2. t.buf = <<>> /\ Head(r.up) = Bytes(AUTH_TOKEN) /\ t.hdr.num = 1
      <4>1. Head(r.up) \in Cell BY <1>2, <1>4, HeadTailProperties
      <4>2. t.buf = <<>> /\ Head(r.up) = Bytes(AUTH_TOKEN)
        <5>1. \A a \in Seq(Cell), x \in Cell : \A y :
                Append(a, x) = <<y>> => a = <<>> /\ x = y
          BY AppendedOnce
        <5>2. t.buf \in Seq(Cell) BY <1>2
        <5> HIDE DEF t, r
        <5> QED BY ONLY <3>1, <4>1, <5>1, <5>2, Zenon
      <4>3. Len(t.buf) = 0 BY <4>2, EmptySeq
      <4>4. t.hdr.num = Len(t.buf) + 1 BY <1>5, <1>9
      <4>5. t.hdr.num = 1 BY <4>3, <4>4
      <4> QED BY <4>2, <4>5
    <3>3. cells = <<t.hdr>> \o r.up
      <4>1. <<t.hdr>> \o <<>> = <<t.hdr>> BY <1>2, ConcatEmptySeq
      <4> QED BY <3>2, <4>1
    <3>4. /\ cells \in Seq(Cell) /\ Len(cells) >= 2
          /\ cells[1] = t.hdr /\ cells[2] = Bytes(AUTH_TOKEN)
      <4>1. Len(r.up) \in Nat \ {0} BY <1>2, <1>4, EmptySeq
      <4> HIDE DEF t, r
      <4> QED BY <1>2, <3>2, <3>3, <4>1
    <3>5. t.hdr.text = "PKT_AUTH_REQUEST" BY <1>1 DEF Barred
    <3> HIDE DEF cells, t, r, u, q
    <3> QED BY <1>2, <1>7, <3>2, <3>4, <3>5, TokenOnItsWay
  <2> HIDE DEF t, r, u, q, cells
  <2> QED BY <1>1, <1>4, <1>6, <1>9, <2>1 DEF Barred, StaysBarred, Before, t, r, u, q
<1> QED BY <1>8, <1>9

\* The verdict.
LEMMA CheckTokenBarred ==
    ASSUME OpenServerInv, NEW c \in Conns, BarredAt(c), CheckToken(c)
    PROVE  StaysBarred(c)
<1> DEFINE t == thread[c]
           u == thread'[c]
<1>1. t.pc = "check_token" /\ Barred(t, conn[c], pending[c], sent[c], got[c])
  BY DEF CheckToken, At, BarredAt
<1>2. t \in Thread /\ thread \in [Conns -> Thread] BY Parts
<1>3. t.buf # <<Bytes(AUTH_TOKEN)>> BY <1>1 DEF Barred
<1>4. u = [t EXCEPT !.authOK = FALSE, !.out = AuthAck(FALSE), !.pc = "auth_ack"]
  BY <1>2, <1>3 DEF CheckToken, Become
<1>5. u.pc = "auth_ack" /\ u.authOK = FALSE /\ u.out = AuthAck(FALSE) /\ u.log = t.log
  BY <1>2, <1>4 DEF Thread
<1>6. conn' = conn BY DEF CheckToken, netVars
<1>7. /\ u.pc \in Refused /\ ~u.authOK /\ NoReading(u.log)
      /\ Refusing(u.out) /\ Refusing(conn'[c].down) /\ Refusing(got[c])
  BY <1>1, <1>5, <1>6, RefusalCells DEF Barred, Refused
<1> QED BY <1>7, BarredAfterRefusal DEF StaysBarred

\* The refusal on its way.
LEMMA SendAckBarred ==
    ASSUME OpenServerInv, NEW c \in Conns, BarredAt(c), SendAck(c)
    PROVE  StaysBarred(c)
<1> DEFINE t == thread[c]
           r == conn[c]
           u == thread'[c]
           q == conn'[c]
<1>1. t.pc = "auth_ack" /\ Barred(t, r, pending[c], sent[c], got[c])
  BY DEF SendAck, At, BarredAt
<1>2. /\ t \in Thread /\ thread \in [Conns -> Thread]
      /\ r \in Connection /\ conn \in [Conns -> Connection]
      /\ t.out \in Seq(Cell) /\ t.log \in Seq(Row) /\ r.down \in Seq(Cell)
      /\ t.out # <<>>
  BY <1>1, Parts DEF HandlerFits
<1>3. /\ ~t.authOK /\ NoReading(t.log) /\ Refusing(t.out) /\ Refusing(r.down)
      /\ Refusing(got[c])
  BY <1>1 DEF Barred
<1>4. SendNext(c, "auth_failed") BY <1>3 DEF SendAck
<1>5. CASE /\ ServerSends(c, Head(t.out))
           /\ Become(c, [t EXCEPT !.out = Tail(@),
                                  !.pc = IF Len(t.out) = 1 THEN "auth_failed" ELSE @])
  <2>1. /\ u.pc \in {"auth_ack", "auth_failed"} /\ u.authOK = t.authOK
        /\ u.log = t.log /\ u.out = Tail(t.out)
    BY <1>1, <1>2, <1>5 DEF Become, Thread
  <2>2. Refusing(u.out) BY <1>2, <1>3, <2>1, RefusingParts
  <2>3. /\ Head(t.out) \in Cell
        /\ Refusing(Append(r.down, Head(t.out)))
    BY <1>2, <1>3, RefusingParts, HeadTailProperties
  <2>4. Refusing(q.down)
    <3>1. \/ q = [r EXCEPT !.down = Append(@, Head(t.out))]
          \/ q = r
          \/ q = ResetOf(r)
      BY <1>2, <1>5 DEF ServerSends, Update, netVars
    <3>2. [r EXCEPT !.down = Append(@, Head(t.out))].down = Append(r.down, Head(t.out))
      BY <1>2 DEF Connection
    <3>3. ResetOf(r).down = <<>> BY <1>2, ResetParts
    <3> QED BY <1>3, <2>3, <3>1, <3>2, <3>3, RefusalCells
  <2>5. u.pc \in Refused /\ ~u.authOK /\ NoReading(u.log)
    BY <1>3, <2>1 DEF Refused
  <2> QED BY <1>3, <2>2, <2>4, <2>5, BarredAfterRefusal DEF StaysBarred
<1>6. CASE /\ UNCHANGED netVars
           /\ Become(c, [t EXCEPT !.out = <<>>, !.log = Append(@, <<"ERROR">>),
                                  !.pc = "auth_failed"])
  <2>1. /\ u.pc = "auth_failed" /\ u.authOK = t.authOK
        /\ u.log = Append(t.log, <<"ERROR">>) /\ u.out = <<>>
    BY <1>2, <1>6 DEF Become, Thread
  <2>2. NoReading(u.log)
    BY <1>2, <1>3, <2>1, NoReadingAppend, OtherRows, RowTypes
  <2>3. Refusing(u.out) /\ Refusing(q.down)
    BY <1>3, <1>6, <2>1, RefusalCells DEF netVars
  <2>4. u.pc \in Refused /\ ~u.authOK BY <1>3, <2>1 DEF Refused
  <2> QED BY <1>3, <2>2, <2>3, <2>4, BarredAfterRefusal DEF StaysBarred
<1> QED BY <1>4, <1>5, <1>6 DEF SendNext

\* Rows, transitions, closesocket and failed reads on the way out, and the
\* first two rows of every handler.
LEMMA PlainStepBarred ==
    ASSUME OpenServerInv, OpenServerInv', NEW c \in Conns, BarredAt(c),
           \/ Begin(c) \/ LogConnect(c) \/ AuthReadFails(c) \/ AuthFailed(c)
           \/ AuthClose(c) \/ AuthDisconnect(c)
    PROVE  StaysBarred(c)
<1> DEFINE t == thread[c]
           r == conn[c]
           u == thread'[c]
           q == conn'[c]
<1>1. Barred(t, r, pending[c], sent[c], got[c]) BY DEF BarredAt
<1>2. /\ t \in Thread /\ thread \in [Conns -> Thread]
      /\ r \in Connection /\ conn \in [Conns -> Connection]
      /\ t.log \in Seq(Row) /\ t.sm \in ServerState
  BY Parts DEF Thread
<1>3. /\ ~t.authOK /\ NoReading(t.log) /\ Refusing(t.out) /\ Refusing(r.down)
      /\ Refusing(got[c])
  BY <1>1 DEF Barred
<1>4. ASSUME NEW row \in Row, NEW sm \in ServerState, NEW place \in HandlerPCs, ~IsReceived(row),
             \/ u = [t EXCEPT !.log = Append(@, row), !.pc = place]
             \/ u = [t EXCEPT !.log = Append(@, row), !.sm = sm, !.pc = place]
             \/ u = [t EXCEPT !.pc = place]
      PROVE  /\ u.pc = place /\ u.authOK = t.authOK /\ u.out = t.out
             /\ NoReading(u.log)
  <2>1. /\ u.pc = place /\ u.authOK = t.authOK /\ u.out = t.out
        /\ u.log \in {t.log, Append(t.log, row)}
    BY <1>2, <1>4 DEF Thread
  <2> QED BY <1>2, <1>3, <1>4, <2>1, NoReadingAppend
<1>5. ASSUME NEW place \in Refused, u.pc = place, u.authOK = t.authOK, u.out = t.out,
             NoReading(u.log), Refusing(q.down)
      PROVE  StaysBarred(c)
  BY <1>3, <1>5, BarredAfterRefusal DEF StaysBarred
<1>6. mpc' # "terminated" BY DEF OpenServerInv, ServerInv, NoInvalidTransition
<1>7. ASSUME NEW next \in ServerState, NEW complete \in BOOLEAN, NEW place \in HandlerPCs,
             Transition(c, next, complete, place)
      PROVE  /\ u.pc = place /\ u.authOK = t.authOK /\ u.out = t.out
             /\ NoReading(u.log) /\ q = r
  <2>1. Transitioned(t.sm, next) \in Row /\ ~IsReceived(Transitioned(t.sm, next))
    BY <1>2, RowTypes, OtherRows
  <2>2. /\ u = [t EXCEPT !.log = Append(@, Transitioned(t.sm, next)),
                         !.sm = next, !.pc = place]
        /\ q = r
    BY <1>2, <1>6, <1>7 DEF Transition, Become, netVars
  <2> QED BY <1>4, <2>1, <2>2
<1>8. ASSUME NEW row \in Row, ~IsReceived(row), NEW place \in HandlerPCs,
             LogRow(c, row, place) \/ Jump(c, place)
      PROVE  /\ u.pc = place /\ u.authOK = t.authOK /\ u.out = t.out
             /\ NoReading(u.log) /\ q = r
  <2>1. /\ \/ u = [t EXCEPT !.log = Append(@, row), !.pc = place]
           \/ u = [t EXCEPT !.pc = place]
        /\ q = r
    BY <1>2, <1>8 DEF LogRow, Jump, Become, netVars
  <2>2. "DISCONNECTED" \in ServerState BY DEF ServerState
  <2> QED BY <1>4, <1>8, <2>1, <2>2
<1>9. /\ {"log_connect", "auth_header", "auth_failed", "auth_close", "done",
          "auth_disconnect"} \subseteq HandlerPCs
      /\ {"auth_failed", "auth_close", "done", "auth_disconnect"} \subseteq Refused
      /\ {"CONNECTED", "DISCONNECTED"} \subseteq ServerState
  BY DEF HandlerPCs, Refused, ServerState
<1>10. /\ <<"ERROR">> \in Row /\ <<"CONNECT">> \in Row
       /\ ~IsReceived(<<"ERROR">>) /\ ~IsReceived(<<"CONNECT">>)
  BY RowTypes, OtherRows
<1>11. CASE Begin(c)
  <2>1. t.pc = "spawned" /\ Transition(c, "CONNECTED", FALSE, "log_connect")
    BY <1>11 DEF Begin, At
  <2>2. /\ u.pc = "log_connect" /\ u.authOK = t.authOK /\ u.out = t.out
        /\ NoReading(u.log) /\ q = r
    BY <1>7, <1>9, <2>1
  <2> QED BY <1>1, <2>1, <2>2, BarredBefore DEF StaysBarred
<1>12. CASE LogConnect(c)
  <2>1. t.pc = "log_connect" /\ LogRow(c, <<"CONNECT">>, "auth_header")
    BY <1>12 DEF LogConnect, At
  <2>2. /\ u.pc = "auth_header" /\ u.authOK = t.authOK /\ u.out = t.out
        /\ NoReading(u.log) /\ q = r
    BY <1>8, <1>9, <1>10, <2>1
  <2> QED BY <1>1, <2>1, <2>2, BarredBefore DEF StaysBarred
<1>13. CASE AuthReadFails(c)
  <2>1. /\ u.pc = "auth_failed" /\ u.authOK = t.authOK /\ u.out = t.out
        /\ NoReading(u.log) /\ q = r
    BY <1>8, <1>9, <1>10, <1>13 DEF AuthReadFails
  <2> QED BY <1>3, <1>5, <1>9, <2>1
<1>14. CASE AuthFailed(c)
  <2>1. /\ u.pc = "auth_close" /\ u.authOK = t.authOK /\ u.out = t.out
        /\ NoReading(u.log) /\ q = r
    BY <1>8, <1>9, <1>10, <1>14 DEF AuthFailed
  <2> QED BY <1>3, <1>5, <1>9, <2>1
<1>15. CASE AuthClose(c)
  <2> DEFINE closed == [r EXCEPT !.serverOpen = FALSE]
  <2>1. u = [t EXCEPT !.pc = "auth_disconnect"] BY <1>2, <1>15 DEF AuthClose, Become
  <2>2. /\ u.pc = "auth_disconnect" /\ u.authOK = t.authOK /\ u.out = t.out
        /\ NoReading(u.log)
    BY <1>2, <1>3, <2>1 DEF Thread
  <2>3. closed \in Connection /\ closed.down = r.down BY <1>2 DEF Connection
  <2>4. ResetOf(closed).down = <<>> BY <2>3, ResetParts
  <2>5. q = closed \/ q = ResetOf(closed) BY <1>2, <1>15 DEF AuthClose, ServerCloses, Update
  <2>6. Refusing(q.down) BY <1>3, <2>3, <2>4, <2>5, RefusalCells
  <2> QED BY <1>5, <1>9, <2>2, <2>6
<1>16. CASE AuthDisconnect(c)
  <2>1. /\ u.pc = "done" /\ u.authOK = t.authOK /\ u.out = t.out
        /\ NoReading(u.log) /\ q = r
    BY <1>7, <1>9, <1>16 DEF AuthDisconnect
  <2> QED BY <1>3, <1>5, <1>9, <2>1
<1> QED BY <1>11, <1>12, <1>13, <1>14, <1>15, <1>16

\* Every step of a handler.
LEMMA HandlerBarred ==
    ASSUME OpenServerInv, OpenServerInv', NEW c \in Conns,
           ~TokenFirst(pending[c], sent[c]), BarredAt(c), Handler(c)
    PROVE  StaysBarred(c)
<1>1. thread[c].pc \in {"none", "spawned", "log_connect", "auth_header", "auth_token",
                        "check_token", "auth_ack", "auth_failed", "auth_close",
                        "auth_disconnect", "done"}
  BY DEF BarredAt, Barred, Before, Refused
<1>2. ~Serving(c)
  BY <1>1 DEF Serving, At, NextHeader, HeaderFails, BeginTransfer, BuildDataset,
     SendDataset, EndTransfer, TelemetryPayload, PayloadFails, LogReceive,
     CheckFuelAlert, UnknownType, Drain, LogLost, LogDisconnect, Disconnect, Close
<1>3. ~Authenticated(c) /\ ~StartReceiving(c)
  BY <1>1 DEF Authenticated, StartReceiving, At
<1> QED
  BY <1>2, <1>3, AuthHeaderBarred, AuthTokenBarred, CheckTokenBarred, SendAckBarred,
     PlainStepBarred
  DEF Handler, Authenticating

-----------------------------------------------------------------------------
(***************************************************************************)
(* The main thread and the peers.                                          *)
(***************************************************************************)
\* The main thread starts a handler, or takes the connections away.
LEMMA MainBarred ==
    ASSUME OpenServerInv, NEW c \in Conns, BarredAt(c), MainThread
    PROVE  StaysBarred(c)
<1>1. /\ thread \in [Conns -> Thread] /\ conn \in [Conns -> Connection]
      /\ thread[c] \in Thread /\ conn[c] \in Connection
      /\ HandlerFits(thread[c], conn[c])
  BY Parts
<1>2. Barred(thread[c], conn[c], pending[c], sent[c], got[c]) BY DEF BarredAt
<1>3. CASE UNCHANGED <<conn, thread>> BY <1>2, <1>3 DEF StaysBarred
<1>4. CASE ServerSocketsGone /\ UNCHANGED thread
  <2>1. ResetOf(conn[c]).link = "broken" /\ Refusing(ResetOf(conn[c]).down)
    BY <1>1, ResetParts, RefusalCells
  <2>2. Barred(thread[c], ResetOf(conn[c]), pending[c], sent[c], got[c])
    BY <1>2, <2>1, BarredByReset
  <2>3. conn'[c] = conn[c] \/ conn'[c] = ResetOf(conn[c])
    BY <1>4 DEF ServerSocketsGone
  <2> QED BY <1>2, <1>4, <2>2, <2>3 DEF StaysBarred
<1>5. ASSUME NEW d \in Conns, Accept(d) PROVE StaysBarred(c)
  <2>1. CASE d # c
    <3>1. thread'[c] = thread[c] /\ conn'[c] = conn[c]
      BY <1>1, <1>5, <2>1 DEF Accept, ServerAccepts, Update
    <3> QED BY <1>2, <3>1 DEF StaysBarred
  <2>2. CASE d = c
    <3> DEFINE u == thread'[c]
               q == conn'[c]
    <3>1. /\ conn[c].link = "backlog"
          /\ q = [conn[c] EXCEPT !.link = "open", !.serverOpen = TRUE]
          /\ u = [thread[c] EXCEPT !.pc = "spawned"]
      BY <1>1, <1>5, <2>2 DEF Accept, ServerAccepts, Update
    <3>2. /\ q.link = "open" /\ q.up = conn[c].up /\ q.down = conn[c].down
          /\ u.pc = "spawned" /\ u.authOK = thread[c].authOK /\ u.log = thread[c].log
          /\ u.out = thread[c].out
      BY <1>1, <3>1 DEF Connection, Thread
    <3>3. thread[c].pc = "none" BY <1>1, <3>1 DEF HandlerFits
    <3>4. Taken(u) = <<>> /\ Taken(thread[c]) = <<>> BY <3>2, <3>3 DEF Taken
    <3> HIDE DEF u, q
    <3>5. Barred(u, q, pending[c], sent[c], got[c])
      BY <1>2, <3>1, <3>2, <3>3, <3>4 DEF Barred, Before
    <3> QED BY <3>5 DEF StaysBarred, u, q
  <2> QED BY <2>1, <2>2
<1> QED
  BY <1>3, <1>4, <1>5 DEF MainThread, InitializeWinsock, StartServer, AcceptFails, Cleanup,
     Return, netVars

\* What the link does to a connection whose handler stays where it is: the
\* cells towards the server go on, those towards the client are still part
\* of a refusal.
LEMMA BarredAlike ==
    ASSUME NEW t, NEW r, NEW p, NEW s, NEW g, Barred(t, r, p, s, g),
           NEW q, q.up = r.up, q.link # "broken", r.link # "broken",
           q.link = "open" => r.link = "open", Refusing(q.down), NEW g2, Refusing(g2)
    PROVE  Barred(t, q, p, s, g2)
BY DEF Barred

\* A peer's step on its own connection.
LEMMA PeerBarred ==
    ASSUME OpenServerInv, NEW c \in Conns, Peer(c) \/ LinkBreaks(c), BarredAt(c)
    PROVE  BarredAt(c)'
<1> DEFINE t == thread[c]
           r == conn[c]
           q == conn'[c]
<1>1. /\ conn \in [Conns -> Connection] /\ r \in Connection /\ HandlerFits(t, r)
      /\ pending[c] \in Seq(Cell) /\ sent[c] \in Seq(Frames) /\ got[c] \in Seq(Cell)
      /\ r.up \in Seq(Cell) /\ r.down \in Seq(Cell) /\ t.hdr \in Cell /\ t.buf \in Seq(Cell)
      /\ pending \in [Conns -> Seq(Cell)] /\ sent \in [Conns -> Seq(Frames)]
      /\ got \in [Conns -> Seq(Cell)]
  BY Parts DEF OpenServerInv, PeerTypeOK
<1>2. Barred(t, r, pending[c], sent[c], got[c]) BY DEF BarredAt
<1>3. Refusing(r.down) /\ Refusing(got[c]) BY <1>2 DEF Barred
<1>4. UNCHANGED thread
  BY DEF Peer, PeerConnect, PeerBegin, PeerSend, PeerRead, PeerClose, LinkBreaks, serverVars
<1>5. SUFFICES Barred(t, q, pending'[c], sent'[c], got'[c])
  BY <1>4 DEF BarredAt
<1>6. Taken(t) \in Seq(Cell) BY <1>1 DEF Taken
<1>7. ASSUME NEW x \in Connection, q = ResetOf(x), got'[c] = got[c]
      PROVE  Barred(t, q, pending'[c], sent'[c], got'[c])
  BY <1>2, <1>7, ResetParts, RefusalCells, BarredByReset
<1>8. CASE PeerConnect(c)
  <2>1. /\ r.link = "none" /\ q = [r EXCEPT !.link = "backlog", !.clientOpen = TRUE]
        /\ UNCHANGED <<pending, sent, got>>
    BY <1>1, <1>8 DEF PeerConnect, ClientConnects, Update, peerVars
  <2>2. q.link = "backlog" /\ q.up = r.up /\ q.down = r.down BY <1>1, <2>1 DEF Connection
  <2> HIDE DEF t, r, q
  <2> QED BY <1>2, <1>3, <2>1, <2>2, BarredAlike
<1>9. CASE \E f \in Frames : PeerBegin(c, f)
  <2>1. PICK f \in Frames : PeerBegin(c, f) BY <1>9
  <2>2. /\ pending[c] = <<>> /\ pending'[c] = f /\ sent'[c] = Append(sent[c], f)
        /\ q = r /\ got'[c] = got[c]
    BY <1>1, <2>1 DEF PeerBegin, netVars
  <2>3. Taken(t) \o r.up \in Seq(Cell) BY <1>1, <1>6, ConcatProperties
  <2>4. FirstFrame(Taken(t) \o r.up, <<>>, sent[c])
           => FirstFrame(Taken(t) \o r.up, f, Append(sent[c], f))
    BY <1>1, <2>3, FrameBegun
  <2> HIDE DEF t, r, q
  <2> QED BY <1>2, <2>2, <2>4 DEF Barred
<1>10. CASE PeerSend(c)
  <2> DEFINE x == Head(pending[c])
  <2>1. /\ pending[c] # <<>> /\ ClientSends(c, x)
        /\ pending'[c] = Tail(pending[c]) /\ sent'[c] = sent[c] /\ got'[c] = got[c]
    BY <1>1, <1>10 DEF PeerSend
  <2>2. x \in Cell BY <1>1, <2>1, HeadTailProperties
  <2>3. CASE q = ResetOf(r) BY <1>1, <1>7, <2>1, <2>3
  <2>4. CASE ServerGone(c) /\ q = r
    <3>1. r.link = "open" /\ ~r.serverOpen BY <2>4 DEF ServerGone
    <3>2. t.pc \notin HoldsSocket BY <1>1, <3>1 DEF HandlerFits
    <3>3. t.pc # "none" BY <1>2, <3>1 DEF Barred
    <3>4. t.pc \in Refused
      BY <1>2, <3>2, <3>3 DEF Barred, Before, Refused, HoldsSocket, HandlerPCs
    <3> HIDE DEF t, r, q
    <3> QED BY <1>2, <2>1, <2>4, <3>4, BarredAfterRefusal DEF Barred
  <2>5. CASE q = [r EXCEPT !.up = Append(@, x)] /\ Connected(c)
    <3>1. /\ q.up = Append(r.up, x) /\ q.link = r.link /\ q.down = r.down
          /\ r.link # "broken"
      BY <1>1, <2>5 DEF Connection, Connected
    <3>2. Taken(t) \o r.up \in Seq(Cell) BY <1>1, <1>6, ConcatProperties
    <3>3. FirstFrame(Taken(t) \o r.up, pending[c], sent[c])
             => FirstFrame(Append(Taken(t) \o r.up, x), Tail(pending[c]), sent[c])
      BY <1>1, <2>1, <3>2, FrameSent
    <3>4. Taken(t) \o q.up = Append(Taken(t) \o r.up, x)
      <4>1. Taken(t) \in Seq(Cell) /\ r.up \in Seq(Cell) /\ x \in Cell
        BY <1>1, <1>6, <2>2
      <4> HIDE DEF t, r, q, x
      <4>2. Taken(t) \o Append(r.up, x) = Append(Taken(t) \o r.up, x)
        BY ONLY <4>1, AppendUnder, Zenon
      <4> QED BY <3>1, <4>2
    <3>5. FirstFrame(Taken(t) \o r.up, pending[c], sent[c])
             => FirstFrame(Taken(t) \o q.up, Tail(pending[c]), sent[c])
      BY <3>3, <3>4
    <3> HIDE DEF t, r, q, x
    <3> QED BY <1>2, <2>1, <3>1, <3>5 DEF Barred
  <2> QED
    BY <1>1, <2>1, <2>3, <2>4, <2>5 DEF ClientSends, Update, netVars
<1>11. CASE PeerRead(c)
  <2>1. /\ r.down # <<>> /\ q = [r EXCEPT !.down = Tail(@)] /\ Connected(c)
        /\ got'[c] = Append(got[c], Head(r.down))
        /\ pending'[c] = pending[c] /\ sent'[c] = sent[c]
    BY <1>1, <1>11 DEF PeerRead, ClientTakes, Update
  <2>2. q.up = r.up /\ q.link = r.link /\ q.down = Tail(r.down) /\ r.link # "broken"
    BY <1>1, <2>1 DEF Connection, Connected
  <2>3. Head(r.down) \in Cell BY <1>1, <2>1, HeadTailProperties
  <2>4. Refusing(q.down) /\ Refusing(got'[c])
    BY <1>1, <1>3, <2>1, <2>2, <2>3, RefusingParts
  <2> HIDE DEF t, r, q
  <2> QED BY <1>2, <2>1, <2>2, <2>4, BarredAlike
<1>12. CASE PeerClose(c)
  <2> DEFINE closed == [r EXCEPT !.clientOpen = FALSE]
  <2>1. closed \in Connection /\ closed.up = r.up /\ closed.link = r.link /\ closed.down = r.down
    BY <1>1 DEF Connection
  <2>2. /\ q = closed \/ q = ResetOf(closed)
        /\ UNCHANGED <<pending, sent, got>>
    BY <1>1, <1>12 DEF PeerClose, ClientCloses, Update, peerVars
  <2>3. CASE q = ResetOf(closed) BY <1>7, <2>1, <2>2, <2>3
  <2>4. CASE q = closed
    <3> HIDE DEF t, r, q, closed
    <3> QED BY <1>2, <2>1, <2>2, <2>4 DEF Barred
  <2> QED BY <2>2, <2>3, <2>4
<1>13. CASE LinkBreaks(c)
  <2>1. q = ResetOf(r) /\ got'[c] = got[c]
    BY <1>1, <1>13 DEF LinkBreaks, Break, Update, peerVars
  <2> QED BY <1>1, <1>7, <2>1
<1> QED BY <1>8, <1>9, <1>10, <1>11, <1>12, <1>13 DEF Peer

\* A peer that has handed over the right token first has done so for good.
LEMMA PeerPresented ==
    ASSUME OpenServerInv, NEW c \in Conns, Peer(c) \/ LinkBreaks(c),
           TokenFirst(pending[c], sent[c])
    PROVE  TokenFirst(pending'[c], sent'[c])
<1>1. /\ pending[c] \in Seq(Cell) /\ sent[c] \in Seq(Frames)
      /\ pending \in [Conns -> Seq(Cell)] /\ sent \in [Conns -> Seq(Frames)]
  BY Parts DEF OpenServerInv, PeerTypeOK
<1>2. CASE UNCHANGED <<pending, sent>> BY <1>2 DEF TokenFirst
<1>3. CASE \E f \in Frames : PeerBegin(c, f)
  <2>1. PICK f \in Frames : PeerBegin(c, f) BY <1>3
  <2>2. sent'[c] = Append(sent[c], f) BY <1>1, <2>1 DEF PeerBegin
  <2>3. Len(sent[c]) \in Nat \ {0} BY <1>1, EmptySeq DEF TokenFirst
  <2>4. /\ Append(sent[c], f) # <<>> /\ Append(sent[c], f)[1] = sent[c][1]
        /\ Len(Append(sent[c], f)) # 1
    BY <1>1, <2>3, AppendedTo
  <2> QED BY <2>2, <2>4 DEF TokenFirst
<1>4. CASE PeerSend(c)
  <2>1. pending[c] # <<>> /\ sent' = sent BY <1>4 DEF PeerSend
  <2> QED BY <2>1 DEF TokenFirst
<1> QED
  BY <1>2, <1>3, <1>4 DEF Peer, PeerConnect, PeerRead, PeerClose, LinkBreaks, peerVars

\* And it touches no other connection.
LEMMA PeerLocal ==
    ASSUME OpenServerInv, NEW c \in Conns, NEW d \in Conns, d # c, Peer(c) \/ LinkBreaks(c)
    PROVE  /\ thread'[d] = thread[d] /\ conn'[d] = conn[d]
           /\ pending'[d] = pending[d] /\ sent'[d] = sent[d] /\ got'[d] = got[d]
<1>1. /\ conn \in [Conns -> Connection] /\ pending \in [Conns -> Seq(Cell)]
      /\ sent \in [Conns -> Seq(Frames)] /\ got \in [Conns -> Seq(Cell)]
  BY Parts DEF OpenServerInv, PeerTypeOK
<1>2. \A q : Update(c, q) => conn'[d] = conn[d] BY DEF Update
<1>3. UNCHANGED netVars => conn'[d] = conn[d] BY DEF netVars
<1>4. /\ \A cell : ClientSends(c, cell) => conn'[d] = conn[d]
      /\ ClientConnects(c) \/ ClientTakes(c) \/ ClientCloses(c) \/ Break(c)
            => conn'[d] = conn[d]
  BY <1>2, <1>3 DEF ClientSends, ClientConnects, ClientTakes, ClientCloses, Break
<1> QED
  BY <1>1, <1>3, <1>4 DEF Peer, PeerConnect, PeerBegin, PeerSend, PeerRead, PeerClose,
     LinkBreaks, peerVars, serverVars

-----------------------------------------------------------------------------
(***************************************************************************)
(* The theorem.                                                            *)
(***************************************************************************)
\* Nobody has sent anything and nobody is served.
LEMMA InitAccess == Init => AccessInv
<1> SUFFICES ASSUME Init, NEW c \in Conns PROVE BarredAt(c)
  BY DEF AccessInv
<1> DEFINE t == thread[c]
           r == conn[c]
<1>1. /\ t.pc = "none" /\ ~t.authOK /\ t.log = <<>> /\ t.out = <<>>
      /\ r.link = "none" /\ r.up = <<>> /\ r.down = <<>>
      /\ pending[c] = <<>> /\ sent[c] = <<>> /\ got[c] = <<>>
  BY DEF Init, NetInit, ServerInit
<1>2. Taken(t) \o r.up = <<>>
  <2>1. Taken(t) = <<>> BY <1>1 DEF Taken
  <2> QED BY <1>1, <2>1, ConcatEmptySeq
<1>3. FirstFrame(Taken(t) \o r.up, pending[c], sent[c]) BY <1>1, <1>2 DEF FirstFrame
<1>4. NoReading(<<>>) /\ Refusing(<<>>) BY DEF NoReading, Refusing
<1> HIDE DEF t, r
<1> QED BY <1>1, <1>3, <1>4 DEF Barred, BarredAt, Before, t, r

\* Every step leaves each peer barred, unless it has presented the token.
LEMMA NextAccess ==
    OpenServerInv /\ OpenServerInv' /\ AccessInv /\ [Next]_vars => AccessInv'
<1> SUFFICES ASSUME OpenServerInv, OpenServerInv', AccessInv, [Next]_vars, NEW d \in Conns
             PROVE  TokenFirst(pending'[d], sent'[d]) \/ BarredAt(d)'
  BY DEF AccessInv
<1>1. TokenFirst(pending[d], sent[d]) \/ BarredAt(d) BY DEF AccessInv
<1>2. /\ thread \in [Conns -> Thread] /\ conn \in [Conns -> Connection]
      /\ mpc' # "terminated"
  BY Parts DEF OpenServerInv, ServerInv, NoInvalidTransition
<1>3. CASE UNCHANGED vars
  BY <1>1, <1>3 DEF vars, netVars, serverVars, peerVars, BarredAt
<1>4. CASE UNCHANGED peerVars /\ ServerNext
  <2>1. CASE TokenFirst(pending[d], sent[d]) BY <1>4, <2>1 DEF peerVars
  <2>2. ASSUME StaysBarred(d) PROVE BarredAt(d)'
    BY <1>4, <2>2 DEF StaysBarred, BarredAt, peerVars
  <2>3. CASE ~TokenFirst(pending[d], sent[d]) /\ MainThread
    BY <1>1, <2>2, <2>3, MainBarred
  <2>4. ASSUME ~TokenFirst(pending[d], sent[d]), NEW c \in Conns, Handler(c)
        PROVE  BarredAt(d)'
    <3>1. CASE c = d BY <1>1, <2>2, <2>4, <3>1, HandlerBarred
    <3>2. CASE c # d
      <4>1. thread'[d] = thread[d] /\ conn'[d] = conn[d]
        BY <1>2, <2>4, <3>2, HandlerLocal
      <4>2. StaysBarred(d) BY <1>1, <2>4, <4>1 DEF StaysBarred, BarredAt
      <4> QED BY <2>2, <4>2
    <3> QED BY <3>1, <3>2
  <2> QED BY <1>4, <2>1, <2>3, <2>4 DEF ServerNext
<1>5. ASSUME NEW c \in Conns, Peer(c) \/ LinkBreaks(c)
      PROVE  TokenFirst(pending'[d], sent'[d]) \/ BarredAt(d)'
  <2>1. CASE c = d BY <1>1, <1>5, <2>1, PeerPresented, PeerBarred
  <2>2. CASE c # d
    <3>1. /\ thread'[d] = thread[d] /\ conn'[d] = conn[d]
          /\ pending'[d] = pending[d] /\ sent'[d] = sent[d] /\ got'[d] = got[d]
      BY <1>5, <2>2, PeerLocal
    <3> QED BY <1>1, <3>1 DEF BarredAt
  <2> QED BY <2>1, <2>2
<1> QED BY <1>3, <1>4, <1>5 DEF Next, Quiescent

\* What the invariant says to the outside.
LEMMA AccessGivesProperty == OpenServerInv /\ AccessInv => ServedOnlyAfterToken
<1> SUFFICES ASSUME OpenServerInv, NEW c \in Conns, BarredAt(c)
             PROVE  /\ thread[c].sm \in {"DISCONNECTED", "CONNECTED"}
                    /\ \A i \in DOMAIN thread[c].log : ~IsReceived(thread[c].log[i])
                    /\ \A i \in DOMAIN Replies(c) :
                         Replies(c)[i].text \notin {"OK", "PKT_DATA_RESPONSE"}
  BY PresentedMeans DEF AccessInv, ServedOnlyAfterToken
<1>1. /\ thread[c].pc \in Before \cup Refused \cup {"check_token"}
      /\ NoReading(thread[c].log) /\ Refusing(conn[c].down) /\ Refusing(got[c])
  BY DEF BarredAt, Barred
<1>2. /\ HandlerFits(thread[c], conn[c])
      /\ conn[c].down \in Seq(Cell) /\ got[c] \in Seq(Cell)
  BY Parts
<1>3. thread[c].sm \in {"DISCONNECTED", "CONNECTED"}
  BY <1>1, <1>2 DEF HandlerFits, StateOf, Before, Refused
<1>4. Refusing(Replies(c)) BY <1>1, <1>2, RefusingConcat DEF Replies
<1> QED BY <1>1, <1>3, <1>4 DEF NoReading, Refusing

\* Access control (REQ-SVR-020): whatever a peer sends, in whatever pieces, and
\* wherever its link fails, handleClient tells it OK, sends it a dataset, logs
\* a reading of it or leaves CONNECTED only if its first frame was the right
\* token, complete.
THEOREM AccessControlled == Spec => []ServedOnlyAfterToken
<1>1. Init => AccessInv BY InitAccess
<1>2. OpenServerInv /\ OpenServerInv' /\ AccessInv /\ [Next]_vars => AccessInv'
  BY NextAccess
<1>3. OpenServerInv /\ AccessInv => ServedOnlyAfterToken BY AccessGivesProperty
<1> QED BY <1>1, <1>2, <1>3, OpenServerInvariant, PTL DEF Spec

-----------------------------------------------------------------------------
(***************************************************************************)
(* The log tells the truth: what a handler has logged are the readings     *)
(* among the frames it has read to the end.  ServerProofs follows the      *)
(* place of a handler in the frames (Track); here the frames are those the *)
(* peers choose.                                                           *)
(***************************************************************************)
\* What the theorems on the log and the replies suppose of the peers, as the
\* repository's own client has it: data requests come without a payload (the
\* handler would leave it in the stream), telemetry with one (a bare telemetry
\* header is logged as a reading of 0), and no payload is longer than the int
\* recvAll takes can say (it would stay in the stream, too).
AsClientsSend ==
    \A f \in Frames :
        /\ IsRequest(f) => Len(f) = 1
        /\ f[1].text = "PKT_TELEMETRY" => Len(f) > TelemetrySize
        /\ f[1].num <= INT_MAX

TrackInv == \A c \in Conns : Track(thread[c], conn[c], pending[c], sent[c])

\* The peers' frames are frames.
LEMMA PeerFrames ==
    /\ Frames \subseteq WholeFrames
    /\ \A s \in Seq(Frames) : s \in Seq(WholeFrames)
    /\ \A s \in Seq(Frames) : \A i \in 1..Len(s) : s[i] \in Frames
BY OpenServerAssumption, ElementOfSeq DEF WholeFrames

\* And such as the repository's client sends, if the theorems suppose so.
LEMMA PeersLikeClients ==
    ASSUME AsClientsSend, NEW s \in Seq(Frames)
    PROVE  ClientLike(s)
BY PeerFrames DEF AsClientsSend, ClientLike

\* A peer's step on its own connection.
LEMMA PeerTracked ==
    ASSUME OpenServerInv, NEW c \in Conns, Peer(c) \/ LinkBreaks(c),
           Track(thread[c], conn[c], pending[c], sent[c])
    PROVE  Track(thread[c], conn'[c], pending'[c], sent'[c])
<1> DEFINE t == thread[c]
           r == conn[c]
           q == conn'[c]
           p == pending[c]
           s == sent[c]
<1>1. /\ r \in Connection /\ p \in Seq(Cell) /\ s \in Seq(WholeFrames) /\ r.up \in Seq(Cell)
      /\ pending \in [Conns -> Seq(Cell)] /\ sent \in [Conns -> Seq(Frames)]
      /\ NetTypeOK
  BY Parts, PeerFrames DEF OpenServerInv, ServerInv, PeerTypeOK
<1>2. Track(t, r, p, s) OBVIOUS
<1>3. r.link = "none" => ~r.clientOpen BY <1>2 DEF Track, Tracked
<1>4. CASE /\ \/ ClientConnects(c) \/ ClientTakes(c) \/ ClientCloses(c) \/ Break(c)
           /\ UNCHANGED <<pending, sent>>
  <2>1. Alike(r, q, p) BY <1>1, <1>3, <1>4, ClientAlike
  <2>2. Track(t, q, p, s) BY <1>2, <2>1, TrackLink
  <2> QED BY <1>4, <2>2
<1>5. CASE PeerConnect(c) \/ PeerRead(c) \/ PeerClose(c) \/ LinkBreaks(c)
  BY <1>4, <1>5 DEF PeerConnect, PeerRead, PeerClose, LinkBreaks, peerVars
<1>6. CASE \E f \in Frames : PeerBegin(c, f)
  <2>1. PICK f \in Frames : PeerBegin(c, f) BY <1>6
  <2>2. /\ p = <<>> /\ pending'[c] = f /\ sent'[c] = Append(s, f)
        /\ q = r /\ r.clientOpen
    BY <1>1, <2>1 DEF PeerBegin, netVars
  <2>3. Held(t) \in Seq(Cell) BY HeldCells DEF OpenServerInv
  <2>4. f \in WholeFrames BY PeerFrames
  <2> HIDE DEF t, r, q, p, s
  <2>5. Track(t, r, f, Append(s, f)) BY <1>1, <1>2, <2>2, <2>3, <2>4, BegunTracked
  <2> QED BY <2>2, <2>5 DEF t, q, s
<1>7. CASE PeerSend(c)
  <2>1. /\ r.clientOpen /\ p # <<>> /\ ClientSends(c, Head(p))
        /\ pending'[c] = Tail(p) /\ sent'[c] = s
    BY <1>1, <1>7 DEF PeerSend
  <2>2. Track(t, q, Tail(p), s) BY <1>1, <1>2, <2>1, CellSent
  <2> QED BY <2>1, <2>2
<1> QED BY <1>5, <1>6, <1>7 DEF Peer

-----------------------------------------------------------------------------
(***************************************************************************)
(* The theorems.                                                           *)
(***************************************************************************)
\* Nobody has sent anything and nothing is logged.
LEMMA InitTrack == Init => TrackInv
<1> SUFFICES ASSUME Init, NEW c \in Conns
             PROVE  Track(thread[c], conn[c], pending[c], sent[c])
  BY DEF TrackInv
<1>1. /\ thread[c].pc = "none" /\ thread[c].log = <<>>
      /\ conn[c].link = "none" /\ conn[c].up = <<>> /\ ~conn[c].clientOpen
      /\ pending[c] = <<>> /\ sent[c] = <<>>
  BY DEF Init, NetInit, ServerInit
<1> QED BY <1>1, EmptyTrack

\* Every step keeps the places.
LEMMA NextTrack ==
    ASSUME AsClientsSend
    PROVE  OpenServerInv /\ OpenServerInv' /\ TrackInv /\ [Next]_vars => TrackInv'
<1> SUFFICES ASSUME OpenServerInv, OpenServerInv', TrackInv, [Next]_vars, NEW d \in Conns
             PROVE  Track(thread'[d], conn'[d], pending'[d], sent'[d])
  BY DEF TrackInv
<1> DEFINE p == pending[d]
           s == sent[d]
<1>1. /\ TrackAt(d, p, s) /\ p \in Seq(Cell) /\ s \in Seq(WholeFrames) /\ ClientLike(s)
      /\ ServerInv /\ ServerInv'
  BY Parts, PeerFrames, PeersLikeClients DEF TrackInv, TrackAt, OpenServerInv
<1>2. /\ thread \in [Conns -> Thread] /\ conn \in [Conns -> Connection]
      /\ mpc' # "terminated"
  BY Parts DEF OpenServerInv, ServerInv, NoInvalidTransition
<1>3. CASE UNCHANGED vars
  BY <1>1, <1>3 DEF vars, netVars, serverVars, peerVars, TrackAt
<1>4. CASE UNCHANGED peerVars /\ ServerNext
  <2>1. ASSUME TracksOn(d, p, s) PROVE Track(thread'[d], conn'[d], pending'[d], sent'[d])
    BY <1>4, <2>1 DEF TracksOn, peerVars
  <2>2. CASE MainThread
    <3>1. TracksOn(d, p, s) BY <1>1, <2>2, MainTracked
    <3> QED BY <2>1, <3>1
  <2>3. ASSUME NEW c \in Conns, Handler(c) PROVE TracksOn(d, p, s)
    <3>1. CASE c = d BY <1>1, <2>3, <3>1, HandlerTracked
    <3>2. CASE c # d
      <4>1. thread'[d] = thread[d] /\ conn'[d] = conn[d]
        BY <1>2, <2>3, <3>2, HandlerLocal
      <4> QED BY <1>1, <4>1 DEF TracksOn, TrackAt
    <3> QED BY <3>1, <3>2
  <2> QED BY <1>4, <2>1, <2>2, <2>3 DEF ServerNext
<1>5. ASSUME NEW c \in Conns, Peer(c) \/ LinkBreaks(c)
      PROVE  Track(thread'[d], conn'[d], pending'[d], sent'[d])
  <2>1. CASE c = d
    <3>1. thread' = thread
      BY <1>5 DEF Peer, PeerConnect, PeerBegin, PeerSend, PeerRead, PeerClose, LinkBreaks,
         serverVars
    <3>2. Track(thread[d], conn'[d], pending'[d], sent'[d])
      BY <1>1, <1>5, <2>1, PeerTracked DEF TrackAt
    <3> QED BY <3>1, <3>2
  <2>2. CASE c # d
    <3>1. /\ thread'[d] = thread[d] /\ conn'[d] = conn[d]
          /\ pending'[d] = pending[d] /\ sent'[d] = sent[d]
      BY <1>5, <2>2, PeerLocal
    <3> QED BY <1>1, <3>1 DEF TrackAt
  <2> QED BY <2>1, <2>2
<1> QED BY <1>3, <1>4, <1>5 DEF Next, Quiescent

\* What the invariant says to the outside: the log.
LEMMA TrackGivesFaithful == OpenServerInv /\ TrackInv => ReceivedFaithful
<1> SUFFICES ASSUME OpenServerInv, TrackInv, NEW c \in Conns
             PROVE  Prefix(LoggedReadings(c), SentReadings(c))
  BY DEF ReceivedFaithful
<1>1. thread[c] \in Thread /\ sent[c] \in Seq(WholeFrames) BY Parts, PeerFrames
<1>2. LoggedReadings(c) = ReadingsIn(thread[c].log) BY DEF LoggedReadings, ReadingsIn
<1>3. SentReadings(c) = ReadingsOf(HandedOver(pending[c], sent[c]))
  BY DEF SentReadings, ReadingsOf, Completed, HandedOver
<1>4. Track(thread[c], conn[c], pending[c], sent[c]) BY DEF TrackInv
<1> QED BY <1>1, <1>2, <1>3, <1>4, TrackedLog

\* And what is not in it.
LEMMA TrackGivesAll == OpenServerInv /\ TrackInv => AllReceivedLogged
<1> SUFFICES ASSUME OpenServerInv, TrackInv, NEW c \in Conns,
                    thread[c].pc = "header", conn[c].link = "open",
                    conn[c].up = <<>>, pending[c] = <<>>
             PROVE  LoggedReadings(c) = SentReadings(c)
  BY DEF AllReceivedLogged
<1> DEFINE t == thread[c]
           r == conn[c]
           p == pending[c]
           s == sent[c]
<1>1. HandlerFits(t, r) /\ s \in Seq(WholeFrames) BY Parts, PeerFrames
<1>2. PICK k \in 0..Len(s), F \in [0..Len(s) -> Seq(Cell)] :
        Unrolls(F, s) /\ Tracked(t, r, p, s, k, F)
  BY DEF TrackInv, Track
<1>3. Flowing(r, p) /\ t.pc \in Listening /\ Held(t) = <<>>
  BY <1>1 DEF HandlerFits, HoldsSocket, HandlerPCs, Flowing, Listening, Held
<1>4. F[k] = <<>>
  <2>1. Held(t) \o (r.up \o p) = F[k] BY <1>2, <1>3 DEF Tracked
  <2> QED BY <1>3, <2>1
<1>5. k = Len(s) BY <1>1, <1>2, <1>4, NoneLeft
<1>6. SubSeq(s, 1, k) = s BY <1>1, <1>5, AllOnes
<1>7. ReadingsIn(t.log) = ReadingsOf(s) BY <1>2, <1>6 DEF Tracked, Due
<1> QED BY <1>7 DEF LoggedReadings, ReadingsIn, SentReadings, ReadingsOf, Completed

\* Places in the frames, in every state.
LEMMA TrackAlways == ASSUME AsClientsSend PROVE Spec => []TrackInv
<1>1. Init => TrackInv BY InitTrack
<1>2. OpenServerInv /\ OpenServerInv' /\ TrackInv /\ [Next]_vars => TrackInv'
  BY NextTrack
<1> QED BY <1>1, <1>2, OpenServerInvariant, PTL DEF Spec

\* The log tells the truth about the flight (REQ-LOG-010): however frames
\* of all types follow one another and are cut up and cut off, the readings
\* handleClient logs are those its peer sent, in order, each at most once.
THEOREM ReadingsLoggedFaithfully ==
    ASSUME AsClientsSend PROVE Spec => []ReceivedFaithful
BY TrackAlways, OpenServerInvariant, TrackGivesFaithful, PTL

\* And it is complete (REQ-LOG-010): a handler that waits for a header with
\* nothing left to come has logged every reading the peer has sent in full.
THEOREM NothingLeftUnlogged ==
    ASSUME AsClientsSend PROVE Spec => []AllReceivedLogged
BY TrackAlways, OpenServerInvariant, TrackGivesAll, PTL

-----------------------------------------------------------------------------
(***************************************************************************)
(* A client can follow the replies (Replied of ServerProofs): the cells    *)
(* are those the peer has read, then those on their way.                   *)
(***************************************************************************)
Coming(c) == got[c] \o conn[c].down

RepliesInv ==
    \A c \in Conns : Replied(thread[c], conn[c], pending[c], sent[c], Coming(c))

\* A peer's step on its own connection.
LEMMA PeerReplied ==
    ASSUME OpenServerInv, NEW c \in Conns, Peer(c) \/ LinkBreaks(c),
           RepliedAt(c, pending[c], sent[c], got[c])
    PROVE  Replied(thread[c], conn'[c], pending'[c], sent'[c], got'[c] \o conn'[c].down)
<1> DEFINE p == pending[c]
           s == sent[c]
<1>1. /\ ServerInv /\ NetTypeOK /\ conn \in [Conns -> Connection]
      /\ p \in Seq(Cell) /\ s \in Seq(WholeFrames) /\ got[c] \in Seq(Cell)
      /\ pending \in [Conns -> Seq(Cell)] /\ sent \in [Conns -> Seq(Frames)]
      /\ got \in [Conns -> Seq(Cell)]
  BY Parts, PeerFrames DEF OpenServerInv, ServerInv, PeerTypeOK
<1>2. ASSUME Shrinks(conn[c], conn'[c]), UNCHANGED got,
             \A ok : Judged(ok, p, s) => Judged(ok, pending'[c], sent'[c])
      PROVE  Replied(thread[c], conn'[c], pending'[c], sent'[c], got'[c] \o conn'[c].down)
  <2>1. Replied(thread[c], conn'[c], pending'[c], sent'[c], got[c] \o conn'[c].down)
    BY <1>1, <1>2, LessReplied
  <2> QED BY <1>2, <2>1
<1>3. CASE PeerConnect(c) \/ PeerClose(c) \/ LinkBreaks(c)
  <2>1. /\ ClientConnects(c) \/ ClientCloses(c) \/ Break(c)
        /\ UNCHANGED <<pending, sent, got>>
    BY <1>3 DEF PeerConnect, PeerClose, LinkBreaks, peerVars
  <2> QED BY <1>1, <1>2, <2>1, ClientShrinks
<1>4. CASE \E f \in Frames : PeerBegin(c, f)
  <2>1. PICK f \in Frames : PeerBegin(c, f) BY <1>4
  <2>2. /\ pending'[c] = f /\ sent'[c] = Append(s, f) /\ conn'[c] = conn[c]
        /\ UNCHANGED got
    BY <1>1, <2>1 DEF PeerBegin, netVars
  <2>3. f \in WholeFrames BY PeerFrames
  <2> HIDE DEF p, s
  <2>4. \A ok : Judged(ok, p, s) => Judged(ok, f, Append(s, f)) BY <1>1, <2>3, StillJudged
  <2> QED BY <1>2, <2>2, <2>4, SameShrinks
<1>5. CASE PeerSend(c)
  <2>1. /\ p # <<>> /\ ClientSends(c, Head(p)) /\ UNCHANGED got
        /\ pending'[c] = Tail(p) /\ sent'[c] = s
    BY <1>1, <1>5 DEF PeerSend
  <2>2. \A ok : Judged(ok, p, s) => Judged(ok, Tail(p), s) BY <1>1, <2>1, StillJudged
  <2> QED BY <1>1, <1>2, <2>1, <2>2, ClientShrinks
<1>6. CASE PeerRead(c)
  <2>1. /\ ClientTakes(c) /\ UNCHANGED <<pending, sent>>
        /\ got'[c] = Append(got[c], Head(conn[c].down))
    BY <1>1, <1>6 DEF PeerRead
  <2>2. Replied(thread[c], conn[c], p, s, got[c] \o conn[c].down) BY DEF RepliedAt
  <2> QED BY <1>1, <2>1, <2>2, TakenReplied
<1> QED BY <1>3, <1>4, <1>5, <1>6 DEF Peer

\* Nothing has been sent.
LEMMA InitReplies == Init => RepliesInv
<1> SUFFICES ASSUME Init, NEW c \in Conns
             PROVE  Replied(thread[c], conn[c], pending[c], sent[c], Coming(c))
  BY DEF RepliesInv
<1>1. /\ thread[c].pc = "none" /\ thread[c].log = <<>> /\ thread[c].out = <<>>
      /\ conn[c].down = <<>> /\ got[c] = <<>> /\ pending[c] = <<>> /\ sent[c] = <<>>
  BY DEF Init, NetInit, ServerInit
<1>2. Coming(c) = <<>> BY <1>1 DEF Coming
<1> QED BY <1>1, <1>2, EmptyReplied

\* Every step keeps the replies framed.
LEMMA NextReplies ==
    OpenServerInv /\ OpenServerInv' /\ TrackInv /\ RepliesInv /\ [Next]_vars => RepliesInv'
<1> SUFFICES ASSUME OpenServerInv, OpenServerInv', TrackInv, RepliesInv, [Next]_vars,
                    NEW d \in Conns
             PROVE  Replied(thread'[d], conn'[d], pending'[d], sent'[d],
                            got'[d] \o conn'[d].down)
  BY DEF RepliesInv, Coming
<1> DEFINE p == pending[d]
           s == sent[d]
           g == got[d]
<1>1. /\ TrackAt(d, p, s) /\ RepliedAt(d, p, s, g)
      /\ p \in Seq(Cell) /\ s \in Seq(WholeFrames) /\ g \in Seq(Cell)
      /\ ServerInv /\ ServerInv'
  BY Parts, PeerFrames DEF TrackInv, TrackAt, RepliesInv, RepliedAt, Coming, OpenServerInv
<1>2. /\ thread \in [Conns -> Thread] /\ conn \in [Conns -> Connection]
      /\ mpc' # "terminated"
  BY Parts DEF OpenServerInv, ServerInv, NoInvalidTransition
<1>3. CASE UNCHANGED vars
  BY <1>1, <1>3 DEF vars, netVars, serverVars, peerVars, RepliedAt
<1>4. CASE UNCHANGED peerVars /\ ServerNext
  <2>1. ASSUME RepliedOn(d, p, s, g)
        PROVE  Replied(thread'[d], conn'[d], pending'[d], sent'[d], got'[d] \o conn'[d].down)
    BY <1>4, <2>1 DEF RepliedOn, peerVars
  <2>2. CASE MainThread
    <3>1. RepliedOn(d, p, s, g) BY <1>1, <2>2, MainReplied
    <3> QED BY <2>1, <3>1
  <2>3. ASSUME NEW c \in Conns, Handler(c) PROVE RepliedOn(d, p, s, g)
    <3>1. CASE c = d BY <1>1, <2>3, <3>1, HandlerReplied
    <3>2. CASE c # d
      <4>1. thread'[d] = thread[d] /\ conn'[d] = conn[d]
        BY <1>2, <2>3, <3>2, HandlerLocal
      <4> QED BY <1>1, <4>1 DEF RepliedOn, RepliedAt
    <3> QED BY <3>1, <3>2
  <2> QED BY <1>4, <2>1, <2>2, <2>3 DEF ServerNext
<1>5. ASSUME NEW c \in Conns, Peer(c) \/ LinkBreaks(c)
      PROVE  Replied(thread'[d], conn'[d], pending'[d], sent'[d], got'[d] \o conn'[d].down)
  <2>1. CASE c = d
    <3>1. thread' = thread
      BY <1>5 DEF Peer, PeerConnect, PeerBegin, PeerSend, PeerRead, PeerClose, LinkBreaks,
         serverVars
    <3>2. Replied(thread[d], conn'[d], pending'[d], sent'[d], got'[d] \o conn'[d].down)
      BY <1>1, <1>5, <2>1, PeerReplied
    <3> QED BY <3>1, <3>2
  <2>2. CASE c # d
    <3>1. /\ thread'[d] = thread[d] /\ conn'[d] = conn[d]
          /\ pending'[d] = pending[d] /\ sent'[d] = sent[d] /\ got'[d] = got[d]
      BY <1>5, <2>2, PeerLocal
    <3> QED BY <1>1, <3>1 DEF RepliedAt
  <2> QED BY <2>1, <2>2
<1> QED BY <1>3, <1>4, <1>5 DEF Next, Quiescent

\* What a client reads.
LEMMA RepliesGive == OpenServerInv /\ TrackInv /\ RepliesInv => RepliesWellFramed
<1> SUFFICES ASSUME OpenServerInv, TrackInv, RepliesInv, NEW c \in Conns
             PROVE  LET r == Replies(c)
                        asked == Completed(c) # <<>>
                                   /\ Completed(c)[1][1].text = "PKT_AUTH_REQUEST"
                        place(i) == ((i - 3) % (DatasetSize + 1)) + 1
                    IN /\ r # <<>> => asked
                       /\ \A i \in DOMAIN r :
                            r[i] = IF i <= 2 THEN AuthAck(PresentedToken(c))[i]
                                   ELSE DataResponse[place(i)]
                       /\ Len(r) <= 2 + RequestsSent(c) * (DatasetSize + 1)
  BY DEF RepliesWellFramed
<1> DEFINE t == thread[c]
           p == pending[c]
           s == sent[c]
           w == Coming(c)
<1>1. t \in Thread /\ t.authOK \in BOOLEAN /\ t.log \in Seq(Row) /\ s \in Seq(WholeFrames)
  BY Parts, PeerFrames DEF Thread
<1>2. w = Replies(c) /\ w \in Seq(Cell)
  <2>1. got[c] \in Seq(Cell) /\ conn[c].down \in Seq(Cell) BY Parts
  <2> QED BY <2>1, ConcatProperties DEF Coming, Replies
<1>3. Replied(t, conn[c], p, s, w) BY DEF RepliesInv, Coming
<1>4. PICK k \in 0..Len(s), F \in [0..Len(s) -> Seq(Cell)] : Tracked(t, conn[c], p, s, k, F)
  BY DEF TrackInv, Track
<1>5. Len(s) \in Nat BY <1>1, LenProperties
<1>6. PICK n \in 0..Len(s) :
        /\ k \in 0..n /\ Completed(c) = SubSeq(s, 1, n)
        /\ n = Len(s) \/ (n = Len(s) - 1 /\ p # <<>>)
  <2>1. CASE p = <<>>
    <3>1. SubSeq(s, 1, Len(s)) = s BY <1>1, AllOnes
    <3>2. Len(s) \in 0..Len(s) BY <1>5
    <3>3. Completed(c) = SubSeq(s, 1, Len(s)) BY <2>1, <3>1 DEF Completed
    <3> QED BY <3>2, <3>3
  <2>2. CASE p # <<>>
    <3>1. k < Len(s) BY <1>4, <2>2 DEF Tracked
    <3>2. Len(s) - 1 \in 0..Len(s) /\ k \in 0..(Len(s) - 1) BY <1>5, <3>1
    <3> QED BY <2>2, <3>2 DEF Completed
  <2> QED BY <2>1, <2>2
<1> HIDE DEF t, p, s, w
<1>7. ASSUME w # <<>>
      PROVE  /\ Completed(c) # <<>> /\ Completed(c)[1][1].text = "PKT_AUTH_REQUEST"
             /\ PresentedToken(c) <=> t.authOK
  <2>1. Judged(t.authOK, p, s) BY <1>3, <1>7 DEF Replied
  <2>2. n >= 1
    <3>1. Len(s) # 0 BY <1>1, <2>1, EmptySeq DEF Judged
    <3>2. Len(s) = 1 => p = <<>> BY <2>1 DEF Judged
    <3>3. n \in Int /\ (n = Len(s) \/ (n = Len(s) - 1 /\ p # <<>>)) BY <1>5, <1>6
    <3> QED BY ONLY <1>5, <3>1, <3>2, <3>3
  <2> DEFINE v == SubSeq(s, 1, n)
  <2>3. v \in Seq(WholeFrames) /\ Len(v) = n /\ v[1] = s[1]
    <3>1. n \in Nat /\ 1 \in 1..n BY <1>5, <2>2
    <3> QED BY <1>1, <3>1, FirstOnes
  <2>4. Completed(c) = v BY <1>6
  <2> HIDE DEF v
  <2>5. v # <<>> BY <2>2, <2>3, EmptySeq
  <2> QED BY <2>1, <2>3, <2>4, <2>5 DEF Judged, PresentedToken
<1>8. ASSUME NEW i \in DOMAIN w
      PROVE  w[i] = IF i <= 2 THEN AuthAck(PresentedToken(c))[i]
                    ELSE DataResponse[((i - 3) % (DatasetSize + 1)) + 1]
  <2>1. w # <<>> OBVIOUS
  <2>2. PresentedToken(c) = t.authOK
    <3>1. PresentedToken(c) <=> t.authOK BY <1>7, <2>1
    <3>2. PresentedToken(c) \in BOOLEAN BY DEF PresentedToken
    <3> QED BY <1>1, <3>1, <3>2
  <2>3. w[i] = Expected(t.authOK, i) BY <1>3 DEF Replied, Framed
  <2> QED BY <2>2, <2>3 DEF Expected
<1>9. Len(w) <= 2 + RequestsSent(c) * (DatasetSize + 1)
  <2>1. RequestsSent(c) = RequestsOf(SubSeq(s, 1, n)) BY <1>6 DEF RequestsSent, RequestsOf
  <2>2. Asked(t) <= RequestsSent(c)
    <3>1. Asked(t) = RequestsOf(SubSeq(s, 1, k)) BY <1>4 DEF Tracked
    <3> QED BY <1>1, <1>6, <2>1, <3>1, RequestsGrow
  <2>3. TransfersIn(t.log) \in Nat
    <3>1. <<"ERROR">> \in Row BY RowTypes
    <3> QED BY <1>1, <3>1, TransfersAppend
  <2>4. RequestsSent(c) \in Nat /\ TransfersIn(t.log) <= RequestsSent(c)
    <3>1. RequestsSent(c) \in Nat
      <4> DEFINE v == SubSeq(s, 1, n)
                 J == {i \in DOMAIN v : IsRequest(v[i])}
      <4>1. n \in Nat /\ v \in Seq(WholeFrames) /\ Len(v) = n BY <1>1, <1>5, FirstOnes
      <4>2. RequestsSent(c) = Cardinality(J) BY <2>1 DEF RequestsOf
      <4> HIDE DEF v
      <4>3. DOMAIN v = 1..n BY <4>1, LenProperties
      <4>4. J \in SUBSET (1..n) BY <4>3
      <4>5. IsFiniteSet(1..n) BY <4>1, FS_Interval
      <4> HIDE DEF J
      <4>6. IsFiniteSet(J) BY <4>4, <4>5, FS_Subset
      <4> QED BY <4>2, <4>6, FS_CardinalityType
    <3>2. Asked(t) = TransfersIn(t.log) \/ Asked(t) = TransfersIn(t.log) + 1 BY <2>3 DEF Asked
    <3> QED BY <2>2, <2>3, <3>1, <3>2
  <2>5. /\ Room(TransfersIn(t.log)) <= Room(RequestsSent(c))
        /\ Room(TransfersIn(t.log)) \in Nat /\ Room(RequestsSent(c)) \in Nat
    BY <2>3, <2>4, RoomMore
  <2>6. Len(w) <= Room(TransfersIn(t.log)) /\ Len(w) \in Nat
    BY <1>2, <1>3, LenProperties DEF Replied
  <2>7. Len(w) <= Room(RequestsSent(c)) BY <2>5, <2>6
  <2> QED BY <2>7 DEF Room
<1> QED BY <1>2, <1>7, <1>8, <1>9

\* What a client reads can be followed header by header: the verdict that
\* fits the token it presented and then whole datasets, never more of them
\* than it asked for and nothing else, however sendAll's cells interleave
\* with the peer's and wherever the stream is cut off.
THEOREM RepliesCanBeFollowed ==
    ASSUME AsClientsSend PROVE Spec => []RepliesWellFramed
<1>1. Init => RepliesInv BY InitReplies
<1>2. OpenServerInv /\ OpenServerInv' /\ TrackInv /\ RepliesInv /\ [Next]_vars => RepliesInv'
  BY NextReplies
<1>3. OpenServerInv /\ TrackInv /\ RepliesInv => RepliesWellFramed BY RepliesGive
<1>4. Spec => []TrackInv BY TrackAlways
<1> QED BY <1>1, <1>2, <1>3, <1>4, OpenServerInvariant, PTL DEF Spec
=============================================================================
