-------------------------- MODULE OpenClientProofs --------------------------
(***************************************************************************)
(* Proofs about the client with an arbitrary server (module OpenClient),   *)
(* for any number of clients, connections and packets, any fuel, any limit *)
(* of retries and every choice of what may fail.                           *)
(***************************************************************************)
EXTENDS OpenClient, ClientProofs

EnvTypeOK ==
    /\ pending \in [Conns -> Seq(Cell)]
    /\ replied \in [Conns -> Seq(Frames)]
    /\ listens \in 0..MaxListens

OpenClientInv == ClientInv /\ EnvTypeOK

\* Every step of the server and the link keeps it.
LEMMA EnvSteps ==
    ASSUME OpenClientInv, Env
    PROVE  OpenClientInv'
<1>0. ClientInv /\ EnvTypeOK /\ NetTypeOK BY DEF OpenClientInv, ClientInv
<1>00. Bytes("OK") \in Cell BY CellTypes DEF Texts
<1>1. CASE EnvListen
  <2>1. NetTypeOK' /\ ClientEndsKept BY <1>0, <1>1 DEF EnvListen, NetTypeOK, ClientEndsKept
  <2>2. listens + 1 \in 0..MaxListens
    BY <1>0, <1>1, OpenClientAssumption DEF EnvListen, EnvTypeOK
  <2>3. EnvTypeOK' BY <1>0, <1>1, <2>2 DEF EnvListen, EnvTypeOK
  <2> QED BY <1>0, <1>1, <2>1, <2>3, EnvStep DEF EnvListen, OpenClientInv
<1>2. CASE EnvStops
  <2>1. NetTypeOK' /\ ClientEndsKept BY <1>0, <1>2, KeptBySocketsGone DEF EnvStops
  <2>2. EnvTypeOK' BY <1>0, <1>2 DEF EnvStops, EnvTypeOK, envVars
  <2> QED BY <1>0, <1>2, <2>1, <2>2, EnvStep DEF EnvStops, OpenClientInv
<1>3. ASSUME NEW c \in Conns, EnvAccepts(c) \/ EnvReads(c) \/ EnvCloses(c) \/ LinkBreaks(c)
      PROVE  OpenClientInv'
  <2>1. /\ ServerAccepts(c) \/ ServerTakes(c) \/ ServerCloses(c) \/ Break(c)
        /\ UNCHANGED <<proc, envVars>>
    BY <1>3 DEF EnvAccepts, EnvReads, EnvCloses, LinkBreaks
  <2>2. NetTypeOK' /\ ClientEndsKept BY <1>0, <1>00, <2>1, KeptByNetwork
  <2>3. EnvTypeOK' BY <1>0, <2>1 DEF EnvTypeOK, envVars
  <2> QED BY <1>0, <2>1, <2>2, <2>3, EnvStep DEF OpenClientInv
<1>4. ASSUME NEW c \in Conns, NEW f \in Frames, EnvBegins(c, f)
      PROVE  OpenClientInv'
  <2>1. UNCHANGED <<netVars, proc>> BY <1>4 DEF EnvBegins
  <2>2. NetTypeOK' /\ ClientEndsKept BY <1>0, <2>1 DEF NetTypeOK, ClientEndsKept, netVars
  <2>3. f \in Seq(Cell) BY OpenClientAssumption
  <2>4. Append(replied[c], f) \in Seq(Frames) BY <1>0 DEF EnvTypeOK
  <2>5. EnvTypeOK' BY <1>0, <1>4, <2>3, <2>4 DEF EnvBegins, EnvTypeOK
  <2> QED BY <1>0, <2>1, <2>2, <2>5, EnvStep DEF OpenClientInv
<1>5. ASSUME NEW c \in Conns, EnvSends(c) PROVE OpenClientInv'
  <2>1. /\ pending[c] \in Seq(Cell) /\ pending[c] # <<>>
        /\ ServerSends(c, Head(pending[c])) /\ UNCHANGED proc
    BY <1>0, <1>5 DEF EnvSends, EnvTypeOK
  <2>2. Head(pending[c]) \in Cell /\ Tail(pending[c]) \in Seq(Cell)
    BY <2>1, HeadTailProperties
  <2>3. NetTypeOK' /\ ClientEndsKept BY <1>0, <2>1, <2>2, KeptByNetwork
  <2>4. EnvTypeOK' BY <1>0, <1>5, <2>2 DEF EnvSends, EnvTypeOK
  <2> QED BY <1>0, <2>1, <2>3, <2>4, EnvStep DEF OpenClientInv
<1> QED BY <1>1, <1>2, <1>3, <1>4, <1>5 DEF Env

\* The invariant the theorems below are read off: types, what main relies on
\* at each place, and who owns which end of which connection.
THEOREM OpenClientInvariant == Spec => []OpenClientInv
<1>1. Init => OpenClientInv
  <2>1. Init => EnvTypeOK BY OpenClientAssumption DEF Init, EnvTypeOK
  <2> QED BY <2>1, ClientInitially DEF Init, OpenClientInv
<1>2. OpenClientInv /\ [Next]_vars => OpenClientInv'
  <2> SUFFICES ASSUME OpenClientInv, [Next]_vars PROVE OpenClientInv'
    OBVIOUS
  <2>1. ASSUME NEW p \in Clients, ClientStep(p) \/ ClientCrash(p), UNCHANGED envVars
        PROVE  OpenClientInv'
    <3>1. ClientInv' BY <2>1, ClientSteps DEF OpenClientInv
    <3>2. EnvTypeOK' BY <2>1 DEF OpenClientInv, EnvTypeOK, envVars
    <3> QED BY <3>1, <3>2 DEF OpenClientInv
  <2>2. CASE Env BY <2>2, EnvSteps
  <2>3. CASE UNCHANGED vars
    <3>1. NetTypeOK' /\ ClientEndsKept
      BY <2>3 DEF OpenClientInv, ClientInv, NetTypeOK, ClientEndsKept, vars, netVars
    <3>2. EnvTypeOK' BY <2>3 DEF OpenClientInv, EnvTypeOK, vars, envVars
    <3> QED BY <2>3, <3>1, <3>2, EnvStep DEF OpenClientInv, vars
  <2> QED BY <2>1, <2>2, <2>3 DEF Next, Quiescent
<1> QED BY <1>1, <1>2, PTL DEF Spec

\* Types of the clients and their server: the fuel reported is never negative,
\* the iterations and the attempts stay within their bounds.
THEOREM ClientTypeCorrect == Spec => []TypeOK
<1>1. OpenClientInv => TypeOK BY DEF OpenClientInv, ClientInv, EnvTypeOK, TypeOK
<1> QED BY <1>1, OpenClientInvariant, PTL

\* Sockets are neither leaked nor shared by connectToServer, cleanup and
\* ~Client, whatever call fails and whenever a client is killed: those of the
\* failed attempts to connect are counted like those that were connected.
THEOREM SocketsOwned == Spec => []SocketOwned
<1>1. OpenClientInv => SocketOwned BY DEF OpenClientInv, ClientInv
<1> QED BY <1>1, OpenClientInvariant, PTL

\* No packet disappears from a client's own record (REQ-LOG-010), however
\* often its sends fail and whatever its server does.
THEOREM FlightAlwaysRecorded == Spec => []FlightRecorded
<1>1. Init => RecordsInv BY RecordsInitially DEF Init
<1>2. OpenClientInv /\ RecordsInv /\ [Next]_vars => RecordsInv'
  <2> SUFFICES ASSUME OpenClientInv, RecordsInv, [Next]_vars PROVE RecordsInv'
    OBVIOUS
  <2>1. ASSUME NEW p \in Clients, ClientStep(p) \/ ClientCrash(p) PROVE RecordsInv'
    BY <2>1, RecordsStep DEF OpenClientInv
  <2>2. CASE UNCHANGED proc BY <2>2 DEF RecordsInv
  <2>3. Env => UNCHANGED proc
    BY DEF Env, EnvListen, EnvStops, EnvAccepts, EnvReads, EnvBegins, EnvSends, EnvCloses,
           LinkBreaks
  <2> QED BY <2>1, <2>2, <2>3 DEF Next, Quiescent, vars
<1>3. OpenClientInv /\ RecordsInv => FlightRecorded
  BY RecordsFlight DEF OpenClientInv
<1> QED BY <1>1, <1>2, <1>3, OpenClientInvariant, PTL DEF Spec

\* main gives up on its server only with all its retries behind it
\* (REQ-COM-030): when it returns with exit code 2 it has logged one failed
\* attempt more than MAX_RECONNECT_ATTEMPTS and that they are exhausted, for
\* every number of WSAStartups the rest of the process holds.
THEOREM RetriesBeforeGivingUp == Spec => []GivesUpAfterRetries
<1>1. Init => FirstCallInv BY FirstCallInitially DEF Init
<1>2. OpenClientInv /\ FirstCallInv /\ [Next]_vars => FirstCallInv'
  <2> SUFFICES ASSUME OpenClientInv, FirstCallInv, [Next]_vars PROVE FirstCallInv'
    OBVIOUS
  <2>1. ASSUME NEW p \in Clients, ClientStep(p) \/ ClientCrash(p) PROVE FirstCallInv'
    BY <2>1, FirstCallInvStep DEF OpenClientInv
  <2>2. CASE UNCHANGED proc BY <2>2 DEF FirstCallInv
  <2>3. Env => UNCHANGED proc
    BY DEF Env, EnvListen, EnvStops, EnvAccepts, EnvReads, EnvBegins, EnvSends, EnvCloses,
           LinkBreaks
  <2> QED BY <2>1, <2>2, <2>3 DEF Next, Quiescent, vars
<1> QED BY <1>1, <1>2, FirstCallsGiveUp, OpenClientInvariant, PTL DEF Spec

-----------------------------------------------------------------------------
(***************************************************************************)
(* What main believes of the replies, for main_client.exe.                 *)
(*                                                                         *)
(* The client reads at most two frames.  As long as its connection is not  *)
(* reset, what it has of the frame it is in, what is under way and what    *)
(* the server has left to send spell the frames behind those it has read:  *)
(* so a reply read to the length its header announces is the frame the     *)
(* server sent, whatever frames came before it and whatever follows.       *)
(***************************************************************************)
\* The frames of the server are frames.
LEMMA RepliesAreFrames ==
    /\ Frames \subseteq WholeFrames
    /\ \A s \in Seq(Frames) : s \in Seq(WholeFrames)
BY OpenClientAssumption, ElementOfSeq DEF WholeFrames

\* w is what the frames of s behind the first k spell.
Rest(w, s, k) ==
    /\ k \in 0..Len(s)
    /\ \E F \in [0..Len(s) -> Seq(Cell)] : Unrolls(F, s) /\ w = F[k]

\* Before the first frame there is nothing to spell.
LEMMA RestOfNone == Rest(<<>>, <<>>, 0)
<1> DEFINE F == [j \in {0} |-> <<>>]
<1>1. 0..Len(<<>>) = {0} /\ Len(<<>>) = 0 OBVIOUS
<1>2. F \in [{0} -> Seq(Cell)] /\ F[0] = <<>> OBVIOUS
<1> HIDE DEF F
<1>3. \A j \in 0..(0 - 1) : FALSE OBVIOUS
<1>4. Unrolls(F, <<>>) BY <1>1, <1>2, <1>3 DEF Unrolls
<1> QED BY <1>1, <1>2, <1>4 DEF Rest

\* One more frame.
LEMMA RestMore ==
    ASSUME NEW s \in Seq(Frames), NEW f \in Frames, NEW w, NEW k, Rest(w, s, k)
    PROVE  Rest(w \o f, Append(s, f), k)
<1>1. PICK F \in [0..Len(s) -> Seq(Cell)] : Unrolls(F, s) /\ w = F[k]
  BY DEF Rest
<1>2. s \in Seq(WholeFrames) /\ f \in WholeFrames BY RepliesAreFrames
<1> DEFINE t == Append(s, f)
<1>3. PICK G \in [0..Len(t) -> Seq(Cell)] :
        Unrolls(G, t) /\ \A j \in 0..Len(s) : G[j] = F[j] \o f
  BY <1>1, <1>2, UnrollsMore
<1>4. Len(s) \in Nat /\ Len(t) = Len(s) + 1 /\ k \in 0..Len(s)
  BY AppendProperties, LenProperties DEF Rest
<1> HIDE DEF t
<1>5. k \in 0..Len(t) BY <1>4
<1>6. w \o f = G[k] BY <1>1, <1>3, <1>4
<1>7. Rest(w \o f, t, k) BY <1>3, <1>5, <1>6 DEF Rest
<1> QED BY <1>7 DEF t

\* The header read where one is due is that of the next frame.
LEMMA HeaderOfRest ==
    ASSUME NEW s \in Seq(Frames), NEW k, NEW a \in Seq(Cell), NEW p \in Seq(Cell),
           a # <<>>, Rest(a \o p, s, k), NEW h \in HeadersIn(a)
    PROVE  /\ k < Len(s) /\ h \in Cell /\ h.kind = "header"
           /\ Rest(<<h>> \o (Tail(a) \o p), s, k)
<1>1. PICK F \in [0..Len(s) -> Seq(Cell)] : Unrolls(F, s) /\ a \o p = F[k]
  BY DEF Rest
<1>2. s \in Seq(WholeFrames) /\ k \in 0..Len(s) BY RepliesAreFrames DEF Rest
<1>3. /\ k < Len(s) /\ k + 1 \in 1..Len(s) /\ h = s[k + 1][1] /\ h \in Cell
      /\ <<h>> \o (Tail(a) \o p) = F[k]
  <2>1. a # <<>> /\ a \in Seq(Cell) /\ p \in Seq(Cell) /\ h \in HeadersIn(a) OBVIOUS
  <2>2. \A G : Unrolls(G, s) => \A j \in 0..Len(s) :
          \A x, y \in Seq(Cell) : x # <<>> /\ x \o y = G[j] => \A g \in HeadersIn(x) :
             /\ j < Len(s) /\ j + 1 \in 1..Len(s) /\ g = s[j + 1][1] /\ g \in Cell
             /\ <<g>> \o (Tail(x) \o y) = G[j]
    BY ONLY <1>2, HeaderRead, Zenon
  <2>3. \A x, y \in Seq(Cell) : x # <<>> /\ x \o y = F[k] => \A g \in HeadersIn(x) :
           /\ k < Len(s) /\ k + 1 \in 1..Len(s) /\ g = s[k + 1][1] /\ g \in Cell
           /\ <<g>> \o (Tail(x) \o y) = F[k]
    BY ONLY <1>1, <1>2, <2>2, Zenon
  <2> QED BY ONLY <1>1, <2>1, <2>3, Zenon
<1>4. h.kind = "header" BY <1>2, <1>3, FrameCells
<1>5. Rest(<<h>> \o (Tail(a) \o p), s, k) BY <1>1, <1>2, <1>3 DEF Rest
<1> QED BY <1>3, <1>4, <1>5

\* As many cells as their header announces are the next frame.
LEMMA FrameOfRest ==
    ASSUME NEW s \in Seq(Frames), NEW k, NEW a \in Seq(Cell), NEW b \in Seq(Cell),
           a # <<>>, Len(a) = a[1].num + 1, Rest(a \o b, s, k)
    PROVE  /\ k + 1 \in 1..Len(s) /\ s[k + 1] = a /\ Rest(b, s, k + 1)
           /\ k + 1 = Len(s) => b = <<>>
<1>1. PICK F \in [0..Len(s) -> Seq(Cell)] : Unrolls(F, s) /\ a \o b = F[k]
  BY DEF Rest
<1>2. s \in Seq(WholeFrames) /\ k \in 0..Len(s) /\ Len(s) \in Nat
  BY RepliesAreFrames, LenProperties DEF Rest
<1>3. k < Len(s) /\ k + 1 \in 1..Len(s) /\ a = s[k + 1] /\ b = F[k + 1]
  <2>1. /\ a \in Seq(Cell) /\ b \in Seq(Cell) /\ a # <<>> /\ a \o b = F[k]
        /\ Len(a) = a[1].num + 1
    BY <1>1
  <2>2. \A G : Unrolls(G, s) => \A j \in 0..Len(s) :
          \A x, y \in Seq(Cell) : x # <<>> /\ x \o y = G[j] /\ Len(x) = x[1].num + 1 =>
             j < Len(s) /\ j + 1 \in 1..Len(s) /\ x = s[j + 1] /\ y = G[j + 1]
    BY ONLY <1>2, UnrollsFrame, Zenon
  <2>3. \A x, y \in Seq(Cell) : x # <<>> /\ x \o y = F[k] /\ Len(x) = x[1].num + 1 =>
           k < Len(s) /\ k + 1 \in 1..Len(s) /\ x = s[k + 1] /\ y = F[k + 1]
    BY ONLY <1>1, <1>2, <2>2, Zenon
  <2> QED BY ONLY <2>1, <2>3, Zenon
<1>4. k + 1 \in 0..Len(s) BY <1>2, <1>3
<1>5. Rest(b, s, k + 1) BY <1>1, <1>3, <1>4 DEF Rest
<1>6. k + 1 = Len(s) => b = <<>> BY <1>1, <1>3 DEF Unrolls
<1> QED BY <1>3, <1>5, <1>6

-----------------------------------------------------------------------------
(***************************************************************************)
(* What main knows at its place of the frames sent to it.                  *)
(***************************************************************************)
\* Places before the header of the reply, and after the reply OK.
Opening == {"log_connect", "auth_send", "auth_ack"}
Going   == {"packet", "send", "log_send", "resend", "req_send", "resp_header"}

\* Places from which main may read on.
Attentive == Opening \cup Going \cup {"auth_reply", "check_reply", "resp_data"}

\* The frames it has read at such a place, and what it has of the next.
Turn(t) == IF t.pc \in Opening \cup {"auth_reply"} THEN 0 ELSE 1

AckOf(t)  == <<Header("PKT_AUTH_ACK", t.size)>> \o t.buf
DataOf(t) == <<Header("PKT_DATA_RESPONSE", t.size)>> \o t.buf

Heard(t) ==
    IF t.pc = "auth_reply" THEN AckOf(t)
    ELSE IF t.pc = "resp_data" THEN DataOf(t) ELSE <<>>

\* Replied, of the frames s whose cells p are still to be sent.
Given(p, s, i, f) == i <= Len(s) /\ s[i] = f /\ (i = Len(s) => p = <<>>)

\* Of a reply without a payload, or with one recvAll has not read, main
\* remembers nothing and needs nothing: it is not OK.
Heeds(t) == t.pc \in Attentive /\ (t.pc = "check_reply" => t.buf # <<>>)

\* Main t on connection r.
Follows(t, r, p, s) ==
    /\ t.pc = "check_reply" /\ t.buf # <<>> => Given(p, s, 1, AckOf(t))
    /\ t.pc \in Going \cup {"resp_data", "unexpected", "got_data"} => Given(p, s, 1, AuthAck(TRUE))
    /\ t.pc = "got_data" /\ t.size <= INT_MAX => Given(p, s, 2, DataOf(t))
    /\ Heeds(t) /\ r.link # "broken" => Rest(Heard(t) \o (r.down \o p), s, Turn(t))

FollowsOn(p, c) ==
    proc[p].sock = c => Follows(proc[p], conn[c], pending[c], replied[c])

\* Nothing is sent before a connection is accepted.
Untouched(r, p, s) ==
    r.link \in {"none", "backlog"} => s = <<>> /\ p = <<>> /\ r.down = <<>> /\ ~r.serverOpen

FollowInv ==
    /\ \A p \in Clients : OneConnection(proc[p])
    /\ \A c \in Conns : Untouched(conn[c], pending[c], replied[c])
    /\ \A p \in Clients, c \in Conns : FollowsOn(p, c)

\* Elsewhere main has nothing of the replies.
LEMMA FollowsElsewhere ==
    ASSUME NEW t, NEW r, NEW p, NEW s, t.pc \notin Attentive \cup {"unexpected", "got_data"}
    PROVE  Follows(t, r, p, s)
BY DEF Follows, Heeds, Attentive

\* Steps that read nothing and add nothing to what is under way.
LEMMA FollowsAlike ==
    ASSUME NEW t, NEW u, NEW r, NEW q, NEW p, NEW s, Follows(t, r, p, s),
           q.link # "broken" => r.link # "broken" /\ q.down = r.down,
           \/ u = t
           \/ t.pc \in Opening /\ u.pc \in Opening
           \/ t.pc \in Going /\ u.pc \in Going
    PROVE  Follows(u, q, p, s)
<1>1. CASE u = t BY <1>1 DEF Follows
<1>2. CASE t.pc \in Opening /\ u.pc \in Opening
  <2>1. Heard(u) = Heard(t) /\ Turn(u) = Turn(t) /\ Heeds(t)
    BY <1>2 DEF Heard, Turn, Heeds, Opening, Attentive
  <2> QED BY <1>2, <2>1 DEF Follows, Opening, Going
<1>3. CASE t.pc \in Going /\ u.pc \in Going
  <2>1. Heard(u) = Heard(t) /\ Turn(u) = Turn(t) /\ Heeds(t)
    BY <1>3 DEF Heard, Turn, Heeds, Opening, Going, Attentive
  <2> QED BY <1>3, <2>1 DEF Follows, Going
<1> QED BY <1>1, <1>2, <1>3

\* What main has of a frame is made of cells.
LEMMA HeardTypes ==
    ASSUME NEW t \in Process
    PROVE  /\ AckOf(t) \in Seq(Cell) /\ DataOf(t) \in Seq(Cell) /\ Heard(t) \in Seq(Cell)
           /\ AckOf(t) # <<>> /\ AckOf(t)[1] = Header("PKT_AUTH_ACK", t.size)
           /\ Len(AckOf(t)) = Len(t.buf) + 1
           /\ DataOf(t) # <<>> /\ DataOf(t)[1] = Header("PKT_DATA_RESPONSE", t.size)
           /\ Len(DataOf(t)) = Len(t.buf) + 1
<1>1. t.size \in Nat /\ t.buf \in Seq(Cell) BY DEF Process
<1>2. Header("PKT_AUTH_ACK", t.size) \in Cell /\ Header("PKT_DATA_RESPONSE", t.size) \in Cell
  BY <1>1, CellTypes DEF PacketTypes
<1>3. /\ AckOf(t) \in Seq(Cell) /\ AckOf(t) # <<>>
      /\ AckOf(t)[1] = Header("PKT_AUTH_ACK", t.size) /\ Len(AckOf(t)) = Len(t.buf) + 1
  BY <1>1, <1>2, CellBehind DEF AckOf
<1>4. /\ DataOf(t) \in Seq(Cell) /\ DataOf(t) # <<>>
      /\ DataOf(t)[1] = Header("PKT_DATA_RESPONSE", t.size) /\ Len(DataOf(t)) = Len(t.buf) + 1
  BY <1>1, <1>2, CellBehind DEF DataOf
<1>5. Heard(t) \in Seq(Cell) BY <1>3, <1>4 DEF Heard
<1> QED BY <1>3, <1>4, <1>5

\* The server begins another frame.
LEMMA FollowsBegun ==
    ASSUME NEW t \in Process, NEW r, r.down \in Seq(Cell), NEW s \in Seq(Frames), NEW f \in Frames,
           Follows(t, r, <<>>, s)
    PROVE  Follows(t, r, f, Append(s, f))
<1> DEFINE w == Append(s, f)
           x == Heard(t)
           y == r.down
<1>1. /\ Len(s) \in Nat /\ Len(w) = Len(s) + 1 /\ \A j \in 1..Len(s) : w[j] = s[j]
  BY AppendProperties, LenProperties
<1>2. f \in Seq(Cell) /\ x \in Seq(Cell) /\ y \in Seq(Cell)
  BY HeardTypes, OpenClientAssumption
<1> HIDE DEF w
<1>3. \A i \in {1, 2} : \A g : Given(<<>>, s, i, g) => Given(f, w, i, g)
  <2> SUFFICES ASSUME NEW i \in {1, 2}, NEW g, Given(<<>>, s, i, g) PROVE Given(f, w, i, g)
    OBVIOUS
  <2>1. i \in 1..Len(s) /\ i < Len(w) BY <1>1 DEF Given
  <2> QED BY <1>1, <2>1 DEF Given
<1>4. ASSUME Heeds(t), r.link # "broken" PROVE Rest(x \o (y \o f), w, Turn(t))
  <2>1. Rest(x \o (y \o <<>>), s, Turn(t)) BY <1>4 DEF Follows
  <2> HIDE DEF x, y
  <2>2. y \o <<>> = y BY <1>2, ConcatEmptySeq
  <2>3. Rest(x \o y, s, Turn(t)) BY ONLY <2>1, <2>2, Zenon
  <2>4. Rest((x \o y) \o f, w, Turn(t)) BY <2>3, RestMore DEF w
  <2>5. (x \o y) \o f = x \o (y \o f) BY ONLY <1>2, Regrouped, Zenon
  <2> QED BY ONLY <2>4, <2>5, Zenon
<1>5. Follows(t, r, f, w) BY <1>3, <1>4 DEF Follows
<1> QED BY <1>5 DEF w

\* The server sends a cell, and the client takes it or its link breaks.
LEMMA FollowsSent ==
    ASSUME NEW t, NEW r, NEW q, NEW p \in Seq(Cell), p # <<>>, NEW s, r.down \in Seq(Cell),
           Follows(t, r, p, s),
           Heeds(t) /\ q.link # "broken" =>
              r.link # "broken" /\ q.down = Append(r.down, Head(p))
    PROVE  Follows(t, q, Tail(p), s)
<1>1. \A i, g : Given(p, s, i, g) => Given(Tail(p), s, i, g) BY DEF Given
<1>2. ASSUME Heeds(t), q.link # "broken"
      PROVE  Rest(Heard(t) \o (q.down \o Tail(p)), s, Turn(t))
  <2> DEFINE a == r.down
  <2>1. a \in Seq(Cell) OBVIOUS
  <2>2. Rest(Heard(t) \o (a \o p), s, Turn(t)) BY <1>2 DEF Follows
  <2> HIDE DEF a
  <2>3. Append(a, Head(p)) \o Tail(p) = a \o p BY <2>1, Shifted
  <2> QED BY <1>2, <2>2, <2>3 DEF a
<1> QED BY <1>1, <1>2 DEF Follows

-----------------------------------------------------------------------------
(***************************************************************************)
(* The steps of main.                                                      *)
(***************************************************************************)
\* The frame a has been read, and main waits for the next.
Taken(a, down, p, s, k) == Given(p, s, k + 1, a) /\ Rest(<<>> \o (down \o p), s, k + 1)

LEMMA FrameTaken ==
    ASSUME NEW s \in Seq(Frames), NEW k, NEW a \in Seq(Cell), NEW down \in Seq(Cell),
           NEW p \in Seq(Cell), a # <<>>, Len(a) = a[1].num + 1, Rest(a \o (down \o p), s, k)
    PROVE  Taken(a, down, p, s, k)
<1> DEFINE b == down \o p
<1>1. b \in Seq(Cell) /\ <<>> \o b = b /\ (b = <<>> => p = <<>>)
  BY ConcatProperties, ConcatEmptySeq, ConcatEqualIffEmpty
<1>2. Rest(a \o b, s, k) OBVIOUS
<1> HIDE DEF b
<1>3. /\ k + 1 \in 1..Len(s) /\ s[k + 1] = a /\ Rest(b, s, k + 1)
      /\ k + 1 = Len(s) => b = <<>>
  BY <1>1, <1>2, FrameOfRest
<1>4. Given(p, s, k + 1, a) BY <1>1, <1>3 DEF Given
<1>5. Rest(<<>> \o b, s, k + 1) BY ONLY <1>1, <1>3, Zenon
<1> QED BY <1>4, <1>5 DEF Taken, b

\* A header read where one is due.
LEMMA HeaderFollowed ==
    ASSUME NEW s \in Seq(Frames), NEW k, NEW down \in Seq(Cell), NEW p \in Seq(Cell),
           down # <<>>, Rest(<<>> \o (down \o p), s, k), NEW h \in HeadersIn(down)
    PROVE  /\ h = Header(h.text, h.num) /\ h.num \in Nat
           /\ Rest((<<h>> \o <<>>) \o (Tail(down) \o p), s, k)
           /\ h.num = 0 => Taken(<<h>> \o <<>>, Tail(down), p, s, k)
<1> DEFINE b == down \o p
           x == <<h>>
           y == <<h>> \o <<>>
           d == Tail(down)
<1>1. b \in Seq(Cell) /\ <<>> \o b = b BY ConcatProperties, ConcatEmptySeq
<1>2. Rest(b, s, k)
  <2>1. Rest(<<>> \o b, s, k) OBVIOUS
  <2> HIDE DEF b
  <2> QED BY ONLY <1>1, <2>1, Zenon
<1>3. h \in Cell /\ h.kind = "header" /\ Rest(x \o (d \o p), s, k)
  BY <1>2, HeaderOfRest
<1>4. h = Header(h.text, h.num) /\ h.num \in Nat BY <1>3 DEF Cell, Header
<1>5. /\ y = x /\ y \in Seq(Cell) /\ y # <<>> /\ y[1] = h /\ Len(y) = 1 /\ d \in Seq(Cell)
  <2>1. x \in Seq(Cell) /\ x \o <<>> = x /\ x # <<>> /\ x[1] = h /\ Len(x) = 1
    BY <1>3, ConcatEmptySeq
  <2>2. d \in Seq(Cell) BY HeadTailProperties
  <2> QED BY <2>1, <2>2
<1> HIDE DEF x, y, d
<1>6. Rest(y \o (d \o p), s, k) BY <1>3, <1>5
<1>7. h.num = 0 => Taken(y, d, p, s, k)
  <2>1. h.num = 0 => Len(y) = y[1].num + 1 BY <1>5
  <2> QED BY <1>5, <1>6, <2>1, FrameTaken
<1> QED BY <1>4, <1>6, <1>7 DEF y, d

\* A cell of the payload behind it.
LEMMA PayloadFollowed ==
    ASSUME NEW s \in Seq(Frames), NEW k, NEW x \in Cell, NEW buf \in Seq(Cell),
           NEW down \in Seq(Cell), NEW p \in Seq(Cell), down # <<>>,
           Rest((<<x>> \o buf) \o (down \o p), s, k)
    PROVE  /\ Rest((<<x>> \o Append(buf, Head(down))) \o (Tail(down) \o p), s, k)
           /\ Len(buf) + 1 = x.num =>
                 Taken(<<x>> \o Append(buf, Head(down)), Tail(down), p, s, k)
<1> DEFINE more == Append(buf, Head(down))
           a == <<x>> \o more
           d == Tail(down)
<1>0. x \in Cell /\ buf \in Seq(Cell) /\ down \in Seq(Cell) /\ p \in Seq(Cell) /\ down # <<>>
  OBVIOUS
<1>1. Head(down) \in Cell /\ d \in Seq(Cell) BY HeadTailProperties
<1>2. more \in Seq(Cell) /\ Len(more) = Len(buf) + 1 BY <1>1, AppendProperties
<1>3. a \o (d \o p) = (<<x>> \o buf) \o (down \o p)
  BY ONLY <1>0, ShiftedThrough, Zenon
<1>4. Rest(a \o (d \o p), s, k)
  <2>1. Rest((<<x>> \o buf) \o (down \o p), s, k) OBVIOUS
  <2> HIDE DEF a, d
  <2> QED BY ONLY <1>3, <2>1, Zenon
<1> HIDE DEF more
<1>5. a \in Seq(Cell) /\ a # <<>> /\ a[1] = x /\ Len(a) = Len(more) + 1
  BY <1>2, CellBehind
<1> HIDE DEF a, d
<1>6. Len(buf) + 1 = x.num => Taken(a, d, p, s, k)
  <2>1. Len(buf) + 1 = x.num => Len(a) = a[1].num + 1 BY <1>2, <1>5
  <2> QED BY <1>1, <1>4, <1>5, <2>1, FrameTaken
<1> QED BY <1>4, <1>6 DEF a, d, more

\* A step that takes nothing from the stream to the client.
Quiet(r, q) == q.link # "broken" => r.link # "broken" /\ q.down = r.down

LEMMA SendsQuietly ==
    ASSUME NetTypeOK, NEW c \in Conns, NEW cell, ClientSends(c, cell) \/ UNCHANGED netVars
    PROVE  Quiet(conn[c], conn'[c])
<1>1. conn[c] \in Connection /\ \A q : Update(c, q) => conn'[c] = q
  BY DEF NetTypeOK, Update
<1>2. CASE UNCHANGED netVars BY <1>2 DEF netVars, Quiet
<1>3. CASE Update(c, ResetOf(conn[c]))
  BY <1>1, <1>3, ResetParts DEF Quiet
<1>4. CASE Update(c, [conn[c] EXCEPT !.up = Append(@, cell)])
  <2>1. /\ [conn[c] EXCEPT !.up = Append(@, cell)].down = conn[c].down
        /\ [conn[c] EXCEPT !.up = Append(@, cell)].link = conn[c].link
    BY <1>1 DEF Connection
  <2> QED BY <1>1, <1>4, <2>1 DEF Quiet
<1> QED BY <1>2, <1>3, <1>4 DEF ClientSends

\* Main's step from a place to one where as much of the replies is known.
GoesAlong(p) ==
    /\ proc'[p].sock = proc[p].sock
    /\ proc[p].sock \in Conns => Quiet(conn[proc[p].sock], conn'[proc[p].sock])
    /\ \/ proc[p].pc \in Opening /\ proc'[p].pc \in Opening
       \/ proc[p].pc \in Going /\ proc'[p].pc \in Going

\* With one connection, main's steps are such steps, lead it elsewhere, open
\* the connection or read the replies.
LEMMA MainMoves ==
    ASSUME ClientInv, NEW p \in Clients, OneConnection(proc[p]),
           ClientStep(p) \/ ClientCrash(p)
    PROVE  \/ proc'[p].sock \notin Conns /\ proc'[p].pc # "got_data"
           \/ proc'[p].pc \notin Attentive \cup {"unexpected", "got_data"}
           \/ GoesAlong(p)
           \/ ConnectSucceeds(p) \/ ReadAck(p) \/ ReadReply(p) \/ ReplyOK(p)
           \/ ReadResponse(p) \/ ReadDataset(p)
<1> DEFINE r == proc[p]
<1>1. /\ NetTypeOK /\ r \in Process /\ \A s : Becomes(p, s) => proc'[p] = s
  BY AtClient DEF ClientInv, ClientTypeOK, Becomes
<1>2. r.reconnecting => r.sock \notin Conns
  BY DEF OneConnection
<1>3. CASE NoSocket(p)
  <2>1. proc'[p] = NotConnected(r) BY <1>1, <1>3 DEF NoSocket
  <2>2. r.sock \notin Conns BY <1>3, ClientAssumption DEF NoSocket, Attempting
  <2>3. NotConnected(r).sock = r.sock /\ NotConnected(r).pc # "got_data"
    BY <1>1 DEF NotConnected, NextIteration, ReturnCode, Process
  <2> QED BY <2>1, <2>2, <2>3
<1>4. CASE AttemptsExhausted(p)
  <2> DEFINE s == Writing(r, <<"ERROR">>, "connect")
  <2>1. s \in Process /\ s.sock = r.sock
    <3>1. <<"ERROR">> \in ClientRow /\ "connect" \in ClientPCs
      BY ClientRowTypes DEF ClientPCs
    <3> QED BY <1>1, <3>1, WritingTypes DEF SameSocket
  <2>2. r.pc = "connect" /\ proc'[p] = NotConnected(s)
    BY <1>1, <1>4 DEF AttemptsExhausted, MainAt
  <2>3. r.sock \notin Conns BY <2>2, AtClient DEF ClientFits
  <2>4. NotConnected(s).sock = s.sock /\ NotConnected(s).pc # "got_data"
    <3> HIDE DEF s
    <3> QED BY <2>1 DEF NotConnected, NextIteration, ReturnCode, Process
  <2> HIDE DEF s
  <2> QED BY <2>1, <2>2, <2>3, <2>4
<1>5. CASE NotAuthenticated(p)
  <2>1. proc'[p] = Rejected(r) BY <1>1, <1>5 DEF NotAuthenticated
  <2>2. CASE r.reconnecting
    <3>1. proc'[p].sock = r.sock /\ proc'[p].pc = "packet"
      BY <1>1, <2>1, <2>2 DEF Rejected, NextIteration, Process
    <3> QED BY <1>2, <2>2, <3>1
  <2>3. CASE ~r.reconnecting
    <3>1. proc'[p].pc = "leave" BY <1>1, <2>1, <2>3 DEF Rejected, ReturnCode, Writing, Process
    <3> QED BY <3>1 DEF Attentive, Opening, Going
  <2> QED BY <2>2, <2>3
<1>6. CASE \/ AuthCallFails(p) \/ ReadReplyFails(p) \/ ReplyRejected(p)
           \/ SendPacketFails(p) \/ LogSendFailed(p) \/ RequestFails(p)
  <2>1. PICK after \in {"not_authenticated", "send_failed", "cleanup", "bye"} :
          GoesOn(p, after) \/ \E row : Writes(p, row, after)
    BY <1>6
    DEF AuthCallFails, ReadReplyFails, ReplyRejected, SendPacketFails, LogSendFailed, RequestFails
  <2>2. proc'[p].pc = after BY <1>1, <2>1 DEF GoesOn, Writes, Writing, Process
  <2> QED BY <2>1, <2>2 DEF Attentive, Opening, Going
<1>7. CASE ClientStartup(p) \/ ConnectFails(p) \/ ClientCrash(p) \/ Bye(p) \/ GotDataset(p)
  <2>1. proc'[p].pc \in {"connect", "leave", "crashed", "bye"}
    BY <1>1, <1>7
    DEF ClientStartup, ConnectFails, ClientCrash, Bye, GotDataset, Writing, ReturnCode, Process
  <2> QED BY <2>1 DEF Attentive, Opening, Going
<1>8. UNCHANGED netVars => \A c \in Conns : Quiet(conn[c], conn'[c])
  BY DEF netVars, Quiet
<1>9. CASE ClientLogConnect(p)
  <2>1. /\ r.pc = "log_connect" /\ UNCHANGED netVars
        /\ proc'[p].pc = "auth_send" /\ proc'[p].sock = r.sock
    BY <1>1, <1>9 DEF ClientLogConnect, MainAt, Writes, Writing, Process
  <2> QED BY <1>8, <2>1 DEF GoesAlong, Opening
<1>10. ASSUME NEW after, SendsNext(p, after),
              \/ after = "auth_ack" /\ r.pc = "auth_send"
              \/ after \in Going \cup {"next"} /\ r.pc \in Going
       PROVE  GoesAlong(p)
  <2> DEFINE s == [r EXCEPT !.out = Tail(@)]
  <2>1. /\ s.pc = r.pc /\ s.sock = r.sock
        /\ NextIteration(s).pc = "packet" /\ NextIteration(s).sock = r.sock
        /\ [s EXCEPT !.pc = after].pc = after /\ [s EXCEPT !.pc = after].sock = r.sock
    BY <1>1 DEF Process, NextIteration
  <2>2. /\ r.sock \in Conns /\ ClientSends(r.sock, Head(r.out))
        /\ proc'[p] = IF s.out # <<>> THEN s
                      ELSE IF after = "next" THEN NextIteration(s) ELSE [s EXCEPT !.pc = after]
    BY <1>1, <1>10 DEF SendsNext
  <2>3. Quiet(conn[r.sock], conn'[r.sock]) BY <1>1, <2>2, SendsQuietly
  <2> HIDE DEF s
  <2>4. proc'[p].sock = r.sock BY <2>1, <2>2
  <2>5. \/ r.pc \in Opening /\ proc'[p].pc \in Opening
        \/ r.pc \in Going /\ proc'[p].pc \in Going
    BY <1>10, <2>1, <2>2 DEF Opening, Going
  <2> QED BY <2>3, <2>4, <2>5 DEF GoesAlong
<1>11. CASE SendAuth(p) \/ SendPacket(p) \/ Resend(p) \/ SendRequest(p)
  BY <1>10, <1>11 DEF SendAuth, SendPacket, Resend, SendRequest, MainAt, Going
<1>12. CASE BuildPacket(p) \/ RequestDataset(p)
  <2>1. /\ proc'[p].sock = r.sock /\ r.pc = "packet" /\ UNCHANGED netVars
        /\ proc'[p].pc \in {"send", "req_send", "bye"}
    BY <1>1, <1>12 DEF BuildPacket, RequestDataset, MainAt, Process
  <2> QED BY <1>8, <2>1 DEF GoesAlong, Opening, Going, Attentive
<1>13. CASE LogSend(p) \/ ResendFails(p)
  <2>1. \A row : LET s == NextIteration(Writing(r, row, "packet"))
                 IN s.sock = r.sock /\ s.pc = "packet"
    BY <1>1 DEF NextIteration, Writing, Process
  <2>2. /\ r.pc \in Going /\ UNCHANGED netVars
        /\ \E row : proc'[p] = NextIteration(Writing(r, row, "packet"))
    BY <1>1, <1>13 DEF LogSend, ResendFails, MainAt, Going
  <2> QED BY <1>8, <2>1, <2>2 DEF GoesAlong, Going
<1>14. CASE CleanupAndReconnect(p) \/ Leave(p)
  <2>1. proc'[p].sock = INVALID_SOCKET /\ proc'[p].pc \in {"connect", "exited"}
    BY <1>1, <1>14 DEF CleanupAndReconnect, Leave, CleanedUp, SocketClosed, Process
  <2> QED BY <2>1, ClientAssumption
<1>15. CASE ClosePrevious(p)
  <2>1. proc'[p].sock = INVALID_SOCKET /\ proc'[p].pc = "connect"
    BY <1>1, <1>15, PreviousClosed DEF MainAt, Process
  <2> QED BY <2>1, ClientAssumption
<1> QED
  BY <1>3, <1>4, <1>5, <1>6, <1>7, <1>9, <1>11, <1>12, <1>13, <1>14, <1>15
  DEF ClientStep, Connecting, SendingTelemetry, Finishing

LEMMA TakesCell ==
    ASSUME NetTypeOK, NEW c \in Conns, ClientTakes(c)
    PROVE  /\ conn[c].link # "broken" /\ conn[c].down # <<>> /\ conn[c].down \in Seq(Cell)
           /\ conn'[c].down = Tail(conn[c].down)
<1>1. conn[c] \in Connection /\ \A q : Update(c, q) => conn'[c] = q
  BY DEF NetTypeOK, Update
<1>2. [conn[c] EXCEPT !.down = Tail(@)].down = Tail(conn[c].down)
  BY <1>1 DEF Connection
<1> QED BY <1>1, <1>2 DEF ClientTakes, Connected, Connection

\* What the three readings of main have in common.
LEMMA ReadingFollows ==
    ASSUME OpenClientInv, FollowInv, NEW p \in Clients,
           ReadAck(p) \/ ReadReply(p) \/ ReadResponse(p) \/ ReadDataset(p),
           NEW c \in Conns, proc'[p].sock = c
    PROVE  Follows(proc'[p], conn'[c], pending[c], replied[c])
<1> DEFINE t == proc[p]
           u == proc'[p]
           down == conn[c].down
           s == replied[c]
           w == pending[c]
<1>1. /\ t \in Process /\ NetTypeOK /\ \A r : Becomes(p, r) => u = r
      /\ w \in Seq(Cell) /\ s \in Seq(Frames)
  BY AtClient DEF OpenClientInv, ClientInv, ClientTypeOK, EnvTypeOK, Becomes
<1>2. /\ t.sock = c /\ ClientTakes(c) /\ t.size \in Nat /\ t.buf \in Seq(Cell)
      /\ t.pc \in {"auth_ack", "auth_reply", "resp_header", "resp_data"}
  <2>1. t.sock \in Conns /\ ClientTakes(t.sock) /\ u.sock = t.sock
    BY <1>1
    DEF ReadAck, ReadReply, ReadResponse, ReadDataset, ReadsHeader, ReadsPayload, Process
  <2> QED BY <1>1, <2>1 DEF ReadAck, ReadReply, ReadResponse, ReadDataset, MainAt, Process
<1>3. /\ conn[c].link # "broken" /\ down # <<>> /\ down \in Seq(Cell)
      /\ conn'[c].down = Tail(down)
  BY <1>1, <1>2, TakesCell
<1>4. Follows(t, conn[c], w, s) BY <1>2 DEF FollowInv, FollowsOn
<1>5. Rest(Heard(t) \o (down \o w), s, Turn(t))
  BY <1>2, <1>3, <1>4 DEF Follows, Heeds, Attentive, Opening, Going
<1> HIDE DEF u, s, w
<1>6. CASE ReadAck(p)
  <2>1. t.pc = "auth_ack" /\ Heard(t) = <<>> /\ Turn(t) = 0
    BY <1>6 DEF ReadAck, MainAt, Heard, Turn, Opening
  <2>2. PICK h \in HeadersIn(down) :
          u = [t EXCEPT !.size = h.num, !.buf = <<>>,
                 !.pc = IF h.text # "PKT_AUTH_ACK" THEN "not_authenticated"
                        ELSE IF recvLength(h.num) > 0 THEN "auth_reply" ELSE "check_reply"]
    BY <1>1, <1>2, <1>6 DEF ReadAck, ReadsHeader
  <2>3. /\ u.size = h.num /\ u.buf = <<>>
        /\ u.pc = IF h.text # "PKT_AUTH_ACK" THEN "not_authenticated"
                  ELSE IF recvLength(h.num) > 0 THEN "auth_reply" ELSE "check_reply"
    BY <1>1, <2>2 DEF Process
  <2>4. Rest(<<>> \o (down \o w), s, 0) BY <1>5, <2>1
  <2> HIDE DEF down
  <2>5. /\ h = Header(h.text, h.num) /\ h.num \in Nat
        /\ Rest((<<h>> \o <<>>) \o (Tail(down) \o w), s, 0)
        /\ h.num = 0 => Taken(<<h>> \o <<>>, Tail(down), w, s, 0)
    BY <1>1, <1>3, <2>4, HeaderFollowed
  <2>6. CASE h.text # "PKT_AUTH_ACK"
    <3>1. u.pc = "not_authenticated" BY <2>3, <2>6
    <3> QED BY <3>1, FollowsElsewhere DEF Attentive, Opening, Going, u, s, w
  <2>7. CASE h.text = "PKT_AUTH_ACK" /\ recvLength(h.num) > 0
    <3>1. u.pc = "auth_reply" /\ AckOf(u) = <<h>> \o <<>> BY <2>3, <2>5, <2>7 DEF AckOf
    <3>2. Heard(u) = <<h>> \o <<>> /\ Turn(u) = 0 BY <3>1 DEF Heard, Turn
    <3>3. Follows(u, conn'[c], w, s)
      BY <1>3, <2>5, <3>1, <3>2 DEF Follows, Going
    <3> QED BY <3>3 DEF u, s, w
  <2>8. CASE h.text = "PKT_AUTH_ACK" /\ recvLength(h.num) = 0
    <3>1. u.pc = "check_reply" /\ u.buf = <<>> BY <2>3, <2>8
    <3>2. Follows(u, conn'[c], w, s) BY <3>1 DEF Follows, Heeds, Going
    <3> QED BY <3>2 DEF u, s, w
  <2>9. recvLength(h.num) = 0 \/ recvLength(h.num) > 0 BY <2>5, RecvLengths
  <2> QED BY <2>6, <2>7, <2>8, <2>9
<1>7. CASE ReadReply(p)
  <2>1. t.pc = "auth_reply" /\ Heard(t) = AckOf(t) /\ Turn(t) = 0
    BY <1>7 DEF ReadReply, MainAt, Heard, Turn
  <2>2. /\ u.size = t.size /\ u.buf = Append(t.buf, Head(down))
        /\ u.pc = IF Len(t.buf) + 1 = t.size THEN "check_reply" ELSE "auth_reply"
    <3>1. u = [t EXCEPT !.buf = Append(@, Head(down)),
                        !.pc = IF Len(t.buf) + 1 = t.size THEN "check_reply" ELSE @]
      BY <1>1, <1>2, <1>7 DEF ReadReply, ReadsPayload
    <3>2. t \in Process BY <1>1
    <3> HIDE DEF t, u, down
    <3> QED BY <2>1, <3>1, <3>2 DEF Process
  <2> DEFINE x == Header("PKT_AUTH_ACK", t.size)
  <2>3. x \in Cell /\ x.num = t.size BY <1>2, CellTypes DEF PacketTypes, Header
  <2>4. Rest((<<x>> \o t.buf) \o (down \o w), s, 0) BY <1>5, <2>1 DEF AckOf
  <2>5. AckOf(u) = <<x>> \o Append(t.buf, Head(down)) BY <2>2 DEF AckOf
  <2> HIDE DEF down, x
  <2>6. /\ Rest(AckOf(u) \o (Tail(down) \o w), s, 0)
        /\ Len(t.buf) + 1 = x.num => Taken(AckOf(u), Tail(down), w, s, 0)
    BY <1>1, <1>2, <1>3, <2>3, <2>4, <2>5, PayloadFollowed
  <2>7. CASE Len(t.buf) + 1 = t.size
    <3>1. u.pc = "check_reply" /\ Taken(AckOf(u), Tail(down), w, s, 0) BY <2>2, <2>3, <2>6, <2>7
    <3>2. Heard(u) = <<>> /\ Turn(u) = 1 BY <3>1 DEF Heard, Turn, Opening
    <3>3. Follows(u, conn'[c], w, s)
      BY <1>3, <3>1, <3>2 DEF Follows, Going, Taken
    <3> QED BY <3>3 DEF u, s, w
  <2>8. CASE Len(t.buf) + 1 # t.size
    <3>1. u.pc = "auth_reply" BY <2>2, <2>8
    <3>2. Heard(u) = AckOf(u) /\ Turn(u) = 0 BY <3>1 DEF Heard, Turn
    <3>3. Follows(u, conn'[c], w, s)
      BY <1>3, <2>6, <3>1, <3>2 DEF Follows, Going
    <3> QED BY <3>3 DEF u, s, w
  <2> QED BY <2>7, <2>8
<1>8. CASE ReadResponse(p)
  <2>1. t.pc = "resp_header" /\ Heard(t) = <<>> /\ Turn(t) = 1 /\ Given(w, s, 1, AuthAck(TRUE))
    BY <1>4, <1>8 DEF ReadResponse, MainAt, Heard, Turn, Opening, Follows, Going
  <2>2. PICK h \in HeadersIn(down) :
          u = [t EXCEPT !.size = h.num, !.buf = <<>>,
                 !.pc = IF h.text # "PKT_DATA_RESPONSE" THEN "unexpected"
                        ELSE IF recvLength(h.num) > 0 THEN "resp_data" ELSE "got_data"]
    BY <1>1, <1>2, <1>8 DEF ReadResponse, ReadsHeader
  <2>3. /\ u.size = h.num /\ u.buf = <<>>
        /\ u.pc = IF h.text # "PKT_DATA_RESPONSE" THEN "unexpected"
                  ELSE IF recvLength(h.num) > 0 THEN "resp_data" ELSE "got_data"
    BY <1>1, <2>2 DEF Process
  <2>4. Rest(<<>> \o (down \o w), s, 1) BY <1>5, <2>1
  <2> HIDE DEF down
  <2>5. /\ h = Header(h.text, h.num) /\ h.num \in Nat
        /\ Rest((<<h>> \o <<>>) \o (Tail(down) \o w), s, 1)
        /\ h.num = 0 => Taken(<<h>> \o <<>>, Tail(down), w, s, 1)
    BY <1>1, <1>3, <2>4, HeaderFollowed
  <2>6. CASE h.text # "PKT_DATA_RESPONSE"
    <3>1. u.pc = "unexpected" BY <2>3, <2>6
    <3>2. Follows(u, conn'[c], w, s) BY <2>1, <3>1 DEF Follows, Heeds, Attentive, Opening, Going
    <3> QED BY <3>2 DEF u, s, w
  <2>7. CASE h.text = "PKT_DATA_RESPONSE" /\ recvLength(h.num) > 0
    <3>1. u.pc = "resp_data" /\ DataOf(u) = <<h>> \o <<>> BY <2>3, <2>5, <2>7 DEF DataOf
    <3>2. Heard(u) = <<h>> \o <<>> /\ Turn(u) = 1 BY <3>1 DEF Heard, Turn, Opening
    <3>3. Follows(u, conn'[c], w, s)
      BY <1>3, <2>1, <2>5, <3>1, <3>2 DEF Follows
    <3> QED BY <3>3 DEF u, s, w
  <2>8. CASE h.text = "PKT_DATA_RESPONSE" /\ recvLength(h.num) = 0
    <3>1. u.pc = "got_data" /\ DataOf(u) = <<h>> \o <<>> BY <2>3, <2>5, <2>8 DEF DataOf
    <3>2. u.size <= INT_MAX => Given(w, s, 2, DataOf(u))
      <4>1. u.size <= INT_MAX => h.num = 0 BY <2>3, <2>5, <2>8, RecvLengths
      <4> QED BY <2>5, <3>1, <4>1 DEF Taken
    <3>3. Follows(u, conn'[c], w, s)
      BY <2>1, <3>1, <3>2 DEF Follows, Heeds, Attentive, Opening, Going
    <3> QED BY <3>3 DEF u, s, w
  <2>9. recvLength(h.num) = 0 \/ recvLength(h.num) > 0 BY <2>5, RecvLengths
  <2> QED BY <2>6, <2>7, <2>8, <2>9
<1>9. CASE ReadDataset(p)
  <2>1. /\ t.pc = "resp_data" /\ Heard(t) = DataOf(t) /\ Turn(t) = 1
        /\ Given(w, s, 1, AuthAck(TRUE))
    BY <1>4, <1>9 DEF ReadDataset, MainAt, Heard, Turn, Opening, Follows
  <2>2. /\ u.size = t.size /\ u.buf = Append(t.buf, Head(down))
        /\ u.pc = IF Len(t.buf) + 1 = t.size THEN "got_data" ELSE "resp_data"
    <3>1. u = [t EXCEPT !.buf = Append(@, Head(down)),
                        !.pc = IF Len(t.buf) + 1 = t.size THEN "got_data" ELSE @]
      BY <1>1, <1>2, <1>9 DEF ReadDataset, ReadsPayload
    <3>2. t \in Process BY <1>1
    <3> HIDE DEF t, u, down
    <3> QED BY <2>1, <3>1, <3>2 DEF Process
  <2> DEFINE x == Header("PKT_DATA_RESPONSE", t.size)
  <2>3. x \in Cell /\ x.num = t.size BY <1>2, CellTypes DEF PacketTypes, Header
  <2>4. Rest((<<x>> \o t.buf) \o (down \o w), s, 1) BY <1>5, <2>1 DEF DataOf
  <2>5. DataOf(u) = <<x>> \o Append(t.buf, Head(down)) BY <2>2 DEF DataOf
  <2> HIDE DEF down, x
  <2>6. /\ Rest(DataOf(u) \o (Tail(down) \o w), s, 1)
        /\ Len(t.buf) + 1 = x.num => Taken(DataOf(u), Tail(down), w, s, 1)
    BY <1>1, <1>2, <1>3, <2>3, <2>4, <2>5, PayloadFollowed
  <2>7. CASE Len(t.buf) + 1 = t.size
    <3>1. u.pc = "got_data" /\ Given(w, s, 2, DataOf(u))
      BY <2>2, <2>3, <2>6, <2>7 DEF Taken
    <3>2. Follows(u, conn'[c], w, s)
      BY <2>1, <3>1 DEF Follows, Heeds, Attentive, Opening, Going
    <3> QED BY <3>2 DEF u, s, w
  <2>8. CASE Len(t.buf) + 1 # t.size
    <3>1. u.pc = "resp_data" BY <2>2, <2>8
    <3>2. Heard(u) = DataOf(u) /\ Turn(u) = 1 BY <3>1 DEF Heard, Turn, Opening
    <3>3. Follows(u, conn'[c], w, s)
      BY <1>3, <2>1, <2>6, <3>1, <3>2 DEF Follows
    <3> QED BY <3>3 DEF u, s, w
  <2> QED BY <2>7, <2>8
<1> QED BY <1>6, <1>7, <1>8, <1>9

\* A new connection, of which nothing has been heard.
LEMMA ConnectingFollows ==
    ASSUME OpenClientInv, FollowInv, NEW p \in Clients, ConnectSucceeds(p),
           NEW c \in Conns, proc'[p].sock = c
    PROVE  Follows(proc'[p], conn'[c], pending[c], replied[c])
<1>1. /\ proc[p] \in Process /\ \A r : Becomes(p, r) => proc'[p] = r
      /\ conn \in [Conns -> Connection]
  BY AtClient DEF OpenClientInv, ClientInv, ClientTypeOK, NetTypeOK, Becomes
<1>2. PICK d \in Conns :
        /\ ClientConnects(d)
        /\ proc'[p] = [proc[p] EXCEPT
             !.sock = d, !.sockets = @ + 1, !.attempts = 0, !.out = AuthRequest(TOKEN),
             !.pc = IF proc[p].reconnecting THEN "auth_send" ELSE "log_connect"]
  BY <1>1 DEF ConnectSucceeds
<1>3. proc'[p].sock = d /\ proc'[p].pc \in {"auth_send", "log_connect"}
  BY <1>1, <1>2 DEF Process
<1>4. /\ conn[c].link = "none" /\ conn[c] \in Connection
      /\ conn'[c] = [conn[c] EXCEPT !.link = "backlog", !.clientOpen = TRUE]
  BY <1>1, <1>2, <1>3 DEF ClientConnects, Update
<1>5. conn'[c].down = conn[c].down BY <1>4 DEF Connection
<1>6. replied[c] = <<>> /\ pending[c] = <<>> /\ conn'[c].down = <<>>
  BY <1>4, <1>5 DEF FollowInv, Untouched
<1>7. Heard(proc'[p]) = <<>> /\ Turn(proc'[p]) = 0
  BY <1>3 DEF Heard, Turn, Opening
<1>8. <<>> \o (<<>> \o <<>>) = <<>>
  <2>1. <<>> \in Seq(Cell) OBVIOUS
  <2> QED BY <2>1, ConcatEmptySeq
<1> QED BY <1>3, <1>6, <1>7, <1>8, RestOfNone DEF Follows, Going

\* The reply OK is the frame OK: its header announced as much as it holds.
LEMMA ReplyFollows ==
    ASSUME OpenClientInv, FollowInv, NEW p \in Clients, ReplyOK(p),
           NEW c \in Conns, proc'[p].sock = c
    PROVE  Follows(proc'[p], conn'[c], pending[c], replied[c])
<1> DEFINE t == proc[p]
           u == proc'[p]
           s == replied[c]
           w == pending[c]
<1>1. /\ t \in Process /\ \A r : Becomes(p, r) => u = r
      /\ s \in Seq(Frames) /\ OneConnection(t)
  BY AtClient DEF OpenClientInv, ClientInv, ClientTypeOK, EnvTypeOK, Becomes, FollowInv
<1>2. t.pc = "check_reply" /\ t.buf = <<Bytes("OK")>> /\ conn' = conn
  BY DEF ReplyOK, MainAt, netVars
<1>3. u.sock = t.sock /\ (t.reconnecting \/ u.pc = "packet")
  BY <1>1 DEF ReplyOK, Process
<1>4. t.sock = c /\ u.pc = "packet"
  BY <1>1, <1>3 DEF OneConnection
<1>5. Follows(t, conn[c], w, s) BY <1>4 DEF FollowInv, FollowsOn
<1>6. Given(w, s, 1, AckOf(t)) BY <1>2, <1>5 DEF Follows
<1>7. AckOf(t) = AuthAck(TRUE)
  <2>1. AckOf(t) \in WholeFrames
    <3>1. Len(s) \in Nat /\ 1 \in 1..Len(s)
      BY <1>1, <1>6, LenProperties DEF Given
    <3>2. s[1] \in Frames BY <1>1, <3>1, ElementOfSeq
    <3> QED BY <1>6, <3>2, RepliesAreFrames DEF Given
  <2>2. /\ AckOf(t)[1] = Header("PKT_AUTH_ACK", t.size) /\ Len(AckOf(t)) = Len(t.buf) + 1
        /\ t.size \in Nat
    BY <1>1, HeardTypes DEF Process
  <2>3. Header("PKT_AUTH_ACK", t.size).num = t.size /\ Len(t.buf) = 1 BY <1>2 DEF Header
  <2> DEFINE a == AckOf(t)
  <2>4. a[1].num = Len(a) - 1 BY <2>1 DEF WholeFrames
  <2> HIDE DEF a
  <2>5. t.size = 1 BY <2>2, <2>3, <2>4 DEF a
  <2> DEFINE x == Header("PKT_AUTH_ACK", 1)
             b == <<Bytes("OK")>>
             y == <<x>> \o b
             z == AuthAck(TRUE)
  <2>6. y = AckOf(t) BY <1>2, <2>5 DEF AckOf
  <2>7. x \in Cell /\ b \in Seq(Cell) /\ Len(b) = 1 /\ b[1] = Bytes("OK")
    <3>1. x \in Cell /\ Bytes("OK") \in Cell BY CellTypes DEF PacketTypes, Texts
    <3> QED BY <3>1
  <2>8. z \in Seq(Cell) /\ Len(z) = 2 /\ z[1] = x /\ z[2] = Bytes("OK")
    BY <2>7, ReplyTypes DEF AuthAck
  <2> HIDE DEF x, b
  <2>9. /\ y \in Seq(Cell) /\ Len(y) = Len(b) + 1 /\ y[1] = x
        /\ \A i \in 1..Len(b) : y[i + 1] = b[i]
    BY <2>7, CellBehind
  <2> HIDE DEF y, z
  <2>10. Len(y) = 2 /\ y[2] = Bytes("OK") BY <2>7, <2>9
  <2>11. \A i \in 1..Len(y) : y[i] = z[i]
    <3>1. \A i \in 1..Len(y) : i = 1 \/ i = 2 BY <2>10
    <3> QED BY <2>8, <2>9, <2>10, <3>1
  <2>12. y = z BY <2>8, <2>9, <2>10, <2>11, SeqEqual
  <2> QED BY <2>6, <2>12 DEF z
<1>8. conn[c].link # "broken" => Rest(<<>> \o (conn[c].down \o w), s, 1)
  BY <1>2, <1>5 DEF Follows, Heeds, Attentive, Heard, Turn, Opening
<1>9. Heard(u) = <<>> /\ Turn(u) = 1 BY <1>4 DEF Heard, Turn, Opening
<1> HIDE DEF u, s, w
<1>10. Follows(u, conn'[c], w, s)
  BY <1>2, <1>4, <1>6, <1>7, <1>8, <1>9 DEF Follows, Heeds, Attentive
<1> QED BY <1>10 DEF u, s, w

\* Main's own connection after a step of main.
LEMMA MainFollows ==
    ASSUME OpenClientInv, FollowInv, NEW p \in Clients, ClientStep(p) \/ ClientCrash(p),
           NEW c \in Conns, proc'[p].sock = c
    PROVE  Follows(proc'[p], conn'[c], pending[c], replied[c])
<1>1. ClientInv /\ OneConnection(proc[p]) BY DEF OpenClientInv, FollowInv
<1>2. CASE proc'[p].pc \notin Attentive \cup {"unexpected", "got_data"}
  BY <1>2, FollowsElsewhere
<1>3. CASE GoesAlong(p)
  <2>1. proc[p].sock = c BY <1>3 DEF GoesAlong
  <2>2. Follows(proc[p], conn[c], pending[c], replied[c])
    BY <2>1 DEF FollowInv, FollowsOn
  <2>3. conn'[c].link # "broken" => conn[c].link # "broken" /\ conn'[c].down = conn[c].down
    BY <1>3, <2>1 DEF GoesAlong, Quiet
  <2>4. \/ proc[p].pc \in Opening /\ proc'[p].pc \in Opening
        \/ proc[p].pc \in Going /\ proc'[p].pc \in Going
    BY <1>3 DEF GoesAlong
  <2> QED BY <2>2, <2>3, <2>4, FollowsAlike
<1>4. CASE ConnectSucceeds(p) BY <1>4, ConnectingFollows
<1>5. CASE ReplyOK(p) BY <1>5, ReplyFollows
<1>6. CASE ReadAck(p) \/ ReadReply(p) \/ ReadResponse(p) \/ ReadDataset(p)
  BY <1>6, ReadingFollows
<1> QED BY <1>1, <1>2, <1>3, <1>4, <1>5, <1>6, MainMoves

\* A process that has ended takes no step.
LEMMA OnlyRunningStep ==
    ASSUME NEW p \in Clients, ClientStep(p) \/ ClientCrash(p) PROVE ~ClientEnded(p)
<1>1. CASE Connecting(p)
  BY <1>1
  DEF Connecting, ClientStartup, ClosePrevious, NoSocket, Attempting, ConnectSucceeds, ConnectFails, AttemptsExhausted,
      ClientLogConnect, SendAuth, AuthCallFails, ReadAck, ReadReply, ReadReplyFails, ReplyOK,
      ReplyRejected, NotAuthenticated, Trying, MainAt, ClientEnded
<1>2. CASE SendingTelemetry(p)
  BY <1>2
  DEF SendingTelemetry, BuildPacket, SendPacket, SendPacketFails, LogSend, LogSendFailed,
      CleanupAndReconnect, Resend, ResendFails, MainAt, ClientEnded
<1>3. CASE Finishing(p)
  BY <1>3
  DEF Finishing, RequestDataset, SendRequest, ReadResponse, ReadDataset, RequestFails,
      GotDataset, Bye, Leave, MainAt, ClientEnded
<1> QED BY <1>1, <1>2, <1>3 DEF ClientStep, ClientCrash

\* A client's step leaves the connections of the other clients alone.
LEMMA OthersConnections ==
    ASSUME ClientInv, NEW p \in Clients, ClientStep(p) \/ ClientCrash(p),
           NEW q \in Clients \ {p}, ~ClientEnded(q), NEW c \in Conns, proc[q].sock = c
    PROVE  conn'[c] = conn[c]
<1>1. conn \in [Conns -> Connection] BY DEF ClientInv, NetTypeOK
<1>2. conn[c].link # "none" BY DEF ClientInv, SocketOwned, UnusedIsClosed
<1>3. proc[p].sock # c BY OnlyRunningStep DEF ClientInv, SocketOwned
<1>4. ASSUME NEW d \in Conns, d # c, NEW r, Update(d, r) PROVE conn'[c] = conn[c]
  BY <1>1, <1>4 DEF Update
<1>5. CASE UNCHANGED netVars BY <1>5 DEF netVars
<1>6. ASSUME NEW d \in Conns, ClientConnects(d) PROVE conn'[c] = conn[c]
  BY <1>2, <1>4, <1>6 DEF ClientConnects
<1>7. ASSUME proc[p].sock \in Conns, NEW cell,
             \/ ClientSends(proc[p].sock, cell) \/ ClientTakes(proc[p].sock)
             \/ ClientCloses(proc[p].sock) \/ ClientDies(proc[p].sock)
      PROVE  conn'[c] = conn[c]
  BY <1>3, <1>4, <1>5, <1>7 DEF ClientSends, ClientTakes, ClientCloses, ClientDies
<1> QED BY <1>5, <1>6, <1>7, ClientLocal DEF OnOwnSocket

\* A client sends nothing in the server's name.
LEMMA ClientLeavesUntouched ==
    ASSUME NetTypeOK, NEW p \in Clients, OnOwnSocket(p), NEW c \in Conns,
           NEW w, NEW s, Untouched(conn[c], w, s)
    PROVE  Untouched(conn'[c], w, s)
<1>1. conn \in [Conns -> Connection] /\ conn[c] \in Connection BY DEF NetTypeOK
<1>2. \A d \in Conns : \A r : Update(d, r) => conn'[c] = IF d = c THEN r ELSE conn[c]
  BY <1>1 DEF Update
<1>3. CASE UNCHANGED netVars BY <1>3 DEF netVars
<1>4. /\ ResetOf(conn[c]).link = "broken"
      /\ ResetOf([conn[c] EXCEPT !.clientOpen = FALSE]).link = "broken"
  <2>1. [conn[c] EXCEPT !.clientOpen = FALSE] \in Connection BY <1>1 DEF Connection
  <2> QED BY <1>1, <2>1, ResetParts
<1>5. /\ \A up : [conn[c] EXCEPT !.up = up].link = conn[c].link
      /\ \A up : [conn[c] EXCEPT !.up = up].down = conn[c].down
      /\ \A up : [conn[c] EXCEPT !.up = up].serverOpen = conn[c].serverOpen
      /\ [conn[c] EXCEPT !.clientOpen = FALSE].link = conn[c].link
      /\ [conn[c] EXCEPT !.clientOpen = FALSE].down = conn[c].down
      /\ [conn[c] EXCEPT !.clientOpen = FALSE].serverOpen = conn[c].serverOpen
      /\ [conn[c] EXCEPT !.link = "backlog", !.clientOpen = TRUE].down = conn[c].down
      /\ [conn[c] EXCEPT !.link = "backlog", !.clientOpen = TRUE].serverOpen = conn[c].serverOpen
      /\ \A down : [conn[c] EXCEPT !.down = down].link = conn[c].link
  BY <1>1 DEF Connection
<1>6. ASSUME NEW d \in Conns, ClientConnects(d) PROVE Untouched(conn'[c], w, s)
  BY <1>2, <1>5, <1>6 DEF ClientConnects, Untouched
<1>7. ASSUME NEW d \in Conns, NEW cell \in Cell,
             ClientSends(d, cell) \/ ClientTakes(d) \/ ClientCloses(d) \/ ClientDies(d)
      PROVE  Untouched(conn'[c], w, s)
  <2>1. CASE d # c
    BY <1>2, <1>3, <1>7, <2>1 DEF ClientSends, ClientTakes, ClientCloses, ClientDies
  <2>2. CASE d = c /\ ClientTakes(d)
    <3>1. /\ conn[c].down # <<>>
          /\ conn'[c] = [conn[c] EXCEPT !.down = Tail(conn[c].down)]
      BY <1>2, <2>2 DEF ClientTakes
    <3>2. conn'[c].link = conn[c].link BY <1>1, <3>1 DEF Connection
    <3> QED BY <3>1, <3>2 DEF Untouched
  <2>3. CASE d = c /\ ClientSends(d, cell)
    <3>1. CASE Update(c, ResetOf(conn[c])) BY <1>2, <1>4, <3>1 DEF Untouched
    <3>2. CASE Update(c, [conn[c] EXCEPT !.up = Append(@, cell)])
      <4>1. conn'[c] = [conn[c] EXCEPT !.up = Append(conn[c].up, cell)] BY <1>2, <3>2
      <4>2. /\ conn'[c].link = conn[c].link /\ conn'[c].down = conn[c].down
            /\ conn'[c].serverOpen = conn[c].serverOpen
        BY <1>1, <4>1 DEF Connection
      <4> QED BY <4>2 DEF Untouched
    <3> QED BY <1>3, <2>3, <3>1, <3>2 DEF ClientSends
  <2>4. CASE d = c /\ (ClientCloses(d) \/ ClientDies(d))
    BY <1>2, <1>4, <1>5, <2>4 DEF ClientCloses, ClientDies, Untouched
  <2> QED BY <1>7, <2>1, <2>2, <2>3, <2>4
<1> QED BY <1>3, <1>6, <1>7 DEF OnOwnSocket

LEMMA ClientFollows ==
    ASSUME OtherWsaRefs = 0, OpenClientInv, FollowInv, NEW p \in Clients,
           ClientStep(p) \/ ClientCrash(p), UNCHANGED envVars
    PROVE  FollowInv'
<1>1. /\ ClientInv /\ NetTypeOK /\ proc \in [Clients -> Process]
      /\ pending' = pending /\ replied' = replied
      /\ OneConnection(proc[p])
  BY DEF OpenClientInv, ClientInv, ClientTypeOK, envVars, FollowInv
<1>2. OnOwnSocket(p) /\ \A q \in Clients \ {p} : proc'[q] = proc[q]
  BY <1>1, ClientLocal DEF OwnRecord, Becomes
<1>3. \A q \in Clients : OneConnection(proc'[q])
  BY <1>1, <1>2, OneConnectionStep DEF FollowInv
<1>4. \A c \in Conns : Untouched(conn'[c], pending'[c], replied'[c])
  BY <1>1, <1>2, ClientLeavesUntouched DEF FollowInv
<1>5. ASSUME NEW q \in Clients, NEW c \in Conns, proc'[q].sock = c
      PROVE  Follows(proc'[q], conn'[c], pending[c], replied[c])
  <2>1. CASE q = p BY <1>5, <2>1, MainFollows
  <2>2. CASE q # p
    <3>1. proc'[q] = proc[q] /\ Follows(proc[q], conn[c], pending[c], replied[c])
      BY <1>2, <1>5, <2>2 DEF FollowInv, FollowsOn
    <3>2. CASE ClientEnded(q)
      <4>1. proc'[q].pc \notin Attentive \cup {"unexpected", "got_data"}
        BY <3>1, <3>2 DEF ClientEnded, Attentive, Opening, Going
      <4> QED BY <4>1, FollowsElsewhere
    <3>3. CASE ~ClientEnded(q)
      <4>1. conn'[c] = conn[c] BY <1>1, <1>5, <2>2, <3>1, <3>3, OthersConnections
      <4> QED BY <3>1, <4>1
    <3> QED BY <3>2, <3>3
  <2> QED BY <2>1, <2>2
<1> QED BY <1>1, <1>3, <1>4, <1>5 DEF FollowInv, FollowsOn

-----------------------------------------------------------------------------
(***************************************************************************)
(* The steps of the server and the link.                                   *)
(***************************************************************************)
\* Steps of a server that sends nothing.
LEMMA NothingSent ==
    ASSUME FollowInv, UNCHANGED <<proc, pending, replied>>,
           \A c \in Conns : /\ Quiet(conn[c], conn'[c])
                            /\ Untouched(conn'[c], pending[c], replied[c])
    PROVE  FollowInv'
<1>1. ASSUME NEW p \in Clients, NEW c \in Conns, proc[p].sock = c
      PROVE  Follows(proc[p], conn'[c], pending[c], replied[c])
  <2>1. Follows(proc[p], conn[c], pending[c], replied[c])
    BY <1>1 DEF FollowInv, FollowsOn
  <2>2. conn'[c].link # "broken" => conn[c].link # "broken" /\ conn'[c].down = conn[c].down
    BY DEF Quiet
  <2> QED BY <2>1, <2>2, FollowsAlike
<1> QED BY <1>1 DEF FollowInv, FollowsOn

\* One connection changes.
LEMMA OneChanged ==
    ASSUME NetTypeOK, FollowInv, NEW c \in Conns, NEW r, Update(c, r),
           Quiet(conn[c], r), Untouched(r, pending[c], replied[c]),
           UNCHANGED <<proc, pending, replied>>
    PROVE  FollowInv'
<1>1. \A d \in Conns : conn'[d] = IF d = c THEN r ELSE conn[d]
  BY DEF NetTypeOK, Update
<1>2. \A d \in Conns : Quiet(conn[d], conn[d]) BY DEF Quiet
<1>3. \A d \in Conns : Untouched(conn[d], pending[d], replied[d]) BY DEF FollowInv
<1> QED BY <1>1, <1>2, <1>3, NothingSent

\* A reset disturbs nobody.
LEMMA ResetQuietly ==
    ASSUME NEW r \in Connection, NEW q, NEW w, NEW s
    PROVE  Quiet(q, ResetOf(r)) /\ Untouched(ResetOf(r), w, s)
BY ResetParts DEF Quiet, Untouched

\* accept, recv and closesocket of the server, and the failing link.
LEMMA ServerSendsNothing ==
    ASSUME NetTypeOK, FollowInv, NEW c \in Conns,
           \/ ServerAccepts(c) \/ Break(c)
           \/ conn[c].serverOpen /\ (ServerTakes(c) \/ ServerCloses(c)),
           UNCHANGED <<proc, pending, replied>>
    PROVE  FollowInv'
<1>1. conn[c] \in Connection /\ Untouched(conn[c], pending[c], replied[c])
  BY DEF NetTypeOK, FollowInv
<1>2. CASE ServerAccepts(c)
  <2> DEFINE r == [conn[c] EXCEPT !.link = "open", !.serverOpen = TRUE]
  <2>1. r.link = "open" /\ r.down = conn[c].down BY <1>1 DEF Connection
  <2>2. Update(c, r) /\ conn[c].link # "broken" BY <1>2 DEF ServerAccepts
  <2> HIDE DEF r
  <2>3. Quiet(conn[c], r) /\ Untouched(r, pending[c], replied[c])
    BY <2>1, <2>2 DEF Quiet, Untouched
  <2> QED BY <2>2, <2>3, OneChanged
<1>3. CASE Break(c) BY <1>1, <1>3, ResetQuietly, OneChanged DEF Break
<1>4. CASE conn[c].serverOpen /\ ServerTakes(c)
  <2> DEFINE r == [conn[c] EXCEPT !.up = Tail(@)]
  <2>1. r.link = conn[c].link /\ r.down = conn[c].down BY <1>1 DEF Connection
  <2>2. Update(c, r) /\ conn[c].link = "open" BY <1>4 DEF ServerTakes
  <2> HIDE DEF r
  <2>3. Quiet(conn[c], r) /\ Untouched(r, pending[c], replied[c])
    BY <2>1, <2>2 DEF Quiet, Untouched
  <2> QED BY <2>2, <2>3, OneChanged
<1>5. CASE conn[c].serverOpen /\ ServerCloses(c)
  <2> DEFINE r == [conn[c] EXCEPT !.serverOpen = FALSE]
  <2>1. r \in Connection /\ r.link = conn[c].link /\ r.down = conn[c].down
    BY <1>1 DEF Connection
  <2>2. Update(c, ResetOf(r)) \/ Update(c, r) BY <1>5 DEF ServerCloses
  <2>3. conn[c].link \notin {"none", "backlog"} BY <1>1, <1>5 DEF Untouched
  <2> HIDE DEF r
  <2>4. Quiet(conn[c], r) /\ Untouched(r, pending[c], replied[c])
    BY <2>1, <2>3 DEF Quiet, Untouched
  <2> QED BY <2>1, <2>2, <2>4, ResetQuietly, OneChanged
<1> QED BY <1>2, <1>3, <1>4, <1>5

\* The server begins a frame.
LEMMA BeginsFollowed ==
    ASSUME OpenClientInv, FollowInv, NEW c \in Conns, NEW f \in Frames, EnvBegins(c, f)
    PROVE  FollowInv'
<1>1. /\ pending[c] = <<>> /\ conn[c].serverOpen
      /\ conn' = conn /\ proc' = proc
      /\ \A d \in Conns : pending'[d] = IF d = c THEN f ELSE pending[d]
      /\ \A d \in Conns : replied'[d] = IF d = c THEN Append(replied[c], f) ELSE replied[d]
  BY DEF EnvBegins, netVars, OpenClientInv, EnvTypeOK
<1>2. replied[c] \in Seq(Frames) /\ conn[c].down \in Seq(Cell)
  BY DEF OpenClientInv, EnvTypeOK, ClientInv, NetTypeOK, Connection
<1>3. ASSUME NEW p \in Clients, NEW d \in Conns, proc[p].sock = d
      PROVE  Follows(proc[p], conn[d], pending'[d], replied'[d])
  <2>1. Follows(proc[p], conn[d], pending[d], replied[d])
    BY <1>3 DEF FollowInv, FollowsOn
  <2>2. CASE d # c BY <1>1, <2>1, <2>2
  <2>3. CASE d = c
    <3>1. proc[p] \in Process BY DEF OpenClientInv, ClientInv, ClientTypeOK
    <3>2. Follows(proc[p], conn[c], <<>>, replied[c]) BY <1>1, <2>1, <2>3
    <3>3. Follows(proc[p], conn[c], f, Append(replied[c], f))
      BY <1>2, <3>1, <3>2, FollowsBegun
    <3> QED BY <1>1, <2>3, <3>3
  <2> QED BY <2>2, <2>3
<1>4. \A d \in Conns : Untouched(conn[d], pending'[d], replied'[d])
  BY <1>1 DEF FollowInv, Untouched
<1> QED BY <1>1, <1>3, <1>4 DEF FollowInv, FollowsOn

\* The server sends a cell: a client that may still read has its end open.
LEMMA SendingFollowed ==
    ASSUME OpenClientInv, FollowInv, NEW c \in Conns, EnvSends(c)
    PROVE  FollowInv'
<1>1. /\ pending[c] # <<>> /\ conn[c].serverOpen /\ conn[c].link = "open"
      /\ ServerSends(c, Head(pending[c]))
      /\ proc' = proc /\ replied' = replied
      /\ \A d \in Conns : pending'[d] = IF d = c THEN Tail(pending[c]) ELSE pending[d]
  BY DEF EnvSends, ServerSends, OpenClientInv, EnvTypeOK
<1>2. /\ pending[c] \in Seq(Cell) /\ conn \in [Conns -> Connection] /\ conn[c] \in Connection
      /\ conn[c].down \in Seq(Cell)
  BY DEF OpenClientInv, EnvTypeOK, ClientInv, NetTypeOK, Connection
<1> DEFINE sent == [conn[c] EXCEPT !.down = Append(conn[c].down, Head(pending[c]))]
<1>3. \/ ~ClientGone(c) /\ Update(c, sent)
      \/ ClientGone(c) /\ (UNCHANGED netVars \/ Update(c, ResetOf(conn[c])))
  BY <1>1 DEF ServerSends
<1>4. sent.link = "open" /\ sent.down = Append(conn[c].down, Head(pending[c]))
  BY <1>1, <1>2 DEF Connection
<1> HIDE DEF sent
<1>5. \A r : Update(c, r) => \A d \in Conns : conn'[d] = IF d = c THEN r ELSE conn[d]
  BY <1>2 DEF Update
<1>6. \A d \in Conns \ {c} : conn'[d] = conn[d] BY <1>3, <1>5 DEF netVars
<1>7. conn'[c].link \in {"open", "broken"}
  <2>1. ResetOf(conn[c]).link = "broken" BY <1>2, ResetParts
  <2> QED BY <1>1, <1>3, <1>4, <1>5, <2>1 DEF netVars
<1>8. ASSUME NEW p \in Clients, NEW d \in Conns, proc[p].sock = d
      PROVE  Follows(proc[p], conn'[d], pending'[d], replied[d])
  <2>1. Follows(proc[p], conn[d], pending[d], replied[d])
    BY <1>8 DEF FollowInv, FollowsOn
  <2>2. CASE d # c BY <1>1, <1>6, <2>1, <2>2
  <2>3. CASE d = c
    <3>1. ASSUME Heeds(proc[p])
          PROVE  conn'[c].link # "broken" /\ conn'[c].down = Append(conn[c].down, Head(pending[c]))
      <4>1. ~ClientEnded(p) BY <3>1 DEF ClientEnded, Heeds, Attentive, Opening, Going
      <4>2. conn[c].clientOpen BY <1>8, <2>3, <4>1 DEF OpenClientInv, ClientInv, SocketOwned
      <4>3. ~ClientGone(c) BY <4>2 DEF ClientGone
      <4> QED BY <1>3, <1>4, <1>5, <4>3
    <3>2. Follows(proc[p], conn[c], pending[c], replied[c]) BY <2>1, <2>3
    <3>3. conn[c].link # "broken" BY <1>1
    <3>4. Follows(proc[p], conn'[c], Tail(pending[c]), replied[c])
      BY <1>1, <1>2, <3>1, <3>2, <3>3, FollowsSent
    <3> QED BY <1>1, <2>3, <3>4
  <2> QED BY <2>2, <2>3
<1>9. ASSUME NEW d \in Conns PROVE Untouched(conn'[d], pending'[d], replied[d])
  <2>1. CASE d = c BY <1>7, <2>1 DEF Untouched
  <2>2. CASE d # c BY <1>1, <1>6, <2>2 DEF FollowInv
  <2> QED BY <2>1, <2>2
<1> QED BY <1>1, <1>8, <1>9 DEF FollowInv, FollowsOn

LEMMA EnvFollows ==
    ASSUME OpenClientInv, FollowInv, Env PROVE FollowInv'
<1>0. NetTypeOK /\ conn \in [Conns -> Connection]
  BY DEF OpenClientInv, ClientInv, NetTypeOK
<1>1. \A c \in Conns : Untouched(conn[c], pending[c], replied[c]) BY DEF FollowInv
<1>2. CASE EnvListen
  <2>1. \A c \in Conns : Quiet(conn[c], conn'[c]) BY <1>2 DEF EnvListen, Quiet
  <2> QED BY <1>1, <1>2, <2>1, NothingSent DEF EnvListen
<1>3. CASE EnvStops
  <2>1. ASSUME NEW c \in Conns
        PROVE  Quiet(conn[c], conn'[c]) /\ Untouched(conn'[c], pending[c], replied[c])
    <3>1. conn'[c] = conn[c] \/ conn'[c] = ResetOf(conn[c])
      BY <1>3 DEF EnvStops, ServerSocketsGone
    <3>2. CASE conn'[c] = conn[c] BY <1>1, <3>2 DEF Quiet
    <3>3. CASE conn'[c] = ResetOf(conn[c]) BY <1>0, <3>3, ResetQuietly
    <3> QED BY <3>1, <3>2, <3>3
  <2> QED BY <1>3, <2>1, NothingSent DEF EnvStops, envVars
<1>4. ASSUME NEW c \in Conns, EnvAccepts(c) \/ EnvReads(c) \/ EnvCloses(c) \/ LinkBreaks(c)
      PROVE  FollowInv'
  BY <1>0, <1>4, ServerSendsNothing DEF EnvAccepts, EnvReads, EnvCloses, LinkBreaks, envVars
<1>5. ASSUME NEW c \in Conns, NEW f \in Frames, EnvBegins(c, f) PROVE FollowInv'
  BY <1>5, BeginsFollowed
<1>6. ASSUME NEW c \in Conns, EnvSends(c) PROVE FollowInv'
  BY <1>6, SendingFollowed
<1> QED BY <1>2, <1>3, <1>4, <1>5, <1>6 DEF Env

-----------------------------------------------------------------------------
LEMMA FollowsInitially ==
    ASSUME OtherWsaRefs = 0, Init PROVE FollowInv
<1>1. \A p \in Clients : OneConnection(proc[p]) BY OneConnectionInitially DEF Init
<1>2. \A p \in Clients : proc[p].sock \notin Conns
  BY ClientAssumption DEF Init, ClientInit
<1>3. \A c \in Conns : Untouched(conn[c], pending[c], replied[c])
  BY DEF Init, NetInit, Untouched
<1> QED BY <1>1, <1>2, <1>3 DEF FollowInv, FollowsOn

\* main_client.exe follows the frames of its server.
LEMMA FollowingInvariant == ASSUME OtherWsaRefs = 0 PROVE Spec => []FollowInv
<1>1. Init => FollowInv BY FollowsInitially
<1>2. OpenClientInv /\ FollowInv /\ [Next]_vars => FollowInv'
  <2> SUFFICES ASSUME OpenClientInv, FollowInv, [Next]_vars PROVE FollowInv'
    OBVIOUS
  <2>1. ASSUME NEW p \in Clients, ClientStep(p) \/ ClientCrash(p), UNCHANGED envVars
        PROVE  FollowInv'
    BY <2>1, ClientFollows
  <2>2. CASE Env BY <2>2, EnvFollows
  <2>3. CASE UNCHANGED vars
    BY <2>3 DEF FollowInv, FollowsOn, vars, netVars, envVars
  <2> QED BY <2>1, <2>2, <2>3 DEF Next, Quiescent
<1> QED BY <1>1, <1>2, OpenClientInvariant, PTL DEF Spec

\* main_client.exe reports fuel and asks for the dataset only over a
\* connection whose server has sent it the whole reply OK (REQ-SVR-020),
\* whatever the server sends before and after, and however often sends fail.
\* With WSAStartups of its own left over a client would reconnect, and go on
\* sending after a rejection.
THEOREM SendsAfterAcceptance ==
    ASSUME OtherWsaRefs = 0 PROVE Spec => []SendsOnlyWhenAccepted
<1>1. FollowInv => SendsOnlyWhenAccepted
  BY DEF FollowInv, FollowsOn, Follows, Given, Going, SendsOnlyWhenAccepted, Replied
<1> QED BY <1>1, FollowingInvariant, PTL

\* A dataset is complete at the end of a reading, on the socket it came from.
DatasetsOnSockets == \A p \in Clients : MainAt(p, "got_data") => proc[p].sock \in Conns

LEMMA DatasetsReadOnSockets ==
    ASSUME OpenClientInv, FollowInv, DatasetsOnSockets,
           NEW p \in Clients, ClientStep(p) \/ ClientCrash(p)
    PROVE  DatasetsOnSockets'
<1>1. /\ ClientInv /\ OneConnection(proc[p])
      /\ proc \in [Clients -> Process] /\ proc[p] \in Process
      /\ \A r : Becomes(p, r) => proc'[p] = r
  BY AtClient DEF OpenClientInv, ClientInv, ClientTypeOK, FollowInv, Becomes
<1>2. \A q \in Clients \ {p} : proc'[q] = proc[q]
  BY <1>1, ClientLocal DEF OwnRecord, Becomes
<1>3. CASE proc'[p].pc # "got_data" BY <1>2, <1>3 DEF DatasetsOnSockets, MainAt
<1>4. CASE ReadAck(p) \/ ReadReply(p) \/ ReadResponse(p) \/ ReadDataset(p)
  <2>1. proc'[p].sock \in Conns
    BY <1>1, <1>4
    DEF ReadAck, ReadReply, ReadResponse, ReadDataset, ReadsHeader, ReadsPayload, Process
  <2> QED BY <1>2, <2>1 DEF DatasetsOnSockets, MainAt
<1>5. GoesAlong(p) \/ ConnectSucceeds(p) \/ ReplyOK(p) => proc'[p].pc # "got_data"
  <2>1. GoesAlong(p) => proc'[p].pc \in Opening \cup Going BY DEF GoesAlong
  <2>2. ConnectSucceeds(p) => proc'[p].pc \in {"auth_send", "log_connect"}
    <3> SUFFICES ASSUME ConnectSucceeds(p) PROVE proc'[p].pc \in {"auth_send", "log_connect"}
      OBVIOUS
    <3>1. PICK c \in Conns, pc \in {"auth_send", "log_connect"} :
            proc'[p] = [proc[p] EXCEPT !.sock = c, !.sockets = @ + 1, !.attempts = 0,
                                       !.out = AuthRequest(TOKEN), !.pc = pc]
      BY <1>1 DEF ConnectSucceeds
    <3> QED BY <1>1, <3>1 DEF Process
  <2>3. ASSUME ReplyOK(p) PROVE proc'[p].pc \in {"packet", "resend"}
    <3>1. \/ proc'[p] = [proc[p] EXCEPT !.pc = "packet"]
          \/ \E out : proc'[p] = [proc[p] EXCEPT !.pc = "resend", !.out = out]
      BY <1>1, <2>3 DEF ReplyOK
    <3> QED BY <1>1, <3>1 DEF Process
  <2> QED BY <2>1, <2>2, <2>3 DEF Opening, Going
<1>6. proc'[p].pc \notin Attentive \cup {"unexpected", "got_data"} => proc'[p].pc # "got_data"
  OBVIOUS
<1> QED BY <1>1, <1>3, <1>4, <1>5, <1>6, MainMoves

\* A dataset main_client.exe prints as complete is the second frame its
\* server sent, of the length its header announced and not a byte of any
\* other frame, for every length recvAll can be given.
THEOREM DatasetsAreComplete ==
    ASSUME OtherWsaRefs = 0 PROVE Spec => []DatasetComplete
<1>1. Init => DatasetsOnSockets
  BY DEF Init, ClientInit, DatasetsOnSockets, MainAt
<1>2. OpenClientInv /\ FollowInv /\ DatasetsOnSockets /\ [Next]_vars => DatasetsOnSockets'
  <2> SUFFICES ASSUME OpenClientInv, FollowInv, DatasetsOnSockets, [Next]_vars
               PROVE  DatasetsOnSockets'
    OBVIOUS
  <2>1. ASSUME NEW p \in Clients, ClientStep(p) \/ ClientCrash(p) PROVE DatasetsOnSockets'
    BY <2>1, DatasetsReadOnSockets
  <2>2. CASE UNCHANGED proc BY <2>2 DEF DatasetsOnSockets, MainAt
  <2>3. Env => UNCHANGED proc
    BY DEF Env, EnvListen, EnvStops, EnvAccepts, EnvReads, EnvBegins, EnvSends, EnvCloses,
           LinkBreaks
  <2> QED BY <2>1, <2>2, <2>3 DEF Next, Quiescent, vars
<1>3. OpenClientInv /\ FollowInv /\ DatasetsOnSockets => DatasetComplete
  <2> SUFFICES ASSUME FollowInv, DatasetsOnSockets, NEW p \in Clients, MainAt(p, "got_data"),
                      proc[p].size <= INT_MAX
               PROVE  Replied(proc[p].sock, 2, DataOf(proc[p]))
    BY DEF DatasetComplete, DataOf
  <2>1. proc[p].sock \in Conns BY DEF DatasetsOnSockets
  <2> QED BY <2>1 DEF FollowInv, FollowsOn, Follows, Given, Replied, MainAt
<1> QED BY <1>1, <1>2, <1>3, FollowingInvariant, OpenClientInvariant, PTL DEF Spec
=============================================================================
