--------------------------- MODULE NetworkProofs ---------------------------
(***************************************************************************)
(* What travels and the records of connections are typed, whatever either  *)
(* side does: the lemmas that the proofs about the server (ServerProofs)   *)
(* and the client (ClientProofs) share.                                    *)
(***************************************************************************)
EXTENDS Network, Selections, FiniteSetTheorems, SequenceTheorems, TLAPS

-----------------------------------------------------------------------------
(***************************************************************************)
(* Cells and headers.                                                      *)
(***************************************************************************)
\* Every constructor of module Packets makes a cell.
LEMMA CellTypes ==
    /\ \A t \in PacketTypes, n \in Nat : Header(t, n) \in Cell
    /\ \A n \in Nat : Telemetry(n) \in Cell
    /\ \A s \in Texts : Bytes(s) \in Cell
BY DEF Cell, CellKinds, Texts, PacketTypes, Header, Telemetry, Bytes

\* What recvAll reads of a payload is its size or nothing.
LEMMA RecvLengths ==
    \A size \in Nat :
        /\ recvLength(size) \in Nat
        /\ size <= INT_MAX => recvLength(size) = size
        /\ recvLength(size) > 0 => size <= INT_MAX /\ recvLength(size) = size
BY PacketsAssumption DEF recvLength

\* What a stream of cells reads as where a header is due is a cell.
LEMMA HeadersInCell ==
    ASSUME NEW s \in Seq(Cell), NEW h \in HeadersIn(s) PROVE h \in Cell
<1>1. CASE s = <<>>
  BY <1>1 DEF HeadersIn
<1>2. CASE s # <<>> /\ Head(s).kind = "header"
  BY <1>2 DEF HeadersIn
<1>3. CASE s # <<>> /\ Head(s).kind # "header"
  BY <1>3, CellTypes, PacketsAssumption DEF HeadersIn
<1> QED BY <1>1, <1>2, <1>3

\* The replies are sequences of cells and not empty.
LEMMA ReplyTypes ==
    /\ \A ok \in BOOLEAN : AuthAck(ok) \in Seq(Cell) \ {<<>>}
    /\ DataResponse \in Seq(Cell) \ {<<>>}
<1>1. \A ok \in BOOLEAN : AuthAck(ok) \in Seq(Cell) \ {<<>>}
  <2> TAKE ok \in BOOLEAN
  <2>1. Header("PKT_AUTH_ACK", 1) \in Cell /\ Bytes(IF ok THEN "OK" ELSE "FAIL") \in Cell
    BY CellTypes DEF PacketTypes, Texts
  <2> QED BY <2>1 DEF AuthAck
<1>2. DataResponse \in Seq(Cell) \ {<<>>}
  <2>1. [i \in 1..DatasetSize |-> Bytes("row")] \in Seq(Cell)
    <3>1. Bytes("row") \in Cell
      BY CellTypes DEF Texts
    <3> QED BY <3>1, PacketsAssumption, SeqDef
  <2>2. <<Header("PKT_DATA_RESPONSE", DatasetSize)>> \in Seq(Cell)
    BY CellTypes, PacketsAssumption DEF PacketTypes
  <2> QED BY <2>1, <2>2 DEF DataResponse
<1> QED BY <1>1, <1>2

-----------------------------------------------------------------------------
(***************************************************************************)
(* Connections.                                                            *)
(***************************************************************************)
\* A reset keeps a connection's record typed and the ends as they were.
LEMMA ResetTypes ==
    ASSUME NEW r \in Connection
    PROVE  /\ ResetOf(r) \in Connection
           /\ ResetOf(r).serverOpen = r.serverOpen
           /\ ResetOf(r).clientOpen = r.clientOpen
           /\ ResetOf(r).link = "broken"
<1>1. <<>> \in Seq(Cell)
  OBVIOUS
<1> QED BY <1>1 DEF Connection, ResetOf, LinkStates

\* A connection after a reset.
LEMMA ResetParts ==
    ASSUME NEW r \in Connection
    PROVE  ResetOf(r).link = "broken" /\ ResetOf(r).down = <<>>
BY DEF ResetOf, Connection

\* Records of connections: what the other operations do to one.
LEMMA ConnectionTypes ==
    ASSUME NEW r \in Connection, NEW cell \in Cell
    PROVE  /\ [r EXCEPT !.up = Append(@, cell)] \in Connection
           /\ [r EXCEPT !.down = Append(@, cell)] \in Connection
           /\ r.up # <<>> => [r EXCEPT !.up = Tail(@)] \in Connection
           /\ r.down # <<>> => [r EXCEPT !.down = Tail(@)] \in Connection
           /\ [r EXCEPT !.clientOpen = FALSE] \in Connection
           /\ [r EXCEPT !.serverOpen = FALSE] \in Connection
<1>1. /\ r.up \in Seq(Cell) /\ r.down \in Seq(Cell)
      /\ Append(r.up, cell) \in Seq(Cell) /\ Append(r.down, cell) \in Seq(Cell)
  BY DEF Connection
<1>2. /\ [r EXCEPT !.up = Append(@, cell)] \in Connection
      /\ [r EXCEPT !.down = Append(@, cell)] \in Connection
  BY <1>1 DEF Connection
<1>3. r.up # <<>> => [r EXCEPT !.up = Tail(@)] \in Connection
  BY DEF Connection
<1>4. r.down # <<>> => [r EXCEPT !.down = Tail(@)] \in Connection
  BY DEF Connection
<1>5. /\ [r EXCEPT !.clientOpen = FALSE] \in Connection
      /\ [r EXCEPT !.serverOpen = FALSE] \in Connection
  BY DEF Connection
<1> QED BY <1>2, <1>3, <1>4, <1>5

-----------------------------------------------------------------------------
(***************************************************************************)
(* Sequences, and streams cell by cell.                                    *)
(***************************************************************************)
\* The library's fact, for the sequences it is needed of.
LEMMA Regrouped == \A a, b, d \in Seq(Cell) : (a \o b) \o d = a \o (b \o d)
BY ConcatAssociative

\* A cell that goes from the head of one sequence to the end of another.
LEMMA Shifted ==
    ASSUME NEW S, NEW a \in Seq(S), NEW b \in Seq(S), b # <<>>
    PROVE  /\ Append(a, Head(b)) \in Seq(S) /\ Tail(b) \in Seq(S)
           /\ Append(a, Head(b)) \o Tail(b) = a \o b
<1>1. Head(b) \in S /\ Tail(b) \in Seq(S) /\ <<Head(b)>> \in Seq(S)
  BY HeadTailProperties
<1>2. b = <<Head(b)>> \o Tail(b) BY <1>1
<1>3. Append(a, Head(b)) = a \o <<Head(b)>> BY <1>1, AppendIsConcat
<1>4. Append(a, Head(b)) \in Seq(S) BY <1>1, AppendProperties
<1>5. Append(a, Head(b)) \o Tail(b) = a \o b
  BY <1>1, <1>2, <1>3, ConcatAssociative
<1> QED BY <1>1, <1>4, <1>5

\* The same behind a cell x that has been taken before.
LEMMA ShiftedBehind ==
    \A x \in Cell : \A a, b \in Seq(Cell) : b # <<>> =>
        (<<x>> \o Append(a, Head(b))) \o Tail(b) = (<<x>> \o a) \o b
<1> SUFFICES ASSUME NEW x \in Cell, NEW a \in Seq(Cell), NEW b \in Seq(Cell), b # <<>>
             PROVE  (<<x>> \o Append(a, Head(b))) \o Tail(b) = (<<x>> \o a) \o b
  OBVIOUS
<1> DEFINE y == Append(a, Head(b))
<1>1. y \in Seq(Cell) /\ Tail(b) \in Seq(Cell) /\ y \o Tail(b) = a \o b BY Shifted
<1> HIDE DEF y
<1>2. (<<x>> \o y) \o Tail(b) = <<x>> \o (y \o Tail(b)) BY <1>1, ConcatAssociative
<1>3. (<<x>> \o a) \o b = <<x>> \o (a \o b) BY ConcatAssociative
<1>4. (<<x>> \o y) \o Tail(b) = (<<x>> \o a) \o b BY ONLY <1>1, <1>2, <1>3, Zenon
<1> QED BY <1>4 DEF y

\* Appending to the second part of a concatenation.
LEMMA AppendUnder ==
    \A a, b \in Seq(Cell) : \A x \in Cell : a \o Append(b, x) = Append(a \o b, x)
<1> SUFFICES ASSUME NEW a \in Seq(Cell), NEW b \in Seq(Cell), NEW x \in Cell
             PROVE  a \o Append(b, x) = Append(a \o b, x)
  OBVIOUS
<1>1. <<x>> \in Seq(Cell) /\ a \o b \in Seq(Cell) BY ConcatProperties
<1>2. Append(b, x) = b \o <<x>> /\ Append(a \o b, x) = (a \o b) \o <<x>>
  BY <1>1, AppendIsConcat
<1> QED BY <1>1, <1>2, ConcatAssociative

\* A sequence appended to that then has one element was empty.
LEMMA AppendedOnce ==
    ASSUME NEW S, NEW a \in Seq(S), NEW x \in S, NEW y, Append(a, x) = <<y>>
    PROVE  a = <<>> /\ x = y
<1> DEFINE z == Append(a, x)
<1>1. Len(z) = Len(a) + 1 /\ z[Len(a) + 1] = x BY AppendProperties
<1>2. Len(z) = 1 /\ z[1] = y
  <2> DEFINE one == <<y>>
  <2>1. Len(one) = 1 /\ one[1] = y OBVIOUS
  <2>2. z = one OBVIOUS
  <2> HIDE DEF z, one
  <2> QED BY <2>1, <2>2
<1> HIDE DEF z
<1>3. Len(a) \in Nat OBVIOUS
<1>4. Len(a) = 0 BY <1>1, <1>2, <1>3
<1> QED BY <1>1, <1>2, <1>4, EmptySeq

\* One more behind a sequence that is not empty.
LEMMA AppendedTo ==
    ASSUME NEW S, NEW s \in Seq(S), Len(s) \in Nat \ {0}, NEW x \in S
    PROVE  Append(s, x) # <<>> /\ Len(Append(s, x)) # 1 /\ Append(s, x)[1] = s[1]
OBVIOUS

\* What Completed keeps while a frame is under way.
LEMMA AllButLast ==
    ASSUME NEW S, NEW x \in Seq(S), Len(x) >= 2
    PROVE  SubSeq(x, 1, Len(x) - 1) # <<>> /\ SubSeq(x, 1, Len(x) - 1)[1] = x[1]
<1> DEFINE y == SubSeq(x, 1, Len(x) - 1)
<1>1. \A i \in 1..(Len(x) - 1) : x[i] \in S OBVIOUS
<1>2. Len(y) = Len(x) - 1 /\ \A i \in 1..(Len(x) - 1) : y[i] = x[1 + i - 1]
  BY <1>1, SubSeqProperties
<1> HIDE DEF y
<1>3. y # <<>> /\ y[1] = x[1] BY <1>2
<1> QED BY <1>3 DEF y

\* A sequence that is not empty has one element or more than one.
LEMMA OneOrMore ==
    ASSUME NEW S, NEW s \in Seq(S), s # <<>>
    PROVE  Len(s) = 1 \/ (Len(s) >= 2 /\ Len(s) # 1)
<1>1. Len(s) \in Nat \ {0} BY EmptySeq
<1>2. \A n \in Nat \ {0} : n = 1 \/ (n >= 2 /\ n # 1) OBVIOUS
<1> QED BY <1>1, <1>2

-----------------------------------------------------------------------------
(***************************************************************************)
(* Selections: what is picked out of a history as it grows.                *)
(***************************************************************************)
\* The numbers up to one of a set of places are places, and finitely many.
UpTo(I, i) == {j \in I : j <= i}

\* Every k up to their number is the rank of one of the places.
LEMMA NthIsPlace ==
    ASSUME NEW I, I \subseteq Nat, IsFiniteSet(I), NEW k \in 1..Cardinality(I)
    PROVE  Nth(I, k) \in I /\ Cardinality(UpTo(I, Nth(I, k))) = k
<1> DEFINE rank == [i \in I |-> Cardinality(UpTo(I, i))]
           n == Cardinality(I)
<1>0. \A i \in I : i \in Nat OBVIOUS
<1>1. n \in Nat BY FS_CardinalityType
<1>2. \A i \in I : UpTo(I, i) \in SUBSET I /\ i \in UpTo(I, i) BY DEF UpTo
<1>3. \A i \in I : /\ IsFiniteSet(UpTo(I, i)) /\ Cardinality(UpTo(I, i)) \in Nat
                   /\ Cardinality(UpTo(I, i)) <= n
                   /\ Cardinality(UpTo(I, i)) # 0
  <2> TAKE i \in I
  <2>1. IsFiniteSet(UpTo(I, i)) /\ Cardinality(UpTo(I, i)) <= n BY <1>2, FS_Subset
  <2>2. Cardinality(UpTo(I, i)) \in Nat BY <2>1, FS_CardinalityType
  <2>3. Cardinality(UpTo(I, i)) # 0 BY <1>2, <2>1, FS_EmptySet
  <2> QED BY <2>1, <2>2, <2>3
<1>4. rank \in [I -> 1..n] BY <1>1, <1>3
<1>5. \A i, j \in I : i < j => rank[i] # rank[j]
  <2> SUFFICES ASSUME NEW i \in I, NEW j \in I, i < j PROVE rank[i] # rank[j]
    OBVIOUS
  <2>1. \A m \in Nat : (m <= i => m <= j) /\ i \in Nat /\ j \in Nat BY <1>0
  <2>2. UpTo(I, i) \in SUBSET UpTo(I, j) /\ j \notin UpTo(I, i)
    <3>1. UpTo(I, i) \in SUBSET UpTo(I, j) BY <1>0, <2>1 DEF UpTo
    <3>2. ~(j <= i) BY <2>1
    <3> QED BY <3>1, <3>2 DEF UpTo
  <2>3. UpTo(I, i) # UpTo(I, j) BY <1>2, <2>2
  <2>4. Cardinality(UpTo(I, j)) # Cardinality(UpTo(I, i)) BY <1>3, <2>2, <2>3, FS_Subset
  <2> QED BY <2>4
<1>6. rank \in Injection(I, 1..n)
  <2>1. \A i, j \in I : rank[i] = rank[j] => i = j BY <1>0, <1>5
  <2> QED BY <1>4, <2>1 DEF Injection, IsInjective
<1>7. IsFiniteSet(1..n) /\ Cardinality(1..n) = n BY <1>1, FS_Interval
<1>8. rank \in Surjection(I, 1..n) BY <1>6, <1>7, FS_Injection
<1>9. \E i \in I : rank[i] = k BY <1>8 DEF Surjection
<1>10. \E i \in I : Cardinality({j \in I : j <= i}) = k BY <1>9 DEF UpTo
<1> QED BY <1>10 DEF Nth, UpTo

\* Places behind those up to n do not change which are the first.
LEMMA NthUpTo ==
    ASSUME NEW J, J \subseteq Nat, IsFiniteSet(J), NEW n \in Nat
    PROVE  LET I == UpTo(J, n) IN
             /\ IsFiniteSet(I) /\ I \subseteq Nat
             /\ Cardinality(I) \in Nat /\ Cardinality(I) <= Cardinality(J)
             /\ \A k \in 1..Cardinality(I) : Nth(J, k) = Nth(I, k)
<1> DEFINE I == UpTo(J, n)
<1>0. \A i \in J : i \in Nat OBVIOUS
<1>1. I \in SUBSET J /\ I \subseteq Nat /\ \A i \in I : i <= n BY DEF UpTo
<1>2. IsFiniteSet(I) /\ Cardinality(I) \in Nat /\ Cardinality(I) <= Cardinality(J)
  BY <1>1, FS_Subset, FS_CardinalityType
<1>3. ASSUME NEW k \in 1..Cardinality(I) PROVE Nth(J, k) = Nth(I, k)
  <2> DEFINE inI == {i \in I : Cardinality(UpTo(I, i)) = k}
             inJ == {i \in J : Cardinality(UpTo(J, i)) = k}
  <2>1. \A i \in I : UpTo(J, i) = UpTo(I, i)
    <3>1. ASSUME NEW i \in I, NEW j \in J, j <= i PROVE j \in I
      <4>1. i \in Nat /\ j \in Nat /\ i <= n BY <1>0, <1>1
      <4>2. j <= n BY <3>1, <4>1
      <4> QED BY <4>2 DEF UpTo
    <3> HIDE DEF I
    <3> QED BY <1>1, <3>1 DEF UpTo
  <2>2. ASSUME NEW i \in J, i \notin I PROVE Cardinality(UpTo(J, i)) # k
    <3>1. i > n /\ i \in Nat BY <1>0, <2>2 DEF UpTo
    <3>2. I \cup {i} \in SUBSET UpTo(J, i)
      <4>1. \A j \in I : j \in J /\ j <= i BY <1>0, <1>1, <3>1
      <4>2. i <= i BY <3>1
      <4> HIDE DEF I
      <4> QED BY <4>1, <4>2 DEF UpTo
    <3>3. IsFiniteSet(UpTo(J, i)) 
      <4>1. UpTo(J, i) \in SUBSET J BY DEF UpTo
      <4> QED BY <4>1, FS_Subset
    <3>4. Cardinality(I \cup {i}) = Cardinality(I) + 1 BY <1>2, <2>2, FS_AddElement
    <3>5. Cardinality(I \cup {i}) <= Cardinality(UpTo(J, i)) BY <3>2, <3>3, FS_Subset
    <3>6. Cardinality(UpTo(J, i)) \in Nat BY <3>3, FS_CardinalityType
    <3> HIDE DEF I
    <3> QED BY <1>2, <3>4, <3>5, <3>6
  <2>3. inI = inJ BY <1>1, <2>1, <2>2
  <2>4. Nth(I, k) = CHOOSE i \in inI : TRUE
    <3>1. Nth(I, k) = CHOOSE i : i \in I /\ Cardinality(UpTo(I, i)) = k BY DEF Nth, UpTo
    <3> QED BY <3>1
  <2>5. Nth(J, k) = CHOOSE i \in inJ : TRUE BY DEF Nth, UpTo
  <2> QED BY <2>3, <2>4, <2>5
<1> QED BY <1>1, <1>2, <1>3

\* A selection has as many elements as places, all of them elements of the
\* sequence.
LEMMA SelectedType ==
    ASSUME NEW S, NEW s \in Seq(S), NEW I \in SUBSET (1..Len(s))
    PROVE  /\ IsFiniteSet(I) /\ Cardinality(I) \in Nat
           /\ Selected(s, I) \in Seq(S) /\ Len(Selected(s, I)) = Cardinality(I)
           /\ \A k \in 1..Cardinality(I) :
                /\ Nth(I, k) \in I /\ Nth(I, k) \in 1..Len(s)
                /\ Selected(s, I)[k] = s[Nth(I, k)]
<1>1. Len(s) \in Nat /\ I \subseteq Nat BY LenProperties
<1>2. IsFiniteSet(I) /\ Cardinality(I) \in Nat
  <2>1. IsFiniteSet(1..Len(s)) BY <1>1, FS_Interval
  <2> QED BY <2>1, FS_Subset, FS_CardinalityType
<1>3. \A k \in 1..Cardinality(I) : Nth(I, k) \in I /\ Nth(I, k) \in 1..Len(s)
  BY <1>1, <1>2, NthIsPlace
<1>4. \A k \in 1..Cardinality(I) : s[Nth(I, k)] \in S BY <1>3, ElementOfSeq
<1>5. Selected(s, I) \in Seq(S) /\ Len(Selected(s, I)) = Cardinality(I)
  BY <1>2, <1>4, SeqDef DEF Selected
<1> QED BY <1>2, <1>3, <1>5 DEF Selected

\* One more element, passed over or selected.
LEMMA SelectedAppend ==
    ASSUME NEW S, NEW s \in Seq(S), NEW x \in S, NEW I \in SUBSET (1..Len(s))
    PROVE  /\ Selected(Append(s, x), I) = Selected(s, I)
           /\ Selected(Append(s, x), I \cup {Len(s) + 1}) = Append(Selected(s, I), x)
<1> DEFINE n == Len(s)
           J == I \cup {n + 1}
           t == Append(s, x)
           m == Cardinality(I)
<1>1. n \in Nat /\ t \in Seq(S) /\ Len(t) = n + 1 /\ t[n + 1] = x
      /\ \A i \in 1..n : t[i] = s[i]
  BY AppendProperties, LenProperties
<1>2. /\ IsFiniteSet(I) /\ m \in Nat
      /\ Selected(s, I) \in Seq(S) /\ Len(Selected(s, I)) = m
      /\ \A k \in 1..m : Nth(I, k) \in 1..n /\ Selected(s, I)[k] = s[Nth(I, k)]
  BY SelectedType
<1> HIDE DEF t
<1> HIDE DEF n
<1>0. \A i \in I : i \in Nat /\ i >= 1 /\ i <= n BY <1>1 DEF n
<1>3. Selected(t, I) = Selected(s, I) BY <1>1, <1>2 DEF Selected
<1>4. n + 1 \notin I /\ IsFiniteSet(J) /\ Cardinality(J) = m + 1 /\ J \in SUBSET (1..(n + 1))
  <2>1. n + 1 \notin I BY <1>0, <1>1
  <2>2. \A i \in I : i \in 1..(n + 1) BY <1>0, <1>1
  <2>3. J \in SUBSET (1..(n + 1)) BY <1>1, <2>2
  <2> QED BY <1>2, <2>1, <2>3, FS_AddElement
<1>5. \A k \in 1..m : Nth(J, k) = Nth(I, k)
  <2>1. UpTo(J, n) = I
    <3>1. \A i \in I : i <= n BY <1>0
    <3>2. ~(n + 1 <= n) BY <1>1
    <3> QED BY <3>1, <3>2 DEF UpTo
  <2>2. J \subseteq Nat BY <1>0, <1>1
  <2> HIDE DEF J, m
  <2>3. \A k \in 1..Cardinality(UpTo(J, n)) : Nth(J, k) = Nth(UpTo(J, n), k)
    BY <1>1, <1>4, <2>2, NthUpTo
  <2> QED BY <2>1, <2>3 DEF m
<1>6. Nth(J, m + 1) = n + 1
  <2>1. J \subseteq Nat BY <1>0, <1>1
  <2>2. Nth(J, m + 1) \in J /\ Cardinality(UpTo(J, Nth(J, m + 1))) = m + 1
    BY <1>2, <1>4, <2>1, NthIsPlace
  <2>3. SUFFICES ASSUME Nth(J, m + 1) \in I PROVE FALSE BY <2>2
  <2> DEFINE i == Nth(J, m + 1)
  <2>4. UpTo(J, i) \in SUBSET I
    <3>1. i \in Nat /\ i <= n BY <1>0, <2>3
    <3>2. ~(n + 1 <= i) BY <1>1, <3>1
    <3> QED BY <3>2 DEF UpTo
  <2>5. Cardinality(UpTo(J, i)) <= m BY <1>2, <2>4, FS_Subset
  <2> QED BY <1>2, <2>2, <2>5
<1>7. Selected(t, J) = Append(Selected(s, I), x)
  <2> DEFINE u == Selected(t, J)
             v == Append(Selected(s, I), x)
  <2>1. u \in Seq(S) /\ Len(u) = m + 1 /\ \A k \in 1..(m + 1) : u[k] = t[Nth(J, k)]
    <3> HIDE DEF J
    <3> QED BY <1>1, <1>2, <1>4, SelectedType
  <2>2. /\ v \in Seq(S) /\ Len(v) = m + 1 /\ v[m + 1] = x
        /\ \A k \in 1..m : v[k] = s[Nth(I, k)]
    BY <1>2, AppendProperties
  <2> HIDE DEF u, v
  <2>3. ASSUME NEW k \in 1..(m + 1) PROVE u[k] = v[k]
    <3>1. CASE k = m + 1
      <4>1. t[n + 1] = x BY <1>1
      <4> HIDE DEF J, m
      <4>2. u[m + 1] = t[Nth(J, m + 1)] BY <1>2, <2>1 
      <4> QED BY <1>6, <2>2, <3>1, <4>1, <4>2
    <3>2. CASE k \in 1..m
      <4>1. Nth(I, k) \in 1..n BY <1>2, <3>2 DEF n
      <4> HIDE DEF J, m
      <4>2. u[k] = t[Nth(I, k)] BY <1>5, <2>1, <3>2
      <4>3. t[Nth(I, k)] = s[Nth(I, k)] BY <1>1, <4>1
      <4> QED BY <2>2, <3>2, <4>2, <4>3
    <3> QED BY <1>2, <3>1, <3>2
  <2> QED BY <2>1, <2>2, <2>3, SeqEqual DEF u, v
<1> QED BY <1>3, <1>7 DEF t, n

\* A function of the elements, along a sequence.
Mapped(g, u) == [k \in DOMAIN u |-> g[u[k]]]

\* One more element adds one more value.
LEMMA MappedAppend ==
    ASSUME NEW S, NEW T, NEW g \in [S -> T], NEW u \in Seq(S), NEW x \in S
    PROVE  Mapped(g, Append(u, x)) = Append(Mapped(g, u), g[x])
<1> DEFINE v == Append(u, x)
           a == Mapped(g, v)
           b == Mapped(g, u)
           w == Append(b, g[x])
<1>1. /\ Len(u) \in Nat /\ v \in Seq(S) /\ Len(v) = Len(u) + 1
      /\ v[Len(u) + 1] = x /\ \A k \in 1..Len(u) : v[k] = u[k]
  BY AppendProperties, LenProperties
<1>2. \A k \in 1..Len(u) : u[k] \in S BY ElementOfSeq
<1> HIDE DEF v
<1>3. a = [k \in 1..(Len(u) + 1) |-> g[v[k]]] BY <1>1, LenProperties DEF Mapped
<1>4. \A k \in 1..(Len(u) + 1) : v[k] \in S BY <1>1, ElementOfSeq
<1>5. a \in Seq(T) /\ Len(a) = Len(u) + 1 BY <1>1, <1>3, <1>4
<1>6. b = [k \in 1..Len(u) |-> g[u[k]]] BY LenProperties DEF Mapped
<1>7. b \in Seq(T) /\ Len(b) = Len(u) BY <1>1, <1>2, <1>6
<1>8. /\ w \in Seq(T) /\ Len(w) = Len(u) + 1 /\ w[Len(u) + 1] = g[x]
      /\ \A k \in 1..Len(u) : w[k] = g[u[k]]
  <2>1. \A k \in 1..Len(u) : b[k] = g[u[k]] BY <1>6
  <2> HIDE DEF b
  <2> QED BY <1>7, <2>1, AppendProperties
<1>9. ASSUME NEW k \in 1..(Len(u) + 1) PROVE a[k] = w[k]
  <2>1. a[k] = g[v[k]] BY <1>3
  <2> HIDE DEF a, w
  <2>2. CASE k = Len(u) + 1 BY <1>1, <1>8, <2>1, <2>2
  <2>3. CASE k \in 1..Len(u) BY <1>1, <1>8, <2>1, <2>3
  <2> QED BY <1>1, <2>2, <2>3
<1> HIDE DEF a, b, w
<1>10. a = w BY <1>5, <1>8, <1>9, SeqEqual
<1> QED BY <1>10 DEF a, b, w, v

\* Two cuts of one sequence at the same place.
LEMMA SameCut ==
    ASSUME NEW S, NEW a \in Seq(S), NEW b \in Seq(S), NEW x \in Seq(S), NEW y \in Seq(S),
           a \o b = x \o y, Len(a) = Len(x)
    PROVE  a = x /\ b = y
<1> DEFINE ab == a \o b
           xy == x \o y
           n == Len(a)
<1>1. n \in Nat /\ Len(b) \in Nat /\ Len(y) \in Nat BY LenProperties
<1>2. /\ Len(ab) = Len(a) + Len(b)
      /\ \A i \in 1..(Len(a) + Len(b)) : ab[i] = IF i <= Len(a) THEN a[i] ELSE b[i - Len(a)]
  BY ConcatProperties
<1>3. /\ Len(xy) = Len(x) + Len(y)
      /\ \A i \in 1..(Len(x) + Len(y)) : xy[i] = IF i <= Len(x) THEN x[i] ELSE y[i - Len(x)]
  BY ConcatProperties
<1>4. ab = xy OBVIOUS
<1> HIDE DEF ab, xy
<1>5. Len(b) = Len(y) BY <1>1, <1>2, <1>3, <1>4
<1>6. ASSUME NEW i \in 1..n PROVE a[i] = x[i]
  <2>1. i \in 1..(Len(a) + Len(b)) /\ i <= Len(a) BY <1>1
  <2>2. ab[i] = a[i] BY <1>2, <2>1
  <2>3. xy[i] = x[i] BY <1>3, <1>5, <2>1
  <2> QED BY <1>4, <2>2, <2>3
<1>7. ASSUME NEW i \in 1..Len(b) PROVE b[i] = y[i]
  <2> DEFINE j == i + n
  <2>1. j \in 1..(Len(a) + Len(b)) /\ ~(j <= Len(a)) /\ j - Len(a) = i BY <1>1
  <2> HIDE DEF j
  <2>2. ab[j] = b[i] BY <1>2, <2>1
  <2>3. j \in 1..(Len(x) + Len(y)) /\ ~(j <= Len(x)) /\ j - Len(x) = i BY <1>5, <2>1
  <2>4. xy[j] = y[i] BY <1>3, <2>3
  <2> QED BY <1>4, <2>2, <2>4
<1> QED BY <1>5, <1>6, <1>7, SeqEqual

\* The first k + 1 elements, and the first k of a sequence that grows.
LEMMA FirstOnes ==
    ASSUME NEW S, NEW s \in Seq(S)
    PROVE  /\ \A k \in 0..Len(s) : SubSeq(s, 1, k) \in Seq(S) /\ Len(SubSeq(s, 1, k)) = k
           /\ \A k \in 0..Len(s) : \A i \in 1..k : SubSeq(s, 1, k)[i] = s[i]
           /\ \A k \in 0..Len(s) : k < Len(s) =>
                 SubSeq(s, 1, k + 1) = Append(SubSeq(s, 1, k), s[k + 1])
           /\ \A k \in 0..Len(s), x \in S : SubSeq(Append(s, x), 1, k) = SubSeq(s, 1, k)
<1>0. Len(s) \in Nat /\ \A i \in 1..Len(s) : s[i] \in S BY LenProperties, ElementOfSeq
<1>1. ASSUME NEW t \in Seq(S), NEW k \in 0..Len(t)
      PROVE  /\ SubSeq(t, 1, k) \in Seq(S) /\ Len(SubSeq(t, 1, k)) = k
             /\ \A i \in 1..k : SubSeq(t, 1, k)[i] = t[i]
  <2>1. Len(t) \in Nat /\ k \in Nat /\ \A i \in 1..k : t[i] \in S
    BY LenProperties, ElementOfSeq
  <2> DEFINE u == SubSeq(t, 1, k)
  <2>2. /\ u \in Seq(S) /\ Len(u) = IF 1 <= k THEN k - 1 + 1 ELSE 0
        /\ \A i \in 1..(k - 1 + 1) : u[i] = t[1 + i - 1]
    BY <2>1, SubSeqProperties
  <2> HIDE DEF u
  <2>3. \A i \in 1..k : i \in 1..(k - 1 + 1) /\ 1 + i - 1 = i BY <2>1
  <2>4. Len(u) = k BY <2>1, <2>2
  <2> QED BY <2>2, <2>3, <2>4 DEF u
<1>2. ASSUME NEW k \in 0..Len(s), k < Len(s)
      PROVE  SubSeq(s, 1, k + 1) = Append(SubSeq(s, 1, k), s[k + 1])
  <2> DEFINE u == SubSeq(s, 1, k + 1)
             v == SubSeq(s, 1, k)
             w == Append(v, s[k + 1])
  <2>1. k \in Nat /\ k + 1 \in 0..Len(s) /\ s[k + 1] \in S BY <1>0, <1>2
  <2>2. u \in Seq(S) /\ Len(u) = k + 1 /\ \A i \in 1..(k + 1) : u[i] = s[i] BY <1>1, <2>1
  <2>3. v \in Seq(S) /\ Len(v) = k /\ \A i \in 1..k : v[i] = s[i] BY <1>1
  <2> HIDE DEF u, v
  <2>4. /\ w \in Seq(S) /\ Len(w) = k + 1 /\ w[k + 1] = s[k + 1]
        /\ \A i \in 1..k : w[i] = s[i]
    BY <2>1, <2>3, AppendProperties
  <2> HIDE DEF w
  <2>5. \A i \in 1..(k + 1) : u[i] = w[i]
    <3>1. \A i \in 1..(k + 1) : i = k + 1 \/ i \in 1..k BY <2>1
    <3> QED BY <2>2, <2>4, <3>1
  <2>6. u = w BY <2>2, <2>4, <2>5, SeqEqual
  <2> QED BY <2>6 DEF u, v, w
<1>3. ASSUME NEW k \in 0..Len(s), NEW x \in S
      PROVE  SubSeq(Append(s, x), 1, k) = SubSeq(s, 1, k)
  <2> DEFINE t == Append(s, x)
             u == SubSeq(t, 1, k)
             v == SubSeq(s, 1, k)
  <2>1. t \in Seq(S) /\ Len(t) = Len(s) + 1 /\ \A i \in 1..Len(s) : t[i] = s[i]
    BY AppendProperties
  <2> HIDE DEF t
  <2>2. k \in 0..Len(t) /\ \A i \in 1..k : i \in 1..Len(s) BY <1>0, <2>1
  <2>3. u \in Seq(S) /\ Len(u) = k /\ \A i \in 1..k : u[i] = t[i] BY <1>1, <2>1, <2>2
  <2>4. v \in Seq(S) /\ Len(v) = k /\ \A i \in 1..k : v[i] = s[i] BY <1>1
  <2> HIDE DEF u, v
  <2>5. \A i \in 1..k : u[i] = v[i] BY <2>1, <2>2, <2>3, <2>4
  <2>6. u = v BY <2>3, <2>4, <2>5, SeqEqual
  <2> QED BY <2>6 DEF t, u, v
<1>4. \A k \in 0..Len(s) : SubSeq(s, 1, k) \in Seq(S) /\ Len(SubSeq(s, 1, k)) = k BY <1>1
<1>5. \A k \in 0..Len(s) : \A i \in 1..k : SubSeq(s, 1, k)[i] = s[i] BY <1>1
<1> QED BY <1>2, <1>3, <1>4, <1>5

\* The same with more behind the stream.
LEMMA ShiftedThrough ==
    \A x \in Cell : \A a, b, p \in Seq(Cell) : b # <<>> =>
        (<<x>> \o Append(a, Head(b))) \o (Tail(b) \o p) = (<<x>> \o a) \o (b \o p)
<1> SUFFICES ASSUME NEW x \in Cell, NEW a \in Seq(Cell), NEW b \in Seq(Cell),
                    NEW p \in Seq(Cell), b # <<>>
             PROVE  (<<x>> \o Append(a, Head(b))) \o (Tail(b) \o p) = (<<x>> \o a) \o (b \o p)
  OBVIOUS
<1>0. x \in Cell /\ a \in Seq(Cell) /\ b \in Seq(Cell) /\ p \in Seq(Cell) /\ b # <<>>
  OBVIOUS
<1> DEFINE y == <<x>> \o Append(a, Head(b))
           z == <<x>> \o a
<1>1. /\ Tail(b) \in Seq(Cell) /\ Append(a, Head(b)) \in Seq(Cell) /\ <<x>> \in Seq(Cell)
  BY Shifted
<1>2. y \in Seq(Cell) /\ z \in Seq(Cell) BY <1>1, ConcatProperties
<1>3. y \o Tail(b) = z \o b BY ONLY <1>0, ShiftedBehind, Zenon
<1> HIDE DEF y, z
<1>4. \A s, t, u \in Seq(Cell) : (s \o t) \o u = s \o (t \o u) BY ONLY Regrouped, Zenon
<1>5. (z \o b) \o p = z \o (b \o p) BY ONLY <1>0, <1>2, <1>4, Zenon
<1>6. (y \o Tail(b)) \o p = y \o (Tail(b) \o p)
  <2> DEFINE w == Tail(b)
  <2>1. w \in Seq(Cell) BY <1>1
  <2> HIDE DEF w
  <2>2. (y \o w) \o p = y \o (w \o p) BY ONLY <1>0, <1>2, <1>4, <2>1, ZenonT(30)
  <2> QED BY <2>2 DEF w
<1>7. y \o (Tail(b) \o p) = z \o (b \o p) BY ONLY <1>3, <1>5, <1>6, Zenon
<1> QED BY <1>7 DEF y, z

\* A header and the payload behind it.
LEMMA CellBehind ==
    ASSUME NEW x \in Cell, NEW b \in Seq(Cell)
    PROVE  /\ <<x>> \o b \in Seq(Cell) /\ <<x>> \o b # <<>>
           /\ Len(<<x>> \o b) = Len(b) + 1 /\ (<<x>> \o b)[1] = x
           /\ \A i \in 1..Len(b) : (<<x>> \o b)[i + 1] = b[i]
<1> DEFINE a == <<x>>
           y == a \o b
<1>1. a \in Seq(Cell) /\ Len(a) = 1 /\ a[1] = x /\ Len(b) \in Nat BY LenProperties
<1> HIDE DEF a
<1>2. /\ y \in Seq(Cell) /\ Len(y) = Len(a) + Len(b)
      /\ \A i \in 1..(Len(a) + Len(b)) : y[i] = IF i <= Len(a) THEN a[i] ELSE b[i - Len(a)]
  BY <1>1, ConcatProperties
<1> HIDE DEF y
<1>3. Len(y) = Len(b) + 1 /\ y # <<>> BY <1>1, <1>2, EmptySeq
<1>4. y[1] = x BY <1>1, <1>2
<1>5. \A i \in 1..Len(b) : y[i + 1] = b[i]
  <2>1. \A i \in 1..Len(b) : i + 1 \in 1..(1 + Len(b)) /\ ~(i + 1 <= 1) /\ i + 1 - 1 = i
    BY <1>1
  <2> QED BY <1>1, <1>2, <2>1
<1> QED BY <1>2, <1>3, <1>4, <1>5 DEF y, a

-----------------------------------------------------------------------------
(***************************************************************************)
(* Frames and the cells they spell.                                        *)
(***************************************************************************)
\* What both environments send: a header that announces the rest of its frame.
WholeFrames ==
    {f \in Seq(Cell) \ {<<>>} : f[1].kind = "header" /\ f[1].num = Len(f) - 1}

\* F[j] is what the frames behind the first j spell, written out.
Unrolls(F, s) ==
    /\ F \in [0..Len(s) -> Seq(Cell)]
    /\ F[Len(s)] = <<>>
    /\ \A j \in 0..(Len(s) - 1) : F[j] = s[j + 1] \o F[j + 1]

\* A frame and its header.
LEMMA FrameCells ==
    ASSUME NEW s \in Seq(WholeFrames), NEW i \in 1..Len(s)
    PROVE  /\ s[i] \in WholeFrames /\ s[i] \in Seq(Cell) /\ s[i] # <<>>
           /\ s[i][1].kind = "header" /\ Len(s[i]) = s[i][1].num + 1 /\ s[i][1] \in Cell
           /\ Len(s[i]) \in Nat \ {0} /\ s[i][1].num \in Nat
<1> DEFINE f == s[i]
<1>1. f \in WholeFrames BY ElementOfSeq
<1>2. f \in Seq(Cell) /\ f # <<>> /\ f[1].kind = "header" /\ f[1].num = Len(f) - 1
  BY <1>1 DEF WholeFrames
<1>3. Len(f) \in Nat \ {0} BY <1>2, EmptySeq
<1>4. f[1] \in Cell BY <1>2, <1>3, ElementOfSeq
<1> HIDE DEF f
<1>5. f[1].num + 1 = Len(f) /\ f[1].num \in Nat BY <1>2, <1>3
<1> QED BY <1>1, <1>2, <1>3, <1>4, <1>5 DEF f

\* Where something is left of the frames there is a frame, and it is first.
LEMMA UnrollsHead ==
    ASSUME NEW s \in Seq(WholeFrames), NEW F, Unrolls(F, s), NEW k \in 0..Len(s), F[k] # <<>>
    PROVE  /\ k < Len(s) /\ k + 1 \in 1..Len(s) /\ k + 1 \in 0..Len(s)
           /\ F[k] = s[k + 1] \o F[k + 1] /\ F[k + 1] \in Seq(Cell)
           /\ Head(F[k]) = s[k + 1][1]
<1>1. Len(s) \in Nat /\ k \in Nat /\ k # Len(s) BY LenProperties DEF Unrolls
<1>2. k \in 0..(Len(s) - 1) /\ k < Len(s) /\ k + 1 \in 1..Len(s) /\ k + 1 \in 0..Len(s)
  BY <1>1
<1>3. F[k] = s[k + 1] \o F[k + 1] /\ F[k + 1] \in Seq(Cell) BY <1>2 DEF Unrolls
<1> DEFINE a == s[k + 1]
           b == F[k + 1]
<1>4. a \in Seq(Cell) /\ Len(a) \in Nat \ {0} BY <1>2, FrameCells
<1>5. Head(a \o b) = a[1]
  <2> HIDE DEF a, b
  <2>1. b \in Seq(Cell) /\ Len(b) \in Nat BY <1>3, LenProperties DEF b
  <2> DEFINE ab == a \o b
  <2>2. /\ ab \in Seq(Cell) /\ Len(ab) = Len(a) + Len(b)
        /\ \A i \in 1..(Len(a) + Len(b)) : ab[i] = IF i <= Len(a) THEN a[i] ELSE b[i - Len(a)]
    BY <1>4, <2>1, ConcatProperties
  <2> HIDE DEF ab
  <2>3. ab[1] = a[1] BY <1>4, <2>1, <2>2
  <2>4. ab # <<>> BY <1>4, <2>1, <2>2, EmptySeq
  <2>5. Head(ab) = ab[1] BY <2>2, <2>4
  <2> QED BY <2>3, <2>5 DEF ab
<1> QED BY <1>2, <1>3, <1>5

\* As many cells as the first header says are the first frame.
LEMMA UnrollsFrame ==
    \A s \in Seq(WholeFrames) : \A F : Unrolls(F, s) => \A k \in 0..Len(s) :
      \A a, b \in Seq(Cell) : a # <<>> /\ a \o b = F[k] /\ Len(a) = a[1].num + 1 =>
         k < Len(s) /\ k + 1 \in 1..Len(s) /\ a = s[k + 1] /\ b = F[k + 1]
<1> SUFFICES ASSUME NEW s \in Seq(WholeFrames), NEW F, Unrolls(F, s), NEW k \in 0..Len(s),
                    NEW a \in Seq(Cell), NEW b \in Seq(Cell), a # <<>>, a \o b = F[k],
                    Len(a) = a[1].num + 1
             PROVE  k < Len(s) /\ k + 1 \in 1..Len(s) /\ a = s[k + 1] /\ b = F[k + 1]
  OBVIOUS
<1>1. Len(a) \in Nat \ {0} /\ Len(b) \in Nat BY EmptySeq, LenProperties
<1> DEFINE ab == a \o b
<1>2. /\ ab \in Seq(Cell) /\ Len(ab) = Len(a) + Len(b)
      /\ \A i \in 1..(Len(a) + Len(b)) : ab[i] = IF i <= Len(a) THEN a[i] ELSE b[i - Len(a)]
  BY ConcatProperties
<1>3. ab = F[k] OBVIOUS
<1> HIDE DEF ab
<1>4. ab[1] = a[1] /\ ab # <<>> BY <1>1, <1>2, EmptySeq
<1>5. Head(ab) = a[1] BY <1>2, <1>4
<1>6. /\ k < Len(s) /\ k + 1 \in 1..Len(s)
      /\ F[k] = s[k + 1] \o F[k + 1] /\ F[k + 1] \in Seq(Cell) /\ s[k + 1][1] = a[1]
  <2>1. F[k] # <<>> /\ Head(F[k]) = a[1] BY ONLY <1>3, <1>4, <1>5
  <2> QED BY <2>1, UnrollsHead
<1> DEFINE f == s[k + 1]
<1>7. f \in Seq(Cell) /\ Len(f) = f[1].num + 1 BY <1>6, FrameCells
<1>8. Len(a) = Len(f) BY <1>6, <1>7
<1>9. a \o b = f \o F[k + 1] BY <1>6
<1> HIDE DEF f
<1>10. a = f /\ b = F[k + 1]
  <2>1. \A x, y \in Seq(Cell) : a \o b = x \o y /\ Len(a) = Len(x) => a = x /\ b = y
    BY SameCut
  <2>2. F[k + 1] \in Seq(Cell) BY <1>6
  <2> QED BY ONLY <1>7, <1>8, <1>9, <2>1, <2>2, Zenon
<1> QED BY <1>6, <1>10 DEF f

\* One more frame: everything spells so much more.
LEMMA UnrollsMore ==
    ASSUME NEW s \in Seq(WholeFrames), NEW F, Unrolls(F, s), NEW f \in WholeFrames
    PROVE  \E G \in [0..Len(Append(s, f)) -> Seq(Cell)] :
             /\ Unrolls(G, Append(s, f))
             /\ \A j \in 0..Len(s) : G[j] = F[j] \o f
<1> DEFINE n == Len(s)
           t == Append(s, f)
           G == [j \in 0..(n + 1) |-> IF j <= n THEN F[j] \o f ELSE <<>>]
<1>1. /\ n \in Nat /\ Len(t) = n + 1 /\ t[n + 1] = f /\ \A j \in 1..n : t[j] = s[j]
  BY AppendProperties, LenProperties
<1>2. f \in Seq(Cell) /\ <<>> \in Seq(Cell) BY DEF WholeFrames
<1>3. \A j \in 0..n : F[j] \in Seq(Cell) /\ F[j] \o f \in Seq(Cell)
  BY <1>2, ConcatProperties DEF Unrolls
<1>4. G \in [0..(n + 1) -> Seq(Cell)]
  <2>1. \A j \in 0..(n + 1) : j <= n => j \in 0..n BY <1>1
  <2> QED BY <1>2, <1>3, <2>1
<1>5. (\A j \in 0..n : G[j] = F[j] \o f) /\ G[n + 1] = <<>>
  <2>1. \A j \in 0..n : j \in 0..(n + 1) /\ j <= n /\ n + 1 \in 0..(n + 1) /\ ~(n + 1 <= n)
    BY <1>1
  <2> QED BY <2>1
<1> HIDE DEF G, t
<1>6. ASSUME NEW j \in 0..n PROVE G[j] = t[j + 1] \o G[j + 1]
  <2>1. CASE j = n
    <3>1. F[n] = <<>> BY DEF Unrolls
    <3>2. G[n] = f
      <4>1. n \in 0..n BY <1>1
      <4>2. G[n] = F[n] \o f BY <1>5, <4>1
      <4>3. <<>> \o f = f BY <1>2, ConcatEmptySeq
      <4> QED BY ONLY <3>1, <4>2, <4>3, Zenon
    <3>3. f \o <<>> = f BY <1>2, ConcatEmptySeq
    <3> QED BY <1>1, <1>5, <2>1, <3>2, <3>3
  <2>2. CASE j # n
    <3>1. j \in 0..(n - 1) /\ j + 1 \in 0..n /\ j + 1 \in 1..n BY <1>1, <2>2
    <3>2. F[j] = s[j + 1] \o F[j + 1] BY <3>1 DEF Unrolls
    <3>3. s[j + 1] \in Seq(Cell) /\ F[j + 1] \in Seq(Cell) BY <1>3, <3>1, FrameCells
    <3>4. (s[j + 1] \o F[j + 1]) \o f = s[j + 1] \o (F[j + 1] \o f)
      <4>1. \A a, b, d \in Seq(Cell) : (a \o b) \o d = a \o (b \o d)
        BY ONLY Regrouped, Zenon
      <4> QED BY ONLY <1>2, <3>3, <4>1, Zenon
    <3>5. G[j] = (s[j + 1] \o F[j + 1]) \o f BY <1>5, <3>2
    <3>6. G[j + 1] = F[j + 1] \o f /\ t[j + 1] = s[j + 1] BY <1>1, <1>5, <3>1
    <3> QED BY <3>4, <3>5, <3>6
  <2> QED BY <2>1, <2>2
<1>7. Unrolls(G, t)
  <2>1. Len(t) - 1 = n BY <1>1
  <2>2. \A j \in 0..(Len(t) - 1) : G[j] = t[j + 1] \o G[j + 1] BY ONLY <1>6, <2>1, Zenon
  <2>3. G \in [0..Len(t) -> Seq(Cell)] /\ G[Len(t)] = <<>> BY <1>1, <1>4, <1>5
  <2> QED BY ONLY <2>2, <2>3, Zenon DEF Unrolls
<1> QED BY <1>1, <1>4, <1>5, <1>7 DEF t

\* A header read where one is due is that of the next frame.
LEMMA HeaderRead ==
    \A s \in Seq(WholeFrames) : \A F : Unrolls(F, s) => \A k \in 0..Len(s) :
      \A a, p \in Seq(Cell) : a # <<>> /\ a \o p = F[k] => \A h \in HeadersIn(a) :
         /\ k < Len(s) /\ k + 1 \in 1..Len(s) /\ h = s[k + 1][1] /\ h \in Cell
         /\ <<h>> \o (Tail(a) \o p) = F[k]
<1> TAKE s \in Seq(WholeFrames)
<1> TAKE F
<1> HAVE Unrolls(F, s)
<1> TAKE k \in 0..Len(s)
<1> TAKE a, p \in Seq(Cell)
<1> HAVE a # <<>> /\ a \o p = F[k]
<1> TAKE h \in HeadersIn(a)
<1>1. a \in Seq(Cell) OBVIOUS
<1>2. /\ Head(a) \in Cell /\ Tail(a) \in Seq(Cell) /\ <<Head(a)>> \in Seq(Cell)
      /\ <<Head(a)>> \o Tail(a) = a
  BY <1>1, HeadTailProperties
<1>3. <<Head(a)>> \o (Tail(a) \o p) = a \o p
  <2> DEFINE x == <<Head(a)>>
             y == Tail(a)
  <2>1. x \in Seq(Cell) /\ y \in Seq(Cell) /\ p \in Seq(Cell) /\ x \o y = a BY <1>2
  <2> HIDE DEF x, y
  <2>2. (x \o y) \o p = x \o (y \o p)
    <3>1. \A u, v, w \in Seq(Cell) : (u \o v) \o w = u \o (v \o w) BY ONLY Regrouped, Zenon
    <3> QED BY ONLY <2>1, <3>1, Zenon
  <2>3. x \o (y \o p) = a \o p BY ONLY <2>1, <2>2, Zenon
  <2> QED BY <2>3 DEF x, y
<1>4. Head(F[k]) = Head(a) /\ F[k] # <<>>
  <2> DEFINE w == F[k]
             x == Head(a)
             y == Tail(a) \o p
  <2>1. x \in Cell /\ y \in Seq(Cell) BY <1>1, <1>2, ConcatProperties
  <2>2. w = <<x>> \o y BY <1>3
  <2> HIDE DEF w, x, y
  <2> DEFINE z == <<x>> \o y
  <2>3. z \in Seq(Cell) /\ z # <<>> /\ z[1] = x BY <2>1, CellBehind
  <2> HIDE DEF z
  <2>4. Head(z) = x BY <2>3
  <2>5. w = z BY <2>2 DEF z
  <2> QED BY <2>3, <2>4, <2>5 DEF w, x
<1>5. /\ k < Len(s) /\ k + 1 \in 1..Len(s) /\ Head(a) = s[k + 1][1]
  BY <1>4, UnrollsHead
<1>6. Head(a).kind = "header" BY <1>5, FrameCells
<1>7. h = Head(a) BY <1>6 DEF HeadersIn
<1> QED BY <1>2, <1>3, <1>5, <1>7
=============================================================================
