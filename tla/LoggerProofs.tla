----------------------------- MODULE LoggerProofs -----------------------------
(***************************************************************************)
(* For any number of threads, calls and restarts and either C runtime, the *)
(* Logger keeps its rows whole and in order, and implements AppendLog.     *)
(*                                                                         *)
(* The argument: who is between lock and unlock holds the mutex, so there  *)
(* is one such thread at most; what its buffer holds and how the file ends *)
(* always make a whole row together.                                       *)
(***************************************************************************)
EXTENDS Logger, SequenceTheorems, TLAPS

Inside == {"open", "write", "close", "unlock", "skipped"}

MutexHeld == \A w \in Writers : pc[w] \in Inside <=> mutex = w

StartOf(w) == RowStart(w, made[w])
EndOf(w)   == RowEnd(w, made[w])

\* What may be left in the buffer of a thread that is closing its stream.
HeaderAndRow(w) == <<ColumnHeader, StartOf(w), EndOf(w)>>
WholeRow(w)     == <<StartOf(w), EndOf(w)>>
LastPiece(w)    == <<EndOf(w)>>

Rests(w) == {HeaderAndRow(w), WholeRow(w), LastPiece(w), <<>>}

BufferFits ==
    \A w \in Writers :
        /\ pc[w] # "close" => out[w] = <<>>
        /\ pc[w] = "close" => out[w] \in Rests(w)
        /\ out[w] = LastPiece(w) => file # <<>> /\ file[Len(file)] = StartOf(w)

\* As RowsWhole, but a row without end at the end of the file is one whose
\* end is all that is left in the buffer.
FileWhole ==
    \A i \in DOMAIN file : LET p == file[i] IN
        /\ p[1] = "end" => i > 1 /\ file[i - 1] = RowStart(p[2], p[3])
        /\ p[1] = "start" =>
             \/ i < Len(file) /\ file[i + 1] = RowEnd(p[2], p[3])
             \/ \E k \in DOMAIN cuts : cuts[k] = i
             \/ i = Len(file) /\ mutex = p[2] /\ out[mutex] = <<RowEnd(p[2], p[3])>>

EndsFit ==
    /\ \A k \in DOMAIN ends : ends[k] \in DOMAIN file
    /\ \A i \in DOMAIN file :
         file[i][1] = "end" <=> \E k \in DOMAIN ends : ends[k] = i
    /\ \A k, l \in DOMAIN ends : k < l => ends[k] < ends[l]

LoggerInv == TypeOK /\ MutexHeld /\ BufferFits /\ FileWhole /\ EndsFit

-----------------------------------------------------------------------------
(***************************************************************************)
(* Pieces and sequences of them.                                           *)
(***************************************************************************)
LEMMA PieceKinds ==
    ASSUME NEW w \in Writers, NEW n \in Nat
    PROVE  /\ ColumnHeader \in Piece /\ ColumnHeader[1] = "header"
           /\ RowStart(w, n) \in Piece /\ RowStart(w, n)[1] = "start"
           /\ RowStart(w, n)[2] = w /\ RowStart(w, n)[3] = n
           /\ RowEnd(w, n) \in Piece /\ RowEnd(w, n)[1] = "end"
           /\ RowEnd(w, n)[2] = w /\ RowEnd(w, n)[3] = n
BY DEF Piece, ColumnHeader, RowStart, RowEnd

LEMMA PieceParts ==
    ASSUME NEW p \in Piece
    PROVE  \/ p = ColumnHeader
           \/ /\ p[1] \in {"start", "end"} /\ p[2] \in Writers /\ p[3] \in Nat
              /\ p = <<p[1], p[2], p[3]>>
BY DEF Piece

LEMMA ShortSequences ==
    ASSUME NEW S, NEW a \in S, NEW b \in S, NEW c \in S
    PROVE  /\ <<a>> \o <<b, c>> = <<a, b, c>> /\ <<>> \o <<b, c>> = <<b, c>>
           /\ <<a, b, c>> \in Seq(S) /\ <<b, c>> \in Seq(S) /\ <<c>> \in Seq(S)
           /\ <<>> \in Seq(S)
           /\ Head(<<a, b, c>>) = a /\ Tail(<<a, b, c>>) = <<b, c>>
           /\ Head(<<b, c>>) = b /\ Tail(<<b, c>>) = <<c>>
           /\ Head(<<c>>) = c /\ Tail(<<c>>) = <<>>
           /\ <<a, b, c>> # <<b, c>> /\ <<a, b, c>> # <<c>> /\ <<b, c>> # <<c>>
           /\ <<a, b, c>> # <<>> /\ <<b, c>> # <<>> /\ <<c>> # <<>>
<1>1. <<a, b, c>> \in Seq(S) /\ <<b, c>> \in Seq(S) /\ <<c>> \in Seq(S) /\ <<a>> \in Seq(S)
    OBVIOUS
<1>2. Len(<<a, b, c>>) = 3 /\ Len(<<b, c>>) = 2 /\ Len(<<c>>) = 1 /\ Len(<<>>) = 0
    OBVIOUS
<1>3. <<a>> \o <<b, c>> = <<a, b, c>>
    <2> DEFINE s == <<a>> \o <<b, c>>
    <2>1. s \in Seq(S) /\ Len(s) = 3 /\ s[1] = a /\ s[2] = b /\ s[3] = c
        BY <1>1
    <2>2. <<a, b, c>>[1] = a /\ <<a, b, c>>[2] = b /\ <<a, b, c>>[3] = c
        OBVIOUS
    <2> HIDE DEF s
    <2>3. \A i \in 1..Len(s) : s[i] = <<a, b, c>>[i] BY <2>1, <2>2
    <2>4. s = <<a, b, c>> BY <1>1, <1>2, <2>1, <2>3, SeqEqual
    <2> QED BY <2>4 DEF s
<1>4. <<>> \o <<b, c>> = <<b, c>>
    OBVIOUS
<1>5. Tail(<<a, b, c>>) = <<b, c>> /\ Tail(<<b, c>>) = <<c>> /\ Tail(<<c>>) = <<>>
    OBVIOUS
<1>6. Head(<<a, b, c>>) = a /\ Head(<<b, c>>) = b /\ Head(<<c>>) = c
    OBVIOUS
<1>7. <<>> \in Seq(S)
    OBVIOUS
<1>8. /\ <<a, b, c>> # <<b, c>> /\ <<a, b, c>> # <<c>> /\ <<b, c>> # <<c>>
      /\ <<a, b, c>> # <<>> /\ <<b, c>> # <<>> /\ <<c>> # <<>>
    BY <1>2
<1> QED BY <1>1, <1>3, <1>4, <1>5, <1>6, <1>7, <1>8

LEMMA AppendedPiece ==
    ASSUME NEW S, NEW s \in Seq(S), NEW p \in S
    PROVE  /\ Append(s, p) \in Seq(S)
           /\ Len(Append(s, p)) = Len(s) + 1 /\ Len(s) \in Nat
           /\ DOMAIN Append(s, p) = DOMAIN s \cup {Len(s) + 1}
           /\ DOMAIN s = 1..Len(s)
           /\ \A i \in DOMAIN s : Append(s, p)[i] = s[i]
           /\ Append(s, p)[Len(s) + 1] = p
           /\ Append(s, p) # <<>>
OBVIOUS

LEMMA RestPieces ==
    ASSUME TypeOK, NEW w \in Writers
    PROVE  /\ StartOf(w) \in Piece /\ EndOf(w) \in Piece /\ ColumnHeader \in Piece
           /\ StartOf(w)[1] = "start" /\ EndOf(w)[1] = "end" /\ ColumnHeader[1] = "header"
           /\ StartOf(w) # EndOf(w) /\ StartOf(w) # ColumnHeader /\ EndOf(w) # ColumnHeader
           /\ StartOf(w)[2] = w /\ StartOf(w)[3] = made[w]
           /\ EndOf(w)[2] = w /\ EndOf(w)[3] = made[w]
BY PieceKinds DEF StartOf, EndOf, TypeOK

\* The buffer a thread fills and what writing out leaves of it.
LEMMA Buffers ==
    ASSUME TypeOK, NEW w \in Writers
    PROVE  /\ ensureHeader(w) \o WholeRow(w)
                = IF pos[w] = 0 THEN HeaderAndRow(w) ELSE WholeRow(w)
           /\ ensureHeader(w) \o WholeRow(w) \in {HeaderAndRow(w), WholeRow(w)}
           /\ HeaderAndRow(w) \in Seq(Piece) /\ WholeRow(w) \in Seq(Piece)
           /\ LastPiece(w) \in Seq(Piece) /\ <<>> \in Seq(Piece)
           /\ Head(HeaderAndRow(w)) = ColumnHeader /\ Tail(HeaderAndRow(w)) = WholeRow(w)
           /\ Head(WholeRow(w)) = StartOf(w) /\ Tail(WholeRow(w)) = LastPiece(w)
           /\ Head(LastPiece(w)) = EndOf(w) /\ Tail(LastPiece(w)) = <<>>
           /\ HeaderAndRow(w) # LastPiece(w) /\ WholeRow(w) # LastPiece(w)
           /\ HeaderAndRow(w) # <<>> /\ WholeRow(w) # <<>> /\ LastPiece(w) # <<>>
<1> DEFINE h == ColumnHeader
           s == StartOf(w)
           e == EndOf(w)
<1>1. h \in Piece /\ s \in Piece /\ e \in Piece BY RestPieces
<1> HIDE DEF h, s, e
<1>2. /\ <<h>> \o <<s, e>> = <<h, s, e>> /\ <<>> \o <<s, e>> = <<s, e>>
      /\ <<h, s, e>> \in Seq(Piece) /\ <<s, e>> \in Seq(Piece) /\ <<e>> \in Seq(Piece)
      /\ <<>> \in Seq(Piece)
      /\ Head(<<h, s, e>>) = h /\ Tail(<<h, s, e>>) = <<s, e>>
      /\ Head(<<s, e>>) = s /\ Tail(<<s, e>>) = <<e>>
      /\ Head(<<e>>) = e /\ Tail(<<e>>) = <<>>
      /\ <<h, s, e>> # <<e>> /\ <<s, e>> # <<e>>
      /\ <<h, s, e>> # <<>> /\ <<s, e>> # <<>> /\ <<e>> # <<>>
    BY <1>1, ShortSequences
<1> QED
    BY <1>2 DEF h, s, e, HeaderAndRow, WholeRow, LastPiece, ensureHeader

\* What writing out one piece does to the buffer.
LEMMA Flushed ==
    ASSUME TypeOK, NEW w \in Writers, out[w] \in Rests(w), out[w] # <<>>
    PROVE  /\ Head(out[w]) \in Piece
           /\ \/ out[w] = HeaderAndRow(w) /\ Head(out[w]) = ColumnHeader
                 /\ Tail(out[w]) = WholeRow(w)
              \/ out[w] = WholeRow(w) /\ Head(out[w]) = StartOf(w)
                 /\ Tail(out[w]) = LastPiece(w)
              \/ out[w] = LastPiece(w) /\ Head(out[w]) = EndOf(w) /\ Tail(out[w]) = <<>>
BY Buffers, RestPieces, SMTT(30) DEF Rests

LEMMA BuffersAreSequences ==
    ASSUME TypeOK, NEW w \in Writers, NEW s \in Rests(w)
    PROVE  s \in Seq(Piece)
BY Buffers DEF Rests

LEMMA Lengths == ASSUME TypeOK PROVE Len(file) \in Nat
BY DEF TypeOK

-----------------------------------------------------------------------------
LEMMA LoggerTypeStep == LoggerInv /\ [Next]_vars => TypeOK'
<1> SUFFICES ASSUME LoggerInv, [Next]_vars PROVE TypeOK'
    OBVIOUS
<1>0. TypeOK BY DEF LoggerInv
<1> USE LoggerAssumption DEF TypeOK, Go
<1>1. ASSUME NEW w \in Writers, Call(w) PROVE TypeOK' BY <1>0, <1>1 DEF Call, Places
<1>2. ASSUME NEW w \in Writers, Lock(w) PROVE TypeOK' BY <1>0, <1>2 DEF Lock, Places
<1>3. ASSUME NEW w \in Writers, Open(w) PROVE TypeOK'
    <2>1. tellp \in Nat BY <1>0, Lengths DEF tellp
    <2> QED BY <1>0, <1>3, <2>1 DEF Open, Places
<1>4. ASSUME NEW w \in Writers, Write(w) PROVE TypeOK'
    <2>1. ensureHeader(w) \o WholeRow(w) \in Seq(Piece) BY <1>0, Buffers
    <2>2. out' = [out EXCEPT ![w] = ensureHeader(w) \o WholeRow(w)]
        BY <1>4 DEF Write, WholeRow, StartOf, EndOf
    <2> QED BY <1>0, <1>4, <2>1, <2>2 DEF Write, Places
<1>5. ASSUME NEW w \in Writers, Flush(w) PROVE TypeOK'
    <2>1. out[w] \in Rests(w) /\ out[w] # <<>> BY <1>5 DEF Flush, BufferFits, LoggerInv
    <2>2. Head(out[w]) \in Piece /\ Tail(out[w]) \in Seq(Piece)
        BY <1>0, <2>1, Flushed, Buffers
    <2> QED BY <1>0, <1>5, <2>2 DEF Flush
<1>6. ASSUME NEW w \in Writers, Close(w) PROVE TypeOK' BY <1>0, <1>6 DEF Close, Places
<1>7. ASSUME NEW w \in Writers, Unlock(w) PROVE TypeOK' BY <1>0, <1>7 DEF Unlock, Places
<1>8. ASSUME Restart PROVE TypeOK'
    BY <1>0, <1>8 DEF Restart, Places
<1>9. CASE UNCHANGED vars BY <1>0, <1>9 DEF vars
<1> QED
    BY <1>1, <1>2, <1>3, <1>4, <1>5, <1>6, <1>7, <1>8, <1>9
    DEF Next, Logging, Quiescent

LEMMA MutexStep == LoggerInv /\ [Next]_vars => MutexHeld'
<1> SUFFICES ASSUME LoggerInv, [Next]_vars PROVE MutexHeld'
    OBVIOUS
<1> USE LoggerAssumption DEF LoggerInv, TypeOK, MutexHeld, Inside, Go
<1>1. ASSUME NEW w \in Writers, Call(w) PROVE MutexHeld' BY <1>1 DEF Call
<1>2. ASSUME NEW w \in Writers, Lock(w) PROVE MutexHeld' BY <1>2 DEF Lock
<1>3. ASSUME NEW w \in Writers, Open(w) PROVE MutexHeld' BY <1>3 DEF Open
<1>4. ASSUME NEW w \in Writers, Write(w) PROVE MutexHeld' BY <1>4 DEF Write
<1>5. ASSUME NEW w \in Writers, Flush(w) PROVE MutexHeld' BY <1>5 DEF Flush
<1>6. ASSUME NEW w \in Writers, Close(w) PROVE MutexHeld' BY <1>6 DEF Close
<1>7. ASSUME NEW w \in Writers, Unlock(w) PROVE MutexHeld' BY <1>7 DEF Unlock
<1>8. ASSUME Restart PROVE MutexHeld' BY <1>8 DEF Restart
<1>9. CASE UNCHANGED vars BY <1>9 DEF vars
<1> QED
    BY <1>1, <1>2, <1>3, <1>4, <1>5, <1>6, <1>7, <1>8, <1>9
    DEF Next, Logging, Quiescent

\* BufferFits for one thread, and what it depends on.
BufferFit(w) ==
    /\ pc[w] # "close" => out[w] = <<>>
    /\ pc[w] = "close" => out[w] \in Rests(w)
    /\ out[w] = LastPiece(w) => file # <<>> /\ file[Len(file)] = StartOf(w)

LEMMA EachBufferFits == BufferFits <=> \A w \in Writers : BufferFit(w)
BY DEF BufferFits, BufferFit

LEMMA SameRow ==
    ASSUME NEW w \in Writers, made'[w] = made[w]
    PROVE  /\ Rests(w)' = Rests(w) /\ LastPiece(w)' = LastPiece(w)
           /\ StartOf(w)' = StartOf(w) /\ EndOf(w)' = EndOf(w)
BY DEF Rests, HeaderAndRow, WholeRow, LastPiece, StartOf, EndOf

LEMMA OnePiece == \A x : <<x>> # <<>>
OBVIOUS

LEMMA BufferStep == LoggerInv /\ [Next]_vars => BufferFits'
<1> SUFFICES ASSUME LoggerInv, [Next]_vars, NEW v \in Writers PROVE BufferFit(v)'
    BY DEF BufferFits, BufferFit
<1>0. TypeOK /\ MutexHeld /\ BufferFit(v)
    BY EachBufferFits DEF LoggerInv
<1>a. LastPiece(v) # <<>> /\ LastPiece(v)' # <<>> BY OnePiece DEF LastPiece
<1> USE DEF Go
<1>1. ASSUME NEW w \in Writers, Call(w) PROVE BufferFit(v)'
    <2>1. CASE v = w
        <3>1. pc'[v] # "close" /\ out'[v] = <<>>
            BY <1>0, <1>1, <2>1 DEF Call, TypeOK, BufferFit
        <3> QED BY <1>a, <3>1 DEF BufferFit
    <2>2. CASE v # w
        <3>1. made'[v] = made[v] BY <1>0, <1>1, <2>2 DEF Call, TypeOK
        <3> QED BY <1>0, <1>1, <2>2, <3>1, SameRow DEF Call, TypeOK, BufferFit
    <2> QED BY <2>1, <2>2
<1>2. ASSUME NEW w \in Writers, Lock(w) \/ Open(w) \/ Unlock(w) PROVE BufferFit(v)'
    <2>1. /\ made' = made /\ out' = out /\ file' = file
          /\ v = w => pc[v] # "close" /\ pc'[v] # "close"
          /\ v # w => pc'[v] = pc[v]
        BY <1>0, <1>2 DEF Lock, Open, Unlock, TypeOK
    <2> QED BY <1>0, <2>1, SameRow DEF BufferFit
<1>3. ASSUME NEW w \in Writers, Close(w) PROVE BufferFit(v)'
    <2>1. /\ made' = made /\ out' = out /\ file' = file
          /\ v = w => out[v] = <<>> /\ pc'[v] # "close"
          /\ v # w => pc'[v] = pc[v]
        BY <1>0, <1>3 DEF Close, TypeOK
    <2> QED BY <1>0, <2>1, SameRow DEF BufferFit
<1>4. ASSUME NEW w \in Writers, Write(w) PROVE BufferFit(v)'
    <2>1. /\ made' = made /\ file' = file
          /\ v = w => pc'[v] = "close" /\ out'[v] = ensureHeader(v) \o WholeRow(v)
          /\ v # w => pc'[v] = pc[v] /\ out'[v] = out[v]
        BY <1>0, <1>4 DEF Write, TypeOK, WholeRow, StartOf, EndOf
    <2> QED BY <1>0, <2>1, SameRow, Buffers DEF BufferFit, Rests
<1>5. ASSUME NEW w \in Writers, Flush(w) PROVE BufferFit(v)'
    <2>1. /\ made' = made /\ pc' = pc /\ pc[w] = "close" /\ out[w] # <<>>
          /\ file' = Append(file, Head(out[w]))
          /\ out'[w] = Tail(out[w])
          /\ v # w => out'[v] = out[v]
        BY <1>5, <1>0 DEF Flush, TypeOK
    <2>2. CASE v # w
        <3>1. pc[v] # "close" BY <1>0, <2>1, <2>2 DEF MutexHeld, Inside
        <3>2. pc'[v] # "close" /\ out'[v] = <<>> BY <1>0, <2>1, <2>2, <3>1 DEF BufferFit
        <3> QED BY <1>a, <3>2 DEF BufferFit
    <2>3. CASE v = w
        <3>1. out[v] \in Rests(v) BY <1>0, <2>1, <2>3 DEF BufferFit
        <3>2. /\ Head(out[v]) \in Piece
              /\ Tail(out[v]) \in {WholeRow(v), LastPiece(v), <<>>}
              /\ Tail(out[v]) = LastPiece(v) => Head(out[v]) = StartOf(v)
            BY <1>0, <2>1, <2>3, <3>1, Flushed, Buffers
        <3>3. file' # <<>> /\ file'[Len(file')] = Head(out[v])
            BY <1>0, <2>1, <2>3, <3>2, AppendedPiece DEF TypeOK
        <3> QED BY <1>0, <2>1, <2>3, <3>2, <3>3, SameRow DEF BufferFit, Rests
    <2> QED BY <2>2, <2>3
<1>6. ASSUME Restart PROVE BufferFit(v)'
    <2>1. out'[v] = <<>> /\ pc'[v] = "idle" BY <1>6 DEF Restart
    <2> QED BY <1>a, <2>1 DEF BufferFit
<1>7. CASE UNCHANGED vars
    <2>1. made' = made /\ out' = out /\ file' = file /\ pc' = pc BY <1>7 DEF vars
    <2>2. LastPiece(v)' = LastPiece(v) /\ StartOf(v)' = StartOf(v) /\ Rests(v)' = Rests(v)
        BY <2>1, SameRow
    <2> QED BY <1>0, <2>1, <2>2 DEF BufferFit
<1> QED
    BY <1>1, <1>2, <1>3, <1>4, <1>5, <1>6, <1>7 DEF Next, Logging, Quiescent

-----------------------------------------------------------------------------
(***************************************************************************)
(* The file.  FileWhole for one piece, in parts.                           *)
(***************************************************************************)
EndFits(i) ==
    file[i][1] = "end" => i > 1 /\ file[i - 1] = RowStart(file[i][2], file[i][3])
Ended(i)   == i < Len(file) /\ file[i + 1] = RowEnd(file[i][2], file[i][3])
Cut(i)     == \E k \in DOMAIN cuts : cuts[k] = i
Pending(i) ==
    /\ i = Len(file)
    /\ mutex = file[i][2]
    /\ out[mutex] = <<RowEnd(file[i][2], file[i][3])>>

PieceFits(i) ==
    EndFits(i) /\ (file[i][1] = "start" => Ended(i) \/ Cut(i) \/ Pending(i))

LEMMA EachPieceFits == FileWhole <=> \A i \in DOMAIN file : PieceFits(i)
BY DEF FileWhole, PieceFits, EndFits, Ended, Cut, Pending

\* Only a thread that is closing its stream leaves a row without end.
LEMMA PendingCloses ==
    ASSUME LoggerInv, NEW i \in DOMAIN file, file[i][1] = "start", Pending(i)
    PROVE  mutex \in Writers /\ mutex # Nobody /\ pc[mutex] = "close" /\ out[mutex] # <<>>
<1>1. file[i] \in Piece /\ file[i] # ColumnHeader
    BY DEF LoggerInv, TypeOK, ColumnHeader
<1>2. mutex \in Writers BY <1>1, PieceParts DEF Pending
<1>3. out[mutex] # <<>> BY OnePiece DEF Pending
<1> QED BY <1>2, <1>3, LoggerAssumption DEF LoggerInv, BufferFits

\* The thread that moves between lock and unlock holds the mutex.
LEMMA Holder ==
    ASSUME LoggerInv, NEW w \in Writers, pc[w] \in Inside
    PROVE  mutex = w
BY DEF LoggerInv, MutexHeld

\* A step that does not write and does not disturb a row without end.
LEMMA QuietStep ==
    ASSUME LoggerInv, file' = file, cuts' = cuts,
           (mutex' = mutex /\ out' = out)
             \/ \A i \in DOMAIN file : file[i][1] = "start" => ~Pending(i)
    PROVE  FileWhole'
<1> SUFFICES ASSUME NEW i \in DOMAIN file PROVE PieceFits(i)'
    BY DEF FileWhole, PieceFits, EndFits, Ended, Cut, Pending
<1>1. PieceFits(i) BY EachPieceFits DEF LoggerInv
<1> QED BY <1>1 DEF PieceFits, EndFits, Ended, Cut, Pending

LEMMA OnePieceIsShort ==
    ASSUME NEW w \in Writers, NEW x
    PROVE  HeaderAndRow(w) # <<x>> /\ WholeRow(w) # <<x>>
<1>1. Len(HeaderAndRow(w)) = 3 BY DEF HeaderAndRow
<1>2. Len(WholeRow(w)) = 2 BY DEF WholeRow
<1>3. Len(<<x>>) = 1 OBVIOUS
<1> QED BY <1>1, <1>2, <1>3

\* What Flush does to the file, in the three cases of what it writes.
LEMMA FlushFacts ==
    ASSUME LoggerInv, NEW w \in Writers, Flush(w)
    PROVE  /\ mutex = w /\ mutex' = w /\ pc' = pc /\ cuts' = cuts /\ made' = made
           /\ file' = Append(file, Head(out[w])) /\ Head(out[w]) \in Piece
           /\ out' = [out EXCEPT ![w] = Tail(@)] /\ out'[w] = Tail(out[w])
           /\ ends' = IF Head(out[w])[1] = "end" THEN Append(ends, Len(file) + 1) ELSE ends
           /\ \/ out[w] = HeaderAndRow(w) /\ Head(out[w]) = ColumnHeader
              \/ out[w] = WholeRow(w) /\ Head(out[w]) = StartOf(w) /\ out'[w] = LastPiece(w)
              \/ /\ out[w] = LastPiece(w) /\ Head(out[w]) = EndOf(w) /\ out'[w] = <<>>
                 /\ file # <<>> /\ file[Len(file)] = StartOf(w)
<1>0. TypeOK /\ MutexHeld /\ BufferFit(w) BY EachBufferFits DEF LoggerInv
<1>1. /\ pc[w] = "close" /\ out[w] # <<>> /\ mutex' = mutex /\ pc' = pc /\ cuts' = cuts
      /\ made' = made /\ file' = Append(file, Head(out[w]))
      /\ out' = [out EXCEPT ![w] = Tail(@)] /\ out'[w] = Tail(out[w])
      /\ ends' = IF Head(out[w])[1] = "end" THEN Append(ends, Len(file) + 1) ELSE ends
    BY <1>0 DEF Flush, TypeOK
<1>2. mutex = w BY <1>1, Holder DEF Inside
<1>3. out[w] \in Rests(w) BY <1>0, <1>1 DEF BufferFit
<1>4. out[w] = LastPiece(w) => file # <<>> /\ file[Len(file)] = StartOf(w)
    BY <1>0 DEF BufferFit
<1>5. /\ Head(out[w]) \in Piece
      /\ \/ out[w] = HeaderAndRow(w) /\ Head(out[w]) = ColumnHeader
         \/ out[w] = WholeRow(w) /\ Head(out[w]) = StartOf(w) /\ Tail(out[w]) = LastPiece(w)
         \/ out[w] = LastPiece(w) /\ Head(out[w]) = EndOf(w) /\ Tail(out[w]) = <<>>
    BY <1>0, <1>1, <1>3, Flushed
<1> QED BY <1>1, <1>2, <1>4, <1>5

LEMMA FlushKeepsFileWhole ==
    ASSUME LoggerInv, NEW w \in Writers, Flush(w)
    PROVE  FileWhole'
<1>0. TypeOK /\ file \in Seq(Piece) /\ Len(file) \in Nat BY DEF LoggerInv, TypeOK
<1>1. /\ mutex = w /\ mutex' = w /\ cuts' = cuts
      /\ \/ out[w] = HeaderAndRow(w) /\ Head(out[w]) = ColumnHeader
         \/ out[w] = WholeRow(w) /\ Head(out[w]) = StartOf(w) /\ out'[w] = LastPiece(w)
         \/ /\ out[w] = LastPiece(w) /\ Head(out[w]) = EndOf(w)
            /\ file # <<>> /\ file[Len(file)] = StartOf(w)
    BY FlushFacts
<1>2. /\ Len(file') = Len(file) + 1
      /\ DOMAIN file' = DOMAIN file \cup {Len(file) + 1} /\ DOMAIN file = 1..Len(file)
      /\ \A i \in DOMAIN file : file'[i] = file[i]
      /\ file'[Len(file) + 1] = Head(out[w])
    <2>1. Head(out[w]) \in Piece /\ file' = Append(file, Head(out[w])) BY FlushFacts
    <2> QED BY <1>0, <2>1, AppendedPiece
<1>3. ASSUME NEW i \in DOMAIN file PROVE PieceFits(i)'
    <2>1. PieceFits(i) BY EachPieceFits DEF LoggerInv
    <2>2. EndFits(i)' BY <1>0, <1>2, <2>1 DEF PieceFits, EndFits
    <2>3. Ended(i) => Ended(i)' BY <1>0, <1>2 DEF Ended
    <2>4. Cut(i) => Cut(i)' BY <1>1 DEF Cut
    <2>5. ASSUME Pending(i), file[i][1] = "start" PROVE Ended(i)'
        <3>1. out[w] = <<RowEnd(file[i][2], file[i][3])>> /\ i = Len(file)
            BY <1>1, <2>5 DEF Pending
        <3>2. out[w] = LastPiece(w) /\ Head(out[w]) = EndOf(w)
            BY <1>1, <3>1, OnePieceIsShort
        <3>3. EndOf(w) = RowEnd(file[i][2], file[i][3]) BY <3>1, <3>2 DEF LastPiece
        <3> QED BY <1>0, <1>2, <3>1, <3>2, <3>3 DEF Ended
    <2>6. file'[i] = file[i] BY <1>2
    <2> QED BY <2>1, <2>2, <2>3, <2>4, <2>5, <2>6 DEF PieceFits
<1>4. ASSUME NEW j \in {Len(file) + 1} PROVE PieceFits(j)'
    <2>0. j = Len(file) + 1 OBVIOUS
    <2>1. file'[j] = Head(out[w]) /\ j = Len(file') /\ j - 1 = Len(file) BY <1>0, <1>2, <2>0
    <2>p. /\ StartOf(w)[1] = "start" /\ EndOf(w)[1] = "end" /\ ColumnHeader[1] = "header"
          /\ RowStart(EndOf(w)[2], EndOf(w)[3]) = StartOf(w)
          /\ RowEnd(StartOf(w)[2], StartOf(w)[3]) = EndOf(w) /\ StartOf(w)[2] = w
        BY <1>0, RestPieces DEF StartOf, EndOf
    <2>2. CASE Head(out[w]) = ColumnHeader BY <2>1, <2>2, <2>p DEF PieceFits, EndFits
    <2>3. CASE Head(out[w]) = StartOf(w) /\ out'[w] = LastPiece(w)
        <3>1. Pending(j)' BY <1>1, <2>1, <2>3, <2>p DEF Pending, LastPiece
        <3> QED BY <2>1, <2>3, <2>p, <3>1 DEF PieceFits, EndFits
    <2>4. CASE Head(out[w]) = EndOf(w) /\ file # <<>> /\ file[Len(file)] = StartOf(w)
        <3>1. Len(file) > 0 /\ Len(file) \in DOMAIN file BY <1>0, <2>4
        <3>2. j > 1 /\ file'[j - 1] = StartOf(w) BY <1>0, <1>2, <2>1, <2>4, <3>1
        <3> QED BY <2>1, <2>4, <2>p, <3>2 DEF PieceFits, EndFits
    <2> QED BY <1>1, <2>2, <2>3, <2>4
<1>5. \A i \in DOMAIN file' : PieceFits(i)' BY <1>2, <1>3, <1>4
<1> QED BY <1>5 DEF FileWhole, PieceFits, EndFits, Ended, Cut, Pending

LEMMA FileStep == LoggerInv /\ [Next]_vars => FileWhole'
<1> SUFFICES ASSUME LoggerInv, [Next]_vars PROVE FileWhole'
    OBVIOUS
<1>1. ASSUME NEW w \in Writers, Call(w) PROVE FileWhole' BY <1>1, QuietStep DEF Call
<1>2. ASSUME NEW w \in Writers, Lock(w) PROVE FileWhole'
    BY <1>2, QuietStep, PendingCloses DEF Lock
<1>3. ASSUME NEW w \in Writers, Open(w) \/ Write(w) \/ Close(w) \/ Unlock(w)
      PROVE  FileWhole'
    <2>1. /\ pc[w] \in Inside /\ file' = file /\ cuts' = cuts
          /\ pc[w] # "close" \/ out[w] = <<>>
        BY <1>3 DEF Open, Write, Close, Unlock, Go, Inside
    <2>2. mutex = w BY <2>1, Holder
    <2> QED BY <2>1, <2>2, QuietStep, PendingCloses
<1>4. ASSUME NEW w \in Writers, Flush(w) PROVE FileWhole' BY <1>4, FlushKeepsFileWhole
<1>5. ASSUME Restart PROVE FileWhole'
    <2>1. /\ file' = file
          /\ cuts \in Seq(Nat) /\ Len(file) \in Nat
          /\ cuts' = Append(cuts, Len(file))
        BY <1>5, Lengths DEF Restart, LoggerInv, TypeOK
    <2>2. /\ DOMAIN cuts' = DOMAIN cuts \cup {Len(cuts) + 1}
          /\ \A k \in DOMAIN cuts : cuts'[k] = cuts[k]
          /\ cuts'[Len(cuts) + 1] = Len(file)
        BY <2>1, AppendedPiece
    <2>3. ASSUME NEW i \in DOMAIN file PROVE PieceFits(i)'
        <3>1. PieceFits(i) BY EachPieceFits DEF LoggerInv
        <3>2. Cut(i) => Cut(i)' BY <2>2 DEF Cut
        <3>3. Pending(i) => Cut(i)' BY <2>2 DEF Pending, Cut
        <3>4. (Ended(i) <=> Ended(i)') /\ (EndFits(i) <=> EndFits(i)')
            BY <2>1 DEF Ended, EndFits
        <3> QED BY <2>1, <3>1, <3>2, <3>3, <3>4 DEF PieceFits
    <2> QED BY <2>1, <2>3 DEF FileWhole, PieceFits, EndFits, Ended, Cut, Pending
<1>6. CASE UNCHANGED vars BY <1>6, QuietStep DEF vars
<1> QED
    BY <1>1, <1>2, <1>3, <1>4, <1>5, <1>6 DEF Next, Logging, Quiescent

-----------------------------------------------------------------------------
(***************************************************************************)
(* Which rows are complete.                                                *)
(***************************************************************************)
\* What Flush does to ends: a row ends with this piece, or none does.
LEMMA FlushEnds ==
    ASSUME LoggerInv, NEW w \in Writers, Flush(w)
    PROVE  /\ Len(file) \in Nat /\ DOMAIN file = 1..Len(file)
           /\ DOMAIN file' = DOMAIN file \cup {Len(file) + 1}
           /\ \A i \in DOMAIN file : file'[i] = file[i]
           /\ file'[Len(file) + 1] = Head(out[w])
           /\ \/ /\ Head(out[w]) = EndOf(w) /\ EndOf(w)[1] = "end" /\ out'[w] = <<>>
                 /\ ends \in Seq(Nat) /\ ends' = Append(ends, Len(file) + 1)
                 /\ DOMAIN ends' = DOMAIN ends \cup {Len(ends) + 1}
                 /\ DOMAIN ends = 1..Len(ends) /\ Len(ends) \in Nat
                 /\ \A k \in DOMAIN ends : ends'[k] = ends[k]
                 /\ ends'[Len(ends) + 1] = Len(file) + 1
              \/ Head(out[w])[1] # "end" /\ out'[w] # <<>> /\ ends' = ends
<1>0. /\ TypeOK /\ file \in Seq(Piece) /\ ends \in Seq(Nat) /\ Len(file) \in Nat
    BY DEF LoggerInv, TypeOK
<1>1. Head(out[w]) \in Piece /\ file' = Append(file, Head(out[w])) BY FlushFacts
<1>2. /\ DOMAIN file = 1..Len(file)
      /\ DOMAIN file' = DOMAIN file \cup {Len(file) + 1}
      /\ \A i \in DOMAIN file : file'[i] = file[i]
      /\ file'[Len(file) + 1] = Head(out[w])
    BY <1>0, <1>1, AppendedPiece
<1>3. /\ out'[w] = Tail(out[w])
      /\ ends' = IF Head(out[w])[1] = "end" THEN Append(ends, Len(file) + 1) ELSE ends
      /\ \/ out[w] = HeaderAndRow(w) /\ Head(out[w]) = ColumnHeader
         \/ out[w] = WholeRow(w) /\ Head(out[w]) = StartOf(w)
         \/ out[w] = LastPiece(w) /\ Head(out[w]) = EndOf(w)
    BY FlushFacts
<1>4. /\ StartOf(w)[1] = "start" /\ EndOf(w)[1] = "end" /\ ColumnHeader[1] = "header"
      /\ Tail(HeaderAndRow(w)) # <<>> /\ Tail(WholeRow(w)) # <<>> /\ Tail(LastPiece(w)) = <<>>
    BY <1>0, RestPieces, Buffers
<1>5. Len(file) + 1 \in Nat BY <1>0
<1>6. LET e == Append(ends, Len(file) + 1) IN
        /\ DOMAIN e = DOMAIN ends \cup {Len(ends) + 1}
        /\ DOMAIN ends = 1..Len(ends) /\ Len(ends) \in Nat
        /\ \A k \in DOMAIN ends : e[k] = ends[k]
        /\ e[Len(ends) + 1] = Len(file) + 1
    BY <1>0, <1>5, AppendedPiece
<1>7. CASE Head(out[w]) = EndOf(w)
    <2>1. ends' = Append(ends, Len(file) + 1) /\ out'[w] = <<>>
        BY <1>3, <1>4, <1>7
    <2> QED BY <1>0, <1>2, <1>4, <1>6, <1>7, <2>1
<1>8. CASE Head(out[w]) # EndOf(w)
    <2>1. Head(out[w])[1] # "end" /\ ends' = ends /\ out'[w] # <<>>
        BY <1>3, <1>4, <1>8
    <2> QED BY <1>0, <1>2, <2>1
<1> QED BY <1>7, <1>8

LEMMA EndsStep == LoggerInv /\ [Next]_vars => EndsFit'
<1> SUFFICES ASSUME LoggerInv, [Next]_vars PROVE EndsFit'
    OBVIOUS
<1>0. EndsFit BY DEF LoggerInv
<1>1. CASE file' = file /\ ends' = ends BY <1>0, <1>1 DEF EndsFit
<1>2. ASSUME NEW w \in Writers, Flush(w) PROVE EndsFit'
    <2>1. /\ Len(file) \in Nat /\ DOMAIN file = 1..Len(file)
          /\ DOMAIN file' = DOMAIN file \cup {Len(file) + 1}
          /\ \A i \in DOMAIN file : file'[i] = file[i]
          /\ file'[Len(file) + 1] = Head(out[w])
        BY <1>2, FlushEnds
    <2>2. CASE Head(out[w])[1] # "end" /\ ends' = ends
        BY <1>0, <2>1, <2>2 DEF EndsFit
    <2>3. CASE /\ Head(out[w])[1] = "end"
               /\ DOMAIN ends' = DOMAIN ends \cup {Len(ends) + 1}
               /\ DOMAIN ends = 1..Len(ends) /\ Len(ends) \in Nat
               /\ \A k \in DOMAIN ends : ends'[k] = ends[k]
               /\ ends'[Len(ends) + 1] = Len(file) + 1
        <3>1. \A k \in DOMAIN ends' : ends'[k] \in DOMAIN file'
            BY <1>0, <2>1, <2>3 DEF EndsFit
        <3>2. ASSUME NEW i \in DOMAIN file'
              PROVE  file'[i][1] = "end" <=> \E k \in DOMAIN ends' : ends'[k] = i
            <4>1. CASE i = Len(file) + 1 BY <2>1, <2>3, <4>1
            <4>2. CASE i \in DOMAIN file
                <5>1. i # Len(file) + 1 BY <2>1, <4>2
                <5>2. (\E k \in DOMAIN ends : ends[k] = i)
                        <=> \E k \in DOMAIN ends' : ends'[k] = i
                    BY <2>3, <5>1
                <5> QED BY <1>0, <2>1, <4>2, <5>2 DEF EndsFit
            <4> QED BY <2>1, <4>1, <4>2
        <3>3. ASSUME NEW k \in DOMAIN ends', NEW l \in DOMAIN ends', k < l
              PROVE  ends'[k] < ends'[l]
            <4>1. k \in DOMAIN ends BY <2>3, <3>3
            <4>2. CASE l \in DOMAIN ends BY <1>0, <2>3, <3>3, <4>1, <4>2 DEF EndsFit
            <4>3. CASE l = Len(ends) + 1 BY <1>0, <2>1, <2>3, <4>1, <4>3 DEF EndsFit
            <4> QED BY <2>3, <4>2, <4>3
        <3> QED BY <3>1, <3>2, <3>3 DEF EndsFit
    <2> QED BY <1>2, <2>2, <2>3, FlushEnds
<1> QED
    BY <1>1, <1>2
    DEF Next, Logging, Quiescent, Call, Lock, Open, Write, Close, Unlock, Restart, vars

LEMMA LoggerInit == Init => LoggerInv
<1> SUFFICES ASSUME Init PROVE LoggerInv
    OBVIOUS
<1>0. file = <<>> /\ DOMAIN file = {} /\ ends = <<>> /\ DOMAIN ends = {} BY DEF Init
<1>1. TypeOK BY <1>0, LoggerAssumption DEF Init, TypeOK, Places
<1>2. MutexHeld BY LoggerAssumption DEF Init, MutexHeld, Inside
<1>3. BufferFits BY OnePiece DEF Init, BufferFits, LastPiece
<1>4. FileWhole BY <1>0 DEF FileWhole
<1>5. EndsFit BY <1>0 DEF EndsFit
<1> QED BY <1>1, <1>2, <1>3, <1>4, <1>5 DEF LoggerInv

LEMMA LoggerStep == LoggerInv /\ [Next]_vars => LoggerInv'
BY LoggerTypeStep, MutexStep, BufferStep, FileStep, EndsStep DEF LoggerInv

LEMMA LoggerInvHolds == Spec => []LoggerInv
BY LoggerInit, LoggerStep, PTL DEF Spec

\* The Logger's state stays of its types.
THEOREM LoggerTypes == Spec => []TypeOK
<1>1. LoggerInv => TypeOK BY DEF LoggerInv
<1> QED BY <1>1, LoggerInvHolds, PTL

LEMMA WholeFromInv == LoggerInv => RowsWhole
<1> SUFFICES ASSUME LoggerInv PROVE RowsWhole
    OBVIOUS
<1>1. ASSUME NEW i \in DOMAIN file
      PROVE  /\ EndFits(i)
             /\ file[i][1] = "start" =>
                  Ended(i) \/ Cut(i) \/ (i = Len(file) /\ mutex = file[i][2] /\ pc[mutex] = "close")
    <2>1. PieceFits(i) BY EachPieceFits DEF LoggerInv
    <2>2. file[i][1] = "start" /\ Pending(i) => pc[mutex] = "close" BY PendingCloses
    <2> QED BY <2>1, <2>2 DEF PieceFits, Pending
<1> QED BY <1>1 DEF RowsWhole, EndFits, Ended, Cut, LoggerInv, EndsFit

\* Rows are never mixed, whichever threads log at the same time and wherever
\* the process ends: each is whole in the file, or was being written when the
\* process ended, or is being written by the thread that holds the mutex.
THEOREM RowsAreWhole == Spec => []RowsWhole
BY WholeFromInv, LoggerInvHolds, PTL

-----------------------------------------------------------------------------
(***************************************************************************)
(* The Logger implements AppendLog.                                        *)
(***************************************************************************)
LEMMA PhaseFacts ==
    ASSUME NEW w \in Writers
    PROVE  /\ pc[w] = "idle" => PhaseOf(w) = "idle"
           /\ pc[w] \in {"lock", "open", "write"} => PhaseOf(w) = "asked"
           /\ pc[w] = "close" /\ out[w] # <<>> => PhaseOf(w) = "asked"
           /\ pc[w] = "close" /\ out[w] = <<>> => PhaseOf(w) = "kept"
           /\ pc[w] = "unlock" => PhaseOf(w) = "kept"
           /\ pc[w] = "skipped" => PhaseOf(w) = "dropped"
BY DEF PhaseOf

\* The other threads are where they were.
OthersStay(w) == \A v \in Writers \ {w} : pc'[v] = pc[v] /\ out'[v] = out[v]

LEMMA PhaseMoves ==
    ASSUME NEW w \in Writers, OthersStay(w)
    PROVE  [v \in Writers |-> PhaseOf(v)]'
             = [[v \in Writers |-> PhaseOf(v)] EXCEPT ![w] = PhaseOf(w)']
<1>1. ASSUME NEW v \in Writers \ {w} PROVE PhaseOf(v)' = PhaseOf(v)
    BY <1>1 DEF OthersStay, PhaseOf
<1> QED BY <1>1

LEMMA StepOfOne ==
    ASSUME LoggerInv, NEW w \in Writers, Call(w) \/ Logging(w)
    PROVE  OthersStay(w)
BY DEF Call, Logging, Lock, Open, Write, Flush, Close, Unlock, Go, OthersStay, LoggerInv, TypeOK

\* Rows that were complete are the same rows when pieces are added behind them.
LEMMA RowsStay ==
    ASSUME LoggerInv, ends' = ends, \A i \in DOMAIN file : file'[i] = file[i]
    PROVE  CompleteRows' = CompleteRows
<1>1. \A k \in DOMAIN ends : file'[ends[k]] = file[ends[k]]
    BY DEF LoggerInv, EndsFit
<1> QED BY <1>1 DEF CompleteRows

LEMMA RowAdded ==
    ASSUME LoggerInv, NEW w \in Writers, Flush(w), Head(out[w]) = EndOf(w)
    PROVE  CompleteRows' = Append(CompleteRows, <<w, made[w]>>)
<1>1. /\ ends \in Seq(Nat)
      /\ DOMAIN ends' = DOMAIN ends \cup {Len(ends) + 1}
      /\ DOMAIN ends = 1..Len(ends) /\ Len(ends) \in Nat
      /\ \A k \in DOMAIN ends : ends'[k] = ends[k]
      /\ ends'[Len(ends) + 1] = Len(file) + 1
      /\ \A i \in DOMAIN file : file'[i] = file[i]
      /\ file'[Len(file) + 1] = EndOf(w)
    <2>1. EndOf(w)[1] = "end" BY RestPieces DEF LoggerInv
    <2> QED BY <2>1, FlushEnds
<1>2. EndOf(w)[2] = w /\ EndOf(w)[3] = made[w] BY RestPieces DEF LoggerInv
<1>3. \A k \in DOMAIN ends : file'[ends'[k]] = file[ends[k]]
    BY <1>1 DEF LoggerInv, EndsFit
<1> DEFINE R == CompleteRows
           A == Append(R, <<w, made[w]>>)
<1>4. DOMAIN R = 1..Len(ends) /\ \A k \in DOMAIN ends : R[k] = <<file[ends[k]][2], file[ends[k]][3]>>
    BY <1>1 DEF CompleteRows
<1>5. R \in Seq(UNION {{R[k]} : k \in DOMAIN ends}) /\ Len(R) = Len(ends)
    BY <1>1, <1>4 DEF CompleteRows
<1>6. /\ DOMAIN A = 1..(Len(ends) + 1)
      /\ A[Len(ends) + 1] = <<w, made[w]>>
      /\ \A k \in DOMAIN ends : A[k] = R[k]
      /\ A = [k \in 1..(Len(ends) + 1) |-> A[k]]
    BY <1>1, <1>5
<1>7. DOMAIN ends' = 1..(Len(ends) + 1) BY <1>1
<1>8. R' = [k \in 1..(Len(ends) + 1) |-> <<file'[ends'[k]][2], file'[ends'[k]][3]>>]
    BY <1>7 DEF CompleteRows
<1>9. ASSUME NEW k \in 1..(Len(ends) + 1)
      PROVE  A[k] = <<file'[ends'[k]][2], file'[ends'[k]][3]>>
    <2>1. CASE k = Len(ends) + 1 BY <1>1, <1>2, <1>6, <2>1
    <2>2. CASE k \in DOMAIN ends BY <1>3, <1>4, <1>6, <2>2
    <2>3. k = Len(ends) + 1 \/ k \in DOMAIN ends BY <1>1
    <2> HIDE DEF A
    <2> QED BY <2>1, <2>2, <2>3
<1> HIDE DEF R, A
<1>10. R' = A BY <1>6, <1>8, <1>9
<1> QED BY <1>10 DEF R, A

Phase == [w \in Writers |-> PhaseOf(w)]

LEMMA LogInit == Init => Log!Init
<1> SUFFICES ASSUME Init PROVE Log!Init
    OBVIOUS
<1>1. CompleteRows = <<>>
    <2>1. DOMAIN ends = {} /\ DOMAIN <<>> = {} BY DEF Init
    <2> QED BY <2>1 DEF CompleteRows
<1>2. Phase = [w \in Writers |-> "idle"] BY PhaseFacts DEF Phase, Init
<1> QED BY <1>1, <1>2 DEF Init, Phase, Log!Init

LEMMA TypesOf ==
    ASSUME LoggerInv
    PROVE  /\ pc \in [Writers -> Places] /\ made \in [Writers -> Nat]
           /\ out \in [Writers -> Seq(Piece)]
BY LoggerAssumption DEF LoggerInv, TypeOK

\* A thread that goes on without a row being completed, as AppendLog sees it.
LEMMA MovesOnly ==
    ASSUME LoggerInv, NEW w \in Writers, Logging(w), file' = file, ends' = ends
    PROVE  /\ Phase' = [Phase EXCEPT ![w] = PhaseOf(w)']
           /\ CompleteRows' = CompleteRows
<1>1. OthersStay(w) BY StepOfOne
<1> QED BY <1>1, PhaseMoves DEF Phase, CompleteRows

\* ... and if its phase is the same, AppendLog sees nothing.
LEMMA SamePhase ==
    ASSUME NEW w \in Writers, Phase' = [Phase EXCEPT ![w] = PhaseOf(w)'],
           PhaseOf(w)' = PhaseOf(w)
    PROVE  Phase' = Phase
BY DEF Phase

LEMMA LogStep == LoggerInv /\ [Next]_vars => [Log!Next]_Log!vars
<1> SUFFICES ASSUME LoggerInv, [Next]_vars
             PROVE  Log!Next \/ (CompleteRows' = CompleteRows /\ made' = made /\ Phase' = Phase)
    BY DEF Log!vars, Phase
<1>1. ASSUME NEW w \in Writers, Call(w) PROVE Log!Next
    <2>1. Phase' = [Phase EXCEPT ![w] = PhaseOf(w)'] BY <1>1, StepOfOne, PhaseMoves DEF Phase
    <2>2. PhaseOf(w) = "idle" /\ PhaseOf(w)' = "asked"
        BY <1>1, TypesOf DEF Call, Go, PhaseOf
    <2>3. CompleteRows' = CompleteRows BY <1>1 DEF Call, CompleteRows
    <2>4. Log!Ask(w) BY <1>1, <2>1, <2>2, <2>3 DEF Call, Phase, Log!Ask, Log!Moves
    <2> QED BY <2>4 DEF Log!Next
<1>2. ASSUME NEW w \in Writers, Lock(w) \/ Write(w) \/ Close(w)
      PROVE  CompleteRows' = CompleteRows /\ made' = made /\ Phase' = Phase
    <2>1. Logging(w) /\ file' = file /\ ends' = ends /\ made' = made
        BY <1>2 DEF Logging, Lock, Write, Close
    <2>2. CASE Lock(w) \/ Close(w)
        <3>1. PhaseOf(w)' = PhaseOf(w)
            BY <2>2, TypesOf DEF Lock, Close, Go, PhaseOf
        <3> QED BY <2>1, <3>1, MovesOnly, SamePhase
    <2>3. CASE Write(w)
        <3>1. pc[w] = "write" /\ pc'[w] = "close" /\ out'[w] # <<>>
            <4>1. out'[w] = ensureHeader(w) \o WholeRow(w)
                BY <2>3, TypesOf DEF Write, WholeRow, StartOf, EndOf
            <4>2. out'[w] # <<>> BY <4>1, Buffers DEF LoggerInv
            <4> QED BY <2>3, <4>2, TypesOf DEF Write, Go
        <3>2. PhaseOf(w)' = PhaseOf(w) BY <3>1 DEF PhaseOf
        <3> QED BY <2>1, <3>2, MovesOnly, SamePhase
    <2> QED BY <1>2, <2>2, <2>3
<1>3. ASSUME NEW w \in Writers, Open(w)
      PROVE  Log!Next \/ (CompleteRows' = CompleteRows /\ made' = made /\ Phase' = Phase)
    <2>1. Logging(w) /\ file' = file /\ ends' = ends /\ made' = made
        BY <1>3 DEF Logging, Open
    <2>2. CASE pc'[w] = "write"
        <3>1. pc[w] = "open" BY <1>3 DEF Open, Go
        <3>2. PhaseOf(w)' = PhaseOf(w) BY <2>2, <3>1 DEF PhaseOf
        <3> QED BY <2>1, <3>2, MovesOnly, SamePhase
    <2>3. CASE pc'[w] = "skipped"
        <3>1. pc[w] = "open" BY <1>3 DEF Open, Go
        <3>2. PhaseOf(w) = "asked" /\ PhaseOf(w)' = "dropped" BY <2>3, <3>1 DEF PhaseOf
        <3>3. Log!Drop(w) BY <2>1, <3>2, MovesOnly DEF Phase, Log!Drop, Log!Moves
        <3> QED BY <3>3 DEF Log!Next
    <2> QED BY <1>3, <2>2, <2>3, TypesOf DEF Open, Go
<1>4. ASSUME NEW w \in Writers, Unlock(w) PROVE Log!Next
    <2>1. Logging(w) /\ file' = file /\ ends' = ends /\ made' = made
        BY <1>4 DEF Logging, Unlock
    <2>2. PhaseOf(w) \in {"kept", "dropped"} /\ PhaseOf(w)' = "idle"
        BY <1>4, TypesOf DEF Unlock, Go, PhaseOf
    <2>3. Log!Answer(w) BY <2>1, <2>2, MovesOnly DEF Phase, Log!Answer, Log!Moves
    <2> QED BY <2>3 DEF Log!Next
<1>5. ASSUME NEW w \in Writers, Flush(w)
      PROVE  Log!Next \/ (CompleteRows' = CompleteRows /\ made' = made /\ Phase' = Phase)
    <2>1. /\ Phase' = [Phase EXCEPT ![w] = PhaseOf(w)'] /\ made' = made
          /\ PhaseOf(w) = "asked"
          /\ out'[w] = <<>> => PhaseOf(w)' = "kept"
          /\ out'[w] # <<>> => PhaseOf(w)' = "asked"
        <3>1. Phase' = [Phase EXCEPT ![w] = PhaseOf(w)']
            BY <1>5, StepOfOne, PhaseMoves DEF Phase, Logging
        <3>2. made' = made /\ pc[w] = "close" /\ pc'[w] = "close" /\ out[w] # <<>>
            BY <1>5 DEF Flush
        <3> QED BY <3>1, <3>2 DEF PhaseOf
    <2>2. CASE Head(out[w]) = EndOf(w) /\ out'[w] = <<>>
        <3>1. CompleteRows' = Append(CompleteRows, <<w, made[w]>>) BY <1>5, <2>2, RowAdded
        <3>2. Log!Keep(w) BY <2>1, <2>2, <3>1 DEF Phase, Log!Keep, Log!Moves
        <3> QED BY <3>2 DEF Log!Next
    <2>3. CASE ends' = ends /\ out'[w] # <<>> /\ \A i \in DOMAIN file : file'[i] = file[i]
        <3>1. CompleteRows' = CompleteRows BY <2>3, RowsStay
        <3>2. Phase' = Phase BY <2>1, <2>3, SamePhase
        <3> QED BY <2>1, <3>1, <3>2
    <2> QED BY <1>5, <2>2, <2>3, FlushEnds
<1>6. ASSUME Restart PROVE Log!Next
    <2>1. Phase' = [w \in Writers |-> "idle"] BY <1>6 DEF Restart, Phase, PhaseOf
    <2>2. made' = made /\ CompleteRows' = CompleteRows BY <1>6 DEF Restart, CompleteRows
    <2>3. Log!Restart BY <2>1, <2>2 DEF Phase, Log!Restart
    <2> QED BY <2>3 DEF Log!Next
<1>7. CASE UNCHANGED vars
    BY <1>7 DEF vars, CompleteRows, Phase, PhaseOf
<1> QED
    BY <1>1, <1>2, <1>3, <1>4, <1>5, <1>6, <1>7 DEF Next, Logging, Quiescent

\* The Logger is an append-only log: a row joins the log whole and behind the
\* rows there, once per call, no restart takes one away, and a call returns
\* after its row was kept or the file could not be opened.
THEOREM ImplementsAppendLog == Spec => Log!Spec
BY LogInit, LogStep, LoggerInvHolds, PTL DEF Spec, Log!Spec

-----------------------------------------------------------------------------
(***************************************************************************)
(* What holds of every AppendLog holds of the Logger: its rows are in the  *)
(* order of the calls.  This is an argument about the abstract log alone,  *)
(* from the steps of Log.                                                  *)
(***************************************************************************)
\* The row a thread has asked for and not got yet is newer than all it has in
\* the log: without this a second Keep could repeat one.
AskedIsNew ==
    \A i \in DOMAIN CompleteRows :
        Phase[CompleteRows[i][1]] = "asked" => CompleteRows[i][2] < made[CompleteRows[i][1]]

AppendLogInv == Log!TypeOK /\ Log!InCallOrder /\ AskedIsNew

\* A new row behind the log: the earlier ones are where they were.
LEMMA AppendedRow ==
    ASSUME NEW w \in Writers, NEW n \in Nat, NEW rows \in Seq(Writers \X Nat)
    PROVE  LET l == Append(rows, <<w, n>>) IN
             /\ l \in Seq(Writers \X Nat)
             /\ DOMAIN l = DOMAIN rows \cup {Len(rows) + 1}
             /\ \A i \in DOMAIN rows : i < Len(rows) + 1 /\ l[i] = rows[i]
             /\ l[Len(rows) + 1] = <<w, n>>
OBVIOUS

\* Writers \X Nat, taken apart.
LEMMA RowParts ==
    ASSUME NEW l \in Seq(Writers \X Nat), NEW i \in DOMAIN l
    PROVE  i \in Nat /\ l[i][1] \in Writers /\ l[i][2] \in Nat
OBVIOUS

LEMMA AppendLogStep == AppendLogInv /\ [Log!Next]_Log!vars => AppendLogInv'
<1> SUFFICES ASSUME AppendLogInv, [Log!Next]_Log!vars PROVE AppendLogInv'
    OBVIOUS
<1> DEFINE Typed == /\ CompleteRows \in Seq(Writers \X Nat) /\ made \in [Writers -> Nat]
                    /\ Phase \in [Writers -> Log!Phases]
<1>0. /\ Typed /\ (Typed' => Log!TypeOK')
      /\ \A w \in Writers, from, to \in Log!Phases :
           Log!Moves(w, from, to) => Phase[w] = from /\ Phase' = [Phase EXCEPT ![w] = to]
    BY DEF AppendLogInv, Log!TypeOK, Log!Moves, Phase
<1>1. ASSUME NEW w \in Writers, Log!Ask(w) PROVE AppendLogInv'
    <2>1. /\ CompleteRows' = CompleteRows /\ made' = [made EXCEPT ![w] = @ + 1]
          /\ Phase[w] = "idle" /\ Phase' = [Phase EXCEPT ![w] = "asked"]
        BY <1>0, <1>1 DEF Log!Ask, Log!Phases
    <2>2. Typed' BY <1>0, <2>1 DEF Log!Phases
    <2>3. \A v \in Writers : /\ made[v] \in Nat /\ made'[v] \in Nat
                             /\ made[v] <= made'[v] /\ (v = w => made[v] < made'[v])
                             /\ Phase'[v] = "asked" => v = w \/ Phase[v] = "asked"
        BY <1>0, <2>1
    <2>4. \A i \in DOMAIN CompleteRows :
            CompleteRows[i][1] \in Writers /\ CompleteRows[i][2] \in Nat
        BY <1>0, RowParts
    <2> HIDE DEF Typed
    <2>5. Log!InCallOrder'
        BY <2>1, <2>3, <2>4 DEF AppendLogInv, Log!InCallOrder
    <2>6. AskedIsNew'
        BY <2>1, <2>3, <2>4 DEF AppendLogInv, Log!InCallOrder, AskedIsNew
    <2> QED BY <1>0, <2>2, <2>5, <2>6 DEF AppendLogInv
<1>2. ASSUME NEW w \in Writers, Log!Keep(w) PROVE AppendLogInv'
    <2> DEFINE rows == CompleteRows
    <2>1. /\ rows' = Append(rows, <<w, made[w]>>) /\ made' = made
          /\ Phase[w] = "asked" /\ Phase' = [Phase EXCEPT ![w] = "kept"]
        BY <1>0, <1>2 DEF Log!Keep, Log!Phases
    <2>2. made[w] \in Nat /\ rows \in Seq(Writers \X Nat)
        BY <1>0
    <2> HIDE DEF rows
    <2>3. /\ rows' \in Seq(Writers \X Nat)
          /\ DOMAIN rows' = DOMAIN rows \cup {Len(rows) + 1}
          /\ \A i \in DOMAIN rows : i < Len(rows) + 1 /\ rows'[i] = rows[i]
          /\ rows'[Len(rows) + 1] = <<w, made[w]>>
        BY <2>1, <2>2, AppendedRow
    <2>4. Typed' BY <1>0, <2>1, <2>3 DEF Log!Phases, rows
    <2>5. \A i \in DOMAIN rows : i \in Nat /\ rows[i][1] \in Writers /\ rows[i][2] \in Nat
        BY <2>2, RowParts
    <2>6. Len(rows) + 1 \in Nat BY <2>2
    <2>7. \A v \in Writers : Phase'[v] = "asked" => v # w /\ Phase[v] = "asked"
        BY <1>0, <2>1
    <2> HIDE DEF Typed
    <2>8. /\ \A i \in DOMAIN rows : rows[i][2] <= made[rows[i][1]]
          /\ \A i, j \in DOMAIN rows :
               i < j /\ rows[i][1] = rows[j][1] => rows[i][2] < rows[j][2]
          /\ \A i \in DOMAIN rows : Phase[rows[i][1]] = "asked" => rows[i][2] < made[rows[i][1]]
        BY DEF AppendLogInv, Log!InCallOrder, AskedIsNew, rows
    <2>9. \A i \in DOMAIN rows' : rows'[i][2] <= made'[rows'[i][1]]
        BY <2>1, <2>2, <2>3, <2>8
    <2>10. ASSUME NEW i \in DOMAIN rows', NEW j \in DOMAIN rows',
                  i < j, rows'[i][1] = rows'[j][1]
           PROVE  rows'[i][2] < rows'[j][2]
        <3>1. i \in DOMAIN rows BY <2>3, <2>5, <2>6, <2>10
        <3>2. CASE j \in DOMAIN rows BY <2>3, <2>8, <2>10, <3>1, <3>2
        <3>3. CASE j = Len(rows) + 1
            BY <2>1, <2>3, <2>8, <2>10, <3>1, <3>3
        <3> QED BY <2>3, <3>2, <3>3
    <2>11. \A i \in DOMAIN rows' :
             Phase'[rows'[i][1]] = "asked" => rows'[i][2] < made'[rows'[i][1]]
        BY <2>1, <2>2, <2>3, <2>5, <2>7, <2>8
    <2>12. Log!InCallOrder' /\ AskedIsNew'
        BY <2>9, <2>10, <2>11 DEF Log!InCallOrder, AskedIsNew, rows
    <2> QED BY <1>0, <2>4, <2>12 DEF AppendLogInv
<1>3. ASSUME CompleteRows' = CompleteRows, made' = made, Phase' \in [Writers -> Log!Phases],
             \A v \in Writers : Phase'[v] = "asked" => Phase[v] = "asked"
      PROVE  AppendLogInv'
    <2>1. \A i \in DOMAIN CompleteRows : CompleteRows[i][1] \in Writers
        BY <1>0, RowParts
    <2>2. AskedIsNew' BY <1>3, <2>1 DEF AppendLogInv, AskedIsNew
    <2>3. Log!InCallOrder' BY <1>3 DEF AppendLogInv, Log!InCallOrder
    <2> QED BY <1>0, <1>3, <2>2, <2>3 DEF AppendLogInv
<1>4. ASSUME NEW w \in Writers, Log!Drop(w) \/ Log!Answer(w) PROVE AppendLogInv'
    <2>1. PICK to \in {"dropped", "idle"} : Phase' = [Phase EXCEPT ![w] = to]
        BY <1>0, <1>4 DEF Log!Drop, Log!Answer, Log!Phases
    <2>2. CompleteRows' = CompleteRows /\ made' = made
        BY <1>4 DEF Log!Drop, Log!Answer
    <2> QED BY <1>0, <1>3, <2>1, <2>2 DEF Log!Phases
<1>5. ASSUME Log!Restart PROVE AppendLogInv'
    <2>1. Phase' = [w \in Writers |-> "idle"] /\ CompleteRows' = CompleteRows /\ made' = made
        BY <1>5 DEF Log!Restart, Phase
    <2> QED BY <1>3, <2>1 DEF Log!Phases
<1>6. CASE UNCHANGED Log!vars
    <2>1. Phase' = Phase /\ CompleteRows' = CompleteRows /\ made' = made
        BY <1>6 DEF Log!vars, Phase
    <2> QED BY <1>0, <1>3, <2>1
<1> QED BY <1>1, <1>2, <1>4, <1>5, <1>6 DEF Log!Next

\* The rows of one thread are in the file in the order of its calls and none
\* is there twice, whoever else logs and wherever the process is restarted.
THEOREM RowsInOrder == Spec => []RowsInCallOrder
<1>1. Log!Init => AppendLogInv
    BY DEF Log!Init, AppendLogInv, Log!TypeOK, Log!Phases, Log!InCallOrder, AskedIsNew, Phase
<1>2. AppendLogInv => RowsInCallOrder BY DEF AppendLogInv, RowsInCallOrder
<1> QED BY <1>1, <1>2, AppendLogStep, ImplementsAppendLog, PTL DEF Log!Spec

-----------------------------------------------------------------------------
(***************************************************************************)
(* The column header, with a runtime that opens at the end of the file:    *)
(* a thread about to write knows how long the file is, because it holds    *)
(* the mutex since it asked.                                               *)
(***************************************************************************)
HeaderFit(w) ==
    /\ pc[w] = "write" => pos[w] = Len(file)
    /\ out[w] = HeaderAndRow(w) => file = <<>>
    /\ out[w] = WholeRow(w) => file # <<>>

HeaderInv == runtime = "end" => HeaderHeads /\ \A w \in Writers : HeaderFit(w)

LEMMA SameBuffers ==
    ASSUME NEW w \in Writers, made'[w] = made[w]
    PROVE  HeaderAndRow(w)' = HeaderAndRow(w) /\ WholeRow(w)' = WholeRow(w)
BY SameRow DEF HeaderAndRow, WholeRow

LEMMA NotEmpty ==
    \A w \in Writers : /\ HeaderAndRow(w) # <<>> /\ WholeRow(w) # <<>>
                       /\ HeaderAndRow(w) # WholeRow(w)
<1> SUFFICES ASSUME NEW w \in Writers
             PROVE  /\ HeaderAndRow(w) # <<>> /\ WholeRow(w) # <<>>
                    /\ HeaderAndRow(w) # WholeRow(w)
    OBVIOUS
<1>1. Len(HeaderAndRow(w)) = 3 /\ Len(WholeRow(w)) = 2 /\ Len(<<>>) = 0
    BY DEF HeaderAndRow, WholeRow
<1> QED BY <1>1

\* A thread with an empty buffer that is not about to write is fit.
LEMMA IdleFits ==
    ASSUME NEW w \in Writers, pc'[w] # "write", out'[w] = <<>>
    PROVE  HeaderFit(w)'
<1>1. HeaderAndRow(w)' # <<>> /\ WholeRow(w)' # <<>>
    <2>1. Len(HeaderAndRow(w)') = 3 /\ Len(WholeRow(w)') = 2 /\ Len(<<>>) = 0
        BY DEF HeaderAndRow, WholeRow
    <2> QED BY <2>1
<1> QED BY <1>1 DEF HeaderFit

\* So is one that does not move while the file stays what it is.
LEMMA SameFits ==
    ASSUME NEW w \in Writers, HeaderFit(w), pc'[w] = pc[w], out'[w] = out[w],
           made'[w] = made[w], pos'[w] = pos[w], file' = file
    PROVE  HeaderFit(w)'
BY SameBuffers DEF HeaderFit

\* All but the holder of the mutex have an empty buffer.
LEMMA OthersIdle ==
    ASSUME LoggerInv, NEW w \in Writers, NEW v \in Writers, mutex = w, v # w
    PROVE  pc[v] \notin Inside /\ out[v] = <<>>
<1>1. pc[v] \notin Inside BY DEF LoggerInv, MutexHeld
<1> QED BY <1>1 DEF Inside, LoggerInv, BufferFits

LEMMA HeaderStep == LoggerInv /\ HeaderInv /\ [Next]_vars => HeaderInv'
<1> SUFFICES ASSUME LoggerInv, HeaderInv, [Next]_vars PROVE HeaderInv'
    OBVIOUS
<1>r. runtime' = runtime
    BY DEF Next, Logging, Quiescent, Call, Lock, Open, Write, Flush, Close, Unlock,
           Restart, vars
<1> SUFFICES ASSUME HeaderHeads, \A w \in Writers : HeaderFit(w), runtime = "end"
             PROVE  HeaderHeads' /\ \A w \in Writers : HeaderFit(w)'
    BY <1>r DEF HeaderInv
<1>0. file' = file => HeaderHeads' BY DEF HeaderHeads, IsHeader
<1>1. ASSUME NEW w \in Writers, Call(w) \/ Lock(w) \/ Close(w) \/ Unlock(w),
             NEW v \in Writers
      PROVE  HeaderFit(v)'
    <2>1. CASE v = w
        <3>1. pc[w] # "close" \/ out[w] = <<>> BY <1>1 DEF Call, Lock, Close, Unlock, Go
        <3>2. out[w] = <<>> BY <3>1 DEF LoggerInv, BufferFits
        <3>3. pc'[w] # "write" /\ out'[w] = <<>>
            BY <1>1, <3>2, TypesOf DEF Call, Lock, Close, Unlock, Go
        <3> QED BY <2>1, <3>3, IdleFits
    <2>2. CASE v # w
        <3>1. /\ pc'[v] = pc[v] /\ out'[v] = out[v] /\ made'[v] = made[v]
              /\ pos'[v] = pos[v] /\ file' = file
            BY <1>1, <2>2, TypesOf DEF Call, Lock, Close, Unlock, Go
        <3> QED BY <3>1, SameFits
    <2> QED BY <2>1, <2>2
<1>2. ASSUME NEW w \in Writers, Open(w), NEW v \in Writers PROVE HeaderFit(v)'
    <2>0. pos \in [Writers -> Nat] BY DEF LoggerInv, TypeOK
    <2>1. CASE v = w
        <3>1. out[w] = <<>> BY <1>2 DEF Open, Go, LoggerInv, BufferFits
        <3>2. out'[w] = <<>> /\ file' = file /\ made' = made
            BY <1>2, <3>1 DEF Open
        <3>3. pc'[w] = "write" => pos'[w] = tellp
            BY <1>2, <2>0, TypesOf DEF Open, Go
        <3>4. pc'[w] = "write" => pos'[w] = Len(file) BY <3>3 DEF tellp
        <3> QED BY <2>1, <3>2, <3>4, NotEmpty, SameBuffers DEF HeaderFit
    <2>2. CASE v # w
        <3>1. /\ pc'[v] = pc[v] /\ out'[v] = out[v] /\ made'[v] = made[v]
              /\ pos'[v] = pos[v] /\ file' = file
            BY <1>2, <2>0, <2>2, TypesOf DEF Open, Go
        <3> QED BY <3>1, SameFits
    <2> QED BY <2>1, <2>2
<1>3. ASSUME NEW w \in Writers, Write(w), NEW v \in Writers PROVE HeaderFit(v)'
    <2>1. CASE v = w
        <3>1. /\ out'[w] = ensureHeader(w) \o WholeRow(w) /\ pc[w] = "write"
              /\ pc'[w] = "close" /\ file' = file /\ made' = made
            BY <1>3, TypesOf DEF Write, Go, WholeRow, StartOf, EndOf
        <3>2. pos[w] = Len(file) BY <3>1 DEF HeaderFit
        <3>3. file \in Seq(Piece) BY DEF LoggerInv, TypeOK
        <3>4. CASE file = <<>>
            <4>1. pos[w] = 0 BY <3>2, <3>4
            <4>2. out'[w] = HeaderAndRow(w) BY <3>1, <4>1, Buffers DEF LoggerInv
            <4> QED BY <2>1, <3>1, <3>4, <4>2, NotEmpty, SameBuffers DEF HeaderFit
        <3>5. CASE file # <<>>
            <4>1. pos[w] # 0 BY <3>2, <3>3, <3>5
            <4>2. out'[w] = WholeRow(w) BY <3>1, <4>1, Buffers DEF LoggerInv
            <4> QED BY <2>1, <3>1, <3>5, <4>2, NotEmpty, SameBuffers DEF HeaderFit
        <3> QED BY <3>4, <3>5
    <2>2. CASE v # w
        <3>1. /\ pc'[v] = pc[v] /\ out'[v] = out[v] /\ made'[v] = made[v]
              /\ pos'[v] = pos[v] /\ file' = file
            BY <1>3, <2>2, TypesOf DEF Write, Go
        <3> QED BY <3>1, SameFits
    <2> QED BY <2>1, <2>2
<1>4. ASSUME NEW w \in Writers, Flush(w)
      PROVE  HeaderHeads' /\ \A v \in Writers : HeaderFit(v)'
    <2>0. TypeOK /\ BufferFits /\ file \in Seq(Piece) BY DEF LoggerInv, TypeOK
    <2>1. /\ mutex = w /\ pc' = pc /\ made' = made /\ out' = [out EXCEPT ![w] = Tail(@)]
          /\ Head(out[w]) \in Piece /\ file' = Append(file, Head(out[w]))
          /\ out'[w] = Tail(out[w])
          /\ \/ out[w] = HeaderAndRow(w) /\ Head(out[w]) = ColumnHeader
             \/ out[w] = WholeRow(w) /\ Head(out[w]) = StartOf(w)
             \/ out[w] = LastPiece(w) /\ Head(out[w]) = EndOf(w) /\ file # <<>>
        BY <1>4, FlushFacts
    <2>2. /\ Len(file) \in Nat /\ DOMAIN file = 1..Len(file)
          /\ DOMAIN file' = DOMAIN file \cup {Len(file) + 1}
          /\ \A i \in DOMAIN file : file'[i] = file[i]
          /\ file'[Len(file) + 1] = Head(out[w])
          /\ file' # <<>>
        <3>1. Head(out[w]) \in Piece /\ file' = Append(file, Head(out[w])) BY <2>1
        <3> QED BY <2>0, <3>1, AppendedPiece
    <2>3. pc[w] = "close" BY <1>4 DEF Flush
    <2>4. HeaderHeads'
        <3>1. StartOf(w) # ColumnHeader /\ EndOf(w) # ColumnHeader BY <2>0, RestPieces
        <3>2. CASE out[w] = HeaderAndRow(w) /\ Head(out[w]) = ColumnHeader
            <4>1. Len(file) = 0 BY <3>2 DEF HeaderFit
            <4> QED BY <2>2, <3>2, <4>1 DEF HeaderHeads, IsHeader
        <3>3. CASE Head(out[w]) # ColumnHeader /\ file # <<>>
            <4>1. Len(file) > 0 BY <2>0, <3>3
            <4> QED BY <2>2, <3>3, <4>1 DEF HeaderHeads, IsHeader
        <3>4. out[w] = WholeRow(w) => file # <<>> BY DEF HeaderFit
        <3> QED BY <2>1, <3>1, <3>2, <3>3, <3>4
    <2>5. ASSUME NEW v \in Writers PROVE HeaderFit(v)'
        <3>1. CASE v = w
            <4>1. Tail(HeaderAndRow(w)) = WholeRow(w) /\ Tail(WholeRow(w)) = LastPiece(w)
                  /\ Tail(LastPiece(w)) = <<>>
                  /\ HeaderAndRow(w) # LastPiece(w) /\ WholeRow(w) # LastPiece(w)
                BY <2>0, Buffers
            <4>2. out'[w] # HeaderAndRow(w) BY <2>1, <4>1, NotEmpty
            <4>3. pc'[w] # "write" /\ HeaderAndRow(w)' = HeaderAndRow(w)
                BY <2>1, <2>3, SameBuffers
            <4> QED BY <2>2, <3>1, <4>2, <4>3 DEF HeaderFit
        <3>2. CASE v # w
            <4>1. pc[v] \notin Inside /\ out[v] = <<>> BY <2>1, <3>2, OthersIdle
            <4>2. pc'[v] # "write" /\ out'[v] = <<>>
                BY <2>1, <3>2, <4>1, TypesOf DEF Inside
            <4> QED BY <4>2, IdleFits
        <3> QED BY <3>1, <3>2
    <2> QED BY <2>4, <2>5
<1>5. ASSUME Restart, NEW v \in Writers PROVE HeaderFit(v)'
    <2>1. pc'[v] # "write" /\ out'[v] = <<>> BY <1>5 DEF Restart
    <2> QED BY <2>1, IdleFits
<1>6. ASSUME UNCHANGED vars, NEW v \in Writers PROVE HeaderFit(v)'
    BY <1>6, SameFits DEF vars
<1>7. \/ \E w \in Writers : Flush(w)
      \/ file' = file /\ \A v \in Writers : HeaderFit(v)'
    <2>1. \A w \in Writers : Call(w) \/ Lock(w) \/ Open(w) \/ Write(w) \/ Close(w) \/ Unlock(w)
                               => file' = file
        BY DEF Call, Lock, Open, Write, Close, Unlock
    <2>2. Restart \/ UNCHANGED vars => file' = file BY DEF Restart, vars
    <2> QED BY <1>1, <1>2, <1>3, <1>5, <1>6, <2>1, <2>2 DEF Next, Logging, Quiescent
<1> QED BY <1>0, <1>4, <1>7

-----------------------------------------------------------------------------
(***************************************************************************)
(* The column header, with a runtime whose tellp is 0 when a file has just *)
(* been opened: every row brings its header, and between the two nobody    *)
(* writes, for the writer holds the mutex.                                 *)
(***************************************************************************)
RowFit(w) ==
    /\ pc[w] = "write" => pos[w] = 0
    /\ out[w] = WholeRow(w) => file # <<>> /\ IsHeader(file[Len(file)])

\* A row in the file stands behind a header.
Headed(i) == file[i][1] = "start" => i > 1 /\ IsHeader(file[i - 1])

\* A header in the file has its row, or will never have, or is about to.
Serves(i) ==
    IsHeader(file[i]) =>
        \/ i < Len(file) /\ file[i + 1][1] = "start"
        \/ \E k \in DOMAIN cuts : cuts[k] = i
        \/ /\ i = Len(file) /\ mutex \in Writers
           /\ pc[mutex] = "close" /\ out[mutex] = WholeRow(mutex)

RowInv ==
    runtime = "start" =>
        /\ \A w \in Writers : RowFit(w)
        /\ \A i \in DOMAIN file : Headed(i) /\ Serves(i)

\* A thread with an empty buffer that is not about to write is fit.
LEMMA IdleRowFits ==
    ASSUME NEW w \in Writers, pc'[w] # "write", out'[w] = <<>>
    PROVE  RowFit(w)'
<1>1. Len(WholeRow(w)') = 2 /\ Len(<<>>) = 0 BY DEF WholeRow
<1> QED BY <1>1 DEF RowFit

LEMMA SameRowFits ==
    ASSUME NEW w \in Writers, RowFit(w), pc'[w] = pc[w], out'[w] = out[w],
           made'[w] = made[w], pos'[w] = pos[w], file' = file
    PROVE  RowFit(w)'
BY SameBuffers DEF RowFit, IsHeader

\* Steps that write nothing to the file: the thread that is between a header
\* and its row can take none of them.
LEMMA NothingWritten ==
    ASSUME LoggerInv, NEW w \in Writers,
           Call(w) \/ Lock(w) \/ Open(w) \/ Write(w) \/ Close(w) \/ Unlock(w),
           NEW i \in DOMAIN file, Headed(i), Serves(i)
    PROVE  Headed(i)' /\ Serves(i)'
<1>1. file' = file /\ cuts' = cuts
    BY DEF Call, Lock, Open, Write, Close, Unlock
<1>2. ASSUME mutex \in Writers, pc[mutex] = "close", out[mutex] = WholeRow(mutex)
      PROVE  /\ mutex' = mutex /\ pc'[mutex] = "close"
             /\ out'[mutex] = WholeRow(mutex)'
    <2>1. w # mutex
        <3>1. WholeRow(w) # <<>> BY NotEmpty
        <3> QED BY <1>2, <3>1 DEF Call, Lock, Open, Write, Close, Unlock, Go
    <2>2. pc[w] \notin Inside BY <1>2, <2>1, OthersIdle
    <2>3. Call(w) BY <1>2, <2>2, LoggerAssumption DEF Lock, Open, Write, Close, Unlock, Go, Inside
    <2>4. /\ mutex' = mutex /\ pc'[mutex] = pc[mutex] /\ out' = out
          /\ made'[mutex] = made[mutex]
        BY <1>2, <2>1, <2>3, TypesOf DEF Call, Go
    <2> QED BY <1>2, <2>4, SameBuffers
<1> QED BY <1>1, <1>2 DEF Headed, Serves, IsHeader

\* A piece goes to the file.
LEMMA PieceWritten ==
    ASSUME LoggerInv, NEW w \in Writers, Flush(w), RowFit(w),
           \A i \in DOMAIN file : Headed(i) /\ Serves(i)
    PROVE  /\ \A v \in Writers : RowFit(v)'
           /\ \A i \in DOMAIN file' : Headed(i)' /\ Serves(i)'
<1>0. TypeOK /\ BufferFits /\ file \in Seq(Piece) BY DEF LoggerInv, TypeOK
<1>1. /\ mutex = w /\ pc' = pc /\ made' = made /\ out' = [out EXCEPT ![w] = Tail(@)]
      /\ Head(out[w]) \in Piece /\ file' = Append(file, Head(out[w]))
      /\ out'[w] = Tail(out[w])
      /\ \/ out[w] = HeaderAndRow(w) /\ Head(out[w]) = ColumnHeader
         \/ out[w] = WholeRow(w) /\ Head(out[w]) = StartOf(w)
         \/ out[w] = LastPiece(w) /\ Head(out[w]) = EndOf(w) /\ file # <<>>
    BY FlushFacts
<1>2. /\ Len(file) \in Nat /\ DOMAIN file = 1..Len(file)
      /\ DOMAIN file' = DOMAIN file \cup {Len(file) + 1}
      /\ \A i \in DOMAIN file : file'[i] = file[i]
      /\ file'[Len(file) + 1] = Head(out[w])
      /\ file' # <<>> /\ Len(file') = Len(file) + 1
    <2>1. Head(out[w]) \in Piece /\ file' = Append(file, Head(out[w])) BY <1>1
    <2>2. Len(file') = Len(file) + 1 BY <1>0, <2>1
    <2> QED BY <1>0, <2>1, <2>2, AppendedPiece
<1>3. pc[w] = "close" /\ cuts' = cuts /\ mutex' = mutex BY DEF Flush
<1>4. /\ Tail(HeaderAndRow(w)) = WholeRow(w) /\ Tail(WholeRow(w)) = LastPiece(w)
      /\ Tail(LastPiece(w)) = <<>>
      /\ HeaderAndRow(w) # LastPiece(w) /\ WholeRow(w) # LastPiece(w)
      /\ WholeRow(w) # HeaderAndRow(w) /\ WholeRow(w) # <<>>
    BY <1>0, Buffers, NotEmpty
<1>5. /\ ColumnHeader[1] = "header" /\ StartOf(w)[1] = "start" /\ EndOf(w)[1] = "end"
      /\ StartOf(w) # ColumnHeader /\ EndOf(w) # ColumnHeader
    <2>1. /\ ColumnHeader[1] = "header" /\ StartOf(w)[1] = "start" /\ EndOf(w)[1] = "end"
        BY DEF ColumnHeader, StartOf, EndOf, RowStart, RowEnd
    <2> QED BY <1>0, <2>1, RestPieces
<1>6. WholeRow(w)' = WholeRow(w) BY <1>1, SameBuffers
<1>7. ASSUME NEW v \in Writers PROVE RowFit(v)'
    <2>1. CASE v = w
        <3>1. pc'[w] # "write" BY <1>1, <1>3
        <3>2. out'[w] = WholeRow(w) => IsHeader(file'[Len(file')])
            <4>1. out'[w] = WholeRow(w) => out[w] = HeaderAndRow(w) BY <1>1, <1>4
            <4> QED BY <1>1, <1>2, <1>4, <4>1 DEF IsHeader
        <3> QED BY <1>2, <1>6, <2>1, <3>1, <3>2 DEF RowFit, IsHeader
    <2>2. CASE v # w
        <3>1. pc[v] \notin Inside /\ out[v] = <<>> BY <1>1, <2>2, OthersIdle
        <3>2. pc'[v] # "write" /\ out'[v] = <<>>
            BY <1>1, <2>2, <3>1, TypesOf DEF Inside
        <3> QED BY <3>2, IdleRowFits
    <2> QED BY <2>1, <2>2
<1>8. ASSUME NEW i \in DOMAIN file PROVE Headed(i)' /\ Serves(i)'
    <2>1. i \in 1..Len(file) /\ file'[i] = file[i] BY <1>2
    <2>2. Headed(i)'
        <3>1. file[i][1] = "start" => i > 1 /\ IsHeader(file[i - 1]) BY DEF Headed
        <3>2. i > 1 => i - 1 \in DOMAIN file BY <1>2, <2>1
        <3>3. i > 1 => file'[i - 1] = file[i - 1] BY <1>2, <3>2
        <3> QED BY <2>1, <3>1, <3>3 DEF Headed, IsHeader
    <2>3. Serves(i)'
        <3>1. CASE i < Len(file) /\ file[i + 1][1] = "start"
            <4>1. i + 1 \in DOMAIN file BY <1>2, <2>1, <3>1
            <4>2. file'[i + 1] = file[i + 1] /\ i < Len(file') BY <1>2, <2>1, <3>1, <4>1
            <4> QED BY <3>1, <4>2 DEF Serves, IsHeader
        <3>2. CASE \E k \in DOMAIN cuts : cuts[k] = i
            BY <1>3, <3>2 DEF Serves, IsHeader
        <3>3. CASE i = Len(file) /\ out[w] = WholeRow(w)
            <4>1. Head(out[w]) = StartOf(w) BY <1>1, <1>4, <3>3
            <4>2. file'[i + 1][1] = "start" /\ i < Len(file') BY <1>2, <1>5, <3>3, <4>1
            <4> QED BY <4>2 DEF Serves, IsHeader
        <3>4. CASE ~IsHeader(file[i]) BY <2>1, <3>4 DEF Serves, IsHeader
        <3> QED BY <1>1, <3>1, <3>2, <3>3, <3>4 DEF Serves
    <2> QED BY <2>2, <2>3
<1>9. ASSUME NEW n \in DOMAIN file', n = Len(file) + 1 PROVE Headed(n)' /\ Serves(n)'
    <2>1. file'[n] = Head(out[w]) /\ Len(file') = n BY <1>2, <1>9
    <2>2. CASE out[w] = HeaderAndRow(w) /\ Head(out[w]) = ColumnHeader
        <3>1. file'[n][1] # "start" BY <1>5, <2>1, <2>2
        <3>2. out'[w] = WholeRow(w)' BY <1>1, <1>4, <1>6, <2>2
        <3> QED BY <1>1, <1>3, <2>1, <3>1, <3>2 DEF Headed, Serves
    <2>3. CASE out[w] = WholeRow(w) /\ Head(out[w]) = StartOf(w)
        <3>1. file # <<>> /\ IsHeader(file[Len(file)]) BY <2>3 DEF RowFit
        <3>2. Len(file) \in DOMAIN file /\ n > 1 /\ n - 1 = Len(file)
            BY <1>0, <1>2, <1>9, <3>1
        <3>3. IsHeader(file'[n - 1]) BY <1>2, <3>1, <3>2
        <3> QED BY <1>5, <2>1, <2>3, <3>2, <3>3 DEF Headed, Serves, IsHeader
    <2>4. CASE Head(out[w]) = EndOf(w)
        BY <1>5, <2>1, <2>4 DEF Headed, Serves, IsHeader
    <2> QED BY <1>1, <2>2, <2>3, <2>4
<1> QED BY <1>2, <1>7, <1>8, <1>9

LEMMA RowStep == LoggerInv /\ RowInv /\ [Next]_vars => RowInv'
<1> SUFFICES ASSUME LoggerInv, RowInv, [Next]_vars PROVE RowInv'
    OBVIOUS
<1>r. runtime' = runtime
    BY DEF Next, Logging, Quiescent, Call, Lock, Open, Write, Flush, Close, Unlock,
           Restart, vars
<1> SUFFICES ASSUME \A w \in Writers : RowFit(w), runtime = "start",
                    \A i \in DOMAIN file : Headed(i) /\ Serves(i)
             PROVE  /\ \A w \in Writers : RowFit(w)'
                    /\ \A i \in DOMAIN file' : Headed(i)' /\ Serves(i)'
    BY <1>r DEF RowInv
<1>0. pos \in [Writers -> Nat] BY DEF LoggerInv, TypeOK
<1>1. ASSUME NEW w \in Writers,
             Call(w) \/ Lock(w) \/ Open(w) \/ Write(w) \/ Close(w) \/ Unlock(w),
             NEW v \in Writers
      PROVE  RowFit(v)'
    <2>1. CASE v # w
        <3>1. /\ pc'[v] = pc[v] /\ out'[v] = out[v] /\ made'[v] = made[v]
              /\ pos'[v] = pos[v] /\ file' = file
            BY <1>0, <1>1, <2>1, TypesOf DEF Call, Lock, Open, Write, Close, Unlock, Go
        <3> QED BY <3>1, SameRowFits
    <2>2. CASE v = w /\ (Call(w) \/ Lock(w) \/ Close(w) \/ Unlock(w))
        <3>1. pc[w] # "close" \/ out[w] = <<>> BY <2>2 DEF Call, Lock, Close, Unlock, Go
        <3>2. out[w] = <<>> BY <3>1 DEF LoggerInv, BufferFits
        <3>3. pc'[w] # "write" /\ out'[w] = <<>>
            BY <2>2, <3>2, TypesOf DEF Call, Lock, Close, Unlock, Go
        <3> QED BY <2>2, <3>3, IdleRowFits
    <2>3. CASE v = w /\ Open(w)
        <3>1. out[w] = <<>> BY <2>3 DEF Open, Go, LoggerInv, BufferFits
        <3>2. out'[w] = <<>> BY <2>3, <3>1 DEF Open
        <3>3. pc'[w] = "write" => pos'[w] = 0
            BY <1>0, <2>3, TypesOf DEF Open, Go, tellp
        <3>4. Len(WholeRow(w)') = 2 /\ Len(<<>>) = 0 BY DEF WholeRow
        <3> QED BY <2>3, <3>2, <3>3, <3>4 DEF RowFit
    <2>4. CASE v = w /\ Write(w)
        <3>1. /\ out'[w] = ensureHeader(w) \o WholeRow(w) /\ pc[w] = "write"
              /\ pc'[w] = "close" /\ made' = made
            BY <2>4, TypesOf DEF Write, Go, WholeRow, StartOf, EndOf
        <3>2. pos[w] = 0 BY <3>1 DEF RowFit
        <3>3. out'[w] = HeaderAndRow(w) BY <3>1, <3>2, Buffers DEF LoggerInv
        <3>4. out'[w] # WholeRow(w)' BY <3>1, <3>3, NotEmpty, SameBuffers
        <3> QED BY <2>4, <3>1, <3>4 DEF RowFit
    <2> QED BY <1>1, <2>1, <2>2, <2>3, <2>4
<1>2. ASSUME NEW w \in Writers,
             Call(w) \/ Lock(w) \/ Open(w) \/ Write(w) \/ Close(w) \/ Unlock(w)
      PROVE  \A i \in DOMAIN file' : Headed(i)' /\ Serves(i)'
    <2>1. file' = file BY <1>2 DEF Call, Lock, Open, Write, Close, Unlock
    <2> QED BY <1>2, <2>1, NothingWritten
<1>3. ASSUME NEW w \in Writers, Flush(w)
      PROVE  /\ \A v \in Writers : RowFit(v)'
             /\ \A i \in DOMAIN file' : Headed(i)' /\ Serves(i)'
    BY <1>3, PieceWritten
<1>4. CASE Restart
    <2>1. \A v \in Writers : pc'[v] # "write" /\ out'[v] = <<>> BY <1>4 DEF Restart
    <2>2. file' = file /\ cuts' = Append(cuts, Len(file)) BY <1>4 DEF Restart
    <2>3. /\ \A k \in DOMAIN cuts : k \in DOMAIN cuts' /\ cuts'[k] = cuts[k]
          /\ \E k \in DOMAIN cuts' : cuts'[k] = Len(file)
        <3>1. cuts \in Seq(Nat) /\ Len(file) \in Nat BY DEF LoggerInv, TypeOK
        <3>2. /\ Len(cuts) \in Nat /\ DOMAIN cuts = 1..Len(cuts)
              /\ DOMAIN cuts' = 1..(Len(cuts) + 1)
              /\ \A k \in 1..Len(cuts) : cuts'[k] = cuts[k]
              /\ cuts'[Len(cuts) + 1] = Len(file)
            BY <2>2, <3>1
        <3> QED BY <3>2
    <2>4. \A i \in DOMAIN file : Headed(i)' /\ Serves(i)'
        BY <2>2, <2>3 DEF Headed, Serves, IsHeader
    <2> QED BY <2>1, <2>2, <2>4, IdleRowFits
<1>5. CASE UNCHANGED vars
    <2>1. \A v \in Writers : RowFit(v)' BY <1>5, SameRowFits DEF vars
    <2>2. \A v \in Writers : WholeRow(v)' = WholeRow(v) BY <1>5, SameBuffers DEF vars
    <2> QED BY <1>5, <2>1, <2>2 DEF vars, Headed, Serves, IsHeader
<1> QED BY <1>1, <1>2, <1>3, <1>4, <1>5 DEF Next, Logging, Quiescent

\* Where the column header stands, however many threads log at once, whatever
\* calls fail and whenever the process ends: where a file opened to append is
\* open at its end it is the first line of the file and no other; where tellp
\* is 0 then, as it was for the log in the repository, it is repeated before
\* every row and parted from none.
THEOREM HeaderPlaces == Spec => []HeadersByRuntime
<1>1. Init => HeaderInv /\ RowInv
    <2> SUFFICES ASSUME Init
                 PROVE  HeaderHeads /\ \A w \in Writers : HeaderFit(w) /\ RowFit(w)
        BY DEF HeaderInv, RowInv, Init
    <2>1. DOMAIN file = {} BY DEF Init
    <2> QED BY <2>1, NotEmpty DEF Init, HeaderHeads, HeaderFit, RowFit
<1>2. HeaderInv /\ RowInv => HeadersByRuntime
    BY DEF HeaderInv, RowInv, Headed, Serves, HeadersByRuntime
<1> QED BY <1>1, <1>2, HeaderStep, RowStep, LoggerInvHolds, PTL DEF Spec
=============================================================================
