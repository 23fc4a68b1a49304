------------------------------- MODULE Logger -------------------------------
(***************************************************************************)
(* The log file and the threads of one process that write to it            *)
(* (Shared/Logger.h).  logEvent and logPacket, and through them logError   *)
(* and logStateTransition, go the same way: lock the mutex, open the file  *)
(* to append, write the column header when tellp says 0, write the row,    *)
(* and, leaving the function, close the stream and then unlock.            *)
(*                                                                         *)
(* What is written stays in the stream's buffer until it is written out,   *)
(* at the latest when the stream is closed; that may take several writes   *)
(* to the file, so a row is two pieces here.  The process may end at any   *)
(* moment, with the threads wherever they are, and be started again on     *)
(* the file it left.                                                       *)
(***************************************************************************)
EXTENDS Integers, Sequences

CONSTANTS Writers,      \* the threads that log
          Nobody,
          MaxCalls,     \* bound: rows one thread asks for
          MaxRestarts,  \* bound: how often the process is started again
          Runtimes      \* the C runtimes considered, see tellp

ASSUME LoggerAssumption ==
    /\ Nobody \notin Writers
    /\ MaxCalls \in Nat /\ MaxRestarts \in Nat
    /\ Runtimes \subseteq {"start", "end"}

VARIABLES runtime,   \* what tellp says of a file just opened to append:
                     \* its start, or its end
          mutex,     \* who has locked it
          pc,        \* where each thread is
          made,      \* how many rows each thread has asked for
          pos,       \* what tellp says in the call under way
          out,       \* the stream's buffer
          file,      \* the pieces in the file
          ends,      \* where in the file a row ends, a history
          cuts       \* how long the file was when the process ended, a history

vars == <<runtime, mutex, pc, made, pos, out, file, ends, cuts>>

Places == {"idle", "lock", "open", "write", "close", "unlock", "skipped"}

ColumnHeader == <<"header">>
RowStart(w, n) == <<"start", w, n>>
RowEnd(w, n)   == <<"end", w, n>>

Piece == {ColumnHeader} \cup ({"start", "end"} \X Writers \X Nat)

TypeOK ==
    /\ runtime \in Runtimes
    /\ mutex \in Writers \cup {Nobody}
    /\ pc \in [Writers -> Places]
    /\ made \in [Writers -> 0..MaxCalls]
    /\ pos \in [Writers -> Nat]
    /\ out \in [Writers -> Seq(Piece)]
    /\ file \in Seq(Piece)
    /\ ends \in Seq(Nat)
    /\ cuts \in Seq(Nat)

Init ==
    /\ runtime \in Runtimes
    /\ mutex = Nobody
    /\ pc = [w \in Writers |-> "idle"]
    /\ made = [w \in Writers |-> 0]
    /\ pos = [w \in Writers |-> 0]
    /\ out = [w \in Writers |-> <<>>]
    /\ file = <<>>
    /\ ends = <<>>
    /\ cuts = <<>>

-----------------------------------------------------------------------------
Go(w, from, to) == pc[w] = from /\ pc' = [pc EXCEPT ![w] = to]

\* A thread calls one of the four functions.
Call(w) ==
    /\ made[w] < MaxCalls
    /\ Go(w, "idle", "lock")
    /\ made' = [made EXCEPT ![w] = @ + 1]
    /\ UNCHANGED <<runtime, mutex, pos, out, file, ends, cuts>>

\* Faulty: no lock_guard.
LockNothing(w) ==
    Go(w, "lock", "open") /\ UNCHANGED <<runtime, mutex, made, pos, out, file, ends, cuts>>

Lock(w) ==
    /\ Go(w, "lock", "open")
    /\ mutex = Nobody
    /\ mutex' = w
    /\ UNCHANGED <<runtime, made, pos, out, file, ends, cuts>>

\* Faulty: the position of the last piece.
tellpLast == IF runtime = "end" THEN Len(file) - 1 ELSE 0

\* What tellp says of a file just opened with ios::app.  The standard leaves
\* the position before the first write to the C runtime.
tellp == IF runtime = "end" THEN Len(file) ELSE 0

\* The file is opened, or it cannot be and the function returns.
Open(w) ==
    /\ \/ Go(w, "open", "write") /\ pos' = [pos EXCEPT ![w] = tellp]
       \/ Go(w, "open", "skipped") /\ UNCHANGED pos
    /\ UNCHANGED <<runtime, mutex, made, out, file, ends, cuts>>

\* Faulty: a thread_local flag for tellp, the header once per thread.
ensureHeaderPerThread(w) == IF made[w] = 1 THEN <<ColumnHeader>> ELSE <<>>

ensureHeader(w) == IF pos[w] = 0 THEN <<ColumnHeader>> ELSE <<>>

\* Faulty: a function that logs and then calls another that does.
WriteTwice(w) ==
    /\ Go(w, "write", "close")
    /\ out' = [out EXCEPT ![w] = ensureHeader(w)
         \o [i \in 1..4 |-> IF i % 2 = 1 THEN RowStart(w, made[w]) ELSE RowEnd(w, made[w])]]
    /\ UNCHANGED <<runtime, mutex, made, pos, file, ends, cuts>>

\* The header, if there is to be one, and the row go into the buffer.
Write(w) ==
    /\ Go(w, "write", "close")
    /\ out' = [out EXCEPT ![w] =
                 ensureHeader(w) \o <<RowStart(w, made[w]), RowEnd(w, made[w])>>]
    /\ UNCHANGED <<runtime, mutex, made, pos, file, ends, cuts>>

\* ~ofstream writes the buffer out, piece by piece, and closes the file.
Flush(w) ==
    /\ pc[w] = "close"
    /\ out[w] # <<>>
    /\ file' = Append(file, Head(out[w]))
    /\ out' = [out EXCEPT ![w] = Tail(@)]
    /\ ends' = IF Head(out[w])[1] = "end" THEN Append(ends, Len(file) + 1) ELSE ends
    /\ UNCHANGED <<runtime, mutex, pc, made, pos, cuts>>

\* Faulty: the stream is neither closed nor flushed.
CloseUnflushed(w) ==
    /\ Go(w, "close", "unlock")
    /\ out' = [out EXCEPT ![w] = <<>>]
    /\ UNCHANGED <<runtime, mutex, made, pos, file, ends, cuts>>

Close(w) ==
    /\ out[w] = <<>>
    /\ Go(w, "close", "unlock")
    /\ UNCHANGED <<runtime, mutex, made, pos, out, file, ends, cuts>>

\* Faulty: the early return leaves the mutex locked.
UnlockAfterRow(w) ==
    \/ /\ Go(w, "unlock", "idle")
       /\ mutex' = Nobody
       /\ UNCHANGED <<runtime, made, pos, out, file, ends, cuts>>
    \/ /\ Go(w, "skipped", "idle")
       /\ UNCHANGED <<runtime, mutex, made, pos, out, file, ends, cuts>>

\* ~lock_guard, on both ways out.
Unlock(w) ==
    /\ Go(w, "unlock", "idle") \/ Go(w, "skipped", "idle")
    /\ mutex' = Nobody
    /\ UNCHANGED <<runtime, made, pos, out, file, ends, cuts>>

\* The process ends, buffers are lost, and it is started again.
Restart ==
    /\ Len(cuts) < MaxRestarts
    /\ mutex' = Nobody
    /\ pc' = [w \in Writers |-> "idle"]
    /\ out' = [w \in Writers |-> <<>>]
    /\ cuts' = Append(cuts, Len(file))
    /\ UNCHANGED <<runtime, made, pos, file, ends>>

\* A thread inside one of the four functions goes on.
Logging(w) == Lock(w) \/ Open(w) \/ Write(w) \/ Flush(w) \/ Close(w) \/ Unlock(w)

Quiescent ==
    (\A w \in Writers : pc[w] = "idle" /\ made[w] = MaxCalls) /\ UNCHANGED vars

Next == (\E w \in Writers : Call(w) \/ Logging(w)) \/ Restart \/ Quiescent

Spec == Init /\ [][Next]_vars

\* The operating system schedules every thread.  Nothing is promised about
\* who gets the mutex next: a thread waits for as many rows of the others as
\* they ask for.
FairSpec == Spec /\ \A w \in Writers : WF_vars(Logging(w))

-----------------------------------------------------------------------------
\* Rows are never mixed (REQ-LOG-030): in the file the two pieces of a row
\* stand next to each other, whichever threads log at the same time; only a
\* row the process was writing when it ended lacks its end, and the last one
\* of the file while the thread that holds the mutex is at it.  (Which rows
\* are complete is what ends says.)
RowsWhole ==
    /\ \A i \in DOMAIN file : LET p == file[i] IN
        /\ p[1] = "end" => i > 1 /\ file[i - 1] = RowStart(p[2], p[3])
        /\ p[1] = "start" =>
             \/ i < Len(file) /\ file[i + 1] = RowEnd(p[2], p[3])
             \/ \E k \in DOMAIN cuts : cuts[k] = i
             \/ i = Len(file) /\ mutex = p[2] /\ pc[mutex] = "close"
    /\ \A i \in DOMAIN file :
         file[i][1] = "end" <=> \E k \in DOMAIN ends : ends[k] = i
    /\ \A k, l \in DOMAIN ends : k < l => ends[k] < ends[l]

IsHeader(p) == p = ColumnHeader

\* The column header heads the file (REQ-LOG-030): it is its first line and
\* no other, whichever thread logs first and whether or not its call failed.
HeaderHeads ==
    \A i \in DOMAIN file : IsHeader(file[i]) <=> i = 1

\* Where the column header stands, for either runtime, with several threads,
\* calls that fail and processes that end: where tellp is the end of the file
\* it heads the file and is nowhere else; where tellp is 0, as it was for the
\* log in the repository, one stands right before every row, and every one has
\* its row unless the process ended before it or is about to write it.
HeadersByRuntime ==
    /\ runtime = "end" => HeaderHeads
    /\ runtime = "start" => \A i \in DOMAIN file :
         /\ file[i][1] = "start" => i > 1 /\ IsHeader(file[i - 1])
         /\ IsHeader(file[i]) =>
              \/ i < Len(file) /\ file[i + 1][1] = "start"
              \/ \E k \in DOMAIN cuts : cuts[k] = i
              \/ i = Len(file) /\ mutex \in Writers /\ pc[mutex] = "close"

\* No thread is left behind in the Logger: whoever calls it gets out, although
\* another thread holds the mutex, the file cannot be opened or both.
EveryCallReturns == \A w \in Writers : pc[w] # "idle" ~> pc[w] = "idle"

-----------------------------------------------------------------------------
(***************************************************************************)
(* The Logger implements AppendLog: the log is the rows complete in the    *)
(* file, and a row is kept from its last piece on.                         *)
(***************************************************************************)
CompleteRows ==
    [k \in DOMAIN ends |-> <<file[ends[k]][2], file[ends[k]][3]>>]

PhaseOf(w) ==
    CASE pc[w] = "idle" -> "idle"
      [] pc[w] = "skipped" -> "dropped"
      [] pc[w] = "unlock" -> "kept"
      [] pc[w] = "close" /\ out[w] = <<>> -> "kept"
      [] OTHER -> "asked"

Log == INSTANCE AppendLog
         WITH log <- CompleteRows, asked <- made, phase <- [w \in Writers |-> PhaseOf(w)]

\* The Logger is an append-only log (REQ-LOG-010): the row a thread asks for
\* is whole at the end of the log when its call returns, unless the file
\* could not be opened or the process has ended, and rows once written stay.
IsAppendLog == Log!FairSpec

\* The rows of one handler are in the file in the order the handler logged
\* them, none twice, as the properties of its own log suppose.
RowsInCallOrder == Log!InCallOrder
=============================================================================
