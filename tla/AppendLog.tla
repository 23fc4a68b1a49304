------------------------------ MODULE AppendLog ------------------------------
(***************************************************************************)
(* What the threads of a program expect of a log: whoever asks for a row   *)
(* finds it at the end of the log, whole, when the call returns, unless    *)
(* the log could not be opened or the program ended during the call.       *)
(* Threads, mutex, buffers and the column header do not show.              *)
(*                                                                         *)
(* The n-th row a writer asks for is <<writer, n>>.                        *)
(***************************************************************************)
EXTENDS Naturals, Sequences

CONSTANTS Writers

VARIABLES log,       \* the rows
          asked,     \* of each writer, how many rows it has asked for
          phase      \* of each writer: no call, or what became of its row

vars == <<log, asked, phase>>

Phases == {"idle", "asked", "kept", "dropped"}

TypeOK ==
    /\ log \in Seq(Writers \X Nat)
    /\ asked \in [Writers -> Nat]
    /\ phase \in [Writers -> Phases]

Init ==
    /\ log = <<>>
    /\ asked = [w \in Writers |-> 0]
    /\ phase = [w \in Writers |-> "idle"]

Moves(w, from, to) == phase[w] = from /\ phase' = [phase EXCEPT ![w] = to]

Ask(w) ==
    /\ Moves(w, "idle", "asked")
    /\ asked' = [asked EXCEPT ![w] = @ + 1]
    /\ UNCHANGED log

Keep(w) ==
    /\ Moves(w, "asked", "kept")
    /\ log' = Append(log, <<w, asked[w]>>)
    /\ UNCHANGED asked

Drop(w) == Moves(w, "asked", "dropped") /\ UNCHANGED <<log, asked>>

Answer(w) ==
    /\ Moves(w, "kept", "idle") \/ Moves(w, "dropped", "idle")
    /\ UNCHANGED <<log, asked>>

\* The program ends and is started again: calls under way are forgotten,
\* rows that are in the log stay there.
Restart ==
    /\ phase' = [w \in Writers |-> "idle"]
    /\ UNCHANGED <<log, asked>>

Next ==
    \/ \E w \in Writers : Ask(w) \/ Keep(w) \/ Drop(w) \/ Answer(w)
    \/ Restart

Spec == Init /\ [][Next]_vars

\* A call that was made is answered.
FairSpec ==
    /\ Spec
    /\ \A w \in Writers : WF_vars(Keep(w) \/ Drop(w) \/ Answer(w))

-----------------------------------------------------------------------------
\* The log is in the order of the calls: no row of a writer stands before an
\* earlier one of the same writer or stands there twice, and none was written
\* that nobody has asked for.
InCallOrder ==
    /\ \A i \in DOMAIN log : log[i][2] <= asked[log[i][1]]
    /\ \A i, j \in DOMAIN log :
         i < j /\ log[i][1] = log[j][1] => log[i][2] < log[j][2]
=============================================================================
