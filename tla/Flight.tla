------------------------------- MODULE Flight -------------------------------
(***************************************************************************)
(* What an aircraft and the ground promise each other about a flight,      *)
(* without connections, packets, logins and threads: the readings reach    *)
(* the ground's log in the order of the flight, possibly after the         *)
(* aircraft has gone, and the flight is confirmed only when all of them    *)
(* are there.                                                              *)
(***************************************************************************)
EXTENDS Naturals, Sequences

CONSTANTS Aircraft,
          Readings    \* the fuel levels of a flight, in their order

VARIABLES recorded,    \* how many readings the aircraft has noted as sent
          logged,      \* the readings in the ground's log
          confirmed,   \* the aircraft knows that all are
          over         \* the aircraft has gone

vars == <<recorded, logged, confirmed, over>>

Init ==
    /\ recorded = [a \in Aircraft |-> 0]
    /\ logged = [a \in Aircraft |-> <<>>]
    /\ confirmed = [a \in Aircraft |-> FALSE]
    /\ over = [a \in Aircraft |-> FALSE]

\* A reading is noted once it has been handed over, not before the one it
\* follows.
Record(a) ==
    /\ ~over[a]
    /\ recorded[a] < Len(Readings)
    /\ recorded' = [recorded EXCEPT ![a] = @ + 1]
    /\ UNCHANGED <<logged, confirmed, over>>

\* The ground logs the next reading, if need be the one the aircraft is about
\* to note, and even after the aircraft has gone.
Log(a) ==
    /\ Len(logged[a]) <= recorded[a] /\ Len(logged[a]) < Len(Readings)
    /\ logged' = [logged EXCEPT ![a] = Append(@, Readings[Len(@) + 1])]
    /\ UNCHANGED <<recorded, confirmed, over>>

Confirm(a) ==
    /\ ~over[a] /\ ~confirmed[a]
    /\ recorded[a] = Len(Readings) /\ logged[a] = Readings
    /\ confirmed' = [confirmed EXCEPT ![a] = TRUE]
    /\ UNCHANGED <<recorded, logged, over>>

\* The flight ends, complete or not.
End(a) ==
    /\ ~over[a]
    /\ over' = [over EXCEPT ![a] = TRUE]
    /\ UNCHANGED <<recorded, logged, confirmed>>

Next == \E a \in Aircraft : Record(a) \/ Log(a) \/ Confirm(a) \/ End(a)

Spec == Init /\ [][Next]_vars

\* Every flight ends.
FairSpec == Spec /\ \A a \in Aircraft : WF_vars(End(a))
=============================================================================
