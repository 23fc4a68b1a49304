-------------------------- MODULE StateMachineTests --------------------------
(***************************************************************************)
(* The unit tests of StateMachine (FuelSystem.Tests/ServerTests.cpp), run  *)
(* on the model: each is a sequence of calls of transition on a fresh      *)
(* machine and the state it ends in, or the exception one of them throws.  *)
(* TLC evaluates them with every run on MCOpenServer.                      *)
(***************************************************************************)
EXTENDS StateMachine, Naturals
LOCAL INSTANCE SequencesExt

\* A call of transition, flightComplete defaulting to false.
Call(next) == <<next, FALSE>>

\* The state of the machine after the calls; "threw" if one was refused.
After(calls) ==
    FoldLeft(LAMBDA state, call :
                 IF state # "threw" /\ isValid(state, call[1], call[2])
                 THEN call[1] ELSE "threw",
             "DISCONNECTED", calls)

\* The way of a session, as the tests walk it.
Walk == <<Call("CONNECTED"), Call("AUTHENTICATED"), Call("DATA_RECEIVING"),
          Call("DATA_TRANSFER"), Call("DATA_RECEIVING")>>

\* InitialState and the five valid transitions, each test one call longer.
ValidTransitions ==
    /\ After(<<>>) = "DISCONNECTED"
    /\ \A n \in 1..5 : After(SubSeq(Walk, 1, n)) = Walk[n][1]

\* The three InvalidTransition tests: no state can be skipped.
InvalidTransitions ==
    \A state \in {"AUTHENTICATED", "DATA_RECEIVING", "DATA_TRANSFER"} :
        After(<<Call(state)>>) = "threw"

\* NoDisconnect_Without_FlightComplete, Disconnect_With_FlightComplete.
Disconnects ==
    LET Receiving == SubSeq(Walk, 1, 3) IN
      /\ After(Append(Receiving, <<"DISCONNECTED", FALSE>>)) = "threw"
      /\ After(Append(Receiving, <<"DISCONNECTED", TRUE>>)) = "DISCONNECTED"

ASSUME ServerStateMachineTests ==
    ValidTransitions /\ InvalidTransitions /\ Disconnects
=============================================================================
