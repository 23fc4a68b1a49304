---------------------------- MODULE StateMachine ----------------------------
(***************************************************************************)
(* The state machine every connection handler owns (Server/StateMachine.h):*)
(* its states and the transitions isValid accepts.  transition() itself,   *)
(* which logs, assigns or throws, is Transition in module Server: it also  *)
(* touches the log and, when it throws, the process.                       *)
(***************************************************************************)

ServerState == {"DISCONNECTED", "CONNECTED", "AUTHENTICATED",
                "DATA_RECEIVING", "DATA_TRANSFER"}

\* The successors isValid allows without asking for flightComplete.
Successors(from) ==
    CASE from = "DISCONNECTED"   -> {"CONNECTED"}
      [] from = "CONNECTED"      -> {"AUTHENTICATED"}
      [] from = "AUTHENTICATED"  -> {"DATA_RECEIVING", "DATA_TRANSFER"}
      [] from = "DATA_RECEIVING" -> {"DATA_TRANSFER", "AUTHENTICATED"}
      [] from = "DATA_TRANSFER"  -> {"DATA_RECEIVING", "AUTHENTICATED"}

isValid(from, to, flightComplete) ==
    \/ to \in Successors(from)
    \/ from # "DISCONNECTED" /\ to = "DISCONNECTED" /\ flightComplete
=============================================================================
