--------------------------- MODULE MCPacketStream ---------------------------
(***************************************************************************)
(* PacketStream for model checking: places and addresses are               *)
(* interchangeable.                                                        *)
(***************************************************************************)
EXTENDS PacketStream, TLC

Symmetry == Permutations(Objects) \cup Permutations(Blocks)
=============================================================================
