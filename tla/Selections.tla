----------------------------- MODULE Selections -----------------------------
(***************************************************************************)
(* The elements of a sequence at a set of places, in their order.  The     *)
(* histories and logs of the model are read through it: the rows of one    *)
(* event, the frames of one type.                                          *)
(***************************************************************************)
EXTENDS Naturals, FiniteSets

\* The k-th smallest number of a set.
Nth(I, k) == CHOOSE i \in I : Cardinality({j \in I : j <= i}) = k

\* The elements of s at the places in I.
Selected(s, I) == [k \in 1..Cardinality(I) |-> s[Nth(I, k)]]
=============================================================================
