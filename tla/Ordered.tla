------------------------------ MODULE Ordered -------------------------------
(* Numbers in their order. *)
EXTENDS Integers, FiniteSets

\* The place of x in S, counted from the least.
Rank(S, x) == Cardinality({y \in S : y <= x})

\* The sequence of the members of a finite set of numbers, the least first.
InOrder(S) == [k \in 1 .. Cardinality(S) |-> CHOOSE x \in S : Rank(S, x) = k]
=============================================================================
