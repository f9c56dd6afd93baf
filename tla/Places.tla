------------------------------- MODULE Places -------------------------------
(***************************************************************************)
(* What a loop over a sequence keeps, by the places it keeps: the numbers  *)
(* of a finite set in their order, and what a sequence has there.          *)
(***************************************************************************)
EXTENDS Naturals, Sequences, FiniteSets

\* The numbers of I in their order.
Ordered(I) == [k \in 1..Cardinality(I) |-> CHOOSE i \in I : Cardinality({j \in I : j <= i}) = k]

\* What s has at the places I, in their order.
At(s, I) == LET places == Ordered(I) IN [k \in DOMAIN places |-> s[places[k]]]
=============================================================================
