---------------------------- MODULE Subsequences -----------------------------
(* What is left of a sequence when only some of its places are kept, as    *)
(* Array.prototype.filter does.                                            *)
EXTENDS Naturals, Sequences, FiniteSets

\* The k-th of some places.
Place(places, k) == CHOOSE i \in {i \in places : Cardinality({j \in places : j <= i}) = k} : TRUE

\* The elements at those places, in their order.
Subsequence(s, places) == [k \in 1..Cardinality(places) |-> s[Place(places, k)]]
=============================================================================
