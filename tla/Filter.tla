------------------------------- MODULE Filter -------------------------------
(***************************************************************************)
(* Array.prototype.filter as the pages use it: the elements that are kept, *)
(* in their order.  What is kept is given as the set of its places.  (The  *)
(* SelectSeq of the standard module is recursive, and nothing can be       *)
(* proved of it here.)                                                     *)
(***************************************************************************)
EXTENDS Naturals, Sequences, FiniteSets

\* The rank of the place i among the places K.
Rank(K, i) == Cardinality({j \in K : j <= i})

Filtered(s, K) == [k \in 1..Cardinality(K) |-> s[CHOOSE i \in K : Rank(K, i) = k]]
=============================================================================
