---------------------------- MODULE Subsequences ----------------------------
(***************************************************************************)
(* What a loop leaves of a list when it keeps some of its elements in      *)
(* their order (std::copy_if, erase with remove_if, a range-based for with *)
(* a push_back under a condition), without recursion.                      *)
(***************************************************************************)
EXTENDS Integers, Sequences, FiniteSets

\* The positions P in increasing order (a set of one enumeration).
InOrder(P) ==
  {p \in [1 .. Cardinality(P) -> P] :
     /\ \A i, j \in DOMAIN p : i < j => p[i] < p[j]
     /\ \A x \in P : \E i \in DOMAIN p : p[i] = x}

\* The elements of the sequence s at the positions P (a set of one sequence).
Kept(s, P) == {[i \in DOMAIN p |-> s[p[i]]] : p \in InOrder(P)}
=============================================================================
