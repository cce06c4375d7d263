------------------------------- MODULE Sorting -------------------------------
(***************************************************************************)
(* A set in the order of a relation: the member of place n has n members   *)
(* before it.  Orders are sets of pairs, so that one fact about them can   *)
(* be stated for all.                                                      *)
(***************************************************************************)
EXTENDS Naturals, FiniteSets

Preceding(S, R, x) == {y \in S : <<y, x>> \in R}
Place(S, R, x) == Cardinality(Preceding(S, R, x))

SortedBy(S, R) == [n \in 1 .. Cardinality(S) |-> CHOOSE x \in S : Place(S, R, x) = n - 1]

StrictOrder(S, R) ==
  /\ \A x \in S : <<x, x>> \notin R
  /\ \A x, y, z \in S : <<x, y>> \in R /\ <<y, z>> \in R => <<x, z>> \in R
  /\ \A x, y \in S : x = y \/ <<x, y>> \in R \/ <<y, x>> \in R
=============================================================================
