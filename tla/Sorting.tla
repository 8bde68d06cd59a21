-------------------------------- MODULE Sorting --------------------------------
(***************************************************************************)
(* What a loop over a sorted map or set, or over the elements of a list    *)
(* that pass a filter, goes through, in its order.                         *)
(***************************************************************************)
EXTENDS Integers, FiniteSets

(* The numbers of a finite set, the smallest first: k of them are not      *)
(* greater than the k-th.                                                  *)
InOrder(S) == [k \in 1..Cardinality(S) |-> CHOOSE n \in S : Cardinality({m \in S : m <= n}) = k]

(* The elements of the list s at the places K. *)
Picked(s, K) == LET order == InOrder(K) IN [i \in 1..Cardinality(K) |-> s[order[i]]]
=============================================================================
