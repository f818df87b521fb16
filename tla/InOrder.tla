------------------------------ MODULE InOrder -------------------------------
(***************************************************************************)
(* The members of a finite set of numbers, from the least to the greatest. *)
(* SetToSortSeq means the same; here each place is given by counting, of   *)
(* which proofs can say more than of a sorting permutation.                *)
(***************************************************************************)
EXTENDS Integers, FiniteSets

Nth(S, k)  == CHOOSE x \in S : Cardinality({y \in S : y <= x}) = k
InOrder(S) == [k \in 1 .. Cardinality(S) |-> Nth(S, k)]
=============================================================================
