------------------------------ MODULE MCRecency ------------------------------
(***************************************************************************)
(* Recency for TLC: the symmetry of pids and of virtual page numbers,      *)
(* which no definition of Recency orders.                                  *)
(***************************************************************************)
EXTENDS Recency, TLC

Symmetry == Permutations(Pids) \cup Permutations(Vpns)
=============================================================================
