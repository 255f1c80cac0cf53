------------------------------ MODULE MCPaging ------------------------------
(***************************************************************************)
(* Paging for TLC: the symmetry of pids and of virtual page numbers, which *)
(* no definition of Paging orders.                                         *)
(***************************************************************************)
EXTENDS Paging, TLC

Symmetry == Permutations(Pids) \cup Permutations(Vpns)
=============================================================================
