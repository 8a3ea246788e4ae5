------------------------------ MODULE MCSessions ------------------------------
(***************************************************************************)
(* A small instance of Sessions: two refreshes at a time, a cap of two     *)
(* sessions, three sessions and three tokens in all, one change of the     *)
(* account.  A session left alone is idle one tick before its absolute     *)
(* lifetime ends, and one that is used reaches the end of it.              *)
(***************************************************************************)
EXTENDS Sessions, TLC

Symmetry == Permutations(Refreshers)

===============================================================================
