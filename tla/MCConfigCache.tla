---------------------------- MODULE MCConfigCache ----------------------------
(***************************************************************************)
(* A small instance of ConfigCache: two keys of one version counter, two   *)
(* calls and three writes.                                                 *)
(***************************************************************************)
EXTENDS ConfigCache, TLC

Symmetry == Permutations(Keys) \cup Permutations(Readers)

===============================================================================
