---------------------------- MODULE MCOneTimeCodes ----------------------------
(* Interchangeable answers and workers: neither keeps anything when it is  *)
(* done, and no choice depends on which of them acts.                      *)
EXTENDS OneTimeCodes, TLC

MCSymmetry == Permutations(Guesses) \cup Permutations(Workers)
===============================================================================
