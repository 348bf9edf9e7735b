---------------------------- MODULE MCCanRouter ----------------------------
(* Two throttles, two GridConnect programs and another sending thread. The *)
(* symmetry set is for the runs without liveness properties.               *)
EXTENDS CanRouter, TLC

ClientSymmetry == Permutations(Ed) \cup Permutations(Grid)
=============================================================================
