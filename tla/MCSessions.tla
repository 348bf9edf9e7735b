----------------------------- MODULE MCSessions -----------------------------
(* Sessions for TLC: the connections of one device, whose user may want     *)
(* every locomotive. The symmetry set is for the run without liveness.      *)
EXTENDS Sessions

OneDevice == [c \in Conns |-> "A"]
Every == [c \in Conns |-> Locos]
LocoSymmetry == Permutations(Locos)
=============================================================================
