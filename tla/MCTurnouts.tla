----------------------------- MODULE MCTurnouts -----------------------------
(* Turnouts for TLC.                                                       *)
EXTENDS Turnouts

=============================================================================
