----------------------------- MODULE MCThrottle -----------------------------
(* Throttle for TLC: functions of two groups, the light among them.        *)
EXTENDS Throttle, TLC

General == {{}, {0}}
Names == Permutations(Locos) \cup Permutations(Types)

=============================================================================
