----------------------------- MODULE MCGridLink -----------------------------
(* GridLink for TLC: data, remote and extended frames; ids with the lowest  *)
(* and the highest bits set, and bits on both sides of a byte.              *)
EXTENDS GridLink

Std(id, data) == [eff |-> FALSE, rtr |-> FALSE, id |-> id, data |-> data]
Rtr(id) == [eff |-> FALSE, rtr |-> TRUE, id |-> id, data |-> <<>>]
Ext(id, data) == [eff |-> TRUE, rtr |-> FALSE, id |-> id, data |-> data]

FromProgram ==
  {Std(1473, <<144, 18>>), Std(2047, <<>>), Rtr(1408), Ext(4, <<13>>), Ext(2^18 + 65541, <<>>)}
FromBus ==
  {Std(1473, <<144, 18>>), Std(1, <<255>>), Rtr(1535), Ext(4, <<13>>), Ext(2^28, <<>>)}

=============================================================================
