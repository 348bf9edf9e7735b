---------------------------- MODULE FifoChannel ----------------------------
(***************************************************************************)
(* What a message queue of CANPiWi promises to the threads on its two      *)
(* sides, whatever it does with its mutex and its condition variable: a    *)
(* message that was accepted is delivered at most once and in the order of *)
(* acceptance, and nothing else is ever delivered.                         *)
(***************************************************************************)
EXTENDS Naturals, Sequences

CONSTANT Message

VARIABLES accepted,   \* every message put so far, in the order of the puts
          delivered   \* every message taken so far, in the order of the takes

vars == <<accepted, delivered>>

Init == accepted = <<>> /\ delivered = <<>>

Accept(m) ==
  /\ accepted' = Append(accepted, m)
  /\ UNCHANGED delivered

Deliver ==
  /\ Len(delivered) < Len(accepted)
  /\ delivered' = Append(delivered, accepted[Len(delivered) + 1])
  /\ UNCHANGED accepted

Next == Deliver \/ \E m \in Message : Accept(m)

Spec == Init /\ [][Next]_vars
=============================================================================
