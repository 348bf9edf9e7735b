SPECIFICATION Spec
CONSTANTS
  Conns = {a1, a2}
  IpOf <- OneDevice
  Locos = {l1, l2}
  Wants <- Every
  MaxUid = 3
  MaxSid = 1
  MaxCommands = 1
  Serialized = TRUE
SYMMETRY LocoSymmetry
INVARIANTS
  TypeOK
  HeldIsSound
  ForgottenIsReleased
  SweepInBounds
\* Users owe no command; the bounds end every behaviour.
CHECK_DEADLOCK FALSE
