SPECIFICATION FairSpec
CONSTANTS
  Conns = {a1}
  IpOf <- OneDevice
  Locos = {l1, l2}
  Wants <- Every
  MaxUid = 3
  MaxSid = 2
  MaxCommands = 1
  Serialized = TRUE
PROPERTY
  OrphanIsSwept
\* Users owe no command; the bounds end every behaviour.
CHECK_DEADLOCK FALSE
