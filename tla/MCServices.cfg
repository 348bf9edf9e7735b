SPECIFICATION FairSpec
CONSTANTS
  Shells = {sh}
  Pids = {p1, p2}
  None = None
  Ports = {5555, 5556}
  Prompt = TRUE
  MaxEvents = 4
INVARIANTS TypeOK NetworkAsSaved WorkingCopyKept
PROPERTY ServiceReturns
\* Users owe no command: the system may come to rest.
CHECK_DEADLOCK FALSE
