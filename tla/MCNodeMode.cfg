SPECIFICATION Spec
CONSTANTS
  Numbers = {300, 301, 4321}
  DefaultNN = 4321
  CanIds = {100, 1}
  Ports = {5555, 5556}
  FlagBytes <- Flags
  FirstFiles <- Files
  Serialized = TRUE
  MaxEvents = 7
INVARIANTS TypeOK RunsAsSaved FlimHasNumber LedsShowMode ChangesAreApplied
\* Users and tools owe no command, and the bound ends every behaviour.
CHECK_DEADLOCK FALSE
