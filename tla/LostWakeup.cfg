SPECIFICATION FairSpec
CONSTANTS
  Producers = {p1, p2}
  None = None
  MaxPuts = 2
PROPERTY QueuedIsTaken
CHECK_DEADLOCK FALSE
