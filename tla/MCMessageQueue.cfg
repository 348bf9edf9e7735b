SPECIFICATION FairSpec
CONSTANTS
  Producers = {p1, p2}
  None = None
  MaxPuts = 2
INVARIANT TypeOK
PROPERTIES
  WakeupTakes
  ChannelSpec
\* The taker blocks for good once the puts are over, and ends after a stop.
CHECK_DEADLOCK FALSE
