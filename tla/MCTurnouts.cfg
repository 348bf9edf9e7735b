SPECIFICATION FairSpec
CONSTANTS
  MaxClients = 2
  Tcodes = {1}
  FileCodes = {1}
  Quiet = TRUE
  MaxEvents = 2
INVARIANTS TypeOK OwnClient NoneDangling RunningIsKnown TableFollowsLayout
PROPERTY GonePeerIsRemoved
\* The server may be stopped, and nobody has to connect.
CHECK_DEADLOCK FALSE
