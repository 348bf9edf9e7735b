SPECIFICATION FairSpec
CONSTANTS
  Ed = {e1}
  Grid = {g1}
  Helper = {h1}
  BusFrames = {"query", "rtr"}
  GridFrames = {"halt"}
  EdFrames = {"turnout"}
  MaxFrames = 2
PROPERTY ThreadsComeHome
\* The sources owe no frame: the system may come to rest.
CHECK_DEADLOCK FALSE
