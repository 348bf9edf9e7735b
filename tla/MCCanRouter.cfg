SPECIFICATION Spec
CONSTANTS
  Ed = {e1, e2}
  Grid = {g1, g2}
  Helper = {h1}
  BusFrames = {"query", "halt", "go", "rtr", "ext"}
  GridFrames = {"ext", "query", "halt", "go", "rtr"}
  EdFrames = {"data", "turnout"}
  MaxFrames = 2
SYMMETRY ClientSymmetry
INVARIANTS
  TypeOK
  NoEcho
  OrderKept
  Complete
PROPERTY BusSpec
\* The sources owe no frame: the system may come to rest.
CHECK_DEADLOCK FALSE
