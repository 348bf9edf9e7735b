SPECIFICATION Spec
CONSTANTS
  Locos = {l3, l5}
  l3 = l3
  l5 = l5
  FnMomentary = FnMomentary
  Fns = {0, 2, 28}
  Lists <- General
  Types = {T, S}
  T = T
  S = S
  Speeds = {1, 40}
  Orderly = TRUE
  Tidy = TRUE
  MaxEvents = 6
SYMMETRY Names
INVARIANTS TypeOK  FunctionsAgree RunsAsSession TypesAsProgrammed MomentaryFollowsButton
\* Users owe no command, and the bound ends every behaviour.
CHECK_DEADLOCK FALSE
