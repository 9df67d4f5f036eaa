SPECIFICATION Spec
CONSTANTS
  Clients = {c1, c2}
  PausedFlags <- EveryFlag
  MaxKills = 1
INVARIANT RunsOnce
SYMMETRY ClientSymmetry
CHECK_DEADLOCK FALSE
