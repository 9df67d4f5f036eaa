SPECIFICATION Spec
CONSTANTS
  Clients = {c1, c2}
  PausedFlags <- EveryFlag
  MaxKills = 1
INVARIANTS
  GuestSurvives
  RunsOnceInOrder
  MigrationHoldsJob
SYMMETRY ClientSymmetry
CHECK_DEADLOCK FALSE
