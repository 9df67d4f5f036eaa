SPECIFICATION Spec
CONSTANTS
  Threads = {t1, t2}
  Ops <- EveryOp
  StartFailures <- EveryFailure
  MaxDomid = 2
  MaxCalls = 3
  MaxRestarts = 1
INVARIANTS
  
  RunningIsWatched
  RefsExact
PROPERTIES
  SaveDestroysItsGuest
  
CHECK_DEADLOCK FALSE
