SPECIFICATION Spec
CONSTANTS
  Locks <- AppLocks
  Permitted <- PhoneLocks
  Tokens <- OneToken
  MaxLight = 1
  MaxCalls = 4
  MaxChanges = 3
INVARIANTS
  
  CpuMaySleep
  ScreenComesBack
PROPERTIES
  DarkIsExplained
CHECK_DEADLOCK FALSE
