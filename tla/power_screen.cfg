SPECIFICATION Spec
CONSTANTS
  Locks <- TwoLocks
  Flags <- TwoFlags
  MaxCalls = 4
INVARIANTS
  BroadcastLockExact
  OnIsTold
  PanelFollowsState
PROPERTIES
  LockKeepsScreenOn
  IdleScreenGoesOff
CHECK_DEADLOCK FALSE
