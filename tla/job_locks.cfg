\* Three threads, one of them too many for the limit on queued jobs.
SPECIFICATION FairSpec
CONSTANTS
  Threads = {t1, t2, t3}
  NoThread = NoThread
  CallTypes <- FewCalls
  MaxQueued = 2
  ClockMayFail = TRUE
  MaxCalls = 4
INVARIANTS
  JobsHaveOneOwner
  QueueCountExact
  RefCountExact
  NoUseAfterFree
  LimitHolds
PROPERTIES
  ImplementsSlots
  EveryCallReturns
