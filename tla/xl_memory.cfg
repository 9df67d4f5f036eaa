\* Two runs of xl, a guest and one that is made.
SPECIFICATION MemoryFairSpec
CONSTANTS
  Procs = {p1, p2}
  Nobody = Nobody
  d0 = d0
  g1 = g1
  g2 = g2
  Dom0 = d0
  Guests = {g1, g2}
  New = g2
  Videoram <- MCVideoram
  Size <- MCSize
  Top <- MCTop
  Total = 9
  Unused = 1
  SlackCap = 1
  MinDom0 = 3
  Spare = 0
  Sizes = {0, 2, 4}
  Word = 16
  Retries = 2
  WaitSecs = 1
  MaxCalls = 3
  MaxFailures = 1
CHECK_DEADLOCK FALSE
INVARIANTS
  Dom0TargetIsOwed
  PodIsTarget
PROPERTIES
  CommandsEnd
