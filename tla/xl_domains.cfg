\* Two runs of xl, two names, three domains.
SPECIFICATION DomainsFairSpec
CONSTANTS
  Procs = {p1, p2}
  NoProc = NoProc
  DomNames = {n1, n2}
  Stamps = {k1}
  NoName = NoName
  Configs <- OneConfig
  MaxDomid = 3
  MaxCalls = 3
CHECK_DEADLOCK FALSE
INVARIANTS
  NamesDistinct
PROPERTIES
  DeadIsReaped
