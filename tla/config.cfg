\* Two threads and the calls that do not wait, three calls in all.
SPECIFICATION Spec
CONSTANTS
  Threads = {t1, t2}
  Sources = {s1, s2}
  NoSource = NoSource
  NoDef = NoDef
  MaxAmount = 2
  MaxDomid = 2
  MaxCalls = 3
SYMMETRY Symmetry
CHECK_DEADLOCK FALSE
INVARIANTS
  ImageIsGuest
  LiveDefIsGuest
PROPERTIES
  ImplementsOld
