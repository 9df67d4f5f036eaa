\* Two runs of xl, three CPUs on two nodes, two commands.
SPECIFICATION PoolsSpec
CONSTANTS
  Procs = {p1, p2}
  Cpus = {0, 1, 2}
  NodeOf <- MCNodeOf
  Pools = {0, 1, 2}
  na = na
  nb = nb
  Names = {na, nb}
  Called <- MCCalled
  Free = Free
  None = None
  Doms = {0, 1}
  Vcpus = 3
  Scheds = {"credit", "sedf"}
  Values = {1, 2}
  Slices = {1, 2}
  Limits = {1, 2}
  Weights = {1, 2}
  Caps = {0, 1}
  Polls = 2
  MaxCalls = 2
  MaxFaults = 1
SYMMETRY MCSymmetry
CHECK_DEADLOCK FALSE
INVARIANTS
  SplitByNode
  ParamsFit
PROPERTIES
  NamelessIsExplained
