\* Two hosts, two migrations that may overlap, three copies.
SPECIFICATION FairSpec
CONSTANTS
  Hosts = {h1, h2}
  MaxCopies = 3
  MaxRounds = 2
  MaxFaults = 2
CHECK_DEADLOCK FALSE
PROPERTIES
  ImplementsOneGuest
  ComesBack
