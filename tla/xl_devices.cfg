\* Two runs of xl and the daemon; one drive.
SPECIFICATION DevicesFairSpec
CONSTANTS
  Procs = {p1, p2}
  Daemon = Daemon
  Vdevs = {hdc}
  empty = empty
  file = file
  lost = lost
  disk = disk
  Media = {empty, file, lost, disk}
  Empty = empty
  Bad = {lost}
  Fixed = {disk}
  KindOf <- MCKindOf
  Nothing = Nothing
  MaxNic = 1
  MaxEjects = 2
  MaxCalls = 3
CHECK_DEADLOCK FALSE
INVARIANTS
  DriveStays
  EjectOnce
PROPERTIES
  EjectAnswered
