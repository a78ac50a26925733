SPECIFICATION Spec
CONSTANTS
  a = a
  b = b
  NoLease = NoLease
  Host <- Hosts
  Subnet = {1, 2}
  Own = 1
  Faults = {"rpc"}
  EndsWithChannel = FALSE
  Capacity = 1
  MaxRev = 5
SYMMETRY Symmetric
INVARIANTS TypeOK ViewCatchesUp WatcherTracksView
PROPERTY NeverBackwards
CHECK_DEADLOCK FALSE
