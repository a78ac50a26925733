SPECIFICATION Spec
CONSTANTS
  a = a
  b = b
  NoLease = NoLease
  Host <- Hosts
  Subnet = {1, 2}
  Own = 1
  Faults = {}
  EndsWithChannel = FALSE
  Capacity = 1
  MaxRev = 5
SYMMETRY Symmetric
PROPERTY DeletesAreKnown
CHECK_DEADLOCK FALSE
