SPECIFICATION FairSpec
CONSTANTS
  a = a
  b = b
  NoLease = NoLease
  Host <- Hosts
  Subnet = {1, 2}
  Own = 1
  Faults = {"rpc", "backend"}
  EndsWithChannel = TRUE
  Capacity = 1
  MaxRev = 4
PROPERTIES Converges DeathPropagates
CHECK_DEADLOCK FALSE
