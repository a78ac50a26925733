SPECIFICATION Spec
CONSTANTS
  a = a
  b = b
  l1 = l1
  l2 = l2
  l3 = l3
  l4 = l4
  NoEntry = NoEntry
  NoLease = NoLease
  Node <- Hosts
  Subnet = {1, 2}
  LeaseId <- Leases
  Configs <- OneConfig
  Overlapping <- SameSubnet
  Faults = {}
  MaxEvents = 2
SYMMETRY Symmetric
PROPERTY LostRaceRetries
