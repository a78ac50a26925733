SPECIFICATION FairSpec
CONSTANTS
  a = a
  b = b
  l1 = l1
  l2 = l2
  l3 = l3
  l4 = l4
  NoEntry = NoEntry
  NoLease = NoLease
  Node <- Hosts
  Subnet = {1}
  LeaseId <- Leases
  Configs <- OneSubnet
  Overlapping <- SameSubnet
  Faults = {"reply", "expiry"}
  MaxEvents = 2
PROPERTY LostLeaseStops
