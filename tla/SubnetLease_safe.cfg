SPECIFICATION Spec
CONSTANTS
  a = a
  b = b
  l1 = l1
  l2 = l2
  l3 = l3
  l4 = l4
  NoEntry = NoEntry
  NoLease = NoLease
  Node <- Hosts
  Subnet = {1, 2, 3}
  LeaseId <- Leases
  Configs <- TwoSizes
  Overlapping <- Covers
  Faults = {"rpc"}
  MaxEvents = 2
SYMMETRY Symmetric
INVARIANTS TypeOK Exclusive
PROPERTY OwnershipSpec
