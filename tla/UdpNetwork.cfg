SPECIFICATION Spec
CONSTANTS
  a = a
  b = b
  None = None
  NoLease = NoLease
  NoHop = NoHop
  Width = 6
  DefaultLen = 3
  MaxChoices = 5
  RawConfigs <- Configs
  Subnet <- Subnets
  Lease <- Leases
  MaxQueue = 2
  MaxRoutes = 4
SYMMETRY Symmetric
INVARIANTS TypeOK RoutesExact Disjoint
