SPECIFICATION Spec
CONSTANTS
  a = a
  b = b
  c = c
  hostgw = hostgw
  other = other
  HostGw = hostgw
  NoLease = NoLease
  NoRoute = NoRoute
  Subnet = {1, 2}
  Lease <- Leases
  Gateway <- Gates
  MaxQueue = 3
SYMMETRY Symmetric
INVARIANTS TypeOK RoutesFollowLeases VacatedIsUnrouted ListedIsInstalled
