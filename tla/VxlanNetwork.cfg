SPECIFICATION EachSpec
CONSTANTS
  h1 = h1
  h2 = h2
  h3 = h3
  n1 = n1
  n2 = n2
  x = x
  y = y
  vxlan = vxlan
  other = other
  None = None
  Width = 5
  DefaultLen = 3
  MaxChoices = 5
  Vxlan = vxlan
  NoLease = NoLease
  NoMac = NoMac
  NoHost = NoHost
  Subnet <- Subnets
  Lease <- Leases
  Mac <- Macs
  MaxQueue = 2
  Conf <- Confs
  Setup <- Setups
  OwnSubnet = {1, 2, 3}
  OwnMac <- OwnMacs
  MaxTold = 3
  NoDevice = NoDevice
  Nothing = Nothing
  Stranger = Stranger
SYMMETRY Symmetric
INVARIANTS TypeOK Reachable HostOK DeviceAnnounced 
PROPERTY RoutedLast
