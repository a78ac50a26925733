SPECIFICATION FairSpec
CONSTANTS
  Net = {0, 1, 2}
  Subnet = {1, 2}
  Leasable <- Leases
  TTL = 12
  Margin = 6
  Retry = 1
  Latency = 1
  Faults = {"rpc", "watch", "stall"}
  MaxTold = 2
  NoFile = NoFile
  Partial = Partial
INVARIANTS TypeOK TimerTrue KeptRegistered FileTrue
PROPERTY RunsForGood
