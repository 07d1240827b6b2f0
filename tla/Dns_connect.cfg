SPECIFICATION Spec
CONSTANTS
  Statics <- MCStatics
  LeaseIps <- MCLeaseIps
  LeaseGateways <- MCLeaseGateways
  LeaseSubnets <- MCLeaseSubnets
  LeaseServers <- MCLeaseServers
  ManualIp <- MCManualIp
  OwnMac <- MCOwnMac
  Macs <- MCMacs
  Counts <- MCCounts
  Times <- MCTimes
  Sketches <- MCResolve
  Names <- MCNames
  AddrOf <- MCAddrOf
  Numeric <- MCNumeric
  Stranger <- MCStranger
  IntWidths <- MCIntWidths
  Ports = 2
  ClockMod = 5
  Timeout = 1
  Lifetime = 3
  InFlight = 2
INVARIANTS
  ConnectGoesToHost
