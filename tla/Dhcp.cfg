SPECIFICATION Spec
CONSTANTS
  a1 = a1
  a2 = a2
  sA = sA
  sB = sB
  Addrs <- MCAddrs
  Servers <- MCServers
  Pool <- MCPool
  Times <- MCTimes
  Gives <- MCAllOrNone
  Junk <- MCJunk
  Initials <- MCInitials
  Elapses <- MCElapses
  MaxRounds = 1
  InFlight = 2
INVARIANTS
  DhcpInv
  ConfigurationOfGrant
PROPERTIES
  RequestReturns
  RetriesFromStart
