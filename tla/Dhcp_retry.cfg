SPECIFICATION Spec
CONSTANTS
  a1 = a1
  a2 = a2
  sA = sA
  sB = sB
  Addrs <- MCAddrs
  Servers <- MCServers
  Pool <- MCPool
  Times <- MCTimes
  Gives <- MCNone
  Junk <- MCJunk
  Initials <- MCInitials
  Elapses <- MCElapses
  MaxRounds = 1
  InFlight = 2
PROPERTY RetriesAfterError
