SPECIFICATION Spec
CONSTANTS
  c1 = c1
  c2 = c2
  MaxSockNum = 2
  PortMin = 4
  PortMod = 5
  FixedPorts <- MCPorts
  Clients <- MCClients
  Sketches <- MCSketches
INVARIANTS
  ObjectsInv
  TableInv
PROPERTIES
  NeverTakesLiveSocket
  FullMeansFull
  StopReleases
  CallsReturn
  ServerListensAgain
