SPECIFICATION Spec
CONSTANTS
  Chips <- MCChips
  Requests <- MCRequests
  MaxPolls = 3
  Edges <- MCEdges
  Bytes <- MCBytes
  Registers <- MCRegisters
INVARIANTS
  AccessInv
  MemoryDivided
PROPERTIES
  InitReturns
CHECK_DEADLOCK FALSE
