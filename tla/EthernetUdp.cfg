SPECIFICATION Spec
CONSTANTS
  SSIZE = 9
  Header = 2
  IncThreshold = 4
  IncMod = 5
  Payloads <- MCPayloads
  ReadLens <- MCReadLens
  MaxDatagrams = 2
  TxSize = 4
  NoByte = NoByte
  WriteLens <- MCWriteLens
INVARIANTS
  UdpInv
PROPERTIES
  DeliversDatagrams
  EveryDatagramParsed
  PacketArrivesWhole
  FailureIsReal
  CallsReturn
