SPECIFICATION Spec
CONSTANTS
  SSIZE = 4
  HasOffsetAddressMapping = FALSE
  StartPtr = 65533
  WriteLens <- MCWriteLens
  MaxBytes = 7
INVARIANTS
  TxInv
PROPERTIES
  SendsTheStream
  WrittenMeansSent
  FlushedMeansAcked
  CallReturns
