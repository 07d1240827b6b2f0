SPECIFICATION Spec
CONSTANTS
  SSIZE = 4
  HasOffsetAddressMapping = FALSE
  IncThreshold = 3
  IncMod = 4
  StartPtr = 65533
  RecvLens <- MCRecvLens
  MaxBytes = 6
INVARIANTS
  RxInv
PROPERTIES
  DeliversTheStream
  DisconnectedMeansDrained
  EveryByteDelivered
