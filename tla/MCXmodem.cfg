SPECIFICATION Spec
CONSTANTS
  File <- LongFile
  XMODEM_BLOCK_SIZE = 2
  MaxFaults = 2
  Spoilt <- DataPlaces
  Noise <- DataNoise
  Loses = {21}
  LosesBytes = FALSE
  MayCancel = FALSE
  NULL = NULL
INVARIANTS
  TypeOK
  SuccessIsWhole
PROPERTIES
  Completes
  ImplementsTransfer
CHECK_DEADLOCK FALSE
