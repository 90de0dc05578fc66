SPECIFICATION Spec
CONSTANTS
  File <- ShortFile
  XMODEM_BLOCK_SIZE = 2
  MaxFaults = 3
  Spoilt <- AllPlaces
  Noise <- AllNoise
  Loses = {6, 21}
  LosesBytes = TRUE
  MayCancel = TRUE
  NULL = NULL
INVARIANT
  SenderNotAhead
PROPERTIES
  ImplementsTransfer
  Ends
CHECK_DEADLOCK FALSE
