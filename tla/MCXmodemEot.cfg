SPECIFICATION Spec
CONSTANTS
  File <- ShortFile
  XMODEM_BLOCK_SIZE = 2
  MaxFaults = 1
  Spoilt <- Complement
  Noise <- DataNoise
  Loses = {}
  LosesBytes = FALSE
  MayCancel = FALSE
  NULL = NULL
INVARIANT
  SuccessIsWhole
CHECK_DEADLOCK FALSE
