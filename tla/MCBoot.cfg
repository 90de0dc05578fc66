CONSTANTS
  XDIGITS = 2
  Ram <- OneRam
  buffer_start = 20
  XMODEM_BLOCK_SIZE = 4
  MayEndEarly = TRUE
  Files <- SomeFiles
  Lines <- OneLines
  LOAD <- OneLoad
  DUMP <- OneDump
  RUN <- OneRun
  Spoilt <- OneSpoilt
  Junk <- OneJunk
  NULL = NULL

SPECIFICATION Spec
INVARIANTS TypeOK StartedIsWhole RunNeedsALoad DumpIsTheLoad 
PROPERTY OnlyCommandsAct
