SPECIFICATION ConsSpec
CONSTANTS
  THREAD_NUM = 3
  PRIORITY_NUM = 4
  NULL = NULL
  MsgBox = {"input", "output"}
  Payload <- MCPayload
  Pool = {16, 32, 64}
  MsgPool = 32
  BlockNum <- MCBlockNum
  STACK_NUM = 3
  WakeReceivers = FALSE
  CONS_BUFFER_SIZE = 24
  Prompt <- ShortPrompt
  Unknown <- ShortUnknown
  Echo <- ShortEcho
  Lines <- FastLines
  MaxLines = 2
  Patient = FALSE
INVARIANTS
  ConsTypeOK
  NotReentered
  OutputMoves
  NoLeak
  LinesInOrder
PROPERTIES
  EveryLineIsReceived
  OutputEnds
