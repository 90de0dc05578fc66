SPECIFICATION ConsSpec
CONSTANTS
  THREAD_NUM = 3
  PRIORITY_NUM = 4
  NULL = NULL
  MsgBox = {"input", "output"}
  Payload <- MCPayload
  Pool = {16, 32, 64}
  MsgPool = 32
  BlockNum <- MCBlockNum
  STACK_NUM = 3
  WakeReceivers = FALSE
  CONS_BUFFER_SIZE = 24
  Prompt <- FullPrompt
  Unknown <- FullUnknown
  Echo <- FullEcho
  Lines <- FittingLines
  MaxLines = 2
  Patient = TRUE
INVARIANTS
  SendBufferFits
  RecvBufferFits
  NeverDown
  OutputIsTranscript
