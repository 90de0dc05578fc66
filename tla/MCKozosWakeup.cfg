SPECIFICATION Spec
CONSTANTS
  THREAD_NUM = 3
  PRIORITY_NUM = 2
  NULL = NULL
  MsgBox = {b1}
  Payload = {x}
  Pool = {k1}
  MsgPool = k1
  BlockNum <- OneBlock
  STACK_NUM = 4
  WakeReceivers = TRUE
INVARIANT
  ReceiverWaits
CHECK_DEADLOCK FALSE
