SPECIFICATION ListSpec
CONSTANTS
  THREAD_NUM = 3
  PRIORITY_NUM = 2
  NULL = NULL
  MsgBox = {}
  Payload = {x}
  Pool = {k1}
  MsgPool = k1
  BlockNum <- OneBlock
  STACK_NUM = 4
  WakeReceivers = FALSE
INVARIANTS
  TypeOK
  ReadyQueueConsistent
  RunsFirst
  ListsFollow
PROPERTY
  NoOvertaking
CHECK_DEADLOCK FALSE
