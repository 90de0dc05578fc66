SPECIFICATION Spec
CONSTANTS
  THREAD_NUM = 2
  PRIORITY_NUM = 2
  NULL = NULL
  MsgBox = {b1, b2}
  Payload = {x, y}
  Pool = {k1}
  MsgPool = k1
  BlockNum <- TwoBlocks
  STACK_NUM = 3
  WakeReceivers = FALSE
SYMMETRY Symmetry
INVARIANTS
  ReadyAreLive
  WaitingIsKnown
  RunsFirst
  ReceiverWaits
  NoMissedMessage
  BlocksConserved
PROPERTY
  ImplementsMailbox
CHECK_DEADLOCK FALSE
