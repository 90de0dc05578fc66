SPECIFICATION Spec
CONSTANTS
  PoolSize <- MCPoolSize
  PoolNum <- MCPoolNum
  Header = 8
  Request <- MCRequest
  NULL = NULL
INVARIANTS
  TypeOK
  FreeListsHoldTheRest
  HeadersIntact
PROPERTY
  ImplementsAllocator
CHECK_DEADLOCK FALSE
