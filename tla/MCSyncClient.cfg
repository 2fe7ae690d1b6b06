SPECIFICATION Spec
CONSTANTS
  MaxRequests = 2
  MaxRows = 2
  MaxAsync = 1
CHECK_DEADLOCK FALSE
INVARIANTS
  OwnAnswer
  NotificationsInOrder
  TxEndsWithHandle
PROPERTY
  EveryBlockOnReturns
