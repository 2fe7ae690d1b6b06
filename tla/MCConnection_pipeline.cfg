SPECIFICATION Spec
CONSTANTS
  MaxRequests = 2
  MaxRows = 1
  MaxAsync = 1
  MaxDelayed = 1
  MaxPut = 1
  SendCap = 1
  RecvCap = 2
  WriteBoundary = 1
  CopyUsed = TRUE
  EarlyCopyError = FALSE
  ServerMayClose = TRUE
INVARIANTS
  RoutedToOwner
  NothingLost
  ResolvesOnlyAtEnd
  NoLostWakeup
  CopyOnlyIfFinished
  FinishMeansCommitted
PROPERTIES
  ImplementsPipeline
