SPECIFICATION Spec
CONSTANTS
  MaxRequests = 2
  MaxRows = 0
  MaxAsync = 0
  MaxDelayed = 0
  MaxPut = 0
  SendCap = 1
  RecvCap = 2
  WriteBoundary = 1
  CopyUsed = TRUE
  EarlyCopyError = TRUE
  ServerMayClose = FALSE
INVARIANTS
  ResolvesOnlyAtEnd
