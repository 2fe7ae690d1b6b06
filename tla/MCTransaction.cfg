SPECIFICATION Spec
CONSTANTS
  MaxHandles = 3
  MaxWrites = 2
  MaxQueue = 2
  MaxStack = 3
  UserNames = {0}
  NamesReused = FALSE
  MayLose = TRUE
CHECK_DEADLOCK FALSE
INVARIANTS
  NoOrphanTransaction
  RolledBackNeverCommitted
  CommitsAsAWhole
