SPECIFICATION Spec
CONSTANTS
  Configs <- MCConfigs
  MaxAddrs = 2
  MaxNotices = 1
CHECK_DEADLOCK FALSE
INVARIANTS
  RequireMeansTls
  BindingRequired
  ServerVerified
  HandsOverItsOwn
  FailsOnlyAfterAll
  TargetSessionMet
  CancelsItsOwnSession
