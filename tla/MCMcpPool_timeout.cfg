SPECIFICATION Spec
CONSTANTS
  a = a
  c1 = c1
  Names = {a}
  Callers = {c1}
  Default = a
  Lazy = FALSE
  MaxSessions = 3
  MaxQueries = 1
  HasTimeout = TRUE
  HasLifetime = FALSE
  TimeoutAction = "cancel"
  PerCallTimeout = TRUE
INVARIANTS
  ConfiguredTimeoutKept
