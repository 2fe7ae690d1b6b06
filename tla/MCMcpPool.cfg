SPECIFICATION Spec
CONSTANTS
  a = a
  b = b
  c1 = c1
  c2 = c2
  Names = {a, b}
  Callers = {c1, c2}
  Default = a
  Lazy = TRUE
  MaxSessions = 2
  MaxQueries = 1
  HasTimeout = TRUE
  HasLifetime = TRUE
  TimeoutAction = "disconnect"
  PerCallTimeout = TRUE
SYMMETRY CallerSymmetry
INVARIANTS
  RightDatabase
  FailedNotPooled
  TimeoutNotLeaked
