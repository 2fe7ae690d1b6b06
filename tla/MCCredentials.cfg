SPECIFICATION Spec
CONSTANTS
  a = a
  b = b
  p1 = p1
  p2 = p2
  Conns = {a, b}
  UserOf <- MCUserOf
  HostOf <- MCHostOf
  DbnameOf <- MCDbnameOf
  Procs = {p1, p2}
  MaxStarts = 4
CHECK_DEADLOCK FALSE
SYMMETRY ProcSymmetry
INVARIANTS
  SentinelMeansStored
  OwnPassword
  ConfigKept
