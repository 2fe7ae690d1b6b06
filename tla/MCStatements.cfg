SPECIFICATION Spec
CONSTANTS
  comp = comp
  simple = simple
  enum = enum
  t1 = t1
  t2 = t2
  Tasks = {t1, t2}
  Types = {comp, simple, enum}
  KindOf <- MCKindOf
  PartsOf <- MCPartsOf
  UserQueries <- MCUserQueries
  TypedRows = 0
  MaxCalls = 2
  MaxFaults = 1
CHECK_DEADLOCK FALSE
SYMMETRY TaskSymmetry
INVARIANTS
  StatementExists
  NoStatementLeak
  NeverBlockedByCaller
  FreshAfterClear
