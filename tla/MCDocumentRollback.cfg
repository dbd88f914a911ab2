SPECIFICATION Spec
CONSTANTS
  d1 = d1
  d2 = d2
  Doc = {d1, d2}
  Initial = {d1}
  Absent = Absent
  MaxUser = 2
  MaxFetch = 1
  MaxTrouble = 1
  MaxAttempts = 2
PROPERTIES NeverRolledBack
CHECK_DEADLOCK FALSE
