SPECIFICATION FairSpec
CONSTANTS
  d1 = d1
  d2 = d2
  Doc = {d1, d2}
  Initial = {d1}
  Absent = Absent
  MaxUser = 2
  MaxFetch = 1
  MaxTrouble = 1
  MaxAttempts = 2
INVARIANTS TypeOK TypedIsKept CleanIsHeld
PROPERTIES TypedIsSaved
CHECK_DEADLOCK FALSE
