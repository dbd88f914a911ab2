SPECIFICATION FairSpec
CONSTANTS
  Pack = {p1, p2}
  Mine = {m, n}
  Unnamed = {n}
  Theirs = {t}
  None = None
  MaxGestures = 2
  MaxTrouble = 1
INVARIANTS TypeOK
PROPERTIES OthersStand DraftIsKept LeavingEnds
CHECK_DEADLOCK FALSE
