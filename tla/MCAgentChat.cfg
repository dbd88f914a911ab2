SPECIFICATION FairSpec
CONSTANTS
  MaxRuns = 2
  MaxLog = 3
  MaxTrouble = 1
INVARIANTS TypeOK UnshownWasJumped
PROPERTIES HistoryEndsNothing EveryWaitEnds PermissionIsShown
CHECK_DEADLOCK FALSE
