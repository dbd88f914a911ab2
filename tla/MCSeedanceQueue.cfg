SPECIFICATION FairSpec
CONSTANTS
  Task = {t1, t2}
  Caller = {k1, k2}
  NoThread = NoThread
  PollLimit = 2
  UserOps = {"delete", "retry", "refresh"}
  SlowSubmission = FALSE
  MaxJob = 2
  MaxMishap = 1
PROPERTIES DeletedStaysDeleted EveryTaskEnds
INVARIANTS TypeOK OneActiveTask
CHECK_DEADLOCK FALSE
