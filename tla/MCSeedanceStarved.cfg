SPECIFICATION FairSpec
CONSTANTS
  Task = {t1, t2, t3}
  Caller = {k1}
  NoThread = NoThread
  PollLimit = 2
  UserOps = {}
  SlowSubmission = FALSE
  MaxJob = 3
  MaxMishap = 0
PROPERTIES QueuedIsSubmitted
CHECK_DEADLOCK FALSE
