SPECIFICATION Spec
CONSTANTS
  w1 = w1
  w2 = w2
  o1 = o1
  Worker = {w1, w2}
  Owner = {o1}
  NoOwner = NoOwner
  OwnerOf <- SharedOwner
  Command = {c1, c2}
  Fingerprint = {f1, f2}
  Range = {"lines"}
  NoRange = "none"
  MaxTime = 3
  MaxAttempt = 3
  PromptRead = TRUE
SYMMETRY SharedSymmetry
INVARIANTS TypeOK ExclusiveFence JournaledHasRange RevisionCountsCommands OneAnswerPerCommand
PROPERTIES FailedWaitsForReconcile PublishedIsFinal ImplementsFencedRow
CHECK_DEADLOCK FALSE
