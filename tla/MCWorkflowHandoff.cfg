SPECIFICATION Spec
CONSTANTS
  w1 = w1
  w2 = w2
  o1 = o1
  Worker = {w1, w2}
  Owner = {o1}
  NoOwner = NoOwner
  OwnerOf <- SharedOwner
  Command = {c1, c2, c3, c4}
  Fingerprint = {f1}
  MaxTime = 3
  MaxAttempt = 3
  PromptRead = TRUE
SYMMETRY SharedSymmetry
INVARIANTS TypeOK OneSendPerReturn OneAnswerPerCommand
PROPERTIES DoubtIsNeverErased ImplementsFencedRow
CHECK_DEADLOCK FALSE
