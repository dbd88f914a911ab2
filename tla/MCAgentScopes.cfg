SPECIFICATION Spec
CONSTANTS
  f1 = f1
  f2 = f2
  f3 = f3
  c1 = c1
  c2 = c2
  c3 = c3
  NoWorkflow = NoWorkflow
  Workflow = {f1, f2, f3}
  Command = {c1, c2, c3}
  EnvelopeOf <- ThreeEnvelopes
  Caller = {k1}
  Kinds = {"session", "selection"}
  TerminalStatus = {"completed", "cancelled"}
  MaxRevision = 2
INVARIANTS OneActiveWorkflow ReplaceAnswersAgree BarrierHolds
PROPERTIES ImplementsSessionScopes
CHECK_DEADLOCK FALSE
