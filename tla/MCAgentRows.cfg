SPECIFICATION Spec
CONSTANTS
  f1 = f1
  f2 = f2
  f3 = f3
  c1 = c1
  c2 = c2
  c3 = c3
  NoWorkflow = NoWorkflow
  Workflow = {f1}
  Command = {c1}
  EnvelopeOf <- OneEnvelope
  Caller = {k1, k2}
  Kinds = {"workflow", "task", "invocation", "selection"}
  TerminalStatus = {"completed", "cancelled"}
  MaxRevision = 3
SYMMETRY RowSymmetry
INVARIANTS ClosedScopeIsQuiet
PROPERTIES OutcomesStand
CHECK_DEADLOCK FALSE
