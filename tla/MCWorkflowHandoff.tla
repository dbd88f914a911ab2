------------------------- MODULE MCWorkflowHandoff -------------------------
EXTENDS WorkflowHandoff, TLC

CONSTANTS w1, w2, o1

\* Two goroutines of one process: they pass the same owner string.
SharedOwner == w1 :> o1 @@ w2 :> o1

SharedSymmetry ==
  Permutations(Worker) \cup Permutations(Command)
=============================================================================
