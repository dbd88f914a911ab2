-------------------------- MODULE MCAgentWorkflow --------------------------
EXTENDS AgentWorkflow, TLC

CONSTANTS f1, f2, f3, c1, c2, c3

\* Each command derives a workflow ID of its own; which of them creates the
\* first workflow and which replaces it is up to the run.
ThreeEnvelopes == c1 :> f1 @@ c2 :> f2 @@ c3 :> f3

\* One command: its envelope, its projection and its termination are told apart.
OneEnvelope == c1 :> f1

\* Callers are interchangeable.
RowSymmetry == Permutations(Caller)
=============================================================================
