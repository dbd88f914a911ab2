----------------------- MODULE MCRootFinalDelivery -----------------------
EXTENDS RootFinalDelivery, TLC

CONSTANTS w1, w2, o1

\* Two goroutines of one process: they pass the same owner string.
SharedOwner == w1 :> o1 @@ w2 :> o1

\* Workers that share their owner are interchangeable.
SharedSymmetry ==
  Permutations(Worker) \cup Permutations(Command) \cup Permutations(Fingerprint)
=============================================================================
