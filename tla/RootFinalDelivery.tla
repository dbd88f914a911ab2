------------------------ MODULE RootFinalDelivery ------------------------
(***************************************************************************)
(* One row of agent_root_final_deliveries: the outbox through which the    *)
(* root Agent's final answer is journaled and published, with the leases,  *)
(* fence tokens, revisions and command records that                        *)
(* repository/agent_execution_repo.go gives it.                            *)
(*                                                                         *)
(* A worker is one goroutine that claims and drives the row.  Several      *)
(* workers may pass the same owner string (OwnerOf), as the goroutines of  *)
(* one process do.  A claim is two statements outside any transaction, an  *)
(* UPDATE and a SELECT that reads the row back, and other workers run in   *)
(* between.  Every other operation is one SQLite transaction.  Calls that  *)
(* end in an error change nothing and are stuttering steps here.           *)
(***************************************************************************)
EXTENDS Lease, FiniteSets

CONSTANTS Worker,
          OwnerOf,      \* [Worker -> Owner]: the lease_owner each passes
          Command,      \* command IDs
          Fingerprint,  \* command fingerprints
          Range, NoRange,  \* JSONL sequence ranges; NoRange is 0..0
          MaxTime,      \* bound on the clock
          MaxAttempt,   \* bound on claims of the row
          PromptRead    \* TRUE: a claim reads its row back before its lease ends

ASSUME DeliveryAssumption ==
  /\ OwnerOf \in [Worker -> Owner]
  /\ NoRange \notin Range
  /\ MaxTime \in Nat /\ MaxAttempt \in Nat
  /\ PromptRead \in BOOLEAN

VARIABLES now,       \* the wall clock
          delivery,  \* the row
          result,    \* command events recorded under "root-final:<id>:<command>"
          seen,      \* what each worker remembers of the row it claimed
          reading,   \* workers between the claim's UPDATE and its SELECT
          claimedIn, \* history: the phase in which the last claim took the row
          answers    \* history: the revisions answered for each command

vars == <<now, delivery, result, seen, reading, claimedIn, answers>>

Phase == {"pending", "journaled", "published", "failed"}
NoResult == [fingerprint |-> "none", revision |-> 0]
Nothing == [token |-> 0, revision |-> 0, phase |-> "pending"]

Init ==
  /\ now = 0
  /\ delivery = [phase |-> "pending", revision |-> 1, lease |-> NoLease,
                 attempt |-> 0, nextAttempt |-> 0, range |-> NoRange]
  /\ result = [c \in Command |-> NoResult]
  /\ seen = [w \in Worker |-> Nothing]
  /\ reading = {}
  /\ claimedIn = "pending"
  /\ answers = [c \in Command |-> {}]

-----------------------------------------------------------------------------
(* Claims *)

\* The UPDATE of claimRootFinalDelivery, for the given phases.
claimRootFinalDelivery(w, phases) ==
  /\ w \notin reading
  /\ delivery.phase \in phases
  /\ LeaseFree(delivery.lease, now)
  /\ delivery.nextAttempt <= now
  /\ delivery.attempt < MaxAttempt
  /\ \E until \in now + 1 .. MaxTime + 1 :
       delivery' = [delivery EXCEPT !.lease = Leased(@, OwnerOf[w], until),
                                    !.attempt = @ + 1]
  /\ reading' = reading \cup {w}
  /\ claimedIn' = delivery.phase
  /\ UNCHANGED <<now, result, seen, answers>>

\* Fault: the claim forgets to leave published rows out.
ClaimPublishedToo(w) == claimRootFinalDelivery(w, {"pending", "journaled", "published"})

ClaimRootFinalDelivery(w) == claimRootFinalDelivery(w, {"pending", "journaled"})

ClaimFailedRootFinalDeliveryForReconcile(w) == claimRootFinalDelivery(w, {"failed"})

\* The SELECT that ends a claim: whatever the row holds by now is returned.
ReadClaim(w) ==
  /\ w \in reading
  /\ reading' = reading \ {w}
  /\ seen' = [seen EXCEPT ![w] = [token |-> delivery.lease.token,
                                  revision |-> delivery.revision,
                                  phase |-> delivery.phase]]
  /\ UNCHANGED <<now, delivery, result, claimedIn, answers>>

-----------------------------------------------------------------------------
(* Transitions *)

allowedRootFinalTransition(from, to) ==
  \/ from = "pending" /\ to \in {"journaled", "failed"}
  \/ from = "journaled" /\ to \in {"published", "failed"}
  \/ from = "failed" /\ to \in {"pending", "journaled"}

\* Fault: a range is only refused where it is not wanted.
RangeOptional(to, range) == range # NoRange => to = "journaled"

validRootFinalSequenceTransition(to, range) == (to = "journaled") <=> (range # NoRange)

\* Fault: failing leaves the publisher its lease.
FailureKeepsLease(to) == IF to = "published" THEN Released(delivery.lease) ELSE delivery.lease

\* The lease columns after a transition into phase to.
LeaseAfter(to) ==
  CASE to = "journaled" -> delivery.lease
    [] to = "published" -> Released(delivery.lease)
    [] OTHER            -> Revoked(delivery.lease)

\* Faults: the update leaves the revision alone, or starts it over.
RevisionNotRaised(to, range, retryAt) ==
  [delivery EXCEPT !.phase = to, !.nextAttempt = retryAt, !.lease = LeaseAfter(to),
                   !.range = IF range = NoRange THEN @ ELSE range]
RevisionStartedOver(to, range, retryAt) ==
  [delivery EXCEPT !.phase = to, !.revision = 0, !.nextAttempt = retryAt,
                   !.lease = LeaseAfter(to),
                   !.range = IF range = NoRange THEN @ ELSE range]

rootFinalTransitionUpdates(to, range, retryAt) ==
  [delivery EXCEPT !.phase = to, !.revision = @ + 1, !.nextAttempt = retryAt,
                   !.lease = LeaseAfter(to),
                   !.range = IF range = NoRange THEN @ ELSE range]

\* Worker w's fence passes at the time `at` it sampled before the call.
FencePasses(w, at) ==
  seen[w].token # 0 /\ LeaseHeld(delivery.lease, OwnerOf[w], seen[w].token, at)

\* TransitionRootFinalDelivery, first time: fence, then phase and revision
\* CAS, then the update and the command event in one transaction.  The
\* caller may never get the answer (heard = FALSE) and retry later.
TransitionRootFinalDelivery(w, c, f) ==
  \E to \in Phase, range \in Range \cup {NoRange}, at \in 0 .. now,
     retryAt \in {0, now + 1}, heard \in BOOLEAN :
    /\ w \notin reading
    /\ allowedRootFinalTransition(seen[w].phase, to)
    /\ validRootFinalSequenceTransition(to, range)
    /\ result[c] = NoResult
    /\ FencePasses(w, at)
    /\ delivery.revision = seen[w].revision
    /\ delivery.phase = seen[w].phase
    /\ delivery' = rootFinalTransitionUpdates(to, range, retryAt)
    /\ result' = [result EXCEPT ![c] = [fingerprint |-> f, revision |-> delivery.revision + 1]]
    /\ IF heard
       THEN /\ seen' = [seen EXCEPT ![w].revision = delivery.revision + 1, ![w].phase = to]
            /\ answers' = [answers EXCEPT ![c] = @ \cup {delivery.revision + 1}]
       ELSE UNCHANGED <<seen, answers>>
    /\ UNCHANGED <<now, reading, claimedIn>>

\* Fault: a replay answers with the row as it is now.
CurrentRevision(c) == delivery.revision

\* The revision findCommandResultTx hands back for a recorded command.
ReplayedRevision(c) == result[c].revision

\* TransitionRootFinalDelivery for a command that already has a recorded
\* result: answered from the record, before any fence is looked at.
ReplayRootFinalCommand(w, c, f) ==
  /\ w \notin reading
  /\ seen[w].token # 0
  /\ result[c] # NoResult
  /\ result[c].fingerprint = f
  /\ answers' = [answers EXCEPT ![c] = @ \cup {ReplayedRevision(c)}]
  /\ UNCHANGED <<now, delivery, result, seen, reading, claimedIn>>

\* GetRootFinalDelivery: a worker refreshes the phase and revision it will
\* expect, and keeps the token of its claim.
GetRootFinalDelivery(w) ==
  /\ w \notin reading
  /\ seen[w].token # 0
  /\ seen' = [seen EXCEPT ![w].revision = delivery.revision, ![w].phase = delivery.phase]
  /\ UNCHANGED <<now, delivery, result, reading, claimedIn, answers>>

-----------------------------------------------------------------------------
(* The environment *)

\* A worker dies, in the middle of a claim or with a lease it never ends.
Crash(w) ==
  /\ seen' = [seen EXCEPT ![w] = Nothing]
  /\ reading' = reading \ {w}
  /\ UNCHANGED <<now, delivery, result, claimedIn, answers>>

Tick ==
  /\ now < MaxTime
  /\ PromptRead /\ reading # {} => now + 1 < delivery.lease.until
  /\ now' = now + 1
  /\ UNCHANGED <<delivery, result, seen, reading, claimedIn, answers>>

WorkerStep(w) ==
  \/ ClaimRootFinalDelivery(w)
  \/ ClaimFailedRootFinalDeliveryForReconcile(w)
  \/ ReadClaim(w)
  \/ GetRootFinalDelivery(w)
  \/ Crash(w)

CommandStep(w, c, f) ==
  \/ TransitionRootFinalDelivery(w, c, f)
  \/ ReplayRootFinalCommand(w, c, f)

Next ==
  \/ Tick
  \/ \E w \in Worker : WorkerStep(w)
  \/ \E w \in Worker, c \in Command, f \in Fingerprint : CommandStep(w, c, f)

Spec == Init /\ [][Next]_vars

-----------------------------------------------------------------------------
(* Properties *)

\* The commands that have a recorded result.
Recorded == {c \in Command : result[c] # NoResult}

DeliveryRow == [phase : Phase, revision : Nat \ {0}, lease : LeaseColumns,
                attempt : Nat, nextAttempt : Nat, range : Range \cup {NoRange}]
Result == [fingerprint : Fingerprint, revision : Nat] \cup {NoResult}
Memory == [token : Nat, revision : Nat, phase : Phase]

\* Every variable holds a value of its type.
TypeOK ==
  /\ now \in Nat
  /\ delivery \in DeliveryRow
  /\ result \in [Command -> Result]
  /\ seen \in [Worker -> Memory]
  /\ reading \subseteq Worker
  /\ claimedIn \in Phase
  /\ answers \in [Command -> SUBSET Nat]

\* Worker w holds the row: its owner and token are the row's, and some call
\* of its could still be accepted.
HoldsRow(w) ==
  /\ seen[w].token # 0
  /\ delivery.lease.owner = OwnerOf[w]
  /\ delivery.lease.token = seen[w].token
  /\ delivery.lease.until # 0

\* "Leases ... with a new fence token": two workers never both hold the row,
\* so a publisher that lost its lease cannot act beside its successor.
ExclusiveFence == \A v, w \in Worker : HoldsRow(v) /\ HoldsRow(w) => v = w

\* Under which circumstances the claim's two statements are harmless: every
\* worker has an owner string of its own, or no lease can end between them.
FenceSafe == PromptRead \/ \A v, w \in Worker : OwnerOf[v] = OwnerOf[w] => v = w

\* No worker remembers a token the row has not issued.
TokensIssued == \A w \in Worker : seen[w].token <= delivery.lease.token

\* While a prompt claim waits for its SELECT its lease is alive, and neither
\* an earlier holder nor another claimant has its token.
ReadingIsLeased ==
  PromptRead => \A w \in reading :
    /\ delivery.lease.owner = OwnerOf[w]
    /\ delivery.lease.until > now
    /\ \A v \in Worker : seen[v].token < delivery.lease.token
    /\ \A v \in reading : v = w

\* Why fences are exclusive: the invariant a step needs to keep it so.
FenceInv == TokensIssued /\ ReadingIsLeased /\ (FenceSafe => ExclusiveFence)

\* A journaled or published answer names the journal records that hold it.
JournaledHasRange == delivery.phase \in {"journaled", "published"} => delivery.range # NoRange

\* The row's revision counts the recorded commands: no transition commits
\* without its command event, and none commits twice.
RevisionCountsCommands ==
  /\ \A c \in Recorded : result[c].revision \in 2 .. delivery.revision
  /\ \A c, d \in Recorded : result[c].revision = result[d].revision => c = d
  /\ \A r \in 2 .. delivery.revision : \E c \in Recorded : result[c].revision = r

\* However often a command is retried, by whomever and whatever happened to
\* the row since, every answer it gets is the first one.
OneAnswerPerCommand ==
  \A c \in Command :
    /\ c \in Recorded => answers[c] \subseteq {result[c].revision}
    /\ c \notin Recorded => answers[c] = {}

\* A failed row that somebody leases was leased by the reconcile claim.
FailedLeaseInv ==
  delivery.phase = "failed" /\ delivery.lease.owner # NoOwner => claimedIn = "failed"

\* Failed rows wait for recovery: only a lease taken by the reconcile claim
\* moves a failed row, never one an ordinary publisher still has.
FailedWaitsForReconcile ==
  [][delivery.phase = "failed" /\ delivery'.phase # "failed" => claimedIn = "failed"]_vars

\* A published row is never touched again, by a claim or by a late command.
PublishedIsFinal == [][delivery.phase = "published" => delivery' = delivery]_vars

\* The row implements the abstract fenced row.
Row == INSTANCE FencedRow WITH
  Initial <- "pending",
  Claimed <- [p \in Phase \ {"published"} |-> p],
  Edge <- {e \in Phase \X Phase : allowedRootFinalTransition(e[1], e[2])},
  Withdrawn <- [p \in {} |-> p],
  status <- delivery.phase, generation <- delivery.lease.token,
  holder <- delivery.lease.owner

ImplementsFencedRow == Row!RowSpec
=============================================================================
