-------------------------- MODULE WorkflowHandoff --------------------------
(***************************************************************************)
(* One row of agent_workflow_handoffs: the outbox through which the root   *)
(* Agent hands the user's request to the coordinator of a workflow, and    *)
(* whose send may end in doubt.  Claims, leases, fenced transitions and    *)
(* command records are those of repository/agent_execution_repo.go.        *)
(*                                                                         *)
(* Workers, owner strings, the two statements of a claim and the command   *)
(* records are as in RootFinalDelivery.  Errors are stuttering steps.      *)
(***************************************************************************)
EXTENDS Lease, FiniteSets

CONSTANTS Worker,
          OwnerOf,      \* [Worker -> Owner]: the lease_owner each passes
          Command,      \* command IDs
          Fingerprint,  \* command fingerprints
          MaxTime,      \* bound on the clock
          MaxAttempt,   \* bound on claims of the row
          PromptRead    \* TRUE: a claim reads its row back before its lease ends

ASSUME HandoffAssumption ==
  /\ OwnerOf \in [Worker -> Owner]
  /\ MaxTime \in Nat /\ MaxAttempt \in Nat
  /\ PromptRead \in BOOLEAN

VARIABLES now,      \* the wall clock
          handoff,  \* the row
          result,   \* command events recorded under "handoff:<id>:<command>"
          seen,     \* what each worker remembers of the row it claimed
          reading,  \* workers between the claim's UPDATE and its SELECT
          sends,    \* history: how often the row entered sending
          returns,  \* history: how often a lease put it back to pending
          answers   \* history: the revisions answered for each command

vars == <<now, handoff, result, seen, reading, sends, returns, answers>>

HandoffStatus == {"pending", "leased", "sending", "unknown", "started",
                  "cancelled", "failed_definite"}
LeaseMode == {"none", "dispatch", "reconcile_only"}
NoResult == [fingerprint |-> "none", revision |-> 0]
Nothing == [token |-> 0, revision |-> 0, status |-> "pending"]

Init ==
  /\ now = 0
  /\ handoff = [status |-> "pending", revision |-> 1, lease |-> NoLease, mode |-> "none",
                attempt |-> 0, nextAttempt |-> 0]
  /\ result = [c \in Command |-> NoResult]
  /\ seen = [w \in Worker |-> Nothing]
  /\ reading = {}
  /\ sends = 0
  /\ returns = 0
  /\ answers = [c \in Command |-> {}]

-----------------------------------------------------------------------------
(* Claims *)

\* The statuses a claim in the given mode may ask for.
allowedHandoffClaim(mode) ==
  CASE mode = "dispatch"       -> {"pending", "leased"}
    [] mode = "reconcile_only" -> {"sending", "unknown"}

\* Fault: every claim leaves the row leased.
AlwaysLeased(status) == "leased"

\* CASE WHEN status IN ('pending', 'leased') THEN 'leased' ELSE status END
ClaimedStatus(status) == IF status \in {"pending", "leased"} THEN "leased" ELSE status

\* The UPDATE of ClaimWorkflowHandoff.
ClaimWorkflowHandoff(w, mode) ==
  /\ w \notin reading
  /\ handoff.status \in allowedHandoffClaim(mode)
  /\ LeaseFree(handoff.lease, now)
  /\ handoff.nextAttempt <= now
  /\ handoff.attempt < MaxAttempt
  /\ \E until \in now + 1 .. MaxTime + 1 :
       handoff' = [handoff EXCEPT !.status = ClaimedStatus(@), !.mode = mode,
                                  !.lease = Leased(@, OwnerOf[w], until), !.attempt = @ + 1]
  /\ reading' = reading \cup {w}
  /\ UNCHANGED <<now, result, seen, sends, returns, answers>>

\* The SELECT that ends a claim: whatever the row holds by now is returned.
ReadClaim(w) ==
  /\ w \in reading
  /\ reading' = reading \ {w}
  /\ seen' = [seen EXCEPT ![w] = [token |-> handoff.lease.token,
                                  revision |-> handoff.revision,
                                  status |-> handoff.status]]
  /\ UNCHANGED <<now, handoff, result, sends, returns, answers>>

-----------------------------------------------------------------------------
(* Transitions *)

allowedHandoffTransition(from, to) ==
  \/ from = "leased" /\ to \in {"sending", "cancelled", "failed_definite"}
  \/ from = "sending" /\ to \in {"started", "unknown", "pending"}
  \/ from = "unknown" /\ to \in {"started", "cancelled", "pending"}

\* The lease columns after a transition into status to.
LeaseAfter(to) ==
  CASE to = "sending"               -> handoff.lease
    [] to \in {"started", "unknown"} -> Released(handoff.lease)
    [] OTHER                        -> Revoked(handoff.lease)

\* Fault: the update starts the revision over.
RevisionStartedOver(to, retryAt) ==
  [handoff EXCEPT !.status = to, !.revision = 0, !.nextAttempt = retryAt,
                  !.lease = LeaseAfter(to)]

handoffTransitionUpdates(to, retryAt) ==
  [handoff EXCEPT !.status = to, !.revision = @ + 1, !.nextAttempt = retryAt,
                  !.lease = LeaseAfter(to)]

\* Fault: any lease may return the row to the dispatchers.
AnyLeaseReturns(to) == TRUE

\* Only a reconcile lease, which knows what became of the send, returns the
\* row to the dispatchers.
MayReturn(to) == to = "pending" => handoff.mode = "reconcile_only"

\* Worker w's fence passes at the time `at` it sampled before the call.
FencePasses(w, at) ==
  seen[w].token # 0 /\ LeaseHeld(handoff.lease, OwnerOf[w], seen[w].token, at)

\* TransitionWorkflowHandoff, first time: one transaction.  The caller may
\* never get the answer (heard = FALSE) and retry later.
TransitionWorkflowHandoff(w, c, f) ==
  \E to \in HandoffStatus, at \in 0 .. now, retryAt \in {0, now + 1}, heard \in BOOLEAN :
    /\ w \notin reading
    /\ allowedHandoffTransition(seen[w].status, to)
    /\ result[c] = NoResult
    /\ MayReturn(to)
    /\ FencePasses(w, at)
    /\ handoff.revision = seen[w].revision
    /\ handoff.status = seen[w].status
    /\ handoff' = handoffTransitionUpdates(to, retryAt)
    /\ result' = [result EXCEPT ![c] = [fingerprint |-> f, revision |-> handoff.revision + 1]]
    /\ sends' = IF to = "sending" THEN sends + 1 ELSE sends
    /\ returns' = IF to = "pending" THEN returns + 1 ELSE returns
    /\ IF heard
       THEN /\ seen' = [seen EXCEPT ![w].revision = handoff.revision + 1, ![w].status = to]
            /\ answers' = [answers EXCEPT ![c] = @ \cup {handoff.revision + 1}]
       ELSE UNCHANGED <<seen, answers>>
    /\ UNCHANGED <<now, reading>>

\* Fault: a replay answers with the row as it is now.
CurrentRevision(c) == handoff.revision

\* The revision findCommandResultTx hands back for a recorded command.
ReplayedRevision(c) == result[c].revision

\* TransitionWorkflowHandoff for a command that has a recorded result.
ReplayHandoffCommand(w, c, f) ==
  /\ w \notin reading
  /\ seen[w].token # 0
  /\ result[c] # NoResult
  /\ result[c].fingerprint = f
  /\ answers' = [answers EXCEPT ![c] = @ \cup {ReplayedRevision(c)}]
  /\ UNCHANGED <<now, handoff, result, seen, reading, sends, returns>>

\* GetWorkflowHandoff: the worker refreshes status and revision, and keeps
\* the token of its claim.
GetWorkflowHandoff(w) ==
  /\ w \notin reading
  /\ seen[w].token # 0
  /\ seen' = [seen EXCEPT ![w].revision = handoff.revision, ![w].status = handoff.status]
  /\ UNCHANGED <<now, handoff, result, reading, sends, returns, answers>>

-----------------------------------------------------------------------------
(* The environment *)

Crash(w) ==
  /\ seen' = [seen EXCEPT ![w] = Nothing]
  /\ reading' = reading \ {w}
  /\ UNCHANGED <<now, handoff, result, sends, returns, answers>>

Tick ==
  /\ now < MaxTime
  /\ PromptRead /\ reading # {} => now + 1 < handoff.lease.until
  /\ now' = now + 1
  /\ UNCHANGED <<handoff, result, seen, reading, sends, returns, answers>>

WorkerStep(w) ==
  \/ ClaimWorkflowHandoff(w, "dispatch")
  \/ ClaimWorkflowHandoff(w, "reconcile_only")
  \/ ReadClaim(w)
  \/ GetWorkflowHandoff(w)
  \/ Crash(w)

CommandStep(w, c, f) ==
  \/ TransitionWorkflowHandoff(w, c, f)
  \/ ReplayHandoffCommand(w, c, f)

Next ==
  \/ Tick
  \/ \E w \in Worker : WorkerStep(w)
  \/ \E w \in Worker, c \in Command, f \in Fingerprint : CommandStep(w, c, f)

Spec == Init /\ [][Next]_vars

-----------------------------------------------------------------------------
(* Properties *)

HandoffRow == [status : HandoffStatus, revision : Nat \ {0}, lease : LeaseColumns,
               mode : LeaseMode, attempt : Nat, nextAttempt : Nat]
Result == [fingerprint : Fingerprint, revision : Nat] \cup {NoResult}
Memory == [token : Nat, revision : Nat, status : HandoffStatus]

\* Every variable holds a value of its type.
TypeOK ==
  /\ now \in Nat
  /\ handoff \in HandoffRow
  /\ result \in [Command -> Result]
  /\ seen \in [Worker -> Memory]
  /\ reading \subseteq Worker
  /\ sends \in Nat /\ returns \in Nat
  /\ answers \in [Command -> SUBSET Nat]

\* The send was started and its outcome is not known.
InDoubt == handoff.status \in {"sending", "unknown"}

\* The request is sent to the coordinator again only after a reconciler
\* returned the row: crashes, lapsed leases, retried commands and stale
\* workers never send it a second time.
OneSendPerReturn ==
  /\ sends <= returns + 1
  /\ handoff.status \in {"pending", "leased"} => sends = returns
  /\ InDoubt \/ handoff.status = "started" => sends = returns + 1

\* "Reconcile claims retain sending/unknown so remote uncertainty is never
\* erased": a doubtful send leaves doubt only by being confirmed started or
\* under a lease the reconciler took.
DoubtIsNeverErased ==
  [][InDoubt /\ ~InDoubt' => handoff'.status = "started" \/ handoff.mode = "reconcile_only"]_vars

\* However often a command is retried, every answer is the first one.
OneAnswerPerCommand ==
  \A c \in Command :
    answers[c] \subseteq IF result[c] = NoResult THEN {} ELSE {result[c].revision}

\* The row implements the abstract fenced row.
Row == INSTANCE FencedRow WITH
  Initial <- "pending",
  Claimed <- [s \in {"pending", "leased", "sending", "unknown"} |->
                IF s = "pending" THEN "leased" ELSE s],
  Edge <- {e \in HandoffStatus \X HandoffStatus : allowedHandoffTransition(e[1], e[2])},
  Withdrawn <- [s \in {} |-> s],
  status <- handoff.status, generation <- handoff.lease.token,
  holder <- handoff.lease.owner

ImplementsFencedRow == Row!RowSpec
=============================================================================
