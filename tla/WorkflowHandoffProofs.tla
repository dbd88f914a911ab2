----------------------- MODULE WorkflowHandoffProofs -----------------------
(***************************************************************************)
(* What TLAPS proves of WorkflowHandoff, for every set of workers, owners  *)
(* and commands, every clock and every number of claims: sends are never   *)
(* repeated on a guess, and the row is a fenced row.                       *)
(***************************************************************************)
EXTENDS WorkflowHandoff, TLAPS

(***************************************************************************)
(* What a step does to the row.                                            *)
(***************************************************************************)

\* The columns of a well-typed row.
LEMMA RowColumns ==
  ASSUME TypeOK
  PROVE  /\ handoff.lease \in LeaseColumns
         /\ handoff.lease.token \in Nat /\ handoff.lease.until \in Nat
         /\ handoff.lease.owner \in Owner \cup {NoOwner}
         /\ handoff.revision \in Nat \ {0}
         /\ handoff.status \in HandoffStatus
         /\ handoff.mode \in LeaseMode
         /\ handoff.attempt \in Nat
  BY DEF TypeOK, HandoffRow, LeaseColumns

\* A transition to sending keeps the lease; any other takes the owner away and
\* does not lower the token.
LEMMA LeaseAfterTransition ==
  ASSUME handoff.lease \in LeaseColumns, NEW to \in HandoffStatus
  PROVE  /\ LeaseAfter(to) \in LeaseColumns
         /\ to = "sending" => LeaseAfter(to) = handoff.lease
         /\ to # "sending" =>
              /\ LeaseAfter(to).owner = NoOwner
              /\ LeaseAfter(to).token \in {handoff.lease.token, handoff.lease.token + 1}
  <1>1. CASE to = "sending"
    BY <1>1 DEF LeaseAfter
  <1>2. CASE to \in {"started", "unknown"}
    BY <1>2 DEF LeaseAfter, Released, LeaseColumns
  <1>3. CASE to \notin {"sending", "started", "unknown"}
    BY <1>3 DEF LeaseAfter, Revoked, LeaseColumns
  <1>4. QED
    BY <1>1, <1>2, <1>3

\* What a claim does to the row.
LEMMA ClaimEffect ==
  ASSUME TypeOK, NEW w \in Worker, NEW mode \in {"dispatch", "reconcile_only"},
         ClaimWorkflowHandoff(w, mode)
  PROVE  /\ handoff' \in HandoffRow
         /\ handoff.status \in allowedHandoffClaim(mode)
         /\ handoff'.status = ClaimedStatus(handoff.status)
         /\ handoff'.mode = mode
         /\ handoff'.revision = handoff.revision
         /\ handoff'.lease.owner = OwnerOf[w]
         /\ handoff'.lease.token = handoff.lease.token + 1
         /\ UNCHANGED <<now, result, seen, sends, returns, answers>>
         /\ reading' = reading \cup {w}
  <1>1. PICK until \in now + 1 .. MaxTime + 1 :
          handoff' = [handoff EXCEPT !.status = ClaimedStatus(@), !.mode = mode,
                                     !.lease = Leased(@, OwnerOf[w], until), !.attempt = @ + 1]
    BY DEF ClaimWorkflowHandoff
  <1>0. handoff.lease \in LeaseColumns
    BY RowColumns
  <1>2. until \in Nat /\ OwnerOf[w] \in Owner
    BY HandoffAssumption DEF TypeOK
  <1>3. /\ Leased(handoff.lease, OwnerOf[w], until) \in LeaseColumns
        /\ Leased(handoff.lease, OwnerOf[w], until).owner = OwnerOf[w]
        /\ Leased(handoff.lease, OwnerOf[w], until).token = handoff.lease.token + 1
    BY <1>0, <1>2 DEF Leased, LeaseColumns
  <1>4. handoff' = [handoff EXCEPT !.status = ClaimedStatus(handoff.status), !.mode = mode,
                                   !.lease = Leased(handoff.lease, OwnerOf[w], until),
                                   !.attempt = handoff.attempt + 1]
    BY <1>1 DEF TypeOK, HandoffRow
  <1>5. ClaimedStatus(handoff.status) \in HandoffStatus /\ handoff.attempt + 1 \in Nat
    BY RowColumns DEF ClaimedStatus, HandoffStatus
  <1>6. mode \in LeaseMode
    BY DEF LeaseMode
  <1>7. /\ handoff' \in HandoffRow
        /\ handoff'.status = ClaimedStatus(handoff.status)
        /\ handoff'.mode = mode /\ handoff'.revision = handoff.revision
        /\ handoff'.lease = Leased(handoff.lease, OwnerOf[w], until)
    BY <1>3, <1>4, <1>5, <1>6 DEF TypeOK, HandoffRow
  <1>8. QED
    BY <1>3, <1>7 DEF ClaimWorkflowHandoff

\* What a first transition does: along the table, under a fence that passes.
LEMMA TransitionEffect ==
  ASSUME TypeOK, NEW w \in Worker, NEW c \in Command, NEW f \in Fingerprint,
         TransitionWorkflowHandoff(w, c, f)
  PROVE  /\ handoff' \in HandoffRow
         /\ handoff'.revision = handoff.revision + 1
         /\ handoff'.status \in HandoffStatus
         /\ allowedHandoffTransition(handoff.status, handoff'.status)
         /\ handoff'.status = "pending" => handoff.mode = "reconcile_only"
         /\ handoff'.mode = handoff.mode
         /\ handoff'.lease = LeaseAfter(handoff'.status)
         /\ handoff.lease.owner = OwnerOf[w]
         /\ result[c] = NoResult
         /\ result' = [result EXCEPT ![c] = [fingerprint |-> f, revision |-> handoff.revision + 1]]
         /\ sends' = IF handoff'.status = "sending" THEN sends + 1 ELSE sends
         /\ returns' = IF handoff'.status = "pending" THEN returns + 1 ELSE returns
         /\ \/ UNCHANGED <<seen, answers>>
            \/ /\ seen' = [seen EXCEPT ![w].revision = handoff.revision + 1,
                                       ![w].status = handoff'.status]
               /\ answers' = [answers EXCEPT ![c] = @ \cup {handoff.revision + 1}]
         /\ UNCHANGED <<now, reading>>
  <1>1. PICK to \in HandoffStatus, at \in 0 .. now, retryAt \in {0, now + 1},
             heard \in BOOLEAN :
          TransitionWorkflowHandoff(w, c, f)!(to, at, retryAt, heard)
    BY DEF TransitionWorkflowHandoff
  <1>2. LeaseAfter(to) \in LeaseColumns
    BY RowColumns, LeaseAfterTransition
  <1>3. /\ retryAt \in Nat /\ at \in Nat
        /\ handoff.revision + 1 \in Nat \ {0}
    BY RowColumns DEF TypeOK
  <1>4. handoff' = [handoff EXCEPT !.status = to, !.revision = handoff.revision + 1,
                                   !.nextAttempt = retryAt, !.lease = LeaseAfter(to)]
    BY <1>1 DEF handoffTransitionUpdates, TypeOK, HandoffRow
  <1>5. /\ handoff' \in HandoffRow
        /\ handoff'.status = to /\ handoff'.revision = handoff.revision + 1
        /\ handoff'.lease = LeaseAfter(to) /\ handoff'.mode = handoff.mode
    BY <1>2, <1>3, <1>4 DEF TypeOK, HandoffRow
  <1>6. handoff.lease.owner = OwnerOf[w]
    BY <1>1 DEF FencePasses, LeaseHeld
  <1>7. QED
    BY <1>1, <1>5, <1>6 DEF MayReturn

\* The row changes only by a claim or by a first transition.
LEMMA StatusMoves ==
  ASSUME TypeOK, [Next]_vars, handoff' # handoff
  PROVE  \/ \E w \in Worker, mode \in {"dispatch", "reconcile_only"} :
              ClaimWorkflowHandoff(w, mode)
         \/ \E w \in Worker, c \in Command, f \in Fingerprint :
              TransitionWorkflowHandoff(w, c, f)
  BY DEF Next, WorkerStep, CommandStep, vars, Tick, ReadClaim, GetWorkflowHandoff,
         Crash, ReplayHandoffCommand

(***************************************************************************)
(* Type correctness.                                                       *)
(***************************************************************************)

\* A freshly created row, and what workers remember at first, are well typed.
LEMMA InitTypeOK == Init => TypeOK
  <1> SUFFICES ASSUME Init PROVE TypeOK
    OBVIOUS
  <1>1. handoff \in HandoffRow
    <2>1. NoLease \in LeaseColumns
      BY DEF NoLease, LeaseColumns
    <2>2. QED
      BY <2>1 DEF Init, HandoffRow, HandoffStatus, LeaseMode
  <1>2. seen \in [Worker -> Memory]
    BY DEF Init, Memory, Nothing, HandoffStatus
  <1>3. QED
    BY <1>1, <1>2 DEF Init, TypeOK, Result

\* Claims, transitions, reads, crashes and the clock keep the types.
LEMMA NextTypeOK == TypeOK /\ [Next]_vars => TypeOK'
  <1> SUFFICES ASSUME TypeOK, [Next]_vars PROVE TypeOK'
    OBVIOUS
  <1>1. ASSUME NEW w \in Worker, NEW mode \in {"dispatch", "reconcile_only"},
               ClaimWorkflowHandoff(w, mode)
        PROVE  TypeOK'
    BY <1>1, ClaimEffect DEF TypeOK
  <1>2. ASSUME NEW w \in Worker, ReadClaim(w) PROVE TypeOK'
    <2>1. [token |-> handoff.lease.token, revision |-> handoff.revision,
           status |-> handoff.status] \in Memory
      BY RowColumns DEF Memory
    <2>2. seen' \in [Worker -> Memory]
      BY <1>2, <2>1 DEF ReadClaim, TypeOK
    <2>3. QED
      BY <1>2, <2>2 DEF ReadClaim, TypeOK
  <1>3. ASSUME NEW w \in Worker, NEW c \in Command, NEW f \in Fingerprint,
               TransitionWorkflowHandoff(w, c, f)
        PROVE  TypeOK'
    <2>1. /\ handoff' \in HandoffRow /\ handoff'.status \in HandoffStatus
          /\ result' = [result EXCEPT ![c] = [fingerprint |-> f, revision |-> handoff.revision + 1]]
          /\ sends' \in {sends, sends + 1} /\ returns' \in {returns, returns + 1}
          /\ \/ UNCHANGED <<seen, answers>>
             \/ /\ seen' = [seen EXCEPT ![w].revision = handoff.revision + 1,
                                        ![w].status = handoff'.status]
                /\ answers' = [answers EXCEPT ![c] = @ \cup {handoff.revision + 1}]
          /\ UNCHANGED <<now, reading>>
      BY <1>3, TransitionEffect
    <2>2. handoff.revision + 1 \in Nat
      BY RowColumns
    <2>3. result' \in [Command -> Result]
      BY <2>1, <2>2 DEF TypeOK, Result
    <2>4. seen' \in [Worker -> Memory]
      BY <2>1, <2>2 DEF TypeOK, Memory
    <2>5. answers' \in [Command -> SUBSET Nat]
      BY <2>1, <2>2 DEF TypeOK
    <2>6. sends' \in Nat /\ returns' \in Nat
      BY <2>1 DEF TypeOK
    <2>7. QED
      BY <2>1, <2>3, <2>4, <2>5, <2>6 DEF TypeOK
  <1>4. ASSUME NEW w \in Worker, NEW c \in Command, NEW f \in Fingerprint,
               ReplayHandoffCommand(w, c, f)
        PROVE  TypeOK'
    <2>1. ReplayedRevision(c) \in Nat
      BY DEF TypeOK, Result, NoResult, ReplayedRevision
    <2>2. QED
      BY <1>4, <2>1 DEF ReplayHandoffCommand, TypeOK
  <1>5. ASSUME NEW w \in Worker, GetWorkflowHandoff(w) PROVE TypeOK'
    <2>1. seen' \in [Worker -> Memory]
      BY <1>5, RowColumns DEF GetWorkflowHandoff, TypeOK, Memory
    <2>2. QED
      BY <1>5, <2>1 DEF GetWorkflowHandoff, TypeOK
  <1>6. ASSUME NEW w \in Worker, Crash(w) PROVE TypeOK'
    <2>1. Nothing \in Memory
      BY DEF Nothing, Memory, HandoffStatus
    <2>2. QED
      BY <1>6, <2>1 DEF Crash, TypeOK
  <1>7. CASE Tick
    BY <1>7 DEF Tick, TypeOK
  <1>8. CASE UNCHANGED vars
    BY <1>8 DEF vars, TypeOK
  <1>9. QED
    BY <1>1, <1>2, <1>3, <1>4, <1>5, <1>6, <1>7, <1>8 DEF Next, WorkerStep, CommandStep

\* Every step keeps the types of WorkflowHandoff.
THEOREM TypeCorrect == Spec => []TypeOK
  BY InitTypeOK, NextTypeOK, PTL DEF Spec

-----------------------------------------------------------------------------
(***************************************************************************)
(* Sends.                                                                  *)
(***************************************************************************)

\* The counters of sends and returns change only with the row.
LEMMA CountersMove ==
  ASSUME TypeOK, [Next]_vars, handoff' = handoff
  PROVE  UNCHANGED <<sends, returns>>
  <1>1. ASSUME NEW w \in Worker, NEW c \in Command, NEW f \in Fingerprint,
               TransitionWorkflowHandoff(w, c, f)
        PROVE  FALSE
    <2>1. handoff'.revision = handoff.revision + 1
      BY <1>1, TransitionEffect
    <2>2. QED
      BY <2>1, RowColumns
  <1>2. QED
    BY <1>1 DEF Next, WorkerStep, CommandStep, vars, Tick, ReadClaim, GetWorkflowHandoff,
           Crash, ReplayHandoffCommand, ClaimWorkflowHandoff

\* The request is sent once more only after a reconciler returned the row.
THEOREM SendsFollowReturns == Spec => []OneSendPerReturn
  <1>1. Init => OneSendPerReturn
    BY DEF Init, OneSendPerReturn, InDoubt
  <1>2. TypeOK /\ OneSendPerReturn /\ [Next]_vars => OneSendPerReturn'
    <2> SUFFICES ASSUME TypeOK, OneSendPerReturn, [Next]_vars
                 PROVE  OneSendPerReturn'
      OBVIOUS
    <2>1. ASSUME NEW w \in Worker, NEW mode \in {"dispatch", "reconcile_only"},
                 ClaimWorkflowHandoff(w, mode)
          PROVE  OneSendPerReturn'
      BY <2>1, ClaimEffect DEF OneSendPerReturn, InDoubt, allowedHandoffClaim, ClaimedStatus
    <2>2. ASSUME NEW w \in Worker, NEW c \in Command, NEW f \in Fingerprint,
                 TransitionWorkflowHandoff(w, c, f)
          PROVE  OneSendPerReturn'
      <3>1. /\ allowedHandoffTransition(handoff.status, handoff'.status)
            /\ sends' = IF handoff'.status = "sending" THEN sends + 1 ELSE sends
            /\ returns' = IF handoff'.status = "pending" THEN returns + 1 ELSE returns
        BY <2>2, TransitionEffect
      <3>2. sends \in Nat /\ returns \in Nat
        BY DEF TypeOK
      <3>3. CASE handoff.status = "leased"
        BY <3>1, <3>2, <3>3 DEF OneSendPerReturn, InDoubt, allowedHandoffTransition
      <3>4. CASE InDoubt
        BY <3>1, <3>2, <3>4 DEF OneSendPerReturn, InDoubt, allowedHandoffTransition
      <3>5. QED
        BY <3>1, <3>3, <3>4 DEF InDoubt, allowedHandoffTransition
    <2>3. CASE handoff' = handoff
      BY <2>3, CountersMove DEF OneSendPerReturn, InDoubt
    <2>4. QED
      BY <2>1, <2>2, <2>3, StatusMoves
  <1>3. QED
    BY <1>1, <1>2, TypeCorrect, PTL DEF Spec

\* An unknown row that somebody leases was leased by a reconciler.
UnknownLeaseInv ==
  handoff.status = "unknown" /\ handoff.lease.owner # NoOwner => handoff.mode = "reconcile_only"

\* A transition to unknown leaves no owner, and only reconcilers claim there.
LEMMA UnknownLease == Spec => []UnknownLeaseInv
  <1>1. Init => UnknownLeaseInv
    BY DEF Init, UnknownLeaseInv
  <1>2. TypeOK /\ UnknownLeaseInv /\ [Next]_vars => UnknownLeaseInv'
    <2> SUFFICES ASSUME TypeOK, UnknownLeaseInv, [Next]_vars, handoff' # handoff
                 PROVE  UnknownLeaseInv'
      BY DEF UnknownLeaseInv
    <2>1. ASSUME NEW w \in Worker, NEW mode \in {"dispatch", "reconcile_only"},
                 ClaimWorkflowHandoff(w, mode)
          PROVE  UnknownLeaseInv'
      BY <2>1, ClaimEffect DEF UnknownLeaseInv, allowedHandoffClaim, ClaimedStatus
    <2>2. ASSUME NEW w \in Worker, NEW c \in Command, NEW f \in Fingerprint,
                 TransitionWorkflowHandoff(w, c, f)
          PROVE  UnknownLeaseInv'
      BY <2>2, TransitionEffect, RowColumns, LeaseAfterTransition DEF UnknownLeaseInv
    <2>3. QED
      BY <2>1, <2>2, StatusMoves
  <1>3. QED
    BY <1>1, <1>2, TypeCorrect, PTL DEF Spec

\* A doubtful send leaves doubt only by being confirmed, or by a reconciler.
THEOREM DoubtStays == Spec => DoubtIsNeverErased
  <1>1. TypeOK /\ UnknownLeaseInv /\ [Next]_vars =>
          (InDoubt /\ ~InDoubt' => handoff'.status = "started" \/ handoff.mode = "reconcile_only")
    <2> SUFFICES ASSUME TypeOK, UnknownLeaseInv, [Next]_vars, InDoubt, ~InDoubt',
                        handoff'.status # "started"
                 PROVE  handoff.mode = "reconcile_only"
      OBVIOUS
    <2>1. ASSUME NEW w \in Worker, NEW mode \in {"dispatch", "reconcile_only"},
                 ClaimWorkflowHandoff(w, mode)
          PROVE  FALSE
      BY <2>1, ClaimEffect DEF InDoubt, ClaimedStatus
    <2>2. handoff' # handoff
      BY DEF InDoubt
    <2>3. PICK w \in Worker, c \in Command, f \in Fingerprint :
            TransitionWorkflowHandoff(w, c, f)
      BY <2>1, <2>2, StatusMoves
    <2>4. /\ allowedHandoffTransition(handoff.status, handoff'.status)
          /\ handoff'.status = "pending" => handoff.mode = "reconcile_only"
          /\ handoff.lease.owner = OwnerOf[w]
      BY <2>3, TransitionEffect
    <2>5. handoff.lease.owner # NoOwner
      BY <2>4, HandoffAssumption, LeaseAssumption
    <2>6. handoff'.status = "pending" \/ handoff.status = "unknown"
      BY <2>4 DEF InDoubt, allowedHandoffTransition
    <2>7. QED
      BY <2>4, <2>5, <2>6 DEF UnknownLeaseInv
  <1>2. QED
    BY <1>1, TypeCorrect, UnknownLease, PTL DEF Spec, DoubtIsNeverErased

-----------------------------------------------------------------------------
(***************************************************************************)
(* Commands.                                                               *)
(***************************************************************************)

\* Every answer a command gets, first or replayed, is the recorded revision.
THEOREM AnswersAgree == Spec => []OneAnswerPerCommand
  <1>1. Init => OneAnswerPerCommand
    BY DEF Init, OneAnswerPerCommand
  <1>2. TypeOK /\ OneAnswerPerCommand /\ [Next]_vars => OneAnswerPerCommand'
    <2> SUFFICES ASSUME TypeOK, OneAnswerPerCommand, [Next]_vars
                 PROVE  OneAnswerPerCommand'
      OBVIOUS
    <2>1. ASSUME NEW w \in Worker, NEW c \in Command, NEW f \in Fingerprint,
                 TransitionWorkflowHandoff(w, c, f)
          PROVE  OneAnswerPerCommand'
      <3>1. /\ result[c] = NoResult
            /\ result' = [result EXCEPT ![c] = [fingerprint |-> f, revision |-> handoff.revision + 1]]
            /\ \/ UNCHANGED answers
               \/ answers' = [answers EXCEPT ![c] = @ \cup {handoff.revision + 1}]
        BY <2>1 DEF TransitionWorkflowHandoff
      <3>2. answers[c] = {}
        BY <3>1 DEF OneAnswerPerCommand
      <3>3. result'[c].revision = handoff.revision + 1 /\ result'[c] # NoResult
        BY <3>1, RowColumns DEF TypeOK, NoResult
      <3>4. answers'[c] \subseteq {handoff.revision + 1}
        BY <3>1, <3>2 DEF TypeOK
      <3>5. \A d \in Command \ {c} : result'[d] = result[d] /\ answers'[d] = answers[d]
        BY <3>1 DEF TypeOK
      <3>6. QED
        BY <3>3, <3>4, <3>5 DEF OneAnswerPerCommand
    <2>2. ASSUME NEW w \in Worker, NEW c \in Command, NEW f \in Fingerprint,
                 ReplayHandoffCommand(w, c, f)
          PROVE  OneAnswerPerCommand'
      BY <2>2 DEF ReplayHandoffCommand, ReplayedRevision, OneAnswerPerCommand, TypeOK
    <2>3. CASE UNCHANGED <<result, answers>>
      BY <2>3 DEF OneAnswerPerCommand
    <2>4. QED
      BY <2>1, <2>2, <2>3 DEF Next, WorkerStep, CommandStep, vars, Tick, ReadClaim,
         GetWorkflowHandoff, Crash, ClaimWorkflowHandoff
  <1>3. QED
    BY <1>1, <1>2, TypeCorrect, PTL DEF Spec

-----------------------------------------------------------------------------
(***************************************************************************)
(* Refinement.                                                             *)
(***************************************************************************)

\* Without clocks, commands and stale callers, the row is a fenced row.
THEOREM RefinesFencedRow == Spec => ImplementsFencedRow
  <1>1. Init => Row!RowInit
    BY DEF Init, Row!RowInit, NoLease
  <1>2. TypeOK /\ [Next]_vars => [Row!RowNext]_(Row!rowVars)
    <2> SUFFICES ASSUME TypeOK, [Next]_vars, handoff' # handoff
                 PROVE  Row!RowNext
      BY DEF Row!rowVars
    <2>1. ASSUME NEW w \in Worker, NEW mode \in {"dispatch", "reconcile_only"},
                 ClaimWorkflowHandoff(w, mode)
          PROVE  Row!Claim
      <3>1. OwnerOf[w] \in Owner
        BY HandoffAssumption
      <3>2. /\ handoff.status \in {"pending", "leased", "sending", "unknown"}
            /\ handoff'.status = ClaimedStatus(handoff.status)
            /\ handoff'.lease.owner = OwnerOf[w]
            /\ handoff'.lease.token = handoff.lease.token + 1
        BY <2>1, ClaimEffect DEF allowedHandoffClaim
      <3>3. handoff'.status = IF handoff.status = "pending" THEN "leased" ELSE handoff.status
        BY <3>2 DEF ClaimedStatus
      <3>4. QED
        BY <3>1, <3>2, <3>3 DEF Row!Claim
    <2>2. ASSUME NEW w \in Worker, NEW c \in Command, NEW f \in Fingerprint,
                 TransitionWorkflowHandoff(w, c, f)
          PROVE  Row!Advance
      <3>0. handoff.lease.owner = OwnerOf[w]
        BY <2>2, TransitionEffect
      <3>1. handoff.lease.owner # NoOwner
        BY <3>0, HandoffAssumption, LeaseAssumption
      <3>2. /\ handoff.status \in HandoffStatus /\ handoff'.status \in HandoffStatus
            /\ allowedHandoffTransition(handoff.status, handoff'.status)
            /\ handoff'.lease = LeaseAfter(handoff'.status)
        BY <2>2, TransitionEffect, RowColumns
      <3>3. <<handoff.status, handoff'.status>> \in
              {e \in HandoffStatus \X HandoffStatus : allowedHandoffTransition(e[1], e[2])}
        BY <3>2
      <3>4. \/ handoff'.lease = handoff.lease
            \/ /\ handoff'.lease.owner = NoOwner
               /\ handoff'.lease.token \in {handoff.lease.token, handoff.lease.token + 1}
        BY <3>2, RowColumns, LeaseAfterTransition
      <3>5. QED
        BY <3>1, <3>3, <3>4 DEF Row!Advance
    <2>3. QED
      BY <2>1, <2>2, StatusMoves DEF Row!RowNext
  <1>3. QED
    BY <1>1, <1>2, TypeCorrect, PTL DEF Spec, ImplementsFencedRow, Row!RowSpec
=============================================================================
