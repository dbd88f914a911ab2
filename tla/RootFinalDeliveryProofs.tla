--------------------- MODULE RootFinalDeliveryProofs ---------------------
(***************************************************************************)
(* What TLAPS proves of RootFinalDelivery, for every set of workers,       *)
(* owners and commands, every clock and every number of claims.            *)
(***************************************************************************)
EXTENDS RootFinalDelivery, TLAPS

(***************************************************************************)
(* The transition table's lease columns.                                   *)
(***************************************************************************)

\* A transition leaves well-typed lease columns: either untouched, for
\* "journaled", or without an owner and with a token that did not shrink.
LEMMA LeaseAfterTransition ==
  ASSUME delivery.lease \in LeaseColumns, NEW to \in Phase
  PROVE  /\ LeaseAfter(to) \in LeaseColumns
         /\ to = "journaled" => LeaseAfter(to) = delivery.lease
         /\ to # "journaled" =>
              /\ LeaseAfter(to).owner = NoOwner
              /\ LeaseAfter(to).token \in {delivery.lease.token, delivery.lease.token + 1}
  <1>1. CASE to = "journaled"
    BY <1>1 DEF LeaseAfter
  <1>2. CASE to = "published"
    BY <1>2 DEF LeaseAfter, Released, LeaseColumns
  <1>3. CASE to \notin {"journaled", "published"}
    BY <1>3 DEF LeaseAfter, Revoked, LeaseColumns
  <1>4. QED
    BY <1>1, <1>2, <1>3

(***************************************************************************)
(* Type correctness.                                                       *)
(***************************************************************************)

\* The columns of a well-typed row.
LEMMA RowColumns ==
  ASSUME TypeOK
  PROVE  /\ delivery.lease \in LeaseColumns
         /\ delivery.lease.token \in Nat /\ delivery.lease.until \in Nat
         /\ delivery.lease.owner \in Owner \cup {NoOwner}
         /\ delivery.revision \in Nat \ {0}
         /\ delivery.phase \in Phase
         /\ delivery.attempt \in Nat
  BY DEF TypeOK, DeliveryRow, LeaseColumns

\* What a claim does to the row, whichever phases it looks for.
LEMMA ClaimEffect ==
  ASSUME TypeOK, NEW w \in Worker, NEW phases, claimRootFinalDelivery(w, phases)
  PROVE  /\ delivery' \in DeliveryRow
         /\ delivery'.phase = delivery.phase
         /\ delivery'.revision = delivery.revision
         /\ delivery'.range = delivery.range
         /\ delivery'.lease.owner = OwnerOf[w]
         /\ delivery'.lease.until > now
         /\ delivery'.lease.token = delivery.lease.token + 1
  <1>1. PICK until \in now + 1 .. MaxTime + 1 :
          delivery' = [delivery EXCEPT !.lease = Leased(@, OwnerOf[w], until),
                                       !.attempt = @ + 1]
    BY DEF claimRootFinalDelivery
  <1>2. /\ until \in Nat /\ until > now
        /\ OwnerOf[w] \in Owner
    BY DeliveryAssumption DEF TypeOK
  <1>3. delivery.lease \in LeaseColumns
    BY RowColumns
  <1>4. /\ Leased(delivery.lease, OwnerOf[w], until) \in LeaseColumns
        /\ Leased(delivery.lease, OwnerOf[w], until).owner = OwnerOf[w]
        /\ Leased(delivery.lease, OwnerOf[w], until).until = until
        /\ Leased(delivery.lease, OwnerOf[w], until).token = delivery.lease.token + 1
    BY <1>2, <1>3 DEF Leased, LeaseColumns
  <1>5. delivery' = [delivery EXCEPT !.lease = Leased(delivery.lease, OwnerOf[w], until),
                                     !.attempt = delivery.attempt + 1]
    BY <1>1 DEF TypeOK, DeliveryRow
  <1>6. delivery.attempt + 1 \in Nat
    BY RowColumns
  <1>7. QED
    BY <1>2, <1>4, <1>5, <1>6 DEF TypeOK, DeliveryRow

\* What a first transition does: it leaves the phase the worker expected for
\* one the table allows, under a fence that passes, and counts the revision.
LEMMA TransitionEffect ==
  ASSUME TypeOK, NEW w \in Worker, NEW c \in Command, NEW f \in Fingerprint,
         TransitionRootFinalDelivery(w, c, f)
  PROVE  /\ delivery' \in DeliveryRow
         /\ delivery'.revision = delivery.revision + 1
         /\ delivery'.phase \in Phase
         /\ allowedRootFinalTransition(delivery.phase, delivery'.phase)
         /\ delivery'.phase = "journaled" => delivery'.range # NoRange
         /\ delivery'.phase # "journaled" => delivery'.range = delivery.range
         /\ delivery'.lease = LeaseAfter(delivery'.phase)
         /\ HoldsRow(w)
         /\ result[c] = NoResult
         /\ result' = [result EXCEPT ![c] = [fingerprint |-> f, revision |-> delivery.revision + 1]]
         /\ \/ UNCHANGED <<seen, answers>>
            \/ /\ seen' = [seen EXCEPT ![w].revision = delivery.revision + 1,
                                       ![w].phase = delivery'.phase]
               /\ answers' = [answers EXCEPT ![c] = @ \cup {delivery.revision + 1}]
         /\ UNCHANGED <<now, reading, claimedIn>>
  <1>1. PICK to \in Phase, range \in Range \cup {NoRange}, at \in 0 .. now,
             retryAt \in {0, now + 1}, heard \in BOOLEAN :
          TransitionRootFinalDelivery(w, c, f)!(to, range, at, retryAt, heard)
    BY DEF TransitionRootFinalDelivery
  <1>2. LeaseAfter(to) \in LeaseColumns
    BY RowColumns, LeaseAfterTransition
  <1>3. /\ delivery' = [delivery EXCEPT !.phase = to, !.revision = @ + 1,
                          !.nextAttempt = retryAt, !.lease = LeaseAfter(to),
                          !.range = IF range = NoRange THEN @ ELSE range]
        /\ (to = "journaled") <=> (range # NoRange)
    BY <1>1 DEF rootFinalTransitionUpdates, validRootFinalSequenceTransition
  <1>4. /\ retryAt \in Nat /\ at \in Nat
        /\ delivery.revision + 1 \in Nat \ {0}
    BY RowColumns DEF TypeOK
  <1>5. delivery' \in DeliveryRow
    BY <1>2, <1>3, <1>4 DEF TypeOK, DeliveryRow
  <1>6. /\ delivery'.phase = to /\ delivery'.revision = delivery.revision + 1
        /\ delivery'.lease = LeaseAfter(to)
        /\ to = "journaled" => delivery'.range # NoRange
        /\ to # "journaled" => delivery'.range = delivery.range
    BY <1>3 DEF TypeOK, DeliveryRow
  <1>7. HoldsRow(w)
    BY <1>1, <1>4, RowColumns DEF FencePasses, LeaseHeld, HoldsRow
  <1>8. QED
    BY <1>1, <1>5, <1>6, <1>7

\* A freshly created row, and what workers remember at first, are well typed.
LEMMA InitTypeOK == Init => TypeOK
  <1> SUFFICES ASSUME Init PROVE TypeOK
    OBVIOUS
  <1>1. delivery \in DeliveryRow
    BY LeaseAssumption DEF Init, DeliveryRow, LeaseColumns, NoLease, Phase
  <1>2. seen \in [Worker -> Memory]
    BY DEF Init, Memory, Nothing, Phase
  <1>3. QED
    BY <1>1, <1>2 DEF Init, TypeOK, Result, Phase

\* Claims, transitions, reads, crashes and the clock keep the types.
LEMMA NextTypeOK == TypeOK /\ [Next]_vars => TypeOK'
  <1> SUFFICES ASSUME TypeOK, [Next]_vars PROVE TypeOK'
    OBVIOUS
  <1>1. ASSUME NEW w \in Worker, NEW phases, claimRootFinalDelivery(w, phases)
        PROVE  TypeOK'
    <2>1. delivery' \in DeliveryRow
      BY <1>1, ClaimEffect
    <2>2. QED
      BY <1>1, <2>1, RowColumns DEF claimRootFinalDelivery, TypeOK
  <1>2. ASSUME NEW w \in Worker, ReadClaim(w) PROVE TypeOK'
    <2>1. [token |-> delivery.lease.token, revision |-> delivery.revision,
           phase |-> delivery.phase] \in Memory
      BY RowColumns DEF Memory
    <2>2. seen' \in [Worker -> Memory]
      BY <1>2, <2>1 DEF ReadClaim, TypeOK
    <2>3. QED
      BY <1>2, <2>2 DEF ReadClaim, TypeOK
  <1>3. ASSUME NEW w \in Worker, NEW c \in Command, NEW f \in Fingerprint,
               TransitionRootFinalDelivery(w, c, f)
        PROVE  TypeOK'
    <2>1. /\ delivery' \in DeliveryRow /\ delivery'.phase \in Phase
          /\ result' = [result EXCEPT ![c] = [fingerprint |-> f, revision |-> delivery.revision + 1]]
          /\ \/ UNCHANGED <<seen, answers>>
             \/ /\ seen' = [seen EXCEPT ![w].revision = delivery.revision + 1,
                                        ![w].phase = delivery'.phase]
                /\ answers' = [answers EXCEPT ![c] = @ \cup {delivery.revision + 1}]
          /\ UNCHANGED <<now, reading, claimedIn>>
      BY <1>3, TransitionEffect
    <2>2. delivery.revision + 1 \in Nat
      BY RowColumns
    <2>3. result' \in [Command -> Result]
      BY <2>1, <2>2 DEF TypeOK, Result
    <2>4. seen' \in [Worker -> Memory]
      BY <2>1, <2>2 DEF TypeOK, Memory
    <2>5. answers' \in [Command -> SUBSET Nat]
      BY <2>1, <2>2 DEF TypeOK
    <2>6. QED
      BY <2>1, <2>3, <2>4, <2>5 DEF TypeOK
  <1>4. ASSUME NEW w \in Worker, NEW c \in Command, NEW f \in Fingerprint,
               ReplayRootFinalCommand(w, c, f)
        PROVE  TypeOK'
    <2>1. ReplayedRevision(c) \in Nat
      BY DEF TypeOK, Result, NoResult, ReplayedRevision
    <2>2. QED
      BY <1>4, <2>1 DEF ReplayRootFinalCommand, TypeOK
  <1>5. ASSUME NEW w \in Worker, GetRootFinalDelivery(w) PROVE TypeOK'
    <2>1. seen' \in [Worker -> Memory]
      BY <1>5, RowColumns DEF GetRootFinalDelivery, TypeOK, Memory
    <2>2. QED
      BY <1>5, <2>1 DEF GetRootFinalDelivery, TypeOK
  <1>6. ASSUME NEW w \in Worker, Crash(w) PROVE TypeOK'
    <2>1. Nothing \in Memory
      BY DEF Nothing, Memory, Phase
    <2>2. QED
      BY <1>6, <2>1 DEF Crash, TypeOK
  <1>7. CASE Tick
    BY <1>7 DEF Tick, TypeOK
  <1>8. CASE UNCHANGED vars
    BY <1>8 DEF vars, TypeOK
  <1>9. QED
    BY <1>1, <1>2, <1>3, <1>4, <1>5, <1>6, <1>7, <1>8
       DEF Next, WorkerStep, CommandStep, ClaimRootFinalDelivery,
           ClaimFailedRootFinalDeliveryForReconcile

\* Every step keeps the types of RootFinalDelivery.
THEOREM TypeCorrect == Spec => []TypeOK
  BY InitTypeOK, NextTypeOK, PTL DEF Spec
-----------------------------------------------------------------------------
(***************************************************************************)
(* Exclusive fences.  A claim issues a token nobody has seen; the read that *)
(* ends it is the only way to learn a token, and under PromptRead only the *)
(* claimant itself can still be reading while that token is current.       *)
(***************************************************************************)

\* Before the first claim nobody holds the row.
LEMMA InitFence == Init => FenceInv
  BY DEF Init, FenceInv, TokensIssued, ReadingIsLeased, ExclusiveFence, HoldsRow,
         Nothing, NoLease

\* With an owner string of its own, a worker that holds the row is alone.
LEMMA OwnOwnersExclude ==
  ASSUME \A v, w \in Worker : OwnerOf[v] = OwnerOf[w] => v = w
  PROVE  ExclusiveFence /\ ExclusiveFence'
  BY DEF ExclusiveFence, HoldsRow

\* Every step keeps the strengthened fence invariant: only a claim issues a
\* token, and only the read that ends a claim hands one out.
LEMMA NextFence == TypeOK /\ TypeOK' /\ FenceInv /\ [Next]_vars => FenceInv'
  <1> SUFFICES ASSUME TypeOK, TypeOK', FenceInv, [Next]_vars
               PROVE  /\ TokensIssued' /\ ReadingIsLeased'
                      /\ PromptRead => ExclusiveFence'
    BY OwnOwnersExclude DEF FenceInv, FenceSafe
  <1> /\ TokensIssued /\ ReadingIsLeased /\ (PromptRead => ExclusiveFence)
    BY DEF FenceInv, FenceSafe
  <1>0. /\ \A w \in Worker : seen[w].token \in Nat /\ OwnerOf[w] \in Owner
        /\ delivery.lease.token \in Nat
        /\ reading \subseteq Worker
    BY RowColumns, DeliveryAssumption DEF TypeOK, Memory
  <1>1. ASSUME NEW w \in Worker, NEW phases, claimRootFinalDelivery(w, phases)
        PROVE  TokensIssued' /\ ReadingIsLeased' /\ (PromptRead => ExclusiveFence')
    <2>1. /\ delivery'.lease.owner = OwnerOf[w] /\ delivery'.lease.until > now
          /\ delivery'.lease.token = delivery.lease.token + 1
          /\ reading' = reading \cup {w} /\ UNCHANGED <<now, seen>>
      BY <1>1, ClaimEffect DEF claimRootFinalDelivery
    <2>2. \A v \in Worker : seen[v].token < delivery'.lease.token
      BY <1>0, <2>1 DEF TokensIssued
    <2>3. PromptRead => reading = {}
      BY <1>1, RowColumns DEF ReadingIsLeased, claimRootFinalDelivery, LeaseFree, TypeOK
    <2>4. ReadingIsLeased'
      BY <2>1, <2>2, <2>3 DEF ReadingIsLeased
    <2>5. ExclusiveFence'
      BY <1>0, <2>1, <2>2 DEF ExclusiveFence, HoldsRow
    <2>6. QED
      BY <1>0, <2>1, <2>2, <2>4, <2>5 DEF TokensIssued
  <1>2. ASSUME NEW w \in Worker, ReadClaim(w)
        PROVE  TokensIssued' /\ ReadingIsLeased' /\ (PromptRead => ExclusiveFence')
    <2>1. /\ w \in reading /\ reading' = reading \ {w}
          /\ seen'[w].token = delivery.lease.token
          /\ \A v \in Worker \ {w} : seen'[v] = seen[v]
          /\ UNCHANGED <<now, delivery>>
      BY <1>2 DEF ReadClaim, TypeOK
    <2>2. TokensIssued'
      BY <1>0, <2>1 DEF TokensIssued
    <2>3. ReadingIsLeased'
      BY <1>0, <2>1 DEF ReadingIsLeased
    <2>4. ASSUME PromptRead PROVE ExclusiveFence'
      <3>1. \A v \in Worker \ {w} : seen'[v].token < delivery.lease.token
        BY <1>0, <2>1, <2>4 DEF ReadingIsLeased
      <3>2. ASSUME NEW v \in Worker, HoldsRow(v)' PROVE v = w
        BY <1>0, <2>1, <3>1, <3>2 DEF HoldsRow
      <3>3. QED
        BY <3>2 DEF ExclusiveFence
    <2>5. QED
      BY <2>2, <2>3, <2>4
  <1>3. ASSUME NEW w \in Worker, NEW c \in Command, NEW f \in Fingerprint,
               TransitionRootFinalDelivery(w, c, f)
        PROVE  TokensIssued' /\ ReadingIsLeased' /\ (PromptRead => ExclusiveFence')
    <2>1. /\ HoldsRow(w) /\ UNCHANGED <<now, reading>>
          /\ delivery'.phase \in Phase
          /\ delivery'.lease = LeaseAfter(delivery'.phase)
          /\ \/ UNCHANGED <<seen, answers>>
             \/ /\ seen' = [seen EXCEPT ![w].revision = delivery.revision + 1,
                                        ![w].phase = delivery'.phase]
                /\ answers' = [answers EXCEPT ![c] = @ \cup {delivery.revision + 1}]
      BY <1>3, TransitionEffect
    <2>2. \A v \in Worker : seen'[v].token = seen[v].token
      BY <2>1 DEF TypeOK, Memory
    <2>3. PromptRead => reading = {}
      BY <1>0, <2>1 DEF HoldsRow, ReadingIsLeased
    <2>4. /\ delivery'.lease = delivery.lease \/ delivery'.lease.owner = NoOwner
          /\ delivery'.lease.token \in {delivery.lease.token, delivery.lease.token + 1}
      BY <1>0, <2>1, RowColumns, LeaseAfterTransition
    <2>5. TokensIssued'
      BY <1>0, <2>2, <2>4 DEF TokensIssued
    <2>6. ReadingIsLeased'
      BY <2>1, <2>3 DEF ReadingIsLeased
    <2>7. ASSUME PromptRead PROVE ExclusiveFence'
      BY <1>0, <2>2, <2>4, <2>7, LeaseAssumption DEF ExclusiveFence, HoldsRow
    <2>8. QED
      BY <2>5, <2>6, <2>7
  <1>4. ASSUME NEW w \in Worker, NEW c \in Command, NEW f \in Fingerprint,
               ReplayRootFinalCommand(w, c, f)
        PROVE  TokensIssued' /\ ReadingIsLeased' /\ (PromptRead => ExclusiveFence')
    BY <1>4 DEF ReplayRootFinalCommand, TokensIssued, ReadingIsLeased, ExclusiveFence, HoldsRow
  <1>5. ASSUME NEW w \in Worker, GetRootFinalDelivery(w)
        PROVE  TokensIssued' /\ ReadingIsLeased' /\ (PromptRead => ExclusiveFence')
    <2>1. \A v \in Worker : seen'[v].token = seen[v].token
      BY <1>5 DEF GetRootFinalDelivery, TypeOK, Memory
    <2>2. UNCHANGED <<now, delivery, reading>>
      BY <1>5 DEF GetRootFinalDelivery
    <2>3. QED
      BY <1>0, <2>1, <2>2 DEF TokensIssued, ReadingIsLeased, ExclusiveFence, HoldsRow
  <1>6. ASSUME NEW w \in Worker, Crash(w)
        PROVE  TokensIssued' /\ ReadingIsLeased' /\ (PromptRead => ExclusiveFence')
    <2>1. /\ seen'[w].token = 0
          /\ \A v \in Worker \ {w} : seen'[v] = seen[v]
          /\ reading' = reading \ {w} /\ UNCHANGED <<now, delivery>>
      BY <1>6 DEF Crash, Nothing, TypeOK
    <2>2. TokensIssued'
      BY <1>0, <2>1 DEF TokensIssued
    <2>3. ReadingIsLeased'
      BY <1>0, <2>1 DEF ReadingIsLeased
    <2>4. ASSUME PromptRead PROVE ExclusiveFence'
      <3>1. ASSUME NEW v \in Worker, HoldsRow(v)' PROVE HoldsRow(v)
        BY <2>1, <3>1 DEF HoldsRow
      <3>2. QED
        BY <2>4, <3>1 DEF ExclusiveFence
    <2>5. QED
      BY <2>2, <2>3, <2>4
  <1>7. CASE Tick
    <2>1. UNCHANGED <<delivery, seen, reading>> /\ now' = now + 1
          /\ (PromptRead /\ reading # {} => now + 1 < delivery.lease.until)
      BY <1>7 DEF Tick
    <2>2. QED
      BY <1>0, <2>1 DEF TokensIssued, ReadingIsLeased, ExclusiveFence, HoldsRow
  <1>8. CASE UNCHANGED vars
    BY <1>8 DEF vars, TokensIssued, ReadingIsLeased, ExclusiveFence, HoldsRow
  <1>9. QED
    BY <1>1, <1>2, <1>3, <1>4, <1>5, <1>6, <1>7, <1>8
       DEF Next, WorkerStep, CommandStep, ClaimRootFinalDelivery,
           ClaimFailedRootFinalDeliveryForReconcile

\* If every worker has its own owner string, or a claim is always read back
\* before its lease ends, two workers never hold the row at the same time.
THEOREM FencesExclude == ASSUME FenceSafe PROVE Spec => []ExclusiveFence
  <1>1. Spec => []FenceInv
    BY TypeCorrect, InitFence, NextFence, PTL DEF Spec
  <1>2. FenceInv => ExclusiveFence
    BY DEF FenceInv
  <1>3. QED
    BY <1>1, <1>2, PTL

\* Whatever the owner strings and however late a claim reads its row back: a
\* worker gets hold of the row by a step only when the step ends a claim of
\* its own.  One whose lease was taken over or ended stays out, and neither
\* GetRootFinalDelivery nor a transition of somebody else lets it in again.
HeldByClaimOnly ==
  [][\A w \in Worker : HoldsRow(w)' => HoldsRow(w) \/ ReadClaim(w)]_vars

\* Nothing but the end of a claim of its own gives a worker the row: the part
\* of exclusive fences that needs neither prompt reads nor distinct owners.
THEOREM OnlyClaimsGrant == Spec => HeldByClaimOnly
  <1>1. Spec => []TokensIssued
    BY TypeCorrect, InitFence, NextFence, PTL DEF Spec, FenceInv
  <1>2. TypeOK /\ TokensIssued /\ [Next]_vars =>
          \A w \in Worker : HoldsRow(w)' => HoldsRow(w) \/ ReadClaim(w)
    <2> SUFFICES ASSUME TypeOK, TokensIssued, [Next]_vars,
                        NEW w \in Worker, HoldsRow(w)', ~HoldsRow(w)
                 PROVE  ReadClaim(w)
      OBVIOUS
    <2>0. /\ \A v \in Worker : seen[v].token \in Nat /\ OwnerOf[v] \in Owner
          /\ delivery.lease.token \in Nat
      BY RowColumns, DeliveryAssumption DEF TypeOK, Memory
    <2>1. ASSUME NEW v \in Worker, NEW phases, claimRootFinalDelivery(v, phases)
          PROVE  FALSE
      <3>1. delivery'.lease.token = delivery.lease.token + 1 /\ seen' = seen
        BY <2>1, ClaimEffect DEF claimRootFinalDelivery
      <3>2. delivery'.lease.token = seen[w].token
        BY <3>1 DEF HoldsRow
      <3>3. QED
        BY <2>0, <3>1, <3>2 DEF TokensIssued
    <2>2. ASSUME NEW v \in Worker, NEW c \in Command, NEW f \in Fingerprint,
                 TransitionRootFinalDelivery(v, c, f)
          PROVE  FALSE
      <3>1. delivery'.lease = delivery.lease \/ delivery'.lease.owner = NoOwner
        BY <2>2, RowColumns, TransitionEffect, LeaseAfterTransition
      <3>2. seen'[w].token = seen[w].token
        BY <2>2, TransitionEffect DEF TypeOK, Memory
      <3>3. QED
        BY <2>0, <3>1, <3>2, LeaseAssumption DEF HoldsRow
    <2>3. ASSUME NEW v \in Worker, v # w, ReadClaim(v)
          PROVE  FALSE
      BY <2>3 DEF ReadClaim, TypeOK, HoldsRow
    <2>4. ASSUME NEW v \in Worker, GetRootFinalDelivery(v)
          PROVE  FALSE
      BY <2>4 DEF GetRootFinalDelivery, TypeOK, Memory, HoldsRow
    <2>5. ASSUME NEW v \in Worker, Crash(v)
          PROVE  FALSE
      BY <2>5 DEF Crash, Nothing, TypeOK, HoldsRow
    <2>6. CASE UNCHANGED <<delivery, seen>>
      BY <2>6 DEF HoldsRow
    <2>7. QED
      BY <2>1, <2>2, <2>3, <2>4, <2>5, <2>6
         DEF Next, WorkerStep, CommandStep, vars, ClaimRootFinalDelivery,
             ClaimFailedRootFinalDeliveryForReconcile, Tick, ReplayRootFinalCommand
  <1>3. QED
    BY <1>1, <1>2, TypeCorrect, PTL DEF Spec, HeldByClaimOnly
-----------------------------------------------------------------------------
(***************************************************************************)
(* Phases.                                                                 *)
(***************************************************************************)

\* The phase of the row changes only by a first transition.
LEMMA PhaseMoves ==
  ASSUME TypeOK, [Next]_vars, delivery' # delivery
  PROVE  \/ \E w \in Worker : ClaimRootFinalDelivery(w)
         \/ \E w \in Worker : ClaimFailedRootFinalDeliveryForReconcile(w)
         \/ \E w \in Worker, c \in Command, f \in Fingerprint :
              TransitionRootFinalDelivery(w, c, f)
  BY DEF Next, WorkerStep, CommandStep, vars, Tick, ReadClaim, GetRootFinalDelivery,
         Crash, ReplayRootFinalCommand

\* No step touches a published row.
THEOREM PublishedStays == Spec => PublishedIsFinal
  <1>1. TypeOK /\ [Next]_vars => (delivery.phase = "published" => delivery' = delivery)
    <2> SUFFICES ASSUME TypeOK, [Next]_vars, delivery' # delivery
                 PROVE  delivery.phase # "published"
      OBVIOUS
    <2>1. ASSUME NEW w \in Worker, NEW phases, "published" \notin phases,
                 claimRootFinalDelivery(w, phases)
          PROVE  delivery.phase # "published"
      BY <2>1 DEF claimRootFinalDelivery
    <2>2. ASSUME NEW w \in Worker, NEW c \in Command, NEW f \in Fingerprint,
                 TransitionRootFinalDelivery(w, c, f)
          PROVE  delivery.phase # "published"
      BY <2>2, TransitionEffect DEF allowedRootFinalTransition
    <2>3. QED
      BY <2>1, <2>2, PhaseMoves DEF ClaimRootFinalDelivery,
         ClaimFailedRootFinalDeliveryForReconcile
  <1>2. QED
    BY <1>1, TypeCorrect, PTL DEF Spec, PublishedIsFinal

\* A leased failed row was leased by the reconcile claim.
LEMMA FailedLease == Spec => []FailedLeaseInv
  <1>1. Init => FailedLeaseInv
    BY DEF Init, FailedLeaseInv
  <1>2. TypeOK /\ FailedLeaseInv /\ [Next]_vars => FailedLeaseInv'
    <2> SUFFICES ASSUME TypeOK, FailedLeaseInv, [Next]_vars PROVE FailedLeaseInv'
      OBVIOUS
    <2>1. ASSUME NEW w \in Worker, NEW phases, claimRootFinalDelivery(w, phases)
          PROVE  FailedLeaseInv'
      <3>1. delivery'.phase = delivery.phase
        BY <2>1, ClaimEffect
      <3>2. QED
        BY <2>1, <3>1 DEF claimRootFinalDelivery, FailedLeaseInv
    <2>2. ASSUME NEW w \in Worker, NEW c \in Command, NEW f \in Fingerprint,
                 TransitionRootFinalDelivery(w, c, f)
          PROVE  FailedLeaseInv'
      BY <2>2, TransitionEffect, RowColumns, LeaseAfterTransition DEF FailedLeaseInv
    <2>3. CASE UNCHANGED <<delivery, claimedIn>>
      BY <2>3 DEF FailedLeaseInv
    <2>4. QED
      BY <2>1, <2>2, <2>3
         DEF Next, WorkerStep, CommandStep, vars, ClaimRootFinalDelivery,
             ClaimFailedRootFinalDeliveryForReconcile, Tick, ReadClaim,
             GetRootFinalDelivery, Crash, ReplayRootFinalCommand
  <1>3. QED
    BY <1>1, <1>2, TypeCorrect, PTL DEF Spec

\* Only a lease of the reconcile claim moves a failed row.
THEOREM FailedStays == Spec => FailedWaitsForReconcile
  <1>1. TypeOK /\ FailedLeaseInv /\ [Next]_vars =>
          (delivery.phase = "failed" /\ delivery'.phase # "failed" => claimedIn = "failed")
    <2> SUFFICES ASSUME TypeOK, FailedLeaseInv, [Next]_vars,
                        delivery.phase = "failed", delivery'.phase # "failed"
                 PROVE  claimedIn = "failed"
      OBVIOUS
    <2>1. ASSUME NEW w \in Worker, NEW phases, claimRootFinalDelivery(w, phases)
          PROVE  FALSE
      BY <2>1, ClaimEffect
    <2>2. PICK w \in Worker, c \in Command, f \in Fingerprint :
            TransitionRootFinalDelivery(w, c, f)
      BY <2>1, PhaseMoves DEF ClaimRootFinalDelivery,
         ClaimFailedRootFinalDeliveryForReconcile
    <2>3. delivery.lease.owner = OwnerOf[w]
      BY <2>2, TransitionEffect DEF HoldsRow
    <2>4. QED
      BY <2>3, DeliveryAssumption, LeaseAssumption DEF FailedLeaseInv
  <1>2. QED
    BY <1>1, TypeCorrect, FailedLease, PTL DEF Spec, FailedWaitsForReconcile

\* A row that says "journaled" or "published" names its journal records.
THEOREM JournalRange == Spec => []JournaledHasRange
  <1>1. Init => JournaledHasRange
    BY DEF Init, JournaledHasRange
  <1>2. TypeOK /\ JournaledHasRange /\ [Next]_vars => JournaledHasRange'
    <2> SUFFICES ASSUME TypeOK, JournaledHasRange, [Next]_vars, delivery' # delivery
                 PROVE  JournaledHasRange'
      BY DEF JournaledHasRange
    <2>1. ASSUME NEW w \in Worker, NEW phases, claimRootFinalDelivery(w, phases)
          PROVE  JournaledHasRange'
      BY <2>1, ClaimEffect DEF JournaledHasRange
    <2>2. ASSUME NEW w \in Worker, NEW c \in Command, NEW f \in Fingerprint,
                 TransitionRootFinalDelivery(w, c, f)
          PROVE  JournaledHasRange'
      BY <2>2, TransitionEffect DEF JournaledHasRange, allowedRootFinalTransition
    <2>3. QED
      BY <2>1, <2>2, PhaseMoves DEF ClaimRootFinalDelivery,
         ClaimFailedRootFinalDeliveryForReconcile
  <1>3. QED
    BY <1>1, <1>2, TypeCorrect, PTL DEF Spec

-----------------------------------------------------------------------------
(***************************************************************************)
(* Commands.                                                               *)
(***************************************************************************)

\* A step records one command together with the revision it made, or neither
\* a result nor the revision changes.
LEMMA RecordOrNot ==
  ASSUME TypeOK, [Next]_vars
  PROVE  \/ \E c \in Command, f \in Fingerprint :
              /\ result[c] = NoResult
              /\ result' = [result EXCEPT ![c] = [fingerprint |-> f, revision |-> delivery.revision + 1]]
              /\ delivery'.revision = delivery.revision + 1
              /\ answers' \in {answers, [answers EXCEPT ![c] = @ \cup {delivery.revision + 1}]}
         \/ /\ UNCHANGED result /\ delivery'.revision = delivery.revision
            /\ \/ UNCHANGED answers
               \/ \E c \in Recorded : answers' = [answers EXCEPT ![c] = @ \cup {result[c].revision}]
  <1>1. ASSUME NEW w \in Worker, NEW phases, claimRootFinalDelivery(w, phases)
        PROVE  UNCHANGED <<result, answers>> /\ delivery'.revision = delivery.revision
    BY <1>1, ClaimEffect DEF claimRootFinalDelivery
  <1>2. ASSUME NEW w \in Worker, NEW c \in Command, NEW f \in Fingerprint,
               TransitionRootFinalDelivery(w, c, f)
        PROVE  /\ result[c] = NoResult
               /\ result' = [result EXCEPT ![c] = [fingerprint |-> f, revision |-> delivery.revision + 1]]
               /\ delivery'.revision = delivery.revision + 1
               /\ answers' \in {answers, [answers EXCEPT ![c] = @ \cup {delivery.revision + 1}]}
    <2>1. \/ UNCHANGED <<seen, answers>>
          \/ answers' = [answers EXCEPT ![c] = @ \cup {delivery.revision + 1}]
      BY <1>2, TransitionEffect
    <2>2. /\ result[c] = NoResult
          /\ result' = [result EXCEPT ![c] = [fingerprint |-> f, revision |-> delivery.revision + 1]]
      BY <1>2 DEF TransitionRootFinalDelivery
    <2>3. delivery'.revision = delivery.revision + 1
      BY <1>2, TransitionEffect
    <2>4. QED
      BY <2>1, <2>2, <2>3
  <1>3. ASSUME NEW w \in Worker, NEW c \in Command, NEW f \in Fingerprint,
               ReplayRootFinalCommand(w, c, f)
        PROVE  /\ UNCHANGED result /\ delivery' = delivery /\ c \in Recorded
               /\ answers' = [answers EXCEPT ![c] = @ \cup {result[c].revision}]
    BY <1>3 DEF ReplayRootFinalCommand, ReplayedRevision, Recorded
  <1>4. ASSUME \/ Tick \/ UNCHANGED vars
               \/ \E w \in Worker : ReadClaim(w) \/ GetRootFinalDelivery(w) \/ Crash(w)
        PROVE  UNCHANGED <<delivery, result, answers>>
    BY <1>4 DEF vars, Tick, ReadClaim, GetRootFinalDelivery, Crash
  <1>5. CASE \E w \in Worker : \/ ClaimRootFinalDelivery(w)
                               \/ ClaimFailedRootFinalDeliveryForReconcile(w)
    BY <1>1, <1>5 DEF ClaimRootFinalDelivery, ClaimFailedRootFinalDeliveryForReconcile
  <1>6. CASE \E w \in Worker, c \in Command, f \in Fingerprint :
               TransitionRootFinalDelivery(w, c, f)
    BY <1>2, <1>6
  <1>7. CASE \E w \in Worker, c \in Command, f \in Fingerprint :
               ReplayRootFinalCommand(w, c, f)
    BY <1>3, <1>7
  <1>8. QED
    BY <1>4, <1>5, <1>6, <1>7 DEF Next, WorkerStep, CommandStep

\* Every answer a command gets, first or replayed, is the same revision.
THEOREM AnswersAgree == Spec => []OneAnswerPerCommand
  <1>1. Init => OneAnswerPerCommand
    BY DEF Init, OneAnswerPerCommand, Recorded
  <1>2. TypeOK /\ OneAnswerPerCommand /\ [Next]_vars => OneAnswerPerCommand'
    <2> SUFFICES ASSUME TypeOK, OneAnswerPerCommand, [Next]_vars
                 PROVE  OneAnswerPerCommand'
      OBVIOUS
    <2>1. ASSUME NEW c \in Command, NEW f \in Fingerprint, result[c] = NoResult,
                 result' = [result EXCEPT ![c] = [fingerprint |-> f, revision |-> delivery.revision + 1]],
                 answers' \in {answers, [answers EXCEPT ![c] = @ \cup {delivery.revision + 1}]}
          PROVE  OneAnswerPerCommand'
      <3>1. answers[c] = {}
        BY <2>1 DEF OneAnswerPerCommand, Recorded
      <3>2. result'[c].revision = delivery.revision + 1 /\ result'[c] # NoResult
        BY <2>1, RowColumns DEF TypeOK, NoResult
      <3>3. answers'[c] \subseteq {delivery.revision + 1}
        BY <2>1, <3>1 DEF TypeOK
      <3>4. \A d \in Command \ {c} : result'[d] = result[d] /\ answers'[d] = answers[d]
        BY <2>1 DEF TypeOK
      <3>5. QED
        BY <3>2, <3>3, <3>4 DEF OneAnswerPerCommand, Recorded
    <2>2. ASSUME UNCHANGED result, NEW c \in Recorded,
                 answers' = [answers EXCEPT ![c] = @ \cup {result[c].revision}]
          PROVE  OneAnswerPerCommand'
      BY <2>2 DEF OneAnswerPerCommand, Recorded, TypeOK
    <2>3. CASE UNCHANGED <<result, answers>>
      BY <2>3 DEF OneAnswerPerCommand, Recorded
    <2>4. QED
      BY <2>1, <2>2, <2>3, RecordOrNot
  <1>3. QED
    BY <1>1, <1>2, TypeCorrect, PTL DEF Spec

\* The revision is one more than the number of recorded commands: each
\* revision after the first was made by exactly one of them.
THEOREM RevisionsAreCommands == Spec => []RevisionCountsCommands
  <1>1. Init => RevisionCountsCommands
    BY DEF Init, RevisionCountsCommands, Recorded
  <1>2. TypeOK /\ RevisionCountsCommands /\ [Next]_vars => RevisionCountsCommands'
    <2> SUFFICES ASSUME TypeOK, RevisionCountsCommands, [Next]_vars
                 PROVE  RevisionCountsCommands'
      OBVIOUS
    <2>0. delivery.revision \in Nat \ {0}
      BY RowColumns
    <2>1. ASSUME NEW c \in Command, NEW f \in Fingerprint, result[c] = NoResult,
                 result' = [result EXCEPT ![c] = [fingerprint |-> f, revision |-> delivery.revision + 1]],
                 delivery'.revision = delivery.revision + 1
          PROVE  RevisionCountsCommands'
      <3>1. /\ result'[c].revision = delivery.revision + 1 /\ result'[c] # NoResult
            /\ \A d \in Command \ {c} : result'[d] = result[d]
        BY <2>0, <2>1 DEF TypeOK, NoResult
      <3>2. Recorded' = Recorded \cup {c} /\ c \notin Recorded
        BY <2>1, <3>1 DEF Recorded
      <3>3. \A d \in Recorded : /\ result'[d].revision = result[d].revision
                                /\ result[d].revision \in 2 .. delivery.revision
        BY <3>1, <3>2 DEF RevisionCountsCommands, Recorded
      <3>4. \A d \in Recorded' : result'[d].revision \in 2 .. delivery'.revision
        BY <2>0, <2>1, <3>1, <3>2, <3>3
      <3>5. \A d, e \in Recorded' : result'[d].revision = result'[e].revision => d = e
        BY <2>0, <3>1, <3>2, <3>3 DEF RevisionCountsCommands
      <3>6. ASSUME NEW r \in 2 .. delivery'.revision
            PROVE  \E d \in Recorded' : result'[d].revision = r
        <4>1. CASE r = delivery.revision + 1
          BY <3>1, <3>2, <4>1
        <4>2. CASE r \in 2 .. delivery.revision
          BY <3>2, <3>3, <4>2 DEF RevisionCountsCommands
        <4>3. QED
          BY <2>0, <2>1, <3>6, <4>1, <4>2
      <3>7. QED
        BY <3>4, <3>5, <3>6 DEF RevisionCountsCommands
    <2>2. CASE UNCHANGED result /\ delivery'.revision = delivery.revision
      BY <2>2 DEF RevisionCountsCommands, Recorded
    <2>3. QED
      BY <2>1, <2>2, RecordOrNot
  <1>3. QED
    BY <1>1, <1>2, TypeCorrect, PTL DEF Spec
-----------------------------------------------------------------------------
(***************************************************************************)
(* Refinement: forgetting clocks, commands and stale callers, the row is a *)
(* fenced row.                                                             *)
(***************************************************************************)

\* The detailed row implements the abstract one.
THEOREM RefinesFencedRow == Spec => ImplementsFencedRow
  <1>1. Init => Row!RowInit
    BY DEF Init, Row!RowInit, NoLease
  <1>2. TypeOK /\ [Next]_vars => [Row!RowNext]_(Row!rowVars)
    <2> SUFFICES ASSUME TypeOK, [Next]_vars, delivery' # delivery
                 PROVE  Row!RowNext
      BY DEF Row!rowVars
    <2>1. ASSUME NEW w \in Worker, NEW phases, claimRootFinalDelivery(w, phases),
                 phases \subseteq Phase \ {"published"}
          PROVE  Row!Claim
      <3>1. OwnerOf[w] \in Owner
        BY DeliveryAssumption
      <3>2. delivery.phase \in Phase \ {"published"}
        BY <2>1 DEF claimRootFinalDelivery
      <3>3. QED
        BY <2>1, <3>1, <3>2, ClaimEffect DEF Row!Claim
    <2>2. ASSUME NEW w \in Worker, NEW c \in Command, NEW f \in Fingerprint,
                 TransitionRootFinalDelivery(w, c, f)
          PROVE  Row!Advance
      <3>0. HoldsRow(w)
        BY <2>2, TransitionEffect
      <3>1. delivery.lease.owner # NoOwner
        BY <3>0, DeliveryAssumption, LeaseAssumption DEF HoldsRow
      <3>2. /\ delivery.phase \in Phase /\ delivery'.phase \in Phase
            /\ allowedRootFinalTransition(delivery.phase, delivery'.phase)
            /\ delivery'.lease = LeaseAfter(delivery'.phase)
        BY <2>2, TransitionEffect, RowColumns
      <3>3. <<delivery.phase, delivery'.phase>> \in
              {e \in Phase \X Phase : allowedRootFinalTransition(e[1], e[2])}
        BY <3>2
      <3>4. \/ delivery'.lease = delivery.lease
            \/ /\ delivery'.lease.owner = NoOwner
               /\ delivery'.lease.token \in {delivery.lease.token, delivery.lease.token + 1}
        BY <3>2, RowColumns, LeaseAfterTransition
      <3>5. QED
        BY <3>1, <3>3, <3>4 DEF Row!Advance
    <2>3. QED
      BY <2>1, <2>2, PhaseMoves DEF ClaimRootFinalDelivery,
         ClaimFailedRootFinalDeliveryForReconcile, Phase, Row!RowNext
  <1>3. QED
    BY <1>1, <1>2, TypeCorrect, PTL DEF Spec, ImplementsFencedRow, Row!RowSpec
=============================================================================
