----------------------------- MODULE FencedRow -----------------------------
(***************************************************************************)
(* What a leased row of the ledger promises, without clocks, retries,      *)
(* stale callers or command records: a status that only moves along Edge   *)
(* and only while somebody holds the row, and a generation counter that a  *)
(* new holder always starts by advancing.                                  *)
(***************************************************************************)
EXTENDS Naturals

CONSTANTS Owner, NoOwner,
          Initial,       \* the status of a new row
          Claimed,       \* [claimable statuses -> status the claim leaves]
          Edge,          \* the moves a holder may make
          Withdrawn      \* [statuses that may be withdrawn -> final status]

VARIABLES status, generation, holder

rowVars == <<status, generation, holder>>

RowInit == status = Initial /\ generation = 0 /\ holder = NoOwner

\* Somebody becomes the holder, in a generation of its own.
Claim == \E o \in Owner :
  /\ status \in DOMAIN Claimed
  /\ status' = Claimed[status]
  /\ holder' = o
  /\ generation' = generation + 1

\* The holder moves the row, and keeps it or gives it up.
Advance ==
  /\ holder # NoOwner
  /\ <<status, status'>> \in Edge
  /\ \/ UNCHANGED <<holder, generation>>
     \/ holder' = NoOwner /\ generation' \in {generation, generation + 1}

\* The row is taken out of circulation, whoever holds it.
Withdraw ==
  /\ status \in DOMAIN Withdrawn
  /\ status' = Withdrawn[status]
  /\ holder' = NoOwner
  /\ generation' = generation + 1

RowNext == Claim \/ Advance \/ Withdraw

RowSpec == RowInit /\ [][RowNext]_rowVars
=============================================================================
