------------------------------- MODULE Lease -------------------------------
(***************************************************************************)
(* The lease columns every row of the Agent execution ledger carries       *)
(* (lease_owner, lease_until, lease_token) and what the SQL updates of     *)
(* repository/agent_execution_repo.go do to them.                          *)
(*                                                                         *)
(* A NULL lease_until is 0: the ledger only asks "IS NULL OR <= now" when  *)
(* it claims and "non-NULL and > at" when it checks, and both questions    *)
(* have the same answer for 0, since clocks here start at 0.               *)
(***************************************************************************)
EXTENDS Naturals

CONSTANTS Owner,     \* the lease owner strings callers pass
          NoOwner    \* lease_owner IS NULL

ASSUME LeaseAssumption == NoOwner \notin Owner

LeaseColumns == [owner : Owner \cup {NoOwner}, until : Nat, token : Nat]

\* A freshly created row: no owner, no expiry, token 0.
NoLease == [owner |-> NoOwner, until |-> 0, token |-> 0]

\* WHERE lease_until IS NULL OR lease_until <= now
LeaseFree(lease, now) == lease.until <= now

\* Fault: an owner that claims its own lapsed lease again keeps its token.
RenewedLease(lease, owner, until) ==
  [owner |-> owner, until |-> until,
   token |-> IF lease.owner = owner THEN lease.token ELSE lease.token + 1]

\* SET lease_owner = owner, lease_until = until, lease_token = lease_token + 1
Leased(lease, owner, until) ==
  [owner |-> owner, until |-> until, token |-> lease.token + 1]

\* SET lease_owner = NULL, lease_until = NULL (the token is retained)
Released(lease) == [lease EXCEPT !.owner = NoOwner, !.until = 0]

\* Fault: lease_owner is not cleared.
RevokedKeepingOwner(lease) == [lease EXCEPT !.until = 0, !.token = @ + 1]

\* SET lease_owner = NULL, lease_until = NULL, lease_token = lease_token + 1
Revoked(lease) == [owner |-> NoOwner, until |-> 0, token |-> lease.token + 1]

\* WHERE lease_owner = owner AND lease_token = token AND lease_until > at
LeaseHeld(lease, owner, token, at) ==
  /\ lease.owner = owner
  /\ lease.token = token
  /\ lease.until > at
=============================================================================
