--------------------------- MODULE SessionScopes ---------------------------
(***************************************************************************)
(* What the Workflow ledger promises about the scopes of one session: one  *)
(* scope is open at a time, it may be closed or replaced by a fresh one,   *)
(* and a closed scope is never opened again.                               *)
(***************************************************************************)
CONSTANTS Scope, NoScope

VARIABLES open,    \* the scope new messages of the session belong to
          used     \* every scope that was ever opened

scopeVars == <<open, used>>

ScopesInit == open = NoScope /\ used = {}

Open(s) ==
  /\ open = NoScope
  /\ s \notin used
  /\ open' = s
  /\ used' = used \cup {s}

Close ==
  /\ open # NoScope
  /\ open' = NoScope
  /\ UNCHANGED used

Replace(s) ==
  /\ open # NoScope
  /\ s \notin used
  /\ open' = s
  /\ used' = used \cup {s}

ScopesNext == Close \/ \E s \in Scope : Open(s) \/ Replace(s)

ScopesSpec == ScopesInit /\ [][ScopesNext]_scopeVars
=============================================================================
