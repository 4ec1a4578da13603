------------------------ MODULE CredentialProtection ------------------------
(***************************************************************************)
(* What credential rotation promises, whatever the steps it takes: only a  *)
(* protected credential comes into use, a credential in use stays          *)
(* protected, and only an unprotected one is revoked.                      *)
(***************************************************************************)
CONSTANT Credential

VARIABLES
  inUse,      \* credentials that running pods hold
  protected,  \* credentials that their owner must not revoke
  revoked     \* credentials that are revoked, for ever

vars == <<inUse, protected, revoked>>

Init ==
  /\ inUse = {} /\ revoked = {}
  /\ protected \subseteq Credential

\* Pods start, restart and stop.
Use ==
  /\ inUse' \subseteq protected
  /\ UNCHANGED <<protected, revoked>>

\* Credentials are issued, taken up and released.
Protect ==
  /\ inUse \subseteq protected'
  /\ protected' \subseteq Credential \ revoked
  /\ UNCHANGED <<inUse, revoked>>

Revoke ==
  /\ \E k \in Credential \ (protected \cup revoked) : revoked' = revoked \cup {k}
  /\ UNCHANGED <<inUse, protected>>

Next == Use \/ Protect \/ Revoke

Spec == Init /\ [][Next]_vars
=============================================================================
