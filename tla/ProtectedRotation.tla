-------------------------- MODULE ProtectedRotation --------------------------
(***************************************************************************)
(* Credential rotation as an implementation of CredentialProtection.  A    *)
(* credential is protected by the consumer finalizer, or because its owner *)
(* still issues it; the pods of a NeutronAPI that is being deleted no      *)
(* longer count.                                                           *)
(***************************************************************************)
EXTENDS CredentialRotation

UsedKeys ==
  IF crPhase \in {"new", "active"} THEN {k \in InUse : k[2] # None} ELSE {}

Issued == {<<s, src[s]>> : s \in {t \in Slot : src[t] # None}}

Protection == INSTANCE CredentialProtection WITH
  Credential <- Key, inUse <- UsedKeys, protected <- fin \cup Issued, revoked <- revoked

\* Every step of the controller, of the pods and of the credentials' owners
\* is a step that CredentialProtection allows: the finalizers are added
\* before a credential can come into use and taken off only when nothing
\* uses it (ManageSecretConsumerFinalizer, FinalizeSecretRotation and
\* PruneSecretConsumerFinalizers as reconcileNormal orders them).
ImplementsProtection == Protection!Spec
=============================================================================
