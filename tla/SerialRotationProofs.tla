------------------------ MODULE SerialRotationProofs ------------------------
(***************************************************************************)
(* SerialInv is inductive when rotations are serial: the steps that        *)
(* neither change a credential nor take one out of use, the deletion of    *)
(* the NeutronAPI and the environment.  CredentialRotationProofs has the   *)
(* steps of a reconcile that handle credentials.  The theorems follow.     *)
(***************************************************************************)
EXTENDS CredentialRotationProofs, ProtectedRotation

USE DEF NormalPC, DeletePC, AfterDeploy, AfterManageAC, AfterHash, AfterConfig,
        AfterManageNotifications, AfterManageTransport, Slot, TransportSlot,
        envVars, crVars, podVars, memVars, Known

-----------------------------------------------------------------------------
(* The steps that change no credential, and the deletion. *)

\* The steps that take no argument.
Quiet ==
  \/ AddFinalizer \/ NotificationsDisabled \/ ValidateTLS \/ CreateHashOfInputHashes
  \/ ManageSecretConsumerFinalizer("transport", "manageTransport", "notifications")
  \/ ManageSecretConsumerFinalizer("notifications", "manageNotifications", "config")
  \/ ManageACFinalizer
  \/ \E d \in Deployments : PatchDeployment(d) \/ CheckDeployment(d)
  \/ PruneTransport \/ ReturnBlocked \/ Bail \/ Crash
  \/ \E d \in Deployments : StartPod(d) \/ \E p \in pods[d] : StopPod(d, p)
  \/ \E s \in Slot, x \in Secret : Revoke(s, x)
  \/ DeleteCR \/ UNCHANGED vars

\* They spread no value but the one of the reconcile: the configuration into
\* hash and pods, the hash into templates, the reconcile's status and hash
\* into the persisted ones.
Spreads ==
  /\ UNCHANGED <<src, busOn, base, config>>
  /\ status' = status \/ (pc # "idle" /\ status' = st)
  /\ inputHash' = inputHash \/ (pc # "idle" /\ inputHash' = hash)
  /\ \A d \in Deployments :
       /\ depl'[d] = depl[d] \/ (pc # "idle" /\ depl'[d] = hash)
       /\ \A p \in pods'[d] :
            p \in pods[d] \/ (depl[d] # Absent /\ p.template = depl[d] /\ p.uses = config)
  /\ pc' # "idle" => pc # "idle" /\ st' = st /\ hash' \in {hash, config}
  /\ pc' \in NormalPC => pc \in NormalPC /\ \A s \in Slot : Will(s)' = Will(s)

\* They release nothing that is tracked or configured, and revoke nothing
\* that is protected.
Keeps ==
  /\ Live' => Live
  /\ revoked' \cap fin \subseteq revoked
  /\ \A k \in fin \ fin' : pc # "idle" /\ k[2] \notin {st[k[1]], config[k[1]]}

\* They do not settle anything but at the end of a reconcile whose guard held.
Ended == GuardReady /\ st = Wanted /\ pc' = "idle" /\ fin' = fin /\ inputHash' = hash
Settles == Settled' => Settled \/ Ended

\* Together these hold of every step but the ones treated on their own below.
LEMMA QuietFrame == ASSUME Known, Quiet PROVE Spreads /\ Keeps /\ Settles
<1>1. UNCHANGED <<src, busOn>> => Wanted' = Wanted
  BY DEF Wanted
<1> DEFINE Frame == Spreads /\ Keeps /\ Settles
<1> USE DEF Goto, Spreads, Keeps, Settles, Ended, Settled, Will, Unread, Live
<1>2. ASSUME AddFinalizer PROVE Frame BY <1>1, <1>2 DEF AddFinalizer
<1>3. ASSUME NotificationsDisabled PROVE Frame BY <1>1, <1>3 DEF NotificationsDisabled
<1>4. ASSUME ValidateTLS PROVE Frame BY <1>1, <1>4 DEF ValidateTLS
<1>5. ASSUME CreateHashOfInputHashes PROVE Frame BY <1>1, <1>5 DEF CreateHashOfInputHashes, SerialInv, PassInv
<1>6. ASSUME ManageSecretConsumerFinalizer("transport", "manageTransport", "notifications") PROVE Frame
  BY <1>1, <1>6 DEF ManageSecretConsumerFinalizer
<1>7. ASSUME ManageSecretConsumerFinalizer("notifications", "manageNotifications", "config") PROVE Frame
  BY <1>1, <1>7 DEF ManageSecretConsumerFinalizer
<1>8. ASSUME ManageACFinalizer PROVE Frame BY <1>1, <1>8 DEF ManageACFinalizer, ManageSecretConsumerFinalizer
<1>9. ASSUME NEW d \in Deployments, PatchDeployment(d) PROVE Frame
  BY <1>1, <1>9 DEF PatchDeployment, TypeOK
<1>10. ASSUME NEW d \in Deployments, CheckDeployment(d) PROVE Frame
  BY <1>1, <1>10 DEF CheckDeployment
<1>11. ASSUME PruneTransport PROVE Frame
  <2>1. ASSUME NEW k \in fin \ fin' PROVE k[2] \notin {st[k[1]], config[k[1]]}
    <3>1. config = cur
      BY <1>11 DEF PruneTransport, SerialInv, PassInv
    <3>2. k = <<k[1], k[2]>>
      BY DEF TypeOK, Key
    <3>3. k[1] \in TransportSlot /\ k \notin Kept(TransportSlot)
      BY <1>11 DEF PruneTransport, Prune
    <3> HIDE DEF TransportSlot
    <3> QED BY ONLY <3>1, <3>2, <3>3 DEF Kept
  <2> QED BY <1>1, <1>11, <2>1 DEF PruneTransport
<1>12. ASSUME ReturnBlocked PROVE Frame BY <1>1, <1>12 DEF ReturnBlocked, Blocked, Return, Forget
<1>13. ASSUME Bail PROVE Frame
  <2>1. PICK isReady \in {FALSE, GuardReady} : Return(isReady)
    BY <1>13 DEF Bail
  <2>2. UNCHANGED <<envVars, fin, config, podVars>> /\ pc # "idle"
    BY <1>13 DEF Bail
  <2>3. Settles
    BY <1>1, <2>1, <2>2 DEF Return, Forget, Settled
  <2> QED BY <2>1, <2>2, <2>3 DEF Return, Forget
<1>14. ASSUME Crash PROVE Frame BY <1>1, <1>14 DEF Crash, Forget
<1>15. ASSUME NEW d \in Deployments, StartPod(d) PROVE Frame
  BY <1>1, <1>15 DEF StartPod, TypeOK
<1>16. ASSUME NEW d \in Deployments, NEW p \in pods[d], StopPod(d, p) PROVE Frame
  BY <1>1, <1>16 DEF StopPod, TypeOK
<1>17. ASSUME NEW s \in Slot, NEW x \in Secret, Revoke(s, x) PROVE Frame
  BY <1>1, <1>17 DEF Revoke
<1>18. ASSUME DeleteCR PROVE Frame BY <1>1, <1>18 DEF DeleteCR
<1>19. ASSUME UNCHANGED vars PROVE Frame BY <1>1, <1>19 DEF vars
<1> HIDE DEF Known, Spreads, Keeps, Settles
<1> QED
  BY <1>2, <1>3, <1>4, <1>5, <1>6, <1>7, <1>8, <1>9, <1>10, <1>11, <1>12, <1>13, <1>14,
     <1>15, <1>16, <1>17, <1>18, <1>19 DEF Quiet

\* They keep the books of the reconcile.
LEMMA QuietPass == ASSUME Known, Quiet PROVE BooksInv'
<1>1. UNCHANGED <<src, busOn>> => Wanted' = Wanted
  BY DEF Wanted
<1> USE DEF SerialInv, Goto, BooksInv, PassInv, ManagedInv, FinalizedInv, BusInv, NamedInv, GuardReady, Unread, Live
<1>2. CASE AddFinalizer BY <1>1, <1>2 DEF AddFinalizer
<1>3. CASE NotificationsDisabled BY <1>1, <1>3 DEF NotificationsDisabled
<1>4. CASE ValidateTLS BY <1>1, <1>4 DEF ValidateTLS
<1>5. CASE CreateHashOfInputHashes BY <1>1, <1>5 DEF CreateHashOfInputHashes
<1>6. CASE ManageSecretConsumerFinalizer("transport", "manageTransport", "notifications")
  BY <1>1, <1>6 DEF ManageSecretConsumerFinalizer
<1>7. CASE ManageSecretConsumerFinalizer("notifications", "manageNotifications", "config")
  BY <1>1, <1>7 DEF ManageSecretConsumerFinalizer
<1>8. CASE ManageACFinalizer BY <1>1, <1>8 DEF ManageACFinalizer, ManageSecretConsumerFinalizer
<1>9. ASSUME NEW d \in Deployments, PatchDeployment(d) PROVE BooksInv'
  BY <1>1, <1>9 DEF PatchDeployment, TypeOK
<1>10. ASSUME NEW d \in Deployments, CheckDeployment(d) PROVE BooksInv'
  BY <1>1, <1>10 DEF CheckDeployment, RolledOut
<1>11. CASE PruneTransport BY <1>1, <1>11 DEF PruneTransport, Prune, Kept
<1>12. CASE ReturnBlocked BY <1>1, <1>12 DEF ReturnBlocked, Blocked, Return, Forget
<1>13. CASE Bail BY <1>1, <1>13 DEF Bail, Return, Forget
<1>14. CASE Crash BY <1>1, <1>14 DEF Crash, Forget
<1> HIDE DEF NormalPC, AfterDeploy, AfterManageAC, AfterHash, AfterConfig,
             AfterManageNotifications, AfterManageTransport, Slot
<1> HIDE DEF PassInv, ManagedInv, FinalizedInv, BusInv, NamedInv
<1>15. ASSUME NEW d \in Deployments, StartPod(d) PROVE BooksInv'
  <2>1. UNCHANGED <<envVars, crVars, fin, config, depl, pc, memVars>>
    BY <1>15 DEF StartPod
  <2>2. PassInv'
    BY <1>15, <2>1 DEF StartPod, PassInv
  <2>3. ManagedInv' /\ FinalizedInv'
    BY <2>1 DEF ManagedInv, FinalizedInv
  <2>4. BusInv' /\ NamedInv'
    BY <2>1 DEF BusInv, NamedInv
  <2> QED BY <2>2, <2>3, <2>4
<1>16. ASSUME NEW d \in Deployments, NEW p \in pods[d], StopPod(d, p) PROVE BooksInv'
  <2>1. /\ UNCHANGED <<envVars, crVars, fin, config, depl, pc, memVars>>
        /\ \A e \in Deployments : pods'[e] \subseteq pods[e]
    BY <1>16 DEF StopPod, TypeOK
  <2>2. rolled \subseteq Deployments
    BY DEF TypeOK
  <2>3. PassInv'
    BY <2>1, <2>2 DEF PassInv
  <2>4. ManagedInv' /\ FinalizedInv'
    BY <2>1 DEF ManagedInv, FinalizedInv
  <2>5. BusInv' /\ NamedInv'
    BY <2>1 DEF BusInv, NamedInv
  <2> QED BY <2>3, <2>4, <2>5
<1>17. ASSUME NEW s \in Slot, NEW x \in Secret, Revoke(s, x) PROVE BooksInv'
  <2>a. PassInv'
    BY <1>17 DEF Revoke, PassInv
  <2>b. ManagedInv' /\ FinalizedInv'
    BY <1>17 DEF Revoke, ManagedInv, FinalizedInv
  <2>c. BusInv'
    BY <1>17 DEF Revoke, BusInv
  <2>1. PassInv' /\ ManagedInv' /\ FinalizedInv' /\ BusInv'
    BY <2>a, <2>b, <2>c
  <2>2. NamedInv'
    BY <1>17 DEF Revoke, NamedInv, TypeOK
  <2> QED BY <2>1, <2>2
<1>18. CASE DeleteCR
  BY <1>18 DEF DeleteCR, PassInv, ManagedInv, FinalizedInv, BusInv, NamedInv
<1>19. CASE UNCHANGED vars
  BY <1>19 DEF vars, PassInv, ManagedInv, FinalizedInv, BusInv, NamedInv
<1> HIDE DEF Known, BooksInv, GuardReady, Unread, Live
<1> QED
  BY <1>2, <1>3, <1>4, <1>5, <1>6, <1>7, <1>8, <1>9, <1>10, <1>11, <1>12, <1>13, <1>14,
     <1>15, <1>16, <1>17, <1>18, <1>19 DEF Quiet

\* Hence values spread as before.
LEMMA QuietValues == ASSUME Known, Quiet PROVE ValueInv' /\ FreshInv'
<1> HIDE DEF NormalPC, Slot
<1>1. Spreads
  BY QuietFrame
<1>2. Wanted' = Wanted
  BY <1>1 DEF Spreads, Wanted
<1>3. ValueInv'
  <2> USE DEF Spreads, SerialInv, ValueInv, ValueAt, OldOrNew
  <2>1. ASSUME NEW s \in Slot
        PROVE  /\ OldOrNew(s, config'[s]) /\ OldOrNew(s, status'[s])
               /\ inputHash' # Absent => OldOrNew(s, inputHash'[s])
    <3>1. ValueAt(s)
      OBVIOUS
    <3> HIDE DEF SerialInv, ValueInv
    <3> QED BY <1>1, <3>1
  <2>2. ASSUME NEW s \in Slot
        PROVE  /\ pc' # "idle" => OldOrNew(s, st'[s])
               /\ pc' # "idle" /\ hash' # Absent => OldOrNew(s, hash'[s])
               /\ pc' \in NormalPC => OldOrNew(s, Will(s)')
    BY <1>1 DEF NormalPC
  <2>3. ASSUME NEW s \in Slot, NEW d \in Deployments
        PROVE  /\ depl'[d] # Absent => OldOrNew(s, depl'[d][s])
               /\ \A p \in pods'[d] : OldOrNew(s, p.template[s]) /\ OldOrNew(s, p.uses[s])
    BY <1>1
  <2>4. base' = base
    BY <1>1
  <2> HIDE DEF Spreads, SerialInv
  <2> QED BY <1>2, <2>1, <2>2, <2>3, <2>4
<1>4. FreshInv'
  <2> USE DEF Spreads, SerialInv, FreshInv, FreshAt
  <2>1. ASSUME NEW s \in Slot, Wanted[s] # base[s], pc' \in NormalPC,
               config[s] = Wanted[s] \/ st'[s] = Wanted[s]
        PROVE  Will(s)' = Wanted[s]
    BY <1>1, <2>1 DEF NormalPC
  <2>2. ASSUME NEW s \in Slot, Wanted[s] # base[s],
               \/ inputHash' # Absent /\ inputHash'[s] = Wanted[s]
               \/ pc' # "idle" /\ hash' # Absent /\ hash'[s] = Wanted[s]
        PROVE  config[s] = Wanted[s]
    BY <1>1, <2>2
  <2>3. ASSUME NEW s \in Slot, Wanted[s] # base[s], NEW d \in Deployments
        PROVE  /\ depl'[d] # Absent /\ depl'[d][s] = Wanted[s] => config[s] = Wanted[s]
               /\ \A p \in pods'[d] :
                    /\ p.template[s] = Wanted[s] => p.uses[s] = Wanted[s]
                    /\ p.uses[s] = Wanted[s] => config[s] = Wanted[s]
    BY <1>1, <2>3
  <2> HIDE DEF SerialInv
  <2> QED BY <1>1, <1>2, <2>1, <2>2, <2>3
<1> QED BY <1>3, <1>4

\* Nothing in use is released.
LEMMA QuietProtect == ASSUME Known, Quiet PROVE ProtectInv' /\ NewInv'
<1> HIDE DEF NormalPC, Slot
<1>1. Spreads /\ Keeps
  BY QuietFrame
<1>2. Wanted' = Wanted
  BY <1>1 DEF Spreads, Wanted
<1>3. ASSUME NEW s \in Slot, Done(s) PROVE Done(s)'
  BY <1>1, <1>2, <1>3 DEF Spreads, Done
<1>4. ProtectInv'
  BY <1>1, <1>3 DEF Spreads, Keeps, SerialInv, ProtectInv
<1>5. NewInv'
  BY <1>1, <1>2 DEF Spreads, Keeps, SerialInv, NewInv
<1> QED BY <1>4, <1>5

\* A settled system stays settled.
LEMMA QuietSettled == ASSUME Known, Quiet PROVE SettledInv'
<1> HIDE DEF NormalPC, Slot
<1>1. Spreads /\ Keeps /\ Settles
  BY QuietFrame
<1>2. Wanted' = Wanted
  BY <1>1 DEF Spreads, Wanted
<1>3. CASE Settled
  <2>1. SettledInv
    BY DEF SerialInv
  <2>2. /\ config' = Wanted /\ inputHash' = Wanted
        /\ \A d \in Deployments :
             depl'[d] = Wanted /\ \A p \in pods'[d] : p.template = Wanted /\ p.uses = Wanted
    BY <1>1, <1>3, <2>1 DEF Spreads, SettledInv
  <2>3. pc' # "idle" => st' = Wanted /\ hash' = Wanted
    BY <1>1, <1>3, <2>1 DEF Spreads, SettledInv
  <2>4. pc' \in NormalPC => \A s \in Slot : Will(s)' = Wanted[s]
    BY <1>1, <1>3, <2>1 DEF Spreads, SettledInv
  <2>5. Live' => \A s \in Slot : Wanted[s] # None => <<s, Wanted[s]>> \in fin'
    BY <1>1, <1>3, <2>1 DEF Keeps, SettledInv
  <2> QED BY <1>2, <2>2, <2>3, <2>4, <2>5 DEF SettledInv
<1>4. CASE Ended
  BY <1>1, <1>2, <1>4, GuardSettles DEF Spreads, Keeps, Ended, SettledInv, NormalPC
<1> QED BY <1>1, <1>3, <1>4 DEF Settles, SettledInv

\* reconcileDelete takes finalizers off, but the NeutronAPI is no longer live.
LEMMA DeleteStep == ASSUME Known, Delete PROVE SerialInv'
<1> USE DEF Goto, Forget
<1> DEFINE Frame ==
      /\ UNCHANGED <<envVars, status, ready, inputHash, config, podVars>>
      /\ pc \in DeletePC
      /\ \/ pc' = "idle" /\ patched' = {} /\ rolled' = {} /\ tls' = TRUE
         \/ pc' \in DeletePC /\ UNCHANGED memVars
<1>1. Frame
  <2>1. CASE DelTransport BY <2>1 DEF DelTransport
  <2>2. CASE DelPruneTransport BY <2>2 DEF DelPruneTransport
  <2>3. CASE DelPruneAC BY <2>3 DEF DelPruneAC
  <2>4. CASE DelAC BY <2>4 DEF DelAC
  <2>5. CASE DelOwn BY <2>5 DEF DelOwn
  <2> QED BY <2>1, <2>2, <2>3, <2>4, <2>5 DEF Delete
<1>2. ~Live /\ ~Live'
  BY DEF Delete, DelTransport, DelPruneTransport, DelPruneAC, DelAC, DelOwn, Live, LeakInv
<1>3. Wanted' = Wanted
  BY <1>1 DEF Wanted
<1>4. ValueInv' /\ FreshInv'
  <2>1. pc # "idle" /\ pc' \notin NormalPC
    BY <1>1
  <2> HIDE DEF NormalPC, Slot
  <2>2. ValueInv'
    <3>1. ValueInv
      BY DEF SerialInv
    <3> QED BY <1>1, <1>3, <2>1, <3>1 DEF ValueInv, ValueAt, OldOrNew
  <2>3. FreshInv'
    BY <1>1, <1>3, <2>1 DEF SerialInv, FreshInv, FreshAt
  <2> QED BY <2>2, <2>3
<1>5. PassInv' /\ FinalizedInv'
  <2>1. PassInv'
    <3>1. PassInv
      BY DEF SerialInv
    <3> QED BY <1>1, <3>1 DEF PassInv
  <2>2. FinalizedInv'
    BY <1>1 DEF FinalizedInv
  <2> QED BY <2>1, <2>2
<1>6. BusInv' /\ NamedInv'
  BY <1>1 DEF SerialInv, BusInv, NamedInv
<1>7. ProtectInv' /\ SettledInv'
  BY <1>1, <1>2, <1>3 DEF SerialInv, ProtectInv, Done, SettledInv, Settled
<1> QED BY <1>2, <1>4, <1>5, <1>6, <1>7 DEF SerialInv, ManagedInv, NewInv

-----------------------------------------------------------------------------
(* The environment, and the theorems. *)

\* In a settled state everything holds the wanted credentials.
LEMMA SettledValues ==
  ASSUME SerialInv, Settled
  PROVE  /\ config = Wanted /\ inputHash = Wanted /\ status = Wanted
         /\ \A d \in Deployments :
              depl[d] = Wanted /\ \A p \in pods[d] : p.template = Wanted /\ p.uses = Wanted
         /\ pc # "idle" => st = Wanted /\ hash = Wanted
         /\ pc \in NormalPC => \A s \in Slot : Will(s) = Wanted[s]
         /\ Live => \A s \in Slot : Wanted[s] # None => <<s, Wanted[s]>> \in fin
BY DEF SerialInv, SettledInv, Settled

\* A wanted credential is not revoked: its owner still names it.
LEMMA WantedNotRevoked ==
  ASSUME TypeOK, SerialInv
  PROVE  \A s \in Slot : Wanted[s] # None => <<s, Wanted[s]>> \notin revoked
BY DEF SerialInv, NamedInv, Wanted, TypeOK, Creds

\* The value v is the only one that anything holds for slot s.
Only(s, v) ==
  /\ config[s] = v /\ status[s] = v
  /\ inputHash # Absent => inputHash[s] = v
  /\ \A d \in Deployments :
       /\ depl[d] # Absent => depl[d][s] = v
       /\ \A p \in pods[d] : p.template[s] = v /\ p.uses[s] = v
  /\ pc # "idle" => st[s] = v /\ (hash # Absent => hash[s] = v)

\* A step of the environment that touches nothing the operator or the pods
\* hold, and either leaves a slot alone or starts its rotation.
Starts ==
  /\ UNCHANGED <<crPhase, status, ready, inputHash, fin, config, depl, pods, revoked, pc, st, hash>>
  /\ \A s \in Slot :
       \/ Wanted'[s] = Wanted[s] /\ base'[s] = base[s] /\ Will(s)' = Will(s)
       \/ /\ Only(s, base'[s])
          /\ pc \in NormalPC => Will(s)' \in {base'[s], Wanted'[s]}

\* When a rotation starts, the values spread as FreshInv says: the new one is
\* nowhere yet.
LEMMA StartValues == ASSUME ValueInv, FreshInv, Starts PROVE ValueInv' /\ FreshInv'
<1>1. pc \in NormalPC => pc # "idle"
  OBVIOUS
<1> HIDE DEF NormalPC, Slot
<1>2. ASSUME NEW s \in Slot,
             Wanted'[s] = Wanted[s] /\ base'[s] = base[s] /\ Will(s)' = Will(s)
      PROVE  ValueAt(s)' /\ FreshAt(s)'
  <2>1. ValueAt(s)'
    BY <1>2 DEF Starts, ValueInv, ValueAt, OldOrNew
  <2>2. FreshAt(s)'
    BY <1>2 DEF Starts, FreshInv, FreshAt
  <2> QED BY <2>1, <2>2
<1>3. ASSUME NEW s \in Slot, Only(s, base'[s]),
             pc \in NormalPC => Will(s)' \in {base'[s], Wanted'[s]}
      PROVE  ValueAt(s)' /\ FreshAt(s)'
  <2>1. ValueAt(s)'
    BY <1>3 DEF Starts, ValueAt, OldOrNew, Only
  <2>2. FreshAt(s)'
    BY <1>1, <1>3 DEF Starts, FreshAt, Only
  <2> QED BY <2>1, <2>2
<1>4. \A s \in Slot : ValueAt(s)' /\ FreshAt(s)'
  BY <1>2, <1>3 DEF Starts
<1> QED BY <1>4 DEF ValueInv, FreshInv

\* In a settled state nothing but the wanted credentials is held.
LEMMA SettledOnly == ASSUME SerialInv, Settled, NEW s \in Slot PROVE Only(s, Wanted[s])
<1> HIDE DEF NormalPC, Slot
<1> QED BY SettledValues DEF Only

\* Nor is there in a slot whose old value is the wanted one.
LEMMA UnrotatedOnly ==
  ASSUME ValueInv, NEW s \in Slot, base[s] = Wanted[s]
  PROVE  Only(s, Wanted[s])
<1> HIDE DEF NormalPC, Slot
<1> QED BY DEF ValueInv, ValueAt, OldOrNew, Only

\* A rotation starts: the wanted value becomes the old one.
LEMMA RotateStep ==
  ASSUME Known, ~Rapid, NEW r \in Slot, NEW x \in Secret \cup {None}, Rotate(r, x)
  PROVE  SerialInv'
<1>1. /\ \A s \in Slot \ {r} : Wanted'[s] = Wanted[s]
      /\ Wanted'[r] = x /\ x # Wanted[r]
  BY DEF Rotate, Wanted, TypeOK, Creds
<1>2. \A s \in Slot : Will(s)' = Will(s) \/ (s = r /\ Will(s)' = x)
  BY DEF Rotate, Will, Unread, TypeOK, Creds
<1>3. /\ UNCHANGED <<crPhase, status, ready, inputHash, fin, config, depl, pods, revoked, pc, st, hash>>
      /\ Settled => base' = Wanted
      /\ ~Settled => base' = base /\ base[r] = Wanted[r]
  BY DEF Rotate, Rebase, MayRotate
<1>T. TransportSlot \subseteq Slot
  OBVIOUS
<1> HIDE DEF NormalPC, Slot, TransportSlot
<1>4. ASSUME Settled, NEW s \in Slot
      PROVE  /\ Only(s, base'[s]) /\ base'[s] = Wanted[s]
             /\ pc \in NormalPC => Will(s)' \in {base'[s], Wanted'[s]}
  BY <1>1, <1>2, <1>3, <1>4, SettledOnly, SettledValues DEF SerialInv
<1>5. ASSUME ~Settled
      PROVE  /\ Only(r, base'[r]) /\ base'[r] = Wanted[r]
             /\ pc \in NormalPC => Will(r)' \in {base'[r], Wanted'[r]}
  BY <1>1, <1>2, <1>3, <1>5, UnrotatedOnly DEF SerialInv, ValueInv, ValueAt, OldOrNew
<1>6. Starts /\ Only(r, Wanted[r]) /\ base'[r] = Wanted[r]
  BY <1>1, <1>2, <1>3, <1>4, <1>5 DEF Starts
<1>7. ValueInv' /\ FreshInv'
  BY <1>6, StartValues DEF SerialInv
<1>8. ProtectInv'
  <2>1. CASE Settled
    BY <1>3, <2>1, SettledValues, WantedNotRevoked DEF ProtectInv, Live
  <2>2. CASE ~Settled
    <3>1. ProtectInv
      BY DEF SerialInv
    <3>2. \A s \in Slot : Done(s) => Done(s)'
      BY <1>1, <1>3, <2>2 DEF Done
    <3> QED BY <1>3, <2>2, <3>1, <3>2 DEF ProtectInv, Live
  <2> QED BY <2>1, <2>2
<1>9. SettledInv' /\ NewInv'
  <2>1. config[r] = Wanted[r] /\ status[r] = Wanted[r]
    BY <1>6 DEF Only
  <2>2. ~Settled'
    BY <1>1, <1>3, <2>1 DEF Settled
  <2>3. NewInv'
    BY <1>1, <1>3, <1>T, <2>1 DEF SerialInv, NewInv, Live
  <2> QED BY <2>2, <2>3 DEF SettledInv
<1>10. BusInv'
  <2>1. ~busOn /\ src["notifications"] # None => ~Settled
    BY DEF SerialInv, BusInv, Settled, Wanted, TypeOK, Creds, Slot
  <2> QED BY <1>3, <2>1 DEF SerialInv, Rotate, BusInv, TypeOK, Creds, Slot
<1> HIDE DEF AfterDeploy, AfterManageAC, AfterHash, AfterConfig, AfterManageNotifications,
             AfterManageTransport
<1>11. PassInv' /\ FinalizedInv'
  BY DEF Rotate, SerialInv, PassInv, FinalizedInv, GuardReady, Unread
<1>12. ManagedInv' /\ NamedInv'
  BY DEF Rotate, SerialInv, ManagedInv, Live, NamedInv, TypeOK, Creds
<1> QED BY <1>7, <1>8, <1>9, <1>10, <1>11, <1>12 DEF SerialInv

\* So it does when the user switches the notifications bus on or off.
LEMMA ToggleStep == ASSUME Known, ~Rapid, ToggleBus PROVE SerialInv'
<1> DEFINE n == "notifications"
<1>1. /\ \A s \in Slot \ {n} : Wanted'[s] = Wanted[s]
      /\ Wanted[n] = IF busOn THEN src[n] ELSE None
      /\ Wanted \in [Slot -> Secret \cup {None}] /\ Wanted' \in [Slot -> Secret \cup {None}]
  BY DEF ToggleBus, Wanted, TypeOK, Creds
<1>2. \A s \in Slot : Will(s)' = Will(s)
  BY DEF ToggleBus, Will, Unread
<1>3. /\ UNCHANGED <<crPhase, status, ready, inputHash, fin, config, depl, pods, revoked, pc, st, hash>>
      /\ Settled => base' = Wanted
      /\ ~Settled => base' = base /\ base[n] = Wanted[n]
      /\ n \in Slot /\ UNCHANGED <<bus, src>> /\ busOn' = ~busOn /\ busOn \in BOOLEAN
  BY DEF ToggleBus, Rebase, MayRotate, TypeOK
<1>T. TransportSlot \subseteq Slot
  OBVIOUS
<1> HIDE DEF NormalPC, Slot, TransportSlot, n
<1>4. ASSUME Settled, NEW s \in Slot
      PROVE  /\ Only(s, base'[s]) /\ base'[s] = Wanted[s]
             /\ pc \in NormalPC => Will(s)' \in {base'[s], Wanted'[s]}
  BY <1>2, <1>3, <1>4, SettledOnly, SettledValues DEF SerialInv
<1>5. ASSUME ~Settled
      PROVE  /\ Only(n, base'[n]) /\ base'[n] = Wanted[n]
             /\ pc \in NormalPC => Will(n)' \in {base'[n], Wanted'[n]}
  BY <1>2, <1>3, <1>5, UnrotatedOnly DEF SerialInv, ValueInv, ValueAt, OldOrNew
<1>6. Starts /\ Only(n, Wanted[n]) /\ base'[n] = Wanted[n]
  BY <1>1, <1>2, <1>3, <1>4, <1>5 DEF Starts
<1>7. ValueInv' /\ FreshInv'
  BY <1>6, StartValues DEF SerialInv
<1>8. BusInv'
  BY <1>1, <1>3, <1>6 DEF n, Only, BusInv
<1>9. ProtectInv'
  <2>1. CASE Settled
    BY <1>3, <2>1, SettledValues, WantedNotRevoked DEF ProtectInv, Live
  <2>2. CASE ~Settled
    <3>1. ProtectInv
      BY DEF SerialInv
    <3>2. \A s \in Slot : Done(s) => Done(s)'
      BY <1>1, <1>3, <2>2 DEF Done
    <3> QED BY <1>3, <2>2, <3>1, <3>2 DEF ProtectInv, Live
  <2> QED BY <2>1, <2>2
<1>10. SettledInv'
  <2>1. ASSUME Settled' PROVE Wanted' = Wanted
    <3>1. \A s \in Slot : Wanted'[s] = Wanted[s]
      BY <1>1, <1>3, <1>6, <2>1 DEF Only, Settled
    <3> QED BY ONLY <1>1, <3>1
  <2>2. ASSUME Settled' PROVE Settled
    BY <1>3, <2>1, <2>2 DEF Settled
  <2> QED BY <1>2, <1>3, <2>1, <2>2, SettledValues DEF SettledInv, Live
<1>11. NewInv'
  <2>1. config[n] = Wanted[n]
    BY <1>6 DEF Only
  <2> QED BY <1>1, <1>3, <1>T, <2>1 DEF SerialInv, NewInv, Live
<1> HIDE DEF AfterDeploy, AfterManageAC, AfterHash, AfterConfig, AfterManageNotifications,
             AfterManageTransport
<1>12. PassInv' /\ FinalizedInv'
  <2>1. PassInv /\ FinalizedInv
    BY DEF SerialInv
  <2>2. PassInv'
    BY <2>1 DEF ToggleBus, PassInv, GuardReady, Unread
  <2>3. FinalizedInv'
    BY <2>1 DEF ToggleBus, FinalizedInv, GuardReady
  <2> QED BY <2>2, <2>3
<1>13. ManagedInv' /\ NamedInv'
  BY DEF ToggleBus, SerialInv, ManagedInv, NamedInv, Live
<1> QED BY <1>7, <1>8, <1>9, <1>10, <1>11, <1>12, <1>13 DEF SerialInv

\* A new NeutronAPI of the same name starts from nothing.
LEMMA RecreateStep == ASSUME Known, Recreate PROVE SerialInv'
<1> USE DEF Recreate, NoCreds, SerialInv
<1>1. pc = "idle" /\ pc' = "idle"
  BY DEF LeakInv
<1>2. \A s \in Slot : base'[s] = None /\ config'[s] = None /\ status'[s] = None
  OBVIOUS
<1>3. ValueInv' /\ FreshInv'
  <2>1. ValueInv'
    BY <1>1, <1>2 DEF ValueInv, ValueAt, OldOrNew, TypeOK
  <2>2. FreshInv'
    BY <1>1, <1>2 DEF FreshInv, FreshAt, TypeOK
  <2> QED BY <2>1, <2>2
<1>4. PassInv' /\ ManagedInv' /\ FinalizedInv' /\ SettledInv'
  BY <1>1 DEF PassInv, ManagedInv, FinalizedInv, SettledInv, Settled
<1>5. BusInv' /\ ProtectInv'
  BY <1>1, <1>2 DEF BusInv, ProtectInv
<1>6. NewInv'
  BY <1>2 DEF NewInv
<1>7. NamedInv'
  BY NoneAssumption DEF NamedInv, TypeOK, Key, Creds
<1> QED BY <1>3, <1>4, <1>5, <1>6, <1>7

\* SerialInv is inductive when rotations are serial.
LEMMA SerialStep ==
  ASSUME ~Rapid, TypeOK, TypeOK', LeakInv, LeakInv', SerialInv, [Next]_vars
  PROVE  SerialInv'
<1>1. Known
  OBVIOUS
<1>Q. Quiet => SerialInv'
  BY <1>1, QuietValues, QuietPass, QuietProtect, QuietSettled DEF SerialInv, BooksInv
<1> HIDE DEF Known
<1>2. CASE Normal
  BY <1>1, <1>2, ReconcileStep, ReadStep, ConfigStep, FinalizeStep, ReleaseStep, DeleteURLStep,
     ReturnStep, <1>Q
     DEF Normal, TransportURL, NotificationsURL, Quiet, FinalizeTransport,
         FinalizeNotifications, FinalizeAC
<1>3. CASE Pods
  BY <1>1, <1>3, <1>Q, RestartStep DEF Pods, Quiet
<1>4. CASE Environment
  BY <1>1, <1>4, <1>Q, RotateStep, ToggleStep, RecreateStep DEF Environment, Quiet
<1>5. CASE Delete \/ Bail \/ Crash \/ UNCHANGED vars
  BY <1>1, <1>5, <1>Q, DeleteStep DEF Quiet
<1> QED BY <1>2, <1>3, <1>4, <1>5 DEF Next

-----------------------------------------------------------------------------
(* The theorems                                                            *)

\* At most two values of a credential are around, and the old one stays
\* protected until nothing can use it.
THEOREM Serial == ASSUME ~Rapid PROVE Spec => []SerialInv
<1>1. Init => SerialInv
  <2> SUFFICES ASSUME Init PROVE SerialInv
    OBVIOUS
  <2> USE DEF Init, NoCreds
  <2>1. ValueInv /\ FreshInv
    BY DEF ValueInv, ValueAt, OldOrNew, FreshInv, FreshAt
  <2>2. PassInv /\ ManagedInv /\ FinalizedInv /\ BusInv
    BY DEF PassInv, ManagedInv, FinalizedInv, BusInv
  <2>3. ProtectInv /\ NewInv /\ SettledInv /\ NamedInv
    BY DEF ProtectInv, NewInv, SettledInv, Settled, NamedInv
  <2> QED BY <2>1, <2>2, <2>3 DEF SerialInv
<1>2. Spec => []LeakInv
  <2>1. Init => LeakInv
    BY DEF Init, LeakInv
  <2> QED BY <2>1, LeakInvStep, TypeCorrect, PTL DEF Spec
<1>3. TypeOK /\ TypeOK' /\ LeakInv /\ LeakInv' /\ SerialInv /\ [Next]_vars => SerialInv'
  BY SerialStep
<1> QED BY <1>1, <1>2, <1>3, TypeCorrect, PTL DEF Spec

\* A serial rotation never revokes a credential that a pod uses: the promise
\* of lines 703-705, 1116-1121 and 1647-1659.
THEOREM SerialNoRevokedCredentialInUse ==
  ASSUME ~Rapid PROVE Spec => []NoRevokedCredentialInUse
<1>1. TypeOK /\ SerialInv => NoRevokedCredentialInUse
  <2> SUFFICES ASSUME TypeOK, SerialInv, crPhase = "active", NEW s \in Slot,
                      NEW d \in Deployments, NEW p \in pods[d]
               PROVE  <<s, p.uses[s]>> \notin revoked
    BY DEF NoRevokedCredentialInUse, InUse
  <2>1. CASE p.uses[s] = None
    BY <2>1, NoneAssumption DEF TypeOK, Key
  <2>2. CASE p.uses[s] = Wanted[s] /\ p.uses[s] # None
    BY <2>2, WantedNotRevoked
  <2>3. CASE p.uses[s] = base[s] /\ p.uses[s] # None /\ p.uses[s] # Wanted[s]
    BY <2>3 DEF SerialInv, ProtectInv, Done, Live
  <2> QED BY <2>1, <2>2, <2>3 DEF SerialInv, ValueInv, ValueAt, OldOrNew
<1> QED BY <1>1, Serial, TypeCorrect, PTL

\* What a pod uses carries the finalizer, but for an application credential
\* that the spec still names.
LEMMA LiveUseIsProtected ==
  ASSUME TypeOK, SerialInv, Live, NEW s \in Slot,
         NEW d \in Deployments, NEW p \in pods[d], p.uses[s] # None
  PROVE  <<s, p.uses[s]>> \in fin \/ (s = "ac" /\ p.uses[s] = src["ac"])
<1>1. CASE p.uses[s] = base[s]
  BY <1>1 DEF SerialInv, ProtectInv, Done
<1>2. CASE p.uses[s] = Wanted[s] /\ p.uses[s] # base[s]
  <2>1. config[s] = Wanted[s]
    BY <1>2 DEF SerialInv, FreshInv, FreshAt
  <2>2. s = "ac" => Wanted[s] = src["ac"]
    BY DEF Wanted, TypeOK, Creds
  <2> QED BY <1>2, <2>1, <2>2 DEF SerialInv, NewInv
<1> QED BY <1>1, <1>2 DEF SerialInv, ValueInv, ValueAt, OldOrNew

\* Every credential in use carries the finalizer, but for an application
\* credential whose finalizer is not added yet (lines 582 and 707).
THEOREM SerialInUseIsProtected ==
  ASSUME ~Rapid PROVE Spec => []InUseIsProtected
<1>1. TypeOK /\ SerialInv => InUseIsProtected
  BY LiveUseIsProtected DEF InUseIsProtected, InUse, Live
<1> QED BY <1>1, Serial, TypeCorrect, PTL

\* Ready with the wanted names in the status means that the pods have them:
\* IsReadyForInput is enough although it looks at the template only.
THEOREM SerialReadyPodsUseWanted ==
  ASSUME ~Rapid PROVE Spec => []ReadyPodsUseWanted
<1>1. SerialInv => ReadyPodsUseWanted
  <2> SUFFICES ASSUME SerialInv, Settled, NEW k \in InUse PROVE k[2] = Wanted[k[1]]
    BY DEF ReadyPodsUseWanted
  <2>1. PICK s \in Slot, d \in Deployments : \E p \in pods[d] : k = <<s, p.uses[s]>>
    BY DEF InUse
  <2>2. \A p \in pods[d] : p.uses = Wanted
    BY SettledValues
  <2> HIDE DEF SerialInv, Slot
  <2> QED BY <2>1, <2>2
<1> QED BY <1>1, Serial, PTL

\* The notifications TransportURL is deleted only when no pod uses its
\* Secret (lines 1694-1696).
THEOREM SerialBusTeardownIsSafe ==
  ASSUME ~Rapid PROVE Spec => []BusTeardownIsSafe
<1>1. TypeOK /\ SerialInv => BusTeardownIsSafe
  <2> SUFFICES ASSUME TypeOK, SerialInv, pc = "deleteBus"
               PROVE  <<"notifications", st["notifications"]>> \notin InUse
    BY DEF BusTeardownIsSafe
  <2>1. /\ GuardReady /\ st["notifications"] # None
        /\ cur["notifications"] = None /\ ~busOn
    BY DEF SerialInv, PassInv, BusInv
  <2>2. Wanted["notifications"] = None
    BY <2>1 DEF Wanted, TypeOK, Creds
  <2>3. base["notifications"] = st["notifications"]
    BY <2>1, <2>2 DEF SerialInv, ValueInv, ValueAt, OldOrNew
  <2>4. Done("notifications")
    BY <2>1, <2>3, RolloutDone
  <2> QED BY <2>1, <2>2, <2>4 DEF Done, InUse
<1> QED BY <1>1, Serial, TypeCorrect, PTL

-----------------------------------------------------------------------------
(* The refinement                                                          *)

\* A Secret with a consumer finalizer is not revoked: its owner waits.
HeldInv == fin \cap revoked = {}

\* A step changes what pods use, or the finalizers and the issued names, or
\* what is revoked, never two of them; and no finalizer is put on a revoked
\* Secret.
StepKind ==
  \/ UNCHANGED <<fin, src, revoked>>
  \/ UNCHANGED <<pods, crPhase, revoked>> /\ fin' \cap revoked \subseteq fin
  \/ Recreate
  \/ \E s \in Slot, x \in Secret : Revoke(s, x)

\* Every step is of one of the kinds.
LEMMA StepKinds == ASSUME [Next]_vars PROVE StepKind
<1>1. CASE AddFinalizer \/ Reconcile \/ NotificationsDisabled
  BY <1>1 DEF StepKind, AddFinalizer, Reconcile, NotificationsDisabled
<1>2. ASSUME NEW s, NEW a, NEW b, ReadTransportURL(s, a, b) PROVE StepKind
  BY <1>2 DEF StepKind, ReadTransportURL
<1>3. ASSUME NEW s, NEW a, NEW b, ManageSecretConsumerFinalizer(s, a, b) PROVE StepKind
  BY <1>3 DEF StepKind, ManageSecretConsumerFinalizer
<1>4. CASE GenerateServiceSecrets \/ ValidateTLS \/ CreateHashOfInputHashes
  BY <1>4 DEF StepKind, GenerateServiceSecrets, ValidateTLS, CreateHashOfInputHashes
<1>5. ASSUME NEW d \in Deployments, PatchDeployment(d) \/ CheckDeployment(d) PROVE StepKind
  BY <1>5 DEF StepKind, PatchDeployment, CheckDeployment
<1>6. ASSUME NEW s, NEW a, NEW b, FinalizeSecretRotation(s, a, b) PROVE StepKind
  BY <1>6 DEF StepKind, FinalizeSecretRotation
<1>7. CASE ReleaseNotifications \/ DeleteNotificationsURL
  BY <1>7 DEF StepKind, ReleaseNotifications, DeleteNotificationsURL
<1>8. CASE PruneTransport \/ PruneACAndReturn
  BY <1>8 DEF StepKind, PruneTransport, PruneACAndReturn, Prune, Return
<1>9. CASE ReturnBlocked \/ Bail \/ Crash
  <2>1. UNCHANGED <<envVars, fin>>
    BY <1>9 DEF ReturnBlocked, Bail, Crash
  <2> QED BY <2>1 DEF StepKind
<1>10. CASE Delete
  BY <1>10 DEF StepKind, Delete, DelTransport, DelPruneTransport, DelPruneAC, DelAC, DelOwn,
     Prune
<1>11. CASE Pods
  BY <1>11 DEF StepKind, Pods, StartPod, RestartPod, StopPod
<1>12. ASSUME NEW s, NEW x, Rotate(s, x) PROVE StepKind
  BY <1>12 DEF StepKind, Rotate
<1>13. CASE ToggleBus \/ DeleteCR \/ UNCHANGED vars
  BY <1>13 DEF StepKind, ToggleBus, DeleteCR, vars
<1>14. CASE Environment
  BY <1>12, <1>13, <1>14 DEF StepKind, Environment
<1>15. CASE Normal
  BY <1>1, <1>2, <1>3, <1>4, <1>5, <1>6, <1>7, <1>8, <1>9, <1>15
     DEF Normal, TransportURL, NotificationsURL, ManageACFinalizer, FinalizeTransport,
         FinalizeNotifications, FinalizeAC
<1> QED BY <1>9, <1>10, <1>11, <1>13, <1>14, <1>15 DEF Next

\* Every step keeps what is held.
LEMMA HeldStep == HeldInv /\ [Next]_vars => HeldInv'
<1> SUFFICES ASSUME HeldInv, [Next]_vars PROVE HeldInv'
  OBVIOUS
<1>1. CASE Recreate
  BY <1>1 DEF Recreate, HeldInv
<1>2. ASSUME NEW s \in Slot, NEW x \in Secret, Revoke(s, x) PROVE HeldInv'
  BY <1>2 DEF Revoke, HeldInv
<1> QED BY <1>1, <1>2, StepKinds DEF StepKind, HeldInv

\* In a state of SerialInv every credential in use is protected, and no
\* protected one is revoked.
Guarded ==
  /\ UsedKeys \subseteq fin \cup Issued
  /\ fin \cup Issued \subseteq Key \ revoked

\* What is in use is protected.
LEMMA UsedIsProtected == TypeOK /\ SerialInv /\ HeldInv => Guarded
<1> SUFFICES ASSUME TypeOK, SerialInv, HeldInv PROVE Guarded
  OBVIOUS
<1>1. Issued \subseteq Key \ revoked
  <2>1. \A s \in Slot : <<s, src[s]>> \notin revoked
    BY DEF SerialInv, NamedInv
  <2>2. \A s \in Slot : src[s] \in Secret \cup {None}
    BY DEF TypeOK, Creds
  <2> QED BY <2>1, <2>2 DEF Issued, Key
<1>2. ASSUME NEW s \in Slot, NEW d \in Deployments, NEW p \in pods[d], p.uses[s] # None, Live
      PROVE  <<s, p.uses[s]>> \in fin \cup Issued
  BY <1>2, LiveUseIsProtected DEF Issued
<1>3. UsedKeys \subseteq fin \cup Issued
  BY <1>2 DEF UsedKeys, InUse, Live
<1> QED BY <1>1, <1>3 DEF TypeOK, HeldInv, Guarded

\* Serial rotation implements CredentialProtection, under the mapping of
\* ProtectedRotation: a credential in use is protected before and after
\* every step, so each step is one that the abstract specification allows.
THEOREM SerialImplementsProtection ==
  ASSUME ~Rapid PROVE Spec => ImplementsProtection
<1>1. Init => Protection!Init /\ HeldInv
  <2> SUFFICES ASSUME Init PROVE Protection!Init /\ HeldInv
    OBVIOUS
  <2>1. fin = {} /\ revoked = {} /\ UsedKeys = {}
    BY DEF Init, UsedKeys, InUse
  <2>2. Issued \subseteq Key
    BY DEF Init, Issued, Key, NoCreds
  <2> QED BY <2>1, <2>2 DEF Protection!Init, HeldInv
<1>2. ASSUME Guarded, Guarded', [Next]_vars
      PROVE  [Protection!Next]_Protection!vars
  <2> USE <1>2
  <2>1. /\ UsedKeys \subseteq fin \cup Issued
        /\ UsedKeys' \subseteq (fin \cup Issued)'
        /\ (fin \cup Issued)' \subseteq Key \ revoked'
    BY DEF Guarded
  <2>2. CASE UNCHANGED <<fin, src, revoked>>
    <3>1. UNCHANGED (fin \cup Issued)
      BY <2>2 DEF Issued
    <3> QED BY <2>1, <2>2, <3>1 DEF Protection!Next, Protection!Use
  <2>3. CASE UNCHANGED <<pods, crPhase, revoked>>
    <3>1. UNCHANGED UsedKeys
      BY <2>3 DEF UsedKeys, InUse
    <3> QED BY <2>1, <2>3, <3>1 DEF Protection!Next, Protection!Protect
  <2>4. CASE Recreate
    <3>1. UsedKeys = {} /\ UsedKeys' = {} /\ UNCHANGED revoked
      BY <2>4 DEF Recreate, UsedKeys, InUse
    <3> QED BY <2>1, <3>1 DEF Protection!Next, Protection!Protect
  <2>5. ASSUME NEW s \in Slot, NEW x \in Secret, Revoke(s, x)
        PROVE  Protection!Revoke
    <3>1. UNCHANGED UsedKeys /\ UNCHANGED (fin \cup Issued)
      BY <2>5 DEF Revoke, UsedKeys, InUse, Issued
    <3>2. <<s, x>> \in Key \ ((fin \cup Issued) \cup revoked)
      BY <2>5 DEF Revoke, Issued, Key
    <3> QED BY <2>5, <3>1, <3>2 DEF Revoke, Protection!Revoke
  <2> QED BY <2>2, <2>3, <2>4, <2>5, StepKinds DEF StepKind, Protection!Next
<1>3. Guarded /\ Guarded' /\ [Next]_vars => [Protection!Next]_Protection!vars
  BY <1>2
<1>4. Spec => []HeldInv
  BY <1>1, HeldStep, PTL DEF Spec
<1>5. Spec => []Guarded
  BY <1>4, Serial, TypeCorrect, UsedIsProtected, PTL
<1> QED BY <1>1, <1>3, <1>5, PTL DEF Spec, ImplementsProtection, Protection!Spec
=============================================================================
