------------------------- MODULE CredentialRotation -------------------------
(***************************************************************************)
(* Rotation of the credentials that the Neutron pods consume.              *)
(*                                                                         *)
(* A credential is a Secret that another operator owns: the RabbitMQ       *)
(* transport URL, the notifications transport URL and the keystone         *)
(* application credential ("ac").  The owner may revoke a superseded       *)
(* credential as soon as no consumer finalizer is left on its Secret, so   *)
(* the controller puts its finalizer on a Secret before using it and       *)
(* takes it off when no pod uses it any more.                              *)
(*                                                                         *)
(* One reconcile is a sequence of steps, one per call that changes the     *)
(* cluster.  Rotations, pods, revocations, errors and operator crashes     *)
(* interleave between any two of them.                                     *)
(*                                                                         *)
(* Abstractions:                                                           *)
(* - a rendered configuration, and the input hash computed from it, is the *)
(*   triple of credentials it holds (hashes do not collide);               *)
(* - a pod mounts its configuration by SubPath, so it keeps the one it     *)
(*   started with; a terminating pod no longer counts as a user;           *)
(* - the phases of a reconcile that touch no credential are the early      *)
(*   returns of Bail.                                                      *)
(***************************************************************************)
EXTENDS Naturals, FiniteSets

CONSTANTS
  Secret,       \* names of the Secrets a credential may live in
  None,         \* the empty Secret name
  Absent,       \* no input hash yet, no Deployment yet
  Deployments,  \* Deployments of the active strategy
  Rotating,     \* the credentials the environment changes
  MaxPods,      \* pods of one Deployment: replicas plus surge
  Rapid         \* may a credential change again before it has settled?

ASSUME NoneAssumption == None \notin Secret
ASSUME DeploymentsAssumption ==
  Deployments \subseteq {"neutron", "rpc", "worker"} /\ Deployments # {}
ASSUME RapidAssumption == Rapid \in BOOLEAN

Slot == {"transport", "notifications", "ac"}
ASSUME RotatingAssumption == Rotating \subseteq Slot
\* Both transport URLs carry TransportConsumerFinalizer, the other one
\* ACConsumerFinalizer.
TransportSlot == {"transport", "notifications"}
Key == Slot \X Secret
Creds == [Slot -> Secret \cup {None}]
ASSUME AbsentAssumption == Absent \notin Creds
NoCreds == [s \in Slot |-> None]

VARIABLES
  src,        \* the Secret each credential's owner now names: Status.SecretName
              \* of the TransportURLs, spec.auth.applicationCredentialSecret
  busOn,      \* spec.notificationsBus is set
  crPhase,    \* the NeutronAPI: "new" (no finalizer), "active", "deleting", "gone"
  status,     \* the credential names tracked in the NeutronAPI's status
  ready,      \* its Ready condition
  inputHash,  \* Status.Hash[InputHashName]
  fin,        \* the Secrets that carry the consumer finalizer
  revoked,    \* the Secrets whose owner has deleted them
  config,     \* content of the <name>-config Secret
  depl,       \* CONFIG_HASH in the pod template of each Deployment
  pods,       \* running pods: the template hash and the credentials in use
  base,       \* ghost: the credentials wanted when the system last settled
  pc,         \* next step of the running reconcile
  cur,        \* its snapshot of the wanted credentials
  st,         \* its in-memory copy of status
  hash,       \* its in-memory copy of inputHash
  bus,        \* its snapshot of busOn
  tls,        \* all TLS inputs were found
  patched,    \* Deployments it has created or patched
  checked,    \* Deployments whose readiness it has read
  rolled      \* Deployments it saw fully rolled out for its hash

envVars == <<src, busOn, revoked, base>>
crVars == <<crPhase, status, ready, inputHash>>
podVars == <<depl, pods>>
memVars == <<cur, st, hash, bus, tls, patched, checked, rolled>>
vars == <<envVars, crVars, fin, config, podVars, pc, memVars>>

Pod == [template : Creds, uses : Creds]

DeletePC == {"delTransport", "delPruneTransport", "delPruneAC", "delAC", "delOwn"}
NormalPC ==
  {"transport", "manageTransport", "notifications", "manageNotifications",
   "config", "tls", "hash", "manageAC", "deploy", "finTransport",
   "finNotifications", "deleteBus", "finAC", "pruneTransport", "pruneAC"}

\* State types of every component.
TypeOK ==
  /\ src \in Creds /\ busOn \in BOOLEAN
  /\ crPhase \in {"new", "active", "deleting", "gone"}
  /\ status \in Creds /\ ready \in BOOLEAN
  /\ inputHash \in Creds \cup {Absent}
  /\ fin \subseteq Key /\ revoked \subseteq Key
  /\ config \in Creds
  /\ depl \in [Deployments -> Creds \cup {Absent}]
  /\ pods \in [Deployments -> SUBSET Pod]
  /\ base \in Creds
  /\ pc \in {"idle"} \cup NormalPC \cup DeletePC
  /\ cur \in Creds /\ st \in Creds
  /\ hash \in Creds \cup {Absent}
  /\ bus \in BOOLEAN /\ tls \in BOOLEAN
  /\ patched \subseteq Deployments
  /\ checked \subseteq Deployments
  /\ rolled \subseteq Deployments

\* Only the transport URL may have been issued before the NeutronAPI exists.
\* A credential that the environment never changes is there from the start.
Init ==
  /\ \E x \in IF "transport" \in Rotating THEN {None} ELSE Secret :
       src = [NoCreds EXCEPT !["transport"] = x]
  /\ busOn = FALSE
  /\ crPhase = "new" /\ status = NoCreds /\ ready = FALSE /\ inputHash = Absent
  /\ fin = {} /\ revoked = {} /\ config = NoCreds
  /\ depl = [d \in Deployments |-> Absent]
  /\ pods = [d \in Deployments |-> {}]
  /\ base = NoCreds
  /\ pc = "idle" /\ cur = NoCreds /\ st = NoCreds /\ hash = Absent
  /\ bus = FALSE /\ tls = TRUE
  /\ patched = {} /\ checked = {} /\ rolled = {}

-----------------------------------------------------------------------------
(* Helpers                                                                 *)

\* The credentials the NeutronAPI should be running with now.
Wanted == [src EXCEPT !["notifications"] = IF busOn THEN @ ELSE None]

\* What a user can observe: Ready, and the status names the wanted Secrets.
Settled == ready /\ status = Wanted

\* Faulty: an unfinished rotation loses the name of the old Secret.
FinalizedForgets(old, new, guard) == IF guard \/ old = None THEN new ELSE Absent

\* FinalizeSecretRotation: the name to track from now on, and the finalizer
\* it releases.
Finalized(old, new, guard) == IF guard \/ old = None THEN new ELSE old

\* Faulty: the old Secret is released as soon as the new one is known.
ReleasedUnguarded(s, old, new, guard) ==
  IF old \notin {None, new} THEN {<<s, old>>} ELSE {}

Released(s, old, new, guard) ==
  IF guard /\ old \notin {None, new} THEN {<<s, old>>} ELSE {}

\* Faulty: the guard does not wait for the Deployments.
GuardIgnoresRollout == tls

\* CredentialRotationGuardReady: every sub-condition of this reconcile is True.
GuardReady == tls /\ rolled = Deployments

\* Faulty: one pod of the new template is enough.
RolledOutSome(d) == \E p \in pods[d] : p.template = depl[d]

\* All pods run the Deployment's template: a complete rollout.
RolledOut(d) == pods[d] # {} /\ \A p \in pods[d] : p.template = depl[d]

\* Deployments that reconcileNormal handles before d.
Before(d) ==
  Deployments \cap
    (CASE d = "neutron" -> {}
       [] d = "rpc"     -> {"neutron"}
       [] OTHER         -> {"neutron", "rpc"})

Goto(step) == pc' = step

\* The reconcile is over and its in-memory state is lost.
Forget ==
  /\ pc' = "idle" /\ cur' = NoCreds /\ st' = NoCreds /\ hash' = Absent
  /\ bus' = FALSE /\ tls' = TRUE
  /\ patched' = {} /\ checked' = {} /\ rolled' = {}

\* The deferred PatchInstance of Reconcile.
Return(isReady) ==
  /\ status' = st /\ inputHash' = hash /\ ready' = isReady
  /\ Forget
  /\ UNCHANGED crPhase

-----------------------------------------------------------------------------
(* Reconcile                                                               *)

\* First sight of the NeutronAPI: add the finalizer, persist and return.
AddFinalizer ==
  /\ pc = "idle" /\ crPhase = "new"
  /\ crPhase' = "active"
  /\ UNCHANGED <<envVars, status, ready, inputHash, fin, config, podVars, pc, memVars>>

Reconcile ==
  /\ pc = "idle" /\ crPhase \in {"active", "deleting"}
  /\ Goto(IF crPhase = "deleting" THEN "delTransport" ELSE "transport")
  /\ cur' = [NoCreds EXCEPT !["ac"] = src["ac"]]
  /\ st' = status /\ hash' = inputHash
  /\ bus' = busOn /\ tls' = TRUE
  /\ patched' = {} /\ checked' = {} /\ rolled' = {}
  /\ UNCHANGED <<envVars, crVars, fin, config, podVars>>

\* Read the TransportURL; track its Secret at once unless this is a rotation.
ReadTransportURL(s, here, next) ==
  /\ pc = here
  /\ src[s] # None
  /\ cur' = [cur EXCEPT ![s] = src[s]]
  /\ st' = [st EXCEPT ![s] = IF @ = None THEN src[s] ELSE @]
  /\ Goto(next)
  /\ UNCHANGED <<envVars, crVars, fin, config, podVars, hash, bus, tls,
                 patched, checked, rolled>>

\* ManageSecretConsumerFinalizer on the Secret of slot s.
ManageSecretConsumerFinalizer(s, here, next) ==
  /\ pc = here
  /\ <<s, cur[s]>> \notin revoked
  /\ fin' = IF cur[s] = None THEN fin ELSE fin \cup {<<s, cur[s]>>}
  /\ Goto(next)
  /\ UNCHANGED <<envVars, crVars, config, podVars, memVars>>

TransportURL ==
  \/ ReadTransportURL("transport", "transport", "manageTransport")
  \/ ManageSecretConsumerFinalizer("transport", "manageTransport", "notifications")

NotificationsURL ==
  \/ bus /\ ReadTransportURL("notifications", "notifications", "manageNotifications")
  \/ ManageSecretConsumerFinalizer("notifications", "manageNotifications", "config")

\* The bus is disabled: its teardown waits for the end of the reconcile.
NotificationsDisabled ==
  /\ pc = "notifications" /\ ~bus
  /\ Goto("config")
  /\ UNCHANGED <<envVars, crVars, fin, config, podVars, memVars>>

\* Render the configuration; every credential's Secret must be readable.
GenerateServiceSecrets ==
  /\ pc = "config"
  /\ \A s \in Slot : <<s, cur[s]>> \notin revoked
  /\ config' = cur
  /\ Goto("tls")
  /\ UNCHANGED <<envVars, crVars, fin, podVars, memVars>>

\* All TLS inputs are there, or one is NotFound.  In the second case
\* reconcileInit returns an empty Result and no error, so reconcileNormal
\* goes on to the Deployments with the input hash of an earlier reconcile.
ValidateTLS ==
  /\ pc = "tls"
  /\ \/ Goto("hash") /\ UNCHANGED tls
     \/ hash # Absent /\ tls' = FALSE /\ Goto("deploy")
  /\ UNCHANGED <<envVars, crVars, fin, config, podVars, cur, st, hash, bus,
                 patched, checked, rolled>>

CreateHashOfInputHashes ==
  /\ pc = "hash"
  /\ hash' = cur
  /\ Goto("manageAC")
  /\ UNCHANGED <<envVars, crVars, fin, config, podVars, cur, st, bus, tls,
                 patched, checked, rolled>>

ManageACFinalizer == ManageSecretConsumerFinalizer("ac", "manageAC", "deploy")

\* CreateOrPatch of one Deployment with the input hash.
PatchDeployment(d) ==
  /\ pc = "deploy" /\ d \notin patched /\ Before(d) \subseteq checked
  /\ depl' = [depl EXCEPT ![d] = hash]
  /\ patched' = patched \cup {d}
  /\ UNCHANGED <<envVars, crVars, fin, config, pods, pc, cur, st, hash, bus, tls,
                 checked, rolled>>

\* Generation gate and IsReadyForInput.  The gate can only withhold the
\* readiness that the second call finds.
CheckDeployment(d) ==
  /\ pc = "deploy" /\ d \in patched \ checked
  /\ checked' = checked \cup {d}
  /\ rolled' = IF RolledOut(d) /\ depl[d] = hash THEN rolled \cup {d} ELSE rolled
  /\ Goto(IF checked' = Deployments THEN "finTransport" ELSE "deploy")
  /\ UNCHANGED <<envVars, crVars, fin, config, podVars, cur, st, hash, bus, tls,
                 patched>>

FinalizeSecretRotation(s, here, next) ==
  /\ pc = here
  /\ fin' = fin \ Released(s, st[s], cur[s], GuardReady)
  /\ st' = [st EXCEPT ![s] = Finalized(@, cur[s], GuardReady)]
  /\ Goto(next)
  /\ UNCHANGED <<envVars, crVars, config, podVars, cur, hash, bus, tls,
                 patched, checked, rolled>>

FinalizeTransport == FinalizeSecretRotation("transport", "finTransport", "finNotifications")
FinalizeNotifications ==
  bus /\ FinalizeSecretRotation("notifications", "finNotifications", "finAC")
FinalizeAC == FinalizeSecretRotation("ac", "finAC", "pruneTransport")

\* Faulty: the bus is torn down as soon as it is disabled.
ReleaseAtOnce ==
  /\ pc = "finNotifications" /\ ~bus
  /\ IF st["notifications"] # None
     THEN /\ fin' = fin \ {<<"notifications", st["notifications"]>>}
          /\ Goto("deleteBus")
     ELSE UNCHANGED fin /\ Goto("finAC")
  /\ UNCHANGED <<envVars, crVars, config, podVars, memVars>>

\* Bus disabled: release the notifications Secret once the guard holds.
ReleaseNotifications ==
  /\ pc = "finNotifications" /\ ~bus
  /\ IF st["notifications"] # None /\ GuardReady
     THEN /\ fin' = fin \ {<<"notifications", st["notifications"]>>}
          /\ Goto("deleteBus")
     ELSE UNCHANGED fin /\ Goto("finAC")
  /\ UNCHANGED <<envVars, crVars, config, podVars, memVars>>

\* transportURLDeleted, then forget the name.
DeleteNotificationsURL ==
  /\ pc = "deleteBus"
  /\ src' = [src EXCEPT !["notifications"] = None]
  /\ st' = [st EXCEPT !["notifications"] = None]
  /\ Goto("finAC")
  /\ UNCHANGED <<busOn, revoked, base, crVars, fin, config, podVars, cur, hash,
                 bus, tls, patched, checked, rolled>>

\* Faulty: prune keeps only what the status names.
KeptStatusOnly(slots) == {<<s, st[s]>> : s \in slots}

\* PruneSecretConsumerFinalizers: drop the finalizer everywhere else.
Kept(slots) == {<<s, st[s]>> : s \in slots} \cup {<<s, cur[s]>> : s \in slots}
Prune(slots, keep) == {k \in fin : k[1] \in slots => k \in keep}

PruneTransport ==
  /\ pc = "pruneTransport"
  /\ fin' = Prune(TransportSlot, Kept(TransportSlot))
  /\ Goto("pruneAC")
  /\ UNCHANGED <<envVars, crVars, config, podVars, memVars>>

\* The last call of reconcileNormal; Ready becomes True if the guard holds.
PruneACAndReturn ==
  /\ pc = "pruneAC"
  /\ fin' = Prune({"ac"}, Kept({"ac"}))
  /\ Return(GuardReady)
  /\ UNCHANGED <<envVars, config, podVars>>

\* The credential is not issued yet, or its Secret has been revoked since it
\* was read: requeue or fail.
Blocked ==
  \/ pc = "transport" /\ src["transport"] = None
  \/ pc = "manageTransport" /\ <<"transport", cur["transport"]>> \in revoked
  \/ pc = "notifications" /\ bus /\ src["notifications"] = None
  \/ pc = "manageNotifications" /\ <<"notifications", cur["notifications"]>> \in revoked
  \/ pc = "config" /\ \E s \in Slot : <<s, cur[s]>> \in revoked
  \/ pc = "manageAC" /\ <<"ac", cur["ac"]>> \in revoked

ReturnBlocked ==
  /\ Blocked
  /\ Return(FALSE)
  /\ UNCHANGED <<envVars, fin, config, podVars>>

\* Any other return: an input not there yet, a Job or a Deployment in
\* progress, a failed call.  The status reached so far is persisted, with a
\* Ready that mirrors the other conditions: True is possible if all are.
Bail ==
  /\ pc \in NormalPC \cup DeletePC
  /\ \E isReady \in {FALSE, GuardReady} : Return(isReady)
  /\ UNCHANGED <<envVars, fin, config, podVars>>

\* The operator dies, or PatchInstance fails: nothing is persisted.
Crash ==
  /\ pc # "idle"
  /\ Forget
  /\ UNCHANGED <<envVars, crVars, fin, config, podVars>>

-----------------------------------------------------------------------------
(* reconcileDelete                                                         *)

\* Faulty: deletion waits for a transport URL that was never issued.
DelTransportWaits ==
  /\ pc = "delTransport" /\ st["transport"] # None
  /\ fin' = {k \in fin : k[1] \in TransportSlot => k[2] \notin {st[k[1]], src[k[1]]}}
  /\ Goto("delPruneTransport")
  /\ UNCHANGED <<envVars, crVars, config, podVars, memVars>>

\* The names in status and in the live TransportURLs.
DelTransport ==
  /\ pc = "delTransport"
  /\ fin' = {k \in fin : k[1] \in TransportSlot => k[2] \notin {st[k[1]], src[k[1]]}}
  /\ Goto("delPruneTransport")
  /\ UNCHANGED <<envVars, crVars, config, podVars, memVars>>

\* Faulty: deletion releases only the names it knows.
DelPruneNothing ==
  /\ pc = "delPruneTransport"
  /\ Goto("delPruneAC")
  /\ UNCHANGED <<envVars, crVars, fin, config, podVars, memVars>>

DelPruneTransport ==
  /\ pc = "delPruneTransport"
  /\ fin' = Prune(TransportSlot, {})
  /\ Goto("delPruneAC")
  /\ UNCHANGED <<envVars, crVars, config, podVars, memVars>>

DelPruneAC ==
  /\ pc = "delPruneAC"
  /\ fin' = Prune({"ac"}, {})
  /\ Goto("delAC")
  /\ UNCHANGED <<envVars, crVars, config, podVars, memVars>>

DelAC ==
  /\ pc = "delAC"
  /\ fin' = fin \ {<<"ac", st["ac"]>>, <<"ac", cur["ac"]>>}
  /\ Goto("delOwn")
  /\ UNCHANGED <<envVars, crVars, config, podVars, memVars>>

\* Drop the NeutronAPI's own finalizer: the object is gone.
DelOwn ==
  /\ pc = "delOwn"
  /\ crPhase' = "gone" /\ Forget
  /\ UNCHANGED <<envVars, status, ready, inputHash, fin, config, podVars>>

-----------------------------------------------------------------------------
(* Environment                                                             *)

MayRotate(s) == s \in Rotating /\ (Rapid \/ Settled \/ base[s] = Wanted[s])
Rebase == base' = IF Settled /\ ~Rapid THEN Wanted ELSE base

\* The owner of credential s names another Secret, or the user drops the
\* application credential.
Rotate(s, x) ==
  /\ crPhase # "gone"
  /\ MayRotate(s)
  /\ x # src[s] /\ <<s, x>> \notin revoked
  /\ s = "notifications" => busOn
  /\ src' = [src EXCEPT ![s] = x]
  /\ Rebase
  /\ UNCHANGED <<busOn, revoked, crVars, fin, config, podVars, pc, memVars>>

ToggleBus ==
  /\ crPhase # "gone"
  /\ MayRotate("notifications")
  /\ busOn' = ~busOn
  /\ Rebase
  /\ UNCHANGED <<src, revoked, crVars, fin, config, podVars, pc, memVars>>

\* The owner deletes a superseded, unprotected credential.
Revoke(s, x) ==
  /\ s \in Rotating /\ x # src[s]
  /\ <<s, x>> \notin fin \cup revoked
  /\ revoked' = revoked \cup {<<s, x>>}
  /\ UNCHANGED <<src, busOn, base, crVars, fin, config, podVars, pc, memVars>>

DeleteCR ==
  /\ crPhase = "active"
  /\ crPhase' = "deleting"
  /\ UNCHANGED <<envVars, status, ready, inputHash, fin, config, podVars, pc, memVars>>

\* What the NeutronAPI owned is garbage-collected and it is created again.
Recreate ==
  /\ crPhase = "gone"
  /\ crPhase' = "new" /\ status' = NoCreds /\ ready' = FALSE /\ inputHash' = Absent
  /\ src' = IF "transport" \in Rotating THEN NoCreds
             ELSE [NoCreds EXCEPT !["transport"] = src["transport"]]
  /\ base' = NoCreds /\ busOn' = FALSE
  /\ config' = NoCreds
  /\ depl' = [d \in Deployments |-> Absent]
  /\ pods' = [d \in Deployments |-> {}]
  /\ UNCHANGED <<revoked, fin, pc, memVars>>

\* A pod of the current template starts.
StartPod(d) ==
  /\ depl[d] # Absent
  /\ Cardinality(pods[d]) < MaxPods
  /\ pods' = [pods EXCEPT ![d] = @ \cup {[template |-> depl[d], uses |-> config]}]
  /\ UNCHANGED <<envVars, crVars, fin, config, depl, pc, memVars>>

\* A pod of whatever template is replaced or its containers restart.
RestartPod(d, p) ==
  /\ pods' = [pods EXCEPT ![d] = (@ \ {p}) \cup {[p EXCEPT !.uses = config]}]
  /\ UNCHANGED <<envVars, crVars, fin, config, depl, pc, memVars>>

StopPod(d, p) ==
  /\ pods' = [pods EXCEPT ![d] = @ \ {p}]
  /\ UNCHANGED <<envVars, crVars, fin, config, depl, pc, memVars>>

-----------------------------------------------------------------------------

Normal ==
  \/ AddFinalizer \/ Reconcile
  \/ TransportURL \/ NotificationsURL \/ NotificationsDisabled
  \/ GenerateServiceSecrets \/ ValidateTLS \/ CreateHashOfInputHashes \/ ManageACFinalizer
  \/ \E d \in Deployments : PatchDeployment(d) \/ CheckDeployment(d)
  \/ FinalizeTransport \/ FinalizeNotifications \/ ReleaseNotifications
  \/ DeleteNotificationsURL \/ FinalizeAC
  \/ PruneTransport \/ PruneACAndReturn
  \/ ReturnBlocked

Delete == DelTransport \/ DelPruneTransport \/ DelPruneAC \/ DelAC \/ DelOwn

Pods ==
  \E d \in Deployments :
    \/ StartPod(d)
    \/ \E p \in pods[d] : RestartPod(d, p) \/ StopPod(d, p)

Environment ==
  \/ \E s \in Slot, x \in Secret : Rotate(s, x) \/ Revoke(s, x)
  \/ Rotate("ac", None)
  \/ ToggleBus \/ DeleteCR \/ Recreate

Next == Normal \/ Delete \/ Bail \/ Crash \/ Pods \/ Environment

Spec == Init /\ [][Next]_vars

-----------------------------------------------------------------------------
(* Properties                                                              *)

\* The credentials in use by running pods.
InUse == {<<s, p.uses[s]>> : s \in Slot, p \in UNION {pods[d] : d \in Deployments}}

\* No pod of a live NeutronAPI runs with a revoked credential.  This is why
\* the finalizer of the old Secret outlives the rollout (lines 703-705,
\* 1116-1121 and 1647-1659 of the controller).
NoRevokedCredentialInUse == crPhase = "active" => InUse \cap revoked = {}

\* A credential that a pod uses carries the consumer finalizer.  The one
\* exception is the application credential, whose configuration is written
\* before its finalizer is added (lines 582 and 707): there a pod may use it
\* early, but only while it is the one the spec names.
InUseIsProtected ==
  crPhase = "active" =>
    \A k \in InUse : k[2] # None =>
      k \in fin \/ (k[1] = "ac" /\ k[2] = src["ac"])

\* When Ready is True and the status names the wanted Secrets, every pod runs
\* with them: IsReadyForInput looks at the template's hash, not at what the
\* pod mounted, and a pod may have mounted a configuration newer than its
\* template's hash.
ReadyPodsUseWanted ==
  crPhase = "active" /\ Settled =>
    \A k \in InUse : k[2] = Wanted[k[1]]

\* When the notifications TransportURL is about to be deleted no pod uses its
\* Secret (lines 1694-1696).
BusTeardownIsSafe ==
  pc = "deleteBus" /\ crPhase = "active" =>
    <<"notifications", st["notifications"]>> \notin InUse

\* Once the NeutronAPI is gone no Secret keeps a consumer finalizer, which
\* would block its deletion for ever (reconcileDelete).
NoFinalizerLeak == crPhase = "gone" => fin = {}
=============================================================================
