---------------------- MODULE CredentialRotationProofs ----------------------
(***************************************************************************)
(* Theorems about CredentialRotation, for every set of Secrets, every set  *)
(* of Deployments and every number of pods, and for rapid rotations too:   *)
(* the types of the state, the deletion and the agents' Secrets.  Then,    *)
(* towards SerialRotationProofs, the steps of a reconcile that handle      *)
(* credentials.                                                            *)
(***************************************************************************)
EXTENDS SerialRotation, TLAPS

USE DEF envVars, crVars, podVars, memVars, vars

\* TypeOK is inductive.
LEMMA TypeStep == TypeOK /\ [Next]_vars => TypeOK'
<1> SUFFICES ASSUME TypeOK, [Next]_vars PROVE TypeOK'
  OBVIOUS
<1> USE DEF TypeOK, Creds, NoCreds, Slot, Key, Pod, NormalPC, DeletePC, TransportSlot
<1>1. CASE AddFinalizer BY <1>1 DEF AddFinalizer
<1>2. CASE Reconcile BY <1>2 DEF Reconcile, Goto
<1>3. CASE TransportURL
  BY <1>3 DEF TransportURL, ReadTransportURL, ManageSecretConsumerFinalizer, Goto
<1>4. CASE NotificationsURL
  BY <1>4 DEF NotificationsURL, ReadTransportURL, ManageSecretConsumerFinalizer, Goto
<1>5. CASE NotificationsDisabled BY <1>5 DEF NotificationsDisabled, Goto
<1>6. CASE GenerateServiceSecrets BY <1>6 DEF GenerateServiceSecrets, Goto
<1>7. CASE ValidateTLS
  <2>1. CASE pc' = "hash" /\ UNCHANGED tls
    BY <1>7, <2>1 DEF ValidateTLS, Goto
  <2>2. CASE pc' = "deploy" /\ tls' = FALSE
    BY <1>7, <2>2 DEF ValidateTLS, Goto
  <2> QED BY <1>7, <2>1, <2>2 DEF ValidateTLS, Goto
<1>8. CASE CreateHashOfInputHashes BY <1>8 DEF CreateHashOfInputHashes, Goto
<1>9. CASE ManageACFinalizer
  BY <1>9 DEF ManageACFinalizer, ManageSecretConsumerFinalizer, Goto
<1>10. ASSUME NEW d \in Deployments, PatchDeployment(d) PROVE TypeOK'
  BY <1>10 DEF PatchDeployment
<1>11. ASSUME NEW d \in Deployments, CheckDeployment(d) PROVE TypeOK'
  BY <1>11 DEF CheckDeployment, Goto
<1>12. CASE FinalizeTransport
  BY <1>12 DEF FinalizeTransport, FinalizeSecretRotation, Released, Finalized, Goto
<1>13. CASE FinalizeNotifications
  BY <1>13 DEF FinalizeNotifications, FinalizeSecretRotation, Released, Finalized, Goto
<1>14. CASE ReleaseNotifications BY <1>14 DEF ReleaseNotifications, Goto
<1>15. CASE DeleteNotificationsURL BY <1>15 DEF DeleteNotificationsURL, Goto
<1>16. CASE FinalizeAC
  BY <1>16 DEF FinalizeAC, FinalizeSecretRotation, Released, Finalized, Goto
<1>17. CASE PruneTransport BY <1>17 DEF PruneTransport, Prune, Goto
<1>18. CASE PruneACAndReturn BY <1>18 DEF PruneACAndReturn, Prune, Return, Forget, GuardReady
<1>19. CASE ReturnBlocked BY <1>19 DEF ReturnBlocked, Return, Forget
<1>20. CASE Delete
  <2>1. CASE DelTransport BY <2>1 DEF DelTransport, Goto
  <2>2. CASE DelPruneTransport BY <2>2 DEF DelPruneTransport, Prune, Goto
  <2>3. CASE DelPruneAC BY <2>3 DEF DelPruneAC, Prune, Goto
  <2>4. CASE DelAC BY <2>4 DEF DelAC, Goto
  <2>5. CASE DelOwn BY <2>5 DEF DelOwn, Forget
  <2> QED BY <1>20, <2>1, <2>2, <2>3, <2>4, <2>5 DEF Delete
<1>21. CASE Bail BY <1>21 DEF Bail, Return, Forget, GuardReady
<1>22. CASE Crash BY <1>22 DEF Crash, Forget
<1>23. ASSUME NEW d \in Deployments, StartPod(d) PROVE TypeOK'
  BY <1>23 DEF StartPod
<1>24. ASSUME NEW d \in Deployments, NEW p \in pods[d], RestartPod(d, p) PROVE TypeOK'
  BY <1>24 DEF RestartPod
<1>25. ASSUME NEW d \in Deployments, NEW p \in pods[d], StopPod(d, p) PROVE TypeOK'
  BY <1>25 DEF StopPod
<1>26. ASSUME NEW s \in Slot, NEW x \in Secret \cup {None}, Rotate(s, x) PROVE TypeOK'
  BY <1>26 DEF Rotate, Rebase, Wanted
<1>27. ASSUME NEW s \in Slot, NEW x \in Secret, Revoke(s, x) PROVE TypeOK'
  BY <1>27 DEF Revoke
<1>28. CASE ToggleBus BY <1>28 DEF ToggleBus, Rebase, Wanted
<1>29. CASE DeleteCR BY <1>29 DEF DeleteCR
<1>30. CASE Recreate BY <1>30 DEF Recreate
<1>31. CASE UNCHANGED vars BY <1>31
<1> QED
  BY <1>1, <1>2, <1>3, <1>4, <1>5, <1>6, <1>7, <1>8, <1>9, <1>10, <1>11, <1>12, <1>13,
     <1>14, <1>15, <1>16, <1>17, <1>18, <1>19, <1>20, <1>21, <1>22, <1>23, <1>24, <1>25,
     <1>26, <1>27, <1>28, <1>29, <1>30, <1>31
     DEF Next, Normal, Pods, Environment
\* The state keeps its types, whatever reconcileNormal and reconcileDelete do.
THEOREM TypeCorrect == Spec => []TypeOK
<1>1. Init => TypeOK
  BY DEF Init, TypeOK, Creds, NoCreds, Slot
<1> QED BY <1>1, TypeStep, PTL DEF Spec

\* LeakInv is inductive: a reconcile of a deleted NeutronAPI takes its
\* finalizer off the transport Secrets, then off the application credential,
\* and only then drops the NeutronAPI's own finalizer.
LEMMA LeakInvStep == TypeOK /\ LeakInv /\ [Next]_vars => LeakInv'
<1> SUFFICES ASSUME TypeOK, LeakInv, [Next]_vars PROVE LeakInv'
  OBVIOUS
<1> USE DEF LeakInv, DeletePC, NormalPC, TransportSlot
<1>1. CASE AddFinalizer BY <1>1 DEF AddFinalizer
<1>2. CASE Reconcile BY <1>2 DEF Reconcile, Goto
<1>3. CASE TransportURL
  BY <1>3 DEF TransportURL, ReadTransportURL, ManageSecretConsumerFinalizer, Goto
<1>4. CASE NotificationsURL
  BY <1>4 DEF NotificationsURL, ReadTransportURL, ManageSecretConsumerFinalizer, Goto
<1>5. CASE NotificationsDisabled BY <1>5 DEF NotificationsDisabled, Goto
<1>6. CASE GenerateServiceSecrets BY <1>6 DEF GenerateServiceSecrets, Goto
<1>7. CASE ValidateTLS BY <1>7 DEF ValidateTLS, Goto
<1>8. CASE CreateHashOfInputHashes BY <1>8 DEF CreateHashOfInputHashes, Goto
<1>9. CASE ManageACFinalizer
  BY <1>9 DEF ManageACFinalizer, ManageSecretConsumerFinalizer, Goto
<1>10. ASSUME NEW d \in Deployments, PatchDeployment(d) PROVE LeakInv'
  BY <1>10 DEF PatchDeployment
<1>11. ASSUME NEW d \in Deployments, CheckDeployment(d) PROVE LeakInv'
  BY <1>11 DEF CheckDeployment, Goto
<1>12. CASE FinalizeTransport \/ FinalizeNotifications \/ FinalizeAC
  BY <1>12 DEF FinalizeTransport, FinalizeNotifications, FinalizeAC, FinalizeSecretRotation, Goto
<1>13. CASE ReleaseNotifications BY <1>13 DEF ReleaseNotifications, Goto
<1>14. CASE DeleteNotificationsURL BY <1>14 DEF DeleteNotificationsURL, Goto
<1>15. CASE PruneTransport BY <1>15 DEF PruneTransport, Goto
<1>16. CASE PruneACAndReturn BY <1>16 DEF PruneACAndReturn, Return, Forget
<1>17. CASE ReturnBlocked \/ Bail
  BY <1>17 DEF ReturnBlocked, Bail, Blocked, Return, Forget
<1>18. CASE Crash BY <1>18 DEF Crash, Forget
<1>19. CASE DelTransport BY <1>19 DEF DelTransport, Goto
<1>20. CASE DelPruneTransport BY <1>20 DEF DelPruneTransport, Prune, Goto
<1>21. CASE DelPruneAC
  <2>1. \A k \in fin : k[1] = "ac"
    BY <1>21 DEF DelPruneAC, TypeOK, Key, Slot
  <2> QED BY <1>21, <2>1 DEF DelPruneAC, Prune, Goto
<1>22. CASE DelAC BY <1>22 DEF DelAC, Goto
<1>23. CASE DelOwn BY <1>23 DEF DelOwn, Forget
<1>24. CASE Pods BY <1>24 DEF Pods, StartPod, RestartPod, StopPod
<1>25. CASE Environment
  BY <1>25 DEF Environment, Rotate, Revoke, ToggleBus, DeleteCR, Recreate
<1>26. CASE UNCHANGED vars BY <1>26
<1> QED
  BY <1>1, <1>2, <1>3, <1>4, <1>5, <1>6, <1>7, <1>8, <1>9, <1>10, <1>11, <1>12, <1>13,
     <1>14, <1>15, <1>16, <1>17, <1>18, <1>19, <1>20, <1>21, <1>22, <1>23, <1>24, <1>25,
     <1>26 DEF Next, Normal, Delete

\* No consumer finalizer outlives the NeutronAPI, whatever the owners of the
\* credentials and the pods did before (reconcileDelete).
THEOREM NoLeak == Spec => []NoFinalizerLeak
<1>1. Init => LeakInv
  BY DEF Init, LeakInv, DeletePC, TransportSlot
<1>2. LeakInv => NoFinalizerLeak
  BY DEF LeakInv, NoFinalizerLeak
<1> QED BY <1>1, <1>2, LeakInvStep, TypeCorrect, PTL DEF Spec

-----------------------------------------------------------------------------
(* The agents' Secrets                                                     *)

\* Where the finalizer is on the current transport URL, and where the agents'
\* Secrets embed it.
ManagedPC == NormalPC \ {"transport", "manageTransport"}
WrittenPC == ManagedPC \ {"notifications", "manageNotifications", "config"}

AgentsKept ==
  /\ pc \in ManagedPC /\ cur["transport"] # None => <<"transport", cur["transport"]>> \in fin
  /\ \A a \in Agent : agents[a] # None => <<"transport", agents[a]>> \in fin
  /\ pc = "config" /\ done > 0 => agents["sriov"] \in {None, cur["transport"]}
  /\ pc = "config" /\ done > 1 => agents["dhcp"] \in {None, cur["transport"]}
  /\ pc \in WrittenPC => \A a \in Agent : agents[a] \in {None, cur["transport"]}

AgentInv ==
  /\ agents \in [Agent -> Secret \cup {None}] /\ done \in 0..2
  /\ pc # "config" => done = 0
  /\ crPhase \in {"new", "active"} => AgentsKept

\* What a step does to the transport finalizers of a live NeutronAPI: it
\* takes them off superseded Secrets only, and only once the agents' Secrets
\* are written.
KeepsTransport ==
  /\ \A x \in Secret : <<"transport", x>> \in fin \ fin' =>
       pc \in WrittenPC /\ x # cur["transport"]
  /\ pc' \in ManagedPC =>
       /\ cur'["transport"] = cur["transport"]
       /\ pc \notin ManagedPC /\ cur["transport"] # None => <<"transport", cur["transport"]>> \in fin'
  /\ pc' \in WrittenPC /\ pc \notin WrittenPC => pc = "config" /\ pc' = "tls"
  /\ crPhase \notin {"new", "active"} => crPhase = "gone" /\ crPhase' = "new" /\ pc' = "idle"

\* While the NeutronAPI lives its transport is kept.
LEMMA TransportKept ==
  ASSUME TypeOK, LeakInv, [Next]_vars, crPhase' \in {"new", "active"}
  PROVE  KeepsTransport
<1> USE DEF KeepsTransport, ManagedPC, WrittenPC, NormalPC
<1>1. CASE AddFinalizer \/ Reconcile
  BY <1>1 DEF AddFinalizer, Reconcile, Goto
<1>2. CASE TransportURL
  BY <1>2 DEF TransportURL, ReadTransportURL, ManageSecretConsumerFinalizer, Goto, LeakInv
<1>3. CASE NotificationsURL \/ NotificationsDisabled
  BY <1>3 DEF NotificationsURL, NotificationsDisabled, ReadTransportURL,
     ManageSecretConsumerFinalizer, Goto, LeakInv, TypeOK, Creds, Slot
<1>4. CASE GenerateServiceSecrets \/ ValidateTLS \/ CreateHashOfInputHashes
  BY <1>4 DEF GenerateServiceSecrets, ValidateTLS, CreateHashOfInputHashes, Goto, LeakInv
<1>5. CASE ManageACFinalizer
  BY <1>5 DEF ManageACFinalizer, ManageSecretConsumerFinalizer, Goto, LeakInv
<1>6. ASSUME NEW d \in Deployments, PatchDeployment(d) \/ CheckDeployment(d)
      PROVE  KeepsTransport
  BY <1>6 DEF PatchDeployment, CheckDeployment, Goto, LeakInv
<1>7. CASE FinalizeTransport \/ FinalizeNotifications \/ FinalizeAC
  BY <1>7 DEF FinalizeTransport, FinalizeNotifications, FinalizeAC, FinalizeSecretRotation,
     Released, Goto, LeakInv
<1>8. CASE ReleaseNotifications \/ DeleteNotificationsURL
  BY <1>8 DEF ReleaseNotifications, DeleteNotificationsURL, Goto, LeakInv
<1>9. CASE PruneTransport
  BY <1>9 DEF PruneTransport, Prune, Kept, TransportSlot, Goto, LeakInv
<1>10. CASE PruneACAndReturn
  BY <1>10 DEF PruneACAndReturn, Prune, Return, Forget, LeakInv
<1>11. CASE ReturnBlocked \/ Bail \/ Crash
  <2>1. UNCHANGED <<fin, crPhase>> /\ pc' = "idle"
    BY <1>11 DEF ReturnBlocked, Bail, Crash, Return, Forget
  <2>2. crPhase # "gone"
    BY <1>11, <2>1
  <2> QED BY <2>1, <2>2
<1>12. CASE Delete
  <2>1. crPhase = "deleting" /\ crPhase' \in {crPhase, "gone"}
    BY <1>12 DEF Delete, DelTransport, DelPruneTransport, DelPruneAC, DelAC, DelOwn, LeakInv,
       DeletePC
  <2> QED BY <2>1
<1>13. CASE Pods
  BY <1>13 DEF Pods, StartPod, RestartPod, StopPod
<1>14. CASE Environment
  <2>1. UNCHANGED <<fin, pc, cur>>
    BY <1>14 DEF Environment, Rotate, Revoke, ToggleBus, DeleteCR, Recreate
  <2>2. crPhase \notin {"new", "active"} => crPhase = "gone" /\ crPhase' = "new"
    BY <1>14 DEF Environment, Rotate, Revoke, ToggleBus, DeleteCR, Recreate
  <2> QED BY <2>1, <2>2 DEF LeakInv
<1>15. CASE UNCHANGED vars
  BY <1>15
<1> QED
  BY <1>1, <1>2, <1>3, <1>4, <1>5, <1>6, <1>7, <1>8, <1>9, <1>10, <1>11, <1>12, <1>13,
     <1>14, <1>15 DEF Next, Normal

\* Every step keeps the invariant of the agents.
LEMMA AgentStep ==
  TypeOK /\ TypeOK' /\ LeakInv /\ AgentInv /\ [AgentsNext]_<<vars, agentVars>> => AgentInv'
<1> SUFFICES ASSUME TypeOK, TypeOK', LeakInv, AgentInv, [AgentsNext]_<<vars, agentVars>>
             PROVE  AgentInv'
  OBVIOUS
<1>1. CASE ReconcileAgent
  <2>1. /\ UNCHANGED vars /\ pc = "config" /\ done' = done + 1
        /\ \E x \in {None, cur["transport"]} :
             \/ done = 0 /\ agents' = [agents EXCEPT !["sriov"] = x]
             \/ done = 1 /\ agents' = [agents EXCEPT !["dhcp"] = x]
    <3>1. Len(Agents) = 2 /\ Agents[1] = "sriov" /\ Agents[2] = "dhcp"
      BY DEF Agents
    <3>2. done \in {0, 1}
      BY <1>1, <3>1 DEF ReconcileAgent, AgentInv
    <3>3. /\ done = 0 => Agents[done + 1] = "sriov"
          /\ done = 1 => Agents[done + 1] = "dhcp"
      BY <3>1
    <3> DEFINE x == IF <<"transport", cur["transport"]>> \in revoked
                    THEN None ELSE cur["transport"]
    <3>4. /\ UNCHANGED vars /\ pc = "config" /\ done' = done + 1
          /\ agents' = [agents EXCEPT ![Agents[done + 1]] = x]
      BY <1>1 DEF ReconcileAgent
    <3>5. x \in {None, cur["transport"]}
      OBVIOUS
    <3> HIDE DEF x
    <3> QED BY <3>2, <3>3, <3>4, <3>5
  <2> QED BY <2>1 DEF AgentInv, AgentsKept, Agent, ManagedPC, WrittenPC, NormalPC, TypeOK, Creds, Slot
<1>2. CASE WithAgents(Next)
  <2>1. /\ agents' \in [Agent -> Secret \cup {None}] /\ done' \in 0..2
        /\ pc' # "config" => done' = 0
    BY <1>2 DEF WithAgents, AgentInv, NoAgents
  <2> SUFFICES ASSUME crPhase' \in {"new", "active"} PROVE AgentsKept'
    BY <2>1 DEF AgentInv
  <2>2. KeepsTransport
    BY <1>2, TransportKept DEF WithAgents
  <2>3. CASE crPhase = "gone" /\ crPhase' = "new" /\ pc' = "idle"
    <3>1. agents' = NoAgents
      BY <1>2, <2>3 DEF WithAgents
    <3> QED BY <2>3, <3>1 DEF AgentsKept, NoAgents, ManagedPC, WrittenPC, NormalPC
  <2>4. CASE crPhase \in {"new", "active"}
    <3>1. AgentsKept /\ agents' = agents
      BY <1>2, <2>4 DEF AgentInv, WithAgents
    <3>2. pc' = "config" => (done' = done /\ (pc = "config" \/ done = 0))
      BY <1>2 DEF WithAgents, AgentInv
    <3>3. pc' \in WrittenPC => \A a \in Agent : agents[a] \in {None, cur'["transport"]}
      <4>1. pc = "config" /\ pc' = "tls" => done = 2
        BY <1>2 DEF WithAgents, Agents
      <4> QED BY <2>2, <3>1, <4>1 DEF AgentsKept, KeepsTransport, WrittenPC, Agent
    <3>4. \A a \in Agent : agents[a] # None => <<"transport", agents[a]>> \in fin'
      BY <2>2, <3>1 DEF AgentsKept, KeepsTransport, AgentInv
    <3>5. pc' \in ManagedPC /\ cur'["transport"] # None =>
            <<"transport", cur'["transport"]>> \in fin'
      BY <2>2, <3>1 DEF AgentsKept, KeepsTransport, TypeOK, Creds, Slot
    <3>6. pc' = "config" => cur'["transport"] = cur["transport"]
      BY <2>2 DEF KeepsTransport, ManagedPC, NormalPC
    <3> QED BY <3>1, <3>2, <3>3, <3>4, <3>5, <3>6 DEF AgentsKept
  <2> QED BY <2>2, <2>3, <2>4 DEF KeepsTransport
<1>3. CASE UNCHANGED <<vars, agentVars>>
  BY <1>3 DEF AgentInv, AgentsKept, agentVars
<1> QED BY <1>1, <1>2, <1>3 DEF AgentsNext

\* The credential in an agent's Secret stays protected, through any number of
\* rapid rotations, crashes and failed reconciles (lines 1116-1121, 1242).
THEOREM AgentsProtected == AgentsSpec => []AgentsAreProtected
<1>1. AgentsSpec => Spec
  <2>1. AgentsInit => Init
    BY DEF AgentsInit
  <2>2. [AgentsNext]_<<vars, agentVars>> => [Next]_vars
    BY DEF AgentsNext, ReconcileAgent, WithAgents
  <2> QED BY <2>1, <2>2, PTL DEF AgentsSpec, Spec
<1>2. AgentsSpec => [](TypeOK /\ LeakInv)
  <2>1. Init => LeakInv
    BY DEF Init, LeakInv, DeletePC, TransportSlot
  <2> QED BY <1>1, <2>1, LeakInvStep, TypeCorrect, PTL DEF Spec
<1>3. AgentsInit => AgentInv
  BY DEF AgentsInit, Init, NoAgents, AgentInv, AgentsKept, ManagedPC, WrittenPC, NormalPC
<1>4. AgentInv => AgentsAreProtected
  BY DEF AgentInv, AgentsKept, AgentsAreProtected
<1> QED BY <1>2, <1>3, <1>4, AgentStep, PTL DEF AgentsSpec

-----------------------------------------------------------------------------
(* Serial rotations: the steps of a reconcile that read, use, replace or   *)
(* release a credential keep SerialInv, and so does a pod that restarts.   *)

HIDE DEF vars

\* All Deployments have rolled out a value that is not the old one: the
\* guard of the rotation (lines 1647-1659) means what its comment says.
LEMMA RolloutDone ==
  ASSUME SerialInv, pc \in AfterDeploy, GuardReady, NEW s \in Slot, cur[s] # base[s]
  PROVE  Done(s)
<1> USE DEF NormalPC, AfterDeploy, AfterManageAC, AfterHash, AfterConfig, SerialInv
<1>1. cur[s] = Wanted[s]
  BY DEF ValueInv, ValueAt, OldOrNew, Will, Unread
<1>2. config[s] = Wanted[s]
  BY <1>1 DEF PassInv
<1>3. \A d \in Deployments : \A p \in pods[d] : p.template[s] = Wanted[s]
  BY <1>1 DEF PassInv, GuardReady
<1>4. \A d \in Deployments : \A p \in pods[d] : p.uses[s] = Wanted[s]
  BY <1>1, <1>3 DEF FreshInv, FreshAt
<1> QED BY <1>1, <1>2, <1>4 DEF Done

USE DEF NormalPC, DeletePC, AfterDeploy, AfterManageAC, AfterHash, AfterConfig,
        AfterManageNotifications, AfterManageTransport, Slot, TransportSlot,
        envVars, crVars, podVars, memVars, Known

\* A reconcile starts: it will work with the wanted credentials.
LEMMA ReconcileStep == ASSUME Known, Reconcile PROVE SerialInv'
<1> USE DEF Reconcile, Goto, NoCreds, SerialInv
<1>1. Wanted' = Wanted
  BY DEF Wanted
<1>2. /\ Wanted["transport"] = src["transport"] /\ Wanted["ac"] = src["ac"]
      /\ Wanted["notifications"] = IF busOn THEN src["notifications"] ELSE None
  BY DEF Wanted, TypeOK, Creds
<1>3. pc' \in NormalPC => \A s \in Slot : Will(s)' = Wanted[s]
  BY <1>2 DEF Will, Unread
<1>4. ValueInv' /\ FreshInv' /\ SettledInv'
  <2> HIDE DEF NormalPC, Slot
  <2>1. ValueInv'
    BY <1>1, <1>3 DEF ValueInv, ValueAt, OldOrNew
  <2>2. FreshInv'
    BY <1>1, <1>3 DEF FreshInv, FreshAt
  <2>3. SettledInv'
    BY <1>1, <1>3 DEF SettledInv, Settled, Live
  <2> QED BY <2>1, <2>2, <2>3
<1>5. PassInv' /\ ManagedInv' /\ FinalizedInv' /\ BusInv' /\ ProtectInv' /\ NewInv' /\ NamedInv'
  <2>1. PassInv' /\ FinalizedInv'
    BY DEF PassInv, FinalizedInv, GuardReady, Unread
  <2>2. ManagedInv' /\ BusInv'
    BY DEF ManagedInv, BusInv, Live, TypeOK
  <2> HIDE DEF NormalPC, Slot
  <2>3. ProtectInv'
    BY <1>1 DEF ProtectInv, Done, Live
  <2>4. NewInv' /\ NamedInv'
    BY <1>1 DEF NewInv, NamedInv, Live
  <2> QED BY <2>1, <2>2, <2>3, <2>4
<1> QED BY <1>4, <1>5

\* Reading a TransportURL gives the value that Will foretold.
LEMMA ReadStep ==
  ASSUME Known, NEW r, NEW here, NEW next, ReadTransportURL(r, here, next),
         \/ r = "transport" /\ here = "transport" /\ next = "manageTransport"
         \/ bus /\ r = "notifications" /\ here = "notifications" /\ next = "manageNotifications"
  PROVE  SerialInv'
<1> USE DEF ReadTransportURL, Goto, SerialInv
<1>1. Wanted' = Wanted
  BY DEF Wanted
<1>2. \A s \in Slot : Will(s)' = Will(s)
  BY DEF Will, Unread, TypeOK, Creds
<1>3. \A s \in Slot : st'[s] = st[s] \/ (s = r /\ st[s] = None /\ st'[s] = Will(s))
  BY DEF TypeOK, Creds, Will, Unread
<1>4. ValueInv' /\ FreshInv'
  <2>1. pc \in NormalPC /\ pc # "idle"
    OBVIOUS
  <2> HIDE DEF NormalPC, Slot
  <2>2. ValueInv'
    BY <1>1, <1>2, <1>3, <2>1 DEF ValueInv, ValueAt, OldOrNew
  <2>3. FreshInv'
    BY <1>1, <1>2, <1>3, <2>1 DEF FreshInv, FreshAt
  <2> QED BY <2>2, <2>3
<1>5. SettledInv'
  <2>1. ASSUME Settled PROVE st' = st
    <3>1. st = Wanted /\ \A s \in Slot : Will(s) = Wanted[s]
      BY <2>1 DEF SettledInv
    <3>2. \A s \in Slot : st'[s] = st[s]
      BY <1>3, <3>1
    <3> QED BY <3>2 DEF TypeOK, Creds
  <2> QED BY <1>1, <1>2, <2>1 DEF SettledInv, Settled, Live
<1>6. PassInv' /\ ManagedInv' /\ FinalizedInv' /\ BusInv'
  BY DEF PassInv, ManagedInv, FinalizedInv, GuardReady, Unread, BusInv, Live, TypeOK, Creds
<1>7. ProtectInv' /\ NewInv' /\ NamedInv'
  <2>1. pc # "idle"
    OBVIOUS
  <2> HIDE DEF NormalPC, Slot
  <2>2. ProtectInv'
    BY <1>1, <1>3, <2>1 DEF ProtectInv, Done, Live
  <2>3. NewInv' /\ NamedInv'
    BY <1>1 DEF NewInv, NamedInv, Live
  <2> QED BY <2>2, <2>3
<1> QED BY <1>4, <1>5, <1>6, <1>7

\* The configuration takes over the values of the reconcile.
LEMMA ConfigStep == ASSUME Known, GenerateServiceSecrets PROVE SerialInv'
<1> USE DEF GenerateServiceSecrets, Goto, SerialInv
<1>1. Wanted' = Wanted
  BY DEF Wanted
<1>2. \A s \in Slot : Will(s) = cur[s] /\ Will(s)' = cur[s]
  BY DEF Will, Unread
<1>3. ValueInv' /\ FreshInv' /\ ProtectInv'
  <2>1. pc \in NormalPC /\ pc # "idle"
    OBVIOUS
  <2> HIDE DEF NormalPC, Slot
  <2>2. ValueInv'
    BY <1>1, <1>2, <2>1 DEF ValueInv, ValueAt, OldOrNew
  <2>3. FreshInv'
    BY <1>1, <1>2, <2>1 DEF FreshInv, FreshAt
  <2>4. ASSUME NEW s \in Slot, Done(s) PROVE Done(s)'
    BY <1>1, <1>2, <2>1, <2>4 DEF Done, FreshInv, FreshAt
  <2>5. ProtectInv'
    BY <2>1, <2>4 DEF ProtectInv, Live
  <2> QED BY <2>2, <2>3, <2>5
<1>4. SettledInv'
  <2>1. ASSUME Settled PROVE cur = Wanted
    <3>1. \A s \in Slot : cur[s] = Wanted[s]
      BY <1>2, <2>1 DEF SettledInv
    <3>2. cur \in [Slot -> Secret \cup {None}] /\ Wanted \in [Slot -> Secret \cup {None}]
      BY DEF TypeOK, Creds, Wanted
    <3> QED BY ONLY <3>1, <3>2
  <2> QED BY <1>1, <1>2, <2>1 DEF SettledInv, Settled, Live
<1>5. NewInv'
  BY <1>1 DEF NewInv, Live, ManagedInv
<1>6. PassInv' /\ ManagedInv' /\ FinalizedInv' /\ BusInv' /\ NamedInv'
  BY DEF PassInv, ManagedInv, FinalizedInv, GuardReady, Unread, BusInv, NamedInv, Live, TypeOK
<1> QED BY <1>3, <1>4, <1>5, <1>6

\* The end of a rotation: what FinalizeSecretRotation releases is done with.
LEMMA FinalizeStep ==
  ASSUME Known, NEW r, NEW here, NEW next, FinalizeSecretRotation(r, here, next),
         \/ r = "transport" /\ here = "finTransport" /\ next = "finNotifications"
         \/ bus /\ r = "notifications" /\ here = "finNotifications" /\ next = "finAC"
         \/ r = "ac" /\ here = "finAC" /\ next = "pruneTransport"
  PROVE  SerialInv'
<1> USE DEF FinalizeSecretRotation, Finalized, Released, Goto, SerialInv
<1>1. Wanted' = Wanted
  BY DEF Wanted
<1>2. \A s \in Slot : Will(s) = cur[s] /\ Will(s)' = cur[s]
  BY DEF Will, Unread
<1>3. \A s \in Slot : st'[s] = st[s] \/ (s = r /\ st'[s] = cur[s] /\ (GuardReady \/ st[s] = None))
  BY DEF TypeOK, Creds
<1>4. \A k : k \in fin \ fin' => GuardReady /\ k = <<r, st[r]>> /\ st[r] # cur[r]
  OBVIOUS
<1>5. GuardReady /\ base[r] # None /\ st[r] # cur[r] => Done(r) /\ cur[r] # base[r]
  BY RolloutDone DEF ProtectInv, Done, PassInv
<1>6. ValueInv' /\ FreshInv'
  <2>1. /\ pc \in NormalPC /\ pc # "idle"
        /\ UNCHANGED <<base, config, inputHash, status, hash, depl, pods, cur>>
    OBVIOUS
  <2> HIDE DEF NormalPC, Slot, FinalizeSecretRotation, Finalized, Released, Goto
  <2>2. ValueInv'
    <3> SUFFICES ASSUME NEW s \in Slot PROVE ValueAt(s)'
      BY DEF ValueInv
    <3>1. ValueAt(s) /\ OldOrNew(s, cur[s])
      BY <1>2, <2>1 DEF ValueInv, ValueAt
    <3>2. OldOrNew(s, st'[s])
      BY <1>3, <2>1, <3>1 DEF ValueAt
    <3> QED BY <1>1, <1>2, <2>1, <3>1, <3>2 DEF ValueAt, OldOrNew
  <2>3. FreshInv'
    BY <1>1, <1>2, <1>3, <2>1 DEF FreshInv, FreshAt
  <2> QED BY <2>2, <2>3
<1>7. PassInv' /\ ManagedInv' /\ FinalizedInv'
  <2>1. PassInv'
    BY DEF PassInv, GuardReady, Unread, TypeOK, Creds
  <2>2. ManagedInv'
    BY DEF ManagedInv, Live
  <2>3. FinalizedInv'
    BY DEF FinalizedInv, GuardReady, TypeOK, Creds
  <2> QED BY <2>1, <2>2, <2>3
<1>8. BusInv'
  BY DEF BusInv, PassInv, ValueInv, ValueAt, OldOrNew, Will, Unread, Wanted, TypeOK, Creds
<1>9. ProtectInv'
  <2>1. \A s \in Slot : Done(s)' <=> Done(s)
    BY <1>1 DEF Done
  <2> SUFFICES ASSUME NEW s \in Slot, base[s] # None
               PROVE  /\ Live => Done(s) \/ (<<s, base[s]>> \in fin' /\ <<s, base[s]>> \notin revoked)
                      /\ status[s] # base[s] => Done(s)
                      /\ st'[s] # base[s] => Done(s)
    BY <2>1 DEF ProtectInv, Live
  <2>2. ASSUME st'[s] # base[s] PROVE Done(s)
    BY <1>3, <1>5, <2>2 DEF ProtectInv
  <2>3. ASSUME Live, <<s, base[s]>> \in fin \ fin' PROVE Done(s)
    BY <1>4, <1>5, <2>3
  <2> QED BY <2>2, <2>3 DEF ProtectInv
<1>10. NewInv' /\ NamedInv'
  BY <1>1 DEF NewInv, NamedInv, Live, PassInv
<1>11. SettledInv'
  <2>1. ASSUME Settled PROVE st' = st /\ fin' = fin
    <3>1. pc \in NormalPC /\ pc # "idle" /\ r \in Slot
      OBVIOUS
    <3>2. st[r] = Wanted[r] /\ cur[r] = Wanted[r]
      <4> HIDE DEF NormalPC, Slot
      <4> QED BY <1>2, <2>1, <3>1 DEF SettledInv
    <3> QED BY <3>2 DEF TypeOK, Creds
  <2> QED BY <1>1, <1>2, <2>1 DEF SettledInv, Settled, Live
<1> QED BY <1>6, <1>7, <1>8, <1>9, <1>10, <1>11

\* The bus is off and its rollout complete: its Secret is done with.
LEMMA ReleaseStep == ASSUME Known, ReleaseNotifications PROVE SerialInv'
<1> USE DEF ReleaseNotifications, Goto, SerialInv
<1>1. Wanted' = Wanted
  BY DEF Wanted
<1>2. cur["notifications"] = None
  BY DEF PassInv
<1>3. GuardReady /\ base["notifications"] # None => Done("notifications")
  BY <1>2, RolloutDone
<1>4. st["notifications"] # None => Wanted["notifications"] = None
  BY DEF BusInv, Wanted, TypeOK, Creds
<1>5. ValueInv' /\ FreshInv' /\ PassInv' /\ FinalizedInv' /\ BusInv' /\ NamedInv'
  <2>1. /\ pc \in NormalPC /\ pc # "idle" /\ pc' # "idle"
        /\ \A s \in Slot : Will(s)' = Will(s)
    BY DEF Will, Unread
  <2>2. PassInv' /\ FinalizedInv'
    BY DEF PassInv, FinalizedInv, GuardReady, Unread
  <2> HIDE DEF NormalPC, Slot
  <2>3. ValueInv'
    BY <1>1, <2>1 DEF ValueInv, ValueAt, OldOrNew
  <2>4. FreshInv'
    BY <1>1, <2>1 DEF FreshInv, FreshAt
  <2>5. BusInv' /\ NamedInv'
    BY <2>1 DEF BusInv, NamedInv
  <2> QED BY <2>2, <2>3, <2>4, <2>5
<1>6. ManagedInv'
  BY <1>2 DEF ManagedInv, Live
<1>7. ProtectInv'
  <2>1. \A s \in Slot : Done(s)' <=> Done(s)
    BY <1>1 DEF Done
  <2> QED BY <1>1, <1>3, <2>1 DEF ProtectInv, Live
<1>8. NewInv' /\ SettledInv'
  BY <1>1, <1>4 DEF NewInv, SettledInv, Settled, Will, Unread, Live
<1> QED BY <1>5, <1>6, <1>7, <1>8

\* Deleting the notifications TransportURL changes nothing that is wanted.
LEMMA DeleteURLStep == ASSUME Known, DeleteNotificationsURL PROVE SerialInv'
<1> USE DEF DeleteNotificationsURL, Goto, SerialInv
<1>1. ~bus /\ GuardReady /\ st["notifications"] # None /\ ~busOn /\ cur["notifications"] = None
  BY DEF PassInv, BusInv
<1>2. Wanted' = Wanted /\ Wanted["notifications"] = None
  BY <1>1 DEF Wanted, TypeOK, Creds
<1>3. (\A s \in Slot : Will(s)' = Will(s)) /\ Will("notifications") = None
  BY <1>1 DEF Will, Unread
<1>4. base["notifications"] # None => Done("notifications")
  BY <1>1, RolloutDone
<1>5. ValueInv' /\ FreshInv'
  <2>1. \A s \in Slot : st'[s] = st[s] \/ (s = "notifications" /\ st'[s] = None)
    BY DEF TypeOK, Creds
  <2>2. /\ pc \in NormalPC /\ pc # "idle"
        /\ UNCHANGED <<base, config, inputHash, status, hash, depl, pods>>
    OBVIOUS
  <2> HIDE DEF NormalPC, Slot, DeleteNotificationsURL, Goto
  <2>3. ValueInv'
    BY <1>2, <1>3, <2>1, <2>2 DEF ValueInv, ValueAt, OldOrNew
  <2>4. FreshInv'
    BY <1>2, <1>3, <2>1, <2>2 DEF FreshInv, FreshAt
  <2> QED BY <2>3, <2>4
<1>6. PassInv' /\ ManagedInv' /\ FinalizedInv' /\ BusInv'
  BY <1>1 DEF PassInv, ManagedInv, FinalizedInv, GuardReady, Unread, BusInv, Live, TypeOK, Creds
<1>7. ProtectInv'
  <2>1. \A s \in Slot : Done(s)' <=> Done(s)
    BY <1>2 DEF Done
  <2> QED BY <1>2, <1>4, <2>1 DEF ProtectInv, Live, TypeOK, Creds
<1>8. NewInv' /\ SettledInv'
  BY <1>1, <1>2 DEF NewInv, SettledInv, Settled, Live
<1>9. NamedInv'
  BY NoneAssumption DEF NamedInv, TypeOK, Creds, Key
<1> QED BY <1>5, <1>6, <1>7, <1>8, <1>9

\* The guard, with the wanted names in the status, means that every pod runs
\* with the wanted credentials.
LEMMA GuardSettles ==
  ASSUME Known, GuardReady, st = Wanted
  PROVE  /\ cur = Wanted /\ config = Wanted /\ hash = Wanted
         /\ \A d \in Deployments :
              depl[d] = Wanted /\ \A p \in pods[d] : p.template = Wanted /\ p.uses = Wanted
         /\ Live => \A s \in Slot : Wanted[s] # None => <<s, Wanted[s]>> \in fin
<1>1. pc \in AfterManageAC /\ tls
  BY DeploymentsAssumption DEF SerialInv, PassInv, GuardReady
<1>2. cur \in [Slot -> Secret \cup {None}] /\ Wanted \in [Slot -> Secret \cup {None}]
  BY DEF TypeOK, Creds, Wanted
<1>3. \A s \in Slot : cur[s] = Wanted[s]
  BY <1>1 DEF SerialInv, ValueInv, ValueAt, OldOrNew, FreshInv, FreshAt, Will, Unread
<1>4. cur = Wanted
  BY ONLY <1>2, <1>3
<1>5. config = Wanted /\ hash = Wanted
  BY <1>1, <1>4 DEF SerialInv, PassInv
<1>6. \A d \in Deployments : depl[d] = Wanted /\ \A p \in pods[d] : p.template = Wanted
  BY <1>5 DEF SerialInv, PassInv, GuardReady
<1>7. ASSUME NEW d \in Deployments, NEW p \in pods[d] PROVE p.uses = Wanted
  <2>1. \A s \in Slot : p.uses[s] = Wanted[s]
    BY <1>6 DEF SerialInv, ValueInv, ValueAt, OldOrNew, FreshInv, FreshAt
  <2>2. p \in Pod
    BY DEF TypeOK
  <2>3. p.uses \in [Slot -> Secret \cup {None}]
    BY <2>2 DEF Pod, Creds
  <2> QED BY ONLY <1>2, <2>1, <2>3
<1>8. Live => \A s \in Slot : Wanted[s] # None => <<s, Wanted[s]>> \in fin
  BY <1>1, <1>4 DEF SerialInv, ManagedInv
<1> QED BY <1>4, <1>5, <1>6, <1>7, <1>8

\* The last step of a reconcile releases what is neither tracked nor wanted.
LEMMA ReturnStep == ASSUME Known, PruneACAndReturn PROVE SerialInv'
<1> USE DEF PruneACAndReturn, Prune, Kept, Return, Forget, SerialInv
<1>1. Wanted' = Wanted
  BY DEF Wanted
<1>2. /\ ValueInv' /\ FreshInv'
      /\ PassInv' /\ ManagedInv' /\ FinalizedInv' /\ BusInv' /\ NamedInv'
  <2>1. ValueInv' /\ FreshInv'
    <3>1. pc # "idle" /\ pc' \notin NormalPC
      OBVIOUS
    <3> HIDE DEF NormalPC, Slot
    <3>2. ValueInv'
      BY <1>1, <3>1 DEF ValueInv, ValueAt, OldOrNew
    <3>3. FreshInv'
      BY <1>1, <3>1 DEF FreshInv, FreshAt
    <3> QED BY <3>2, <3>3
  <2>2. PassInv' /\ ManagedInv' /\ FinalizedInv'
    BY DEF PassInv, ManagedInv, FinalizedInv
  <2>3. BusInv' /\ NamedInv'
    BY DEF BusInv, NamedInv
  <2> QED BY <2>1, <2>2, <2>3
<1>3. ProtectInv' /\ NewInv'
  <2>1. ProtectInv'
    <3>1. \A s \in Slot : Done(s)' <=> Done(s)
      BY <1>1 DEF Done
    <3>2. \A s \in Slot : <<s, base[s]>> \in fin \ fin' /\ base[s] # None => st[s] # base[s]
      OBVIOUS
    <3> QED BY <3>1, <3>2 DEF ProtectInv, Live
  <2>2. NewInv'
    BY <1>1 DEF NewInv, Live, PassInv
  <2> QED BY <2>1, <2>2
<1>4. ASSUME Settled' PROVE SettledInv'
  <2>1. GuardReady /\ st = Wanted
    BY <1>1, <1>4 DEF Settled
  <2>2. Live' => \A s \in Slot : Wanted[s] # None => <<s, Wanted[s]>> \in fin'
    BY <2>1, GuardSettles DEF Live
  <2> QED BY <1>1, <2>1, <2>2, GuardSettles DEF SettledInv
<1> QED BY <1>2, <1>3, <1>4 DEF SettledInv

\* A pod restarts with the configuration of the day.
LEMMA RestartStep ==
  ASSUME Known, NEW e \in Deployments, NEW q \in pods[e], RestartPod(e, q)
  PROVE  SerialInv'
<1> USE DEF RestartPod, SerialInv
<1>1. Wanted' = Wanted
  BY DEF Wanted
<1>2. \A d \in Deployments : \A p \in pods'[d] :
        p \in pods[d] \/ (d = e /\ p.template = q.template /\ p.uses = config)
  BY DEF TypeOK, Pod
<1>3. ValueInv' /\ FreshInv' /\ ProtectInv'
  <2>1. \A s \in Slot : Will(s)' = Will(s)
    BY DEF Will, Unread
  <2> HIDE DEF NormalPC, Slot
  <2>2. ValueInv'
    BY <1>1, <1>2, <2>1 DEF ValueInv, ValueAt, OldOrNew
  <2>3. FreshInv'
    BY <1>1, <1>2, <2>1 DEF FreshInv, FreshAt
  <2>4. ASSUME NEW s \in Slot, Done(s) PROVE Done(s)'
    BY <1>1, <1>2, <2>4 DEF Done
  <2>5. ProtectInv'
    BY <2>4 DEF ProtectInv, Live
  <2> QED BY <2>2, <2>3, <2>5
<1>4. PassInv'
  BY <1>2 DEF PassInv, GuardReady, Unread, TypeOK
<1>5. ManagedInv' /\ FinalizedInv' /\ BusInv' /\ NewInv' /\ NamedInv'
  BY <1>1 DEF ManagedInv, FinalizedInv, GuardReady, BusInv, NewInv, NamedInv, Live
<1>6. SettledInv'
  BY <1>1, <1>2 DEF SettledInv, Settled, Will, Unread, Live
<1> QED BY <1>3, <1>4, <1>5, <1>6
=============================================================================
