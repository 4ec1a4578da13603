------------------------- MODULE PipelinePassProofs -------------------------
(***************************************************************************)
(* Two invariants of ReconcilePipeline that follow a pass from section to  *)
(* section.                                                                *)
(*                                                                         *)
(* SyncedBeforeRollout holds as long as no TLS secret disappears: then no  *)
(* pass takes the short cut of ValidateTLS round the db-sync.              *)
(*                                                                         *)
(* AtRestInv is the invariant for the states in which the controller       *)
(* waits.  It has two kinds of facts: what a pass has done and reported at *)
(* each section, and, while nothing has queued the resource since the pass *)
(* started, that this is still what the spec, the TLS secrets, the image   *)
(* probe and the rollouts call for.  Here the sections up to the           *)
(* Deployments; PipelineAtRestProofs has the rest.                         *)
(***************************************************************************)
EXTENDS ReadyHonestProofs

\* Sections behind the TLS inputs.
AfterTLS == {"hash"} \cup AfterHash \cup Late

SyncedInv ==
    /\ tls = TRUE
    /\ pc \in AfterTLS => run.cond["TLS"] = "True"
    /\ SyncedBeforeRollout

AllInv == TypeInv /\ HonestInv /\ SyncedInv

\* A step that neither patches a Deployment nor reaches AfterTLS anew.
Kept ==
    /\ tls' = tls /\ synced \subseteq synced'
    /\ \A d \in Deployments : depl'[d] = depl[d] \/ depl'[d] = Absent
    /\ \/ pc' \notin AfterTLS
       \/ pc \in AfterTLS /\ run'.cond["TLS"] \in {run.cond["TLS"], "True"}

\* Such a step preserves the invariant.
LEMMA KeptSynced ==
    ASSUME SyncedInv, Kept
    PROVE  SyncedInv'
  BY DEF SyncedInv, Kept, SyncedBeforeRollout

\* Every return is such a step.
LEMMA ReturnKept ==
    ASSUME NEW c, NEW q, Return(c, q), tls' = tls, synced' = synced,
           \A d \in Deployments : depl'[d] = depl[d] \/ depl'[d] = Absent
    PROVE  Kept
  BY DEF Return, Kept, AfterTLS, AfterHash, AfterSync, Late, Checked

\* So is every section that succeeds, but for ValidateTLS.
LEMMA ProceedKept ==
    ASSUME TypeOK, pc # "idle", NEW w, NEW next, Proceed(w, next),
           next \in AfterTLS => pc \in AfterTLS, tls' = tls, synced' = synced,
           \A d \in Deployments : depl'[d] = depl[d] \/ depl'[d] = Absent
    PROVE  Kept
  <1>1. pc' = next /\ run'.cond["TLS"] \in {run.cond["TLS"], "True"}
    BY ProceedFacts, Names
  <1> QED
    BY <1>1 DEF Kept

\* So is a plain section.
LEMMA SectionKept ==
    ASSUME TypeInv, NEW here \in PC \ {"idle"}, NEW w, NEW next, NEW f,
           Section(here, w, next, f), next \in AfterTLS => here \in AfterTLS
    PROVE  Kept
  <1>1. pc = here /\ pc # "idle" /\ tls' = tls /\ UNCHANGED <<depl, synced>> /\ TypeOK
    BY DEF Section, cluster, TypeInv
  <1>2. CASE Proceed(w, next)
    BY <1>1, <1>2, ProceedKept
  <1>3. CASE \E g \in f : GiveUp(g)
    BY <1>1, <1>3, ReturnKept DEF GiveUp
  <1> QED
    BY <1>2, <1>3 DEF Section

\* So are all plain sections.
LEMMA PlainSectionsKept ==
    ASSUME TypeInv,
           \/ ReconcileRbac \/ TransportURLCreateOrUpdate \/ VerifyTransportSecret
           \/ VerifyServiceSecret \/ GetMemcached \/ ReconcileExternalSecrets
           \/ EnsureNetworks \/ EnsureDB \/ ManageACFinalizer \/ ExposeService
           \/ KeystoneService \/ KeystoneEndpoint
           \/ DeleteUnusedAccountFinalizers \/ FinalizeRotations
    PROVE  Kept
  <1>1. \E here \in PC \ {"idle"} : \E w, next, f :
           Section(here, w, next, f) /\ (next \in AfterTLS => here \in AfterTLS)
    BY DEF ReconcileRbac, TransportURLCreateOrUpdate, VerifyTransportSecret,
           VerifyServiceSecret, GetMemcached, ReconcileExternalSecrets,
           EnsureNetworks, EnsureDB, ManageACFinalizer, ExposeService,
           KeystoneService, KeystoneEndpoint, DeleteUnusedAccountFinalizers,
           FinalizeRotations, PC, AfterTLS, AfterHash, AfterSync, Late, Checked
  <1> QED
    BY <1>1, SectionKept

\* A patch gives a Deployment the image of the pass, which is synchronised.
LEMMA PatchSynced ==
    ASSUME AllInv, pc \in Checked, NEW d \in Deployments, NEW w \in BOOLEAN,
           CreateOrPatch(d, TemplateFor(w)), tls' = tls, synced' = synced,
           run'.cond["TLS"] = run.cond["TLS"]
    PROVE  SyncedInv'
  <1>1. /\ depl'[d].tmpl = TemplateFor(w)
        /\ \A e \in Deployments \ {d} : depl'[e] = depl[e]
    BY PatchFacts DEF AllInv, HonestInv
  <1>2. depl'[d].tmpl.image = run.spec.image
    BY <1>1 DEF TemplateFor
  <1>3. run.cond["TLS"] = "True"
    BY DEF AllInv, SyncedInv, AfterTLS, Late
  <1>4. run.spec.image \in synced
    BY <1>3 DEF AllInv, HonestInv, InputsInv, Late
  <1> QED
    BY <1>1, <1>2, <1>3, <1>4 DEF AllInv, SyncedInv, SyncedBeforeRollout

\* The patch of the RPC or worker Deployment.
LEMMA PatchExtraSynced ==
    ASSUME AllInv, pc \in Checked, NEW d \in Deployments, NEW c \in {"RPC", "Worker"},
           NEW next, PatchExtra(d, c, next), UNCHANGED <<cluster, config, synced, job>>
    PROVE  SyncedInv'
  <1>1. CASE GiveUp({c}) /\ UNCHANGED depl
    BY <1>1, ReturnKept, KeptSynced DEF GiveUp, AllInv, cluster
  <1>2. CASE /\ CreateOrPatch(d, TemplateFor(TRUE))
             /\ run' = [run EXCEPT !.cond[c] = "False", !.gate = Gate(d, TemplateFor(TRUE))]
    <2>1. run \in Run /\ run.cond \in [Condition -> Value]
      BY DEF AllInv, TypeInv, TypeOK, Checked, Run
    <2>2. run'.cond = [run.cond EXCEPT ![c] = "False"]
      BY <1>2, <2>1 DEF Run
    <2>3. run'.cond["TLS"] = run.cond["TLS"]
      BY <2>1, <2>2, Names
    <2> QED
      BY <1>2, <2>3, PatchSynced DEF cluster
  <1> QED
    BY <1>1, <1>2 DEF PatchExtra

\* The sections ahead of the Deployments, the end of a pass, a crash.
LEMMA InitSectionsSynced ==
    ASSUME AllInv,
           \/ Reconcile \/ NotificationBus \/ GenerateServiceSecrets \/ ValidateTLS
           \/ CreateHashOfInputHashes \/ DbSyncJob \/ InputHash \/ EnsureServiceTopology
           \/ Done \/ Crash
    PROVE  SyncedInv'
  <1>a. TypeOK /\ TypeInv /\ SyncedInv /\ (pc # "idle" => run \in Run)
    BY DEF AllInv, TypeInv, TypeOK
  <1>b. SUFFICES Kept \/ SyncedInv'
    BY <1>a, KeptSynced
  <1> USE DEF AfterTLS, AfterHash, AfterSync, Late, Checked, cluster
  <1>1. CASE Reconcile
    BY <1>1 DEF Reconcile, Kept
  <1>2. CASE NotificationBus
    <2>1. CASE Section("notifications", {"NotificationBus"}, "transportSecret",
                       {{"NotificationBus"}, {"Input"}, {}})
      BY <1>a, <2>1, SectionKept DEF PC
    <2>2. CASE pc' = "transportSecret" /\ UNCHANGED <<cluster, depl, synced>>
      BY <2>2 DEF Kept
    <2> QED
      BY <1>2, <2>1, <2>2 DEF NotificationBus
  <1>3. CASE GenerateServiceSecrets
    <2>1. pc = "config" /\ tls' = tls /\ UNCHANGED <<depl, synced>>
      BY <1>3 DEF GenerateServiceSecrets
    <2> QED
      BY <1>3, <1>a, <2>1, ProceedKept, ReturnKept DEF GenerateServiceSecrets, GiveUp
  <1>4. CASE ValidateTLS
    <2>1. pc = "tls" /\ tls' = tls /\ UNCHANGED <<depl, synced>> /\ tls = TRUE
      BY <1>4, <1>a DEF ValidateTLS, SyncedInv
    <2>2. CASE GiveUp({"TLS"})
      BY <2>1, <2>2, ReturnKept DEF GiveUp
    <2>3. CASE Proceed({"TLS"}, "hash")
      <3>1. run'.cond["TLS"] = "True"
        BY <1>a, <2>1, <2>3, ProceedFacts, Names
      <3> QED
        BY <1>a, <2>1, <3>1 DEF SyncedInv, SyncedBeforeRollout
    <2> QED
      BY <1>4, <2>1, <2>2, <2>3 DEF ValidateTLS
  <1>5. CASE CreateHashOfInputHashes
    <2>1. pc = "hash" /\ tls' = tls /\ UNCHANGED <<depl, synced>>
      BY <1>5 DEF CreateHashOfInputHashes
    <2>2. CASE GiveUp({"ServiceConfig"})
      BY <2>1, <2>2, ReturnKept DEF GiveUp
    <2>3. CASE run' = [run EXCEPT !.hash = config]
      <3>1. run'.cond = run.cond
        BY <1>a, <2>1, <2>3 DEF Run
      <3> QED
        BY <2>1, <3>1 DEF Kept
    <2> QED
      BY <1>5, <2>2, <2>3 DEF CreateHashOfInputHashes
  <1>6. CASE DbSyncJob
    <2>1. pc = "dbsync" /\ tls' = tls /\ UNCHANGED depl
      BY <1>6 DEF DbSyncJob
    <2>2. CASE GiveUp({"DBSync"}) /\ UNCHANGED synced
      BY <2>1, <2>2, ReturnKept DEF GiveUp
    <2>3. CASE /\ run' = [run EXCEPT !.cond["DBSync"] = "True", !.dbsync = run.spec.image]
               /\ synced \subseteq synced'
      <3>1. /\ run'.cond = [run.cond EXCEPT !["DBSync"] = "True"]
            /\ run.cond \in [Condition -> Value]
        BY <1>a, <2>1, <2>3 DEF Run
      <3>2. run'.cond["TLS"] = run.cond["TLS"]
        BY <3>1, Names
      <3> QED
        BY <2>1, <2>3, <3>2 DEF Kept
    <2> QED
      BY <1>6, <2>2, <2>3 DEF DbSyncJob
  <1>7. CASE InputHash
    <2>1. pc = "inputHash" /\ tls' = tls /\ UNCHANGED <<depl, synced>>
      BY <1>7 DEF InputHash
    <2> QED
      BY <1>7, <1>a, <2>1, ProceedKept, ReturnKept DEF InputHash
  <1>8. CASE EnsureServiceTopology
    <2>1. pc = "topology" /\ tls' = tls /\ UNCHANGED <<depl, synced>>
      BY <1>8 DEF EnsureServiceTopology
    <2>2. CASE Proceed(IF run.spec.topology THEN {"Topology"} ELSE {}, "api")
      BY <1>a, <2>1, <2>2, ProceedKept
    <2>3. CASE \E c, q : Return(c, q)
      BY <2>1, <2>3, ReturnKept
    <2> QED
      BY <1>8, <2>2, <2>3 DEF EnsureServiceTopology, GiveUp
  <1>9. CASE Done
    BY <1>9, ReturnKept DEF Done
  <1>10. CASE Crash
    BY <1>10 DEF Crash, Kept
  <1> QED
    BY <1>1, <1>2, <1>3, <1>4, <1>5, <1>6, <1>7, <1>8, <1>9, <1>10

\* The Deployments.
LEMMA DeploySectionsSynced ==
    ASSUME AllInv,
           PatchAPI \/ CheckAPI \/ PatchRPC \/ CheckRPC \/ PatchWorker \/ CheckWorker
             \/ CleanUpWSGI
    PROVE  SyncedInv'
  <1>a. TypeOK /\ TypeInv /\ SyncedInv /\ (pc # "idle" => run \in Run)
    BY DEF AllInv, TypeInv, TypeOK
  <1> USE DEF AfterTLS, AfterHash, AfterSync, Late, Checked, cluster
  <1>1. CASE PatchAPI
    <2>1. pc = "api" /\ tls' = tls /\ synced' = synced
      BY <1>1 DEF PatchAPI
    <2>2. CASE GiveUp({"Deployment"}) /\ UNCHANGED depl
      BY <1>a, <2>1, <2>2, ReturnKept, KeptSynced DEF GiveUp
    <2>3. ASSUME NEW w \in IsWSGIEffective, CreateOrPatch("neutron", TemplateFor(w)),
                 run' = [run EXCEPT !.wsgi = w, !.gate = Gate("neutron", TemplateFor(w))]
          PROVE  SyncedInv'
      <3>1. w \in BOOLEAN /\ run'.cond = run.cond
        BY <1>a, <2>1, <2>3, StrategyType DEF Run
      <3> QED
        BY <2>1, <2>3, <3>1, PatchSynced DEF Deployments
    <2> QED
      BY <1>1, <2>2, <2>3 DEF PatchAPI
  <1>2. CASE CheckAPI
    <2>1. pc = "apiCheck" /\ tls' = tls /\ UNCHANGED <<depl, synced>>
      BY <1>2 DEF CheckAPI
    <2>2. CASE \E w : Proceed(w, AfterAPI)
      BY <1>a, <2>1, <2>2, ProceedKept, KeptSynced
    <2>3. CASE \E c, q : Return(c, q)
      BY <1>a, <2>1, <2>3, ReturnKept, KeptSynced
    <2>4. CASE run' = [run EXCEPT !.cond["NetworkAttachments"] = "True",
                                  !.cond["Deployment"] = "False"]
      <3>1. /\ run'.cond = [[run.cond EXCEPT !["NetworkAttachments"] = "True"]
                              EXCEPT !["Deployment"] = "False"]
            /\ run.cond \in [Condition -> Value]
        BY <1>a, <2>1, <2>4 DEF Run
      <3>2. run'.cond["TLS"] = run.cond["TLS"]
        BY <3>1, Names
      <3>3. Kept
        BY <2>1, <3>2 DEF Kept
      <3> QED
        BY <1>a, <3>3, KeptSynced
    <2> QED
      BY <1>2, <2>2, <2>3, <2>4 DEF CheckAPI, GiveUp
  <1>3. CASE PatchRPC
    <2>1. pc = "rpc" /\ tls' = tls /\ synced' = synced
      BY <1>3 DEF PatchRPC
    <2>2. CASE PatchExtra("rpc", "RPC", "rpcCheck")
      BY <1>3, <2>1, <2>2, PatchExtraSynced DEF PatchRPC, Deployments
    <2>3. CASE (Proceed({"RPC"}, "worker") \/ GiveUp({}))
               /\ (UNCHANGED depl \/ depl' = [depl EXCEPT !["rpc"] = Absent])
      <3>1. \A d \in Deployments : depl'[d] = depl[d] \/ depl'[d] = Absent
        BY <1>a, <2>3 DEF TypeOK
      <3>2. Kept
        BY <1>a, <2>1, <2>3, <3>1, ProceedKept, ReturnKept DEF GiveUp
      <3> QED
        BY <1>a, <3>2, KeptSynced
    <2> QED
      BY <1>3, <2>2, <2>3 DEF PatchRPC
  <1>4. CASE PatchWorker
    BY <1>4, PatchExtraSynced DEF PatchWorker, Deployments
  <1>5. CASE CheckRPC \/ CheckWorker
    <2>1. /\ pc \in {"rpcCheck", "workerCheck"} /\ tls' = tls /\ UNCHANGED <<depl, synced>>
          /\ (\E w, next : Proceed(w, next)) \/ GiveUp({})
      BY <1>5 DEF CheckRPC, CheckWorker, CheckExtra
    <2>2. Kept
      BY <1>a, <2>1, ProceedKept, ReturnKept DEF GiveUp
    <2> QED
      BY <1>a, <2>2, KeptSynced
  <1>6. CASE CleanUpWSGI
    <2>1. pc = "eventlet" /\ tls' = tls /\ synced' = synced
      BY <1>6 DEF CleanUpWSGI
    <2>2. \A d \in Deployments : depl'[d] = depl[d] \/ depl'[d] = Absent
      BY <1>6, <1>a DEF CleanUpWSGI, TypeOK, Deployments
    <2>3. CASE GiveUp({})
      BY <1>a, <2>1, <2>2, <2>3, ReturnKept, KeptSynced DEF GiveUp
    <2>4. CASE run' = [run EXCEPT !.cond["RPC"] = Absent, !.cond["Worker"] = Absent]
      <3>1. /\ run'.cond = [[run.cond EXCEPT !["RPC"] = Absent] EXCEPT !["Worker"] = Absent]
            /\ run.cond \in [Condition -> Value]
        BY <1>a, <2>1, <2>4 DEF Run
      <3>2. run'.cond["TLS"] = run.cond["TLS"]
        BY <3>1, Names
      <3>3. Kept
        BY <2>1, <2>2, <3>2 DEF Kept
      <3> QED
        BY <1>a, <3>3, KeptSynced
    <2> QED
      BY <1>6, <2>3, <2>4 DEF CleanUpWSGI
  <1> QED
    BY <1>1, <1>2, <1>3, <1>4, <1>5, <1>6

\* The cluster and the user.
LEMMA ClusterSynced ==
    ASSUME AllInv, "tls" \notin Knobs,
           Progress \/ TLSSecrets \/ TopologyObject \/ CalmDown
             \/ (\E s \in SpecType : Edit(s)) \/ (\E d \in Deployments : PodLost(d))
    PROVE  SyncedInv'
  <1>1. tls' = tls /\ UNCHANGED <<pc, run, synced>>
    BY DEF Progress, ProbeEnds, ProbeGone, Observe, Rollout, PodLost, TLSSecrets,
           TopologyObject, CalmDown, Edit, controller, cluster
  <1>2. CASE \E d \in Deployments : Observe(d) \/ Rollout(d) \/ PodLost(d)
    <2>1. \A e \in Deployments : /\ (depl'[e] = Absent) = (depl[e] = Absent)
                                 /\ depl[e] # Absent => depl'[e].tmpl = depl[e].tmpl
      BY <1>2, RolloutFrame DEF AllInv, TypeInv, HonestInv
    <2> QED
      BY <1>1, <2>1 DEF AllInv, SyncedInv, SyncedBeforeRollout
  <1>3. CASE UNCHANGED depl
    BY <1>1, <1>3 DEF AllInv, SyncedInv, SyncedBeforeRollout
  <1> QED
    BY <1>2, <1>3 DEF Progress, ProbeEnds, ProbeGone, TLSSecrets, TopologyObject,
                      CalmDown, Edit

\* If the TLS secrets stay, no Deployment is ever given an image whose db-sync
\* Job has not completed, whatever else fails, crashes or is edited.
THEOREM PipelineSyncedBeforeRollout ==
    ASSUME "tls" \notin Knobs
    PROVE  Spec => []SyncedBeforeRollout
  <1>1. Init => AllInv
    <2>1. Init => SyncedInv
      BY DEF Init, SyncedInv, SyncedBeforeRollout, AfterTLS, AfterHash, AfterSync, Late, Checked
    <2> QED
      BY <2>1, TypeInit, HonestInit DEF AllInv
  <1>2. AllInv /\ [Next]_vars => AllInv'
    <2> SUFFICES ASSUME AllInv, [Next]_vars PROVE AllInv'
      OBVIOUS
    <2>1. TypeInv' /\ HonestInv'
      BY TypeStep, HonestStep DEF AllInv
    <2>2. CASE Pass \/ Crash
      BY <2>2, PlainSectionsKept, KeptSynced, InitSectionsSynced, DeploySectionsSynced, <2>1
         DEF AllInv, Pass, Normal, ReconcileInit, Deploy
    <2>3. CASE Progress \/ Environment
      BY <2>1, <2>2, <2>3, ClusterSynced DEF AllInv, Environment
    <2>4. CASE UNCHANGED vars
      <3>1. SyncedInv'
        BY <2>4 DEF AllInv, SyncedInv, SyncedBeforeRollout, vars
      <3> QED
        BY <2>1, <3>1 DEF AllInv
    <2> QED
      BY <2>2, <2>3, <2>4 DEF Next
  <1>3. AllInv => SyncedBeforeRollout
    BY DEF AllInv, SyncedInv
  <1> QED
    BY <1>1, <1>2, <1>3, PTL DEF Spec

-----------------------------------------------------------------------------
(* The invariant for a controller at rest. *)

\* A TLS secret was missing: the pass went round the rest of reconcileInit.
Skipped == pc \in Late /\ run.cond["TLS"] = "False"
AfterAPIPatch == {"apiCheck"} \cup AfterCheck
AfterRPC == pc \in {"worker", "workerCheck"} \/ (pc \in End /\ run.wsgi)
AfterWorker == pc \in End /\ run.wsgi

\* The Deployments have the templates of the pass.
ExtraDeployed ==
    /\ AfterRPC => IF run.spec.rpc THEN Fresh("rpc") ELSE depl["rpc"] = Absent
    /\ pc = "workerCheck" \/ AfterWorker => Fresh("worker")
DeployInv ==
    /\ pc \in AfterAPIPatch => Fresh("neutron")
    /\ ExtraDeployed
    /\ pc \in AfterSync \cup Late /\ ~Skipped => run.dbsync = run.spec.image

\* The sections behind those that report the conditions of reconcileNormal.
AfterDB == {"config", "tls", "hash"} \cup AfterHash
AfterExternal == {"nad", "db"} \cup AfterDB
AfterMemcached == {"external"} \cup AfterExternal
AfterSecret == {"memcached"} \cup AfterMemcached
AfterTransport == {"secret"} \cup AfterSecret
AfterBus == {"transportSecret"} \cup AfterTransport
AfterRbac == {"transport", "notifications"} \cup AfterBus

Early == {"RBAC", "NotificationBus", "TransportURL", "Input", "Memcached",
          "ExternalConfigs", "DB"}
InInit == {"ServiceConfig", "DBSync", "CreateService", "KeystoneService", "KeystoneEndpoint"}
Fine(c) == run.cond[c] \in {"True", Absent}

\* What has been reported on the way.
ReportedInv ==
    /\ pc \in AfterRbac => Fine("RBAC")
    /\ pc \in AfterBus => Fine("NotificationBus")
    /\ pc \in AfterTransport => Fine("TransportURL")
    /\ pc \in AfterSecret => Fine("Input")
    /\ pc \in AfterMemcached => Fine("Memcached")
    /\ pc \in AfterExternal => Fine("ExternalConfigs")
    /\ pc \in AfterDB => Fine("DB")
    /\ pc \in {"dbsync"} \cup AfterSync => Fine("ServiceConfig")
    /\ pc \in AfterSync => Fine("DBSync")
    /\ pc \in {"keystoneService", "keystoneEndpoint"} => Fine("CreateService")
    /\ pc = "keystoneEndpoint" => Fine("KeystoneService")
    /\ pc \in {"hash"} \cup AfterHash => run.cond["TLS"] = "True"

\* What stands in the conditions from there on.
NetworkInv ==
    pc \in AfterCheck /\ run.cond["Deployment"] = "True" => Fine("NetworkAttachments")
EventletInv ==
    pc \in End /\ ~run.wsgi => run.cond["RPC"] = Absent /\ run.cond["Worker"] = Absent
CondInv ==
    /\ status.cond["Topology"] # "Unknown"
    /\ pc # "idle" => run.cond["Ready"] = "Unknown" /\ run.cond["Topology"] # "Unknown"
    /\ pc \in Late => /\ run.cond["TLS"] \in {"True", "False"}
                      /\ \A c \in Early : Fine(c)
                      /\ Skipped \/ \A c \in InInit : Fine(c)
    /\ pc \in Checked \ {"topology"} /\ run.spec.topology => Fine("Topology")
    /\ NetworkInv /\ EventletInv

\* The strategy is the one the image probe calls for.
Says == run.spec.wsgi /\ ProbeSaysWSGI
Probed == run.spec.wsgi => job # Absent /\ (job.image = run.spec.image \/ job.deleting)
ProbeInv ==
    "probe" \notin Knobs =>
        /\ pc \in AfterConfig => (config.wsgi <=> Says) /\ Probed
        /\ pc \in AfterAPIPatch => (run.wsgi <=> Says)

\* The conditions say what the Deployments are like.
Up(d) == depl[d].observed /\ depl[d].done
ExtraGate ==
    /\ pc = "rpcCheck" => (run.gate # "closed" <=> depl["rpc"].observed)
    /\ pc = "workerCheck" => (run.gate # "closed" <=> depl["worker"].observed)
GateInv == (pc = "apiCheck" => (run.gate = "ready" <=> Up("neutron"))) /\ ExtraGate
ExtraUp ==
    /\ AfterRPC => (run.cond["RPC"] = "True" <=> (run.spec.rpc => Up("rpc")))
    /\ AfterWorker => (run.cond["Worker"] = "True" <=> Up("worker"))
UpInv == (pc \in AfterCheck => (run.cond["Deployment"] = "True" <=> Up("neutron"))) /\ ExtraUp

TLSInv ==
    /\ pc \in {"hash"} \cup AfterHash => tls
    /\ pc \in Late => (run.cond["TLS"] # "False" <=> tls)

Undisturbed ==
    pc # "idle" /\ ~queued =>
        run.spec = spec /\ TLSInv /\ ProbeInv /\ GateInv /\ UpInv

PassInv == DeployInv /\ ReportedInv /\ CondInv
AtRestInv == PassInv /\ Undisturbed /\ DeployedAtRest /\ ReadyAtRest

\* Every invariant of ReconcilePipeline.
KnownInv == TypeInv /\ HonestInv /\ AtRestInv

USE DEF AfterSync, AfterHash, Late, AfterConfig, End, Extra, AfterCheck, Checked,
        ExtraDeployed, NetworkInv, EventletInv, ExtraGate, ExtraUp

\* The conditions of the sections are conditions, and Absent is no verdict.
LEMMA Words ==
    /\ Early \cup InInit \subseteq Condition /\ "Topology" \in Condition /\ "Ready" \in Condition
    /\ Absent \notin {"True", "False", "Unknown"}
  BY AbsentAssumption DEF Early, InInit, Condition, Listed, Unlisted

-----------------------------------------------------------------------------
(* Returns. *)

\* With the resource queued nothing is claimed of the cluster.
LEMMA QueuedAtRest ==
    ASSUME PassInv', queued'
    PROVE  AtRestInv'
  BY DEF AtRestInv, Undisturbed, DeployedAtRest, ReadyAtRest, AtRest

\* Between passes nothing is claimed of a pass.
LEMMA IdlePass ==
    ASSUME pc' = "idle", status'.cond["Topology"] # "Unknown"
    PROVE  PassInv' /\ Undisturbed'
  <1>1. DeployInv'
    BY DEF DeployInv, AfterAPIPatch, AfterRPC, AfterWorker
  <1>2. ReportedInv'
    BY DEF ReportedInv, AfterRbac, AfterBus, AfterTransport, AfterSecret, AfterMemcached,
           AfterExternal, AfterDB
  <1>3. CondInv'
    BY DEF CondInv
  <1> QED
    BY <1>1, <1>2, <1>3 DEF PassInv, Undisturbed

\* A return ends the pass and saves the conditions it was given.
LEMMA ReturnFacts ==
    ASSUME NEW c, NEW q, Return(c, q)
    PROVE  pc' = "idle" /\ status'.cond["Topology"] = c["Topology"]
  <1>1. PICK r :
            status' = [cond |-> [x \in Persisted |-> IF x = "Ready" THEN r ELSE c[x]],
                       hash |-> run.hash, dbsync |-> run.dbsync]
    BY DEF Return
  <1>2. "Topology" \in Persisted
    BY DEF Persisted, Unlisted
  <1> QED
    BY <1>1, <1>2 DEF Return

\* A pass that is retried.
LEMMA RetryAtRest ==
    ASSUME NEW c, Return(c, TRUE), c["Topology"] # "Unknown"
    PROVE  AtRestInv'
  <1>1. queued'
    BY DEF Return
  <1> QED
    BY <1>1, ReturnFacts, IdlePass, QueuedAtRest

\* A section that gives up is retried.
LEMMA GiveUpAtRest ==
    ASSUME PassInv, pc # "idle", NEW w, GiveUp(w)
    PROVE  AtRestInv'
  <1>1. Set(run.cond, "False", w)["Topology"] # "Unknown"
    BY Words DEF Set, PassInv, CondInv
  <1> QED
    BY <1>1, RetryAtRest DEF GiveUp

-----------------------------------------------------------------------------
(* Sections. *)

\* A step from one section to the next.
LEMMA OnAtRest ==
    ASSUME pc # "idle", pc' # "idle", PassInv', Undisturbed'
    PROVE  AtRestInv'
  BY DEF AtRestInv, DeployedAtRest, ReadyAtRest, AtRest

\* A section reports what the next one counts on.
Reports(here, w, next) ==
    /\ next \in AfterRbac => here \in AfterRbac \/ "RBAC" \in w
    /\ next \in AfterBus => here \in AfterBus \/ "NotificationBus" \in w
    /\ next \in AfterTransport => here \in AfterTransport \/ "TransportURL" \in w
    /\ next \in AfterSecret => here \in AfterSecret \/ "Input" \in w
    /\ next \in AfterMemcached => here \in AfterMemcached \/ "Memcached" \in w
    /\ next \in AfterExternal => here \in AfterExternal \/ "ExternalConfigs" \in w
    /\ next \in AfterDB => here \in AfterDB \/ "DB" \in w
    /\ next \in {"dbsync"} \cup AfterSync =>
          here \in {"dbsync"} \cup AfterSync \/ "ServiceConfig" \in w
    /\ next \in AfterSync => here \in AfterSync \/ "DBSync" \in w
    /\ next \in {"keystoneService", "keystoneEndpoint"} =>
          here \in {"keystoneService", "keystoneEndpoint"} \/ "CreateService" \in w
    /\ next = "keystoneEndpoint" => here = "keystoneEndpoint" \/ "KeystoneService" \in w
    /\ next \in {"hash"} \cup AfterHash => here \in {"hash"} \cup AfterHash \/ "TLS" \in w
    /\ next \in Late => here \in Late \/ (here = "keystoneEndpoint" /\ "KeystoneEndpoint" \in w)

\* A section that reports what the next one counts on keeps the record.
LEMMA ReportedStep ==
    ASSUME ReportedInv, NEW w, Reports(pc, w, pc'), w \subseteq Condition,
           NEW v \in {"True", Absent}, "TLS" \in w => v = "True",
           \A x \in Condition : run'.cond[x] = IF x \in w THEN v ELSE run.cond[x]
    PROVE  ReportedInv'
  <1>1. \A x \in Condition : Fine(x) \/ x \in w => Fine(x)'
    BY DEF Fine
  <1>2. run'.cond["TLS"] = IF "TLS" \in w THEN "True" ELSE run.cond["TLS"]
    BY Names
  <1> QED
    BY <1>1, <1>2, Words DEF ReportedInv, Reports, Early, InInit

\* A section that leaves the cluster and the strategy alone.
QuietStep ==
    /\ Quiet /\ UNCHANGED <<spec, tls, job, queued, status>>
    /\ pc' \notin {"idle", "hash"} /\ SameBehind(pc, pc')

\* Such a section leaves what is known of the Deployments.
LEMMA QuietDeploy ==
    ASSUME DeployInv, ReportedInv, QuietStep
    PROVE  DeployInv'
  <1>1. \A d \in Deployments : Fresh(d)' = Fresh(d)
    BY DEF QuietStep, Quiet, Fresh, TemplateFor
  <1>2. /\ pc' \in AfterAPIPatch => pc \in AfterAPIPatch
        /\ AfterRPC' => AfterRPC
        /\ pc' # "workerCheck" /\ (AfterWorker' => AfterWorker)
        /\ pc' \in AfterSync \cup Late /\ ~Skipped' => pc \in AfterSync \cup Late /\ ~Skipped
    BY DEF QuietStep, Quiet, SameBehind, AfterAPIPatch, AfterRPC, AfterWorker, Skipped
  <1>3. /\ run'.spec = run.spec /\ run'.dbsync = run.dbsync /\ depl' = depl
    BY DEF QuietStep, Quiet
  <1> HIDE DEF AfterSync, Late
  <1> QED
    BY <1>1, <1>2, <1>3 DEF DeployInv, Deployments

\* Such a section leaves what an undisturbed pass knows of the cluster.
LEMMA QuietUndisturbed ==
    ASSUME Undisturbed, ReportedInv, QuietStep
    PROVE  Undisturbed'
  <1> SUFFICES ASSUME ~queued PROVE run'.spec = spec' /\ TLSInv' /\ ProbeInv' /\ GateInv' /\ UpInv'
    BY DEF Undisturbed, QuietStep
  <1>0. run.spec = spec /\ TLSInv /\ ProbeInv /\ GateInv /\ UpInv
    BY DEF Undisturbed, QuietStep, Quiet
  <1>1. TLSInv'
    BY <1>0 DEF QuietStep, Quiet, SameBehind, TLSInv, ReportedInv
  <1>2. /\ pc' \in AfterAPIPatch => pc \in AfterAPIPatch
        /\ pc' \in AfterConfig => pc \in AfterConfig
        /\ pc' \in AfterCheck => pc \in AfterCheck
        /\ AfterRPC' => AfterRPC
        /\ AfterWorker' => AfterWorker
        /\ pc' \notin {"apiCheck", "rpcCheck", "workerCheck"}
    BY DEF QuietStep, Quiet, SameBehind, AfterAPIPatch, AfterRPC, AfterWorker
  <1>3. /\ run'.spec = run.spec /\ run'.wsgi = run.wsgi
        /\ UNCHANGED <<spec, config, depl, job>>
        /\ \A x \in {"TLS", "Deployment", "RPC", "Worker"} : run'.cond[x] = run.cond[x]
    BY DEF QuietStep, Quiet
  <1> HIDE DEF AfterConfig, AfterCheck
  <1>4. ProbeInv'
    BY <1>0, <1>2, <1>3 DEF ProbeInv, Says, Probed, ProbeSaysWSGI
  <1>5. GateInv' /\ UpInv'
    BY <1>0, <1>2, <1>3 DEF GateInv, UpInv, Up
  <1> QED
    BY <1>0, <1>1, <1>3, <1>4, <1>5

\* The conditions that are settled before the Deployments.
LEMMA CondStep ==
    ASSUME CondInv, ReportedInv, NEW w, Reports(pc, w, pc'), SameBehind(pc, pc'), QuietStep,
           "Ready" \notin w, pc' = "api" /\ run.spec.topology => "Topology" \in w,
           w \subseteq Condition,
           \A x \in Condition : run'.cond[x] = IF x \in w THEN "True" ELSE run.cond[x]
    PROVE  CondInv'
  <1>1. \A x \in Condition : Fine(x) \/ x \in w => Fine(x)'
    BY DEF Fine
  <1>2. /\ run'.cond["Ready"] = run.cond["Ready"] /\ run'.cond["Topology"] \in {run.cond["Topology"], "True"}
        /\ run'.spec = run.spec /\ run'.wsgi = run.wsgi /\ status' = status
        /\ pc # "idle"
        /\ \A x \in {"TLS", "Deployment", "RPC", "Worker"} : run'.cond[x] = run.cond[x]
    BY Words DEF QuietStep, Quiet
  <1>3. ASSUME pc' \in Late
        PROVE  /\ run'.cond["TLS"] \in {"True", "False"}
               /\ \A c \in Early : Fine(c)'
               /\ Skipped' \/ \A c \in InInit : Fine(c)'
    <2>1. CASE pc \in Late
      <3>1. Skipped' = Skipped
        BY <1>2, <1>3, <2>1 DEF Skipped
      <3> QED
        BY <1>1, <1>2, <2>1, <3>1, Words DEF CondInv
    <2>2. CASE pc = "keystoneEndpoint" /\ "KeystoneEndpoint" \in w
      <3>1. run.cond["TLS"] = "True" /\ \A c \in Early \cup (InInit \ {"KeystoneEndpoint"}) : Fine(c)
        BY <2>2 DEF ReportedInv, Early, InInit, AfterRbac, AfterBus, AfterTransport, AfterSecret,
                    AfterMemcached, AfterExternal, AfterDB
      <3> QED
        BY <1>1, <1>2, <2>2, <3>1, Words
    <2> QED
      BY <1>3, <2>1, <2>2 DEF Reports
  <1>4. pc' \in Checked \ {"topology"} /\ run'.spec.topology => Fine("Topology")'
    <2>1. pc' \in Checked \ {"topology"} => pc \in Checked \ {"topology"} \/ pc' = "api"
      BY DEF SameBehind
    <2> QED
      BY <1>1, <1>2, <2>1, Words DEF CondInv
  <1>5. pc' \in AfterCheck /\ run'.cond["Deployment"] = "True" => Fine("NetworkAttachments")'
    BY <1>1, <1>2, Names DEF CondInv, SameBehind
  <1>6. pc' \in End /\ ~run'.wsgi => run'.cond["RPC"] = Absent /\ run'.cond["Worker"] = Absent
    BY <1>2 DEF CondInv, SameBehind
  <1>7. run'.cond["Ready"] = "Unknown" /\ run'.cond["Topology"] # "Unknown"
    BY <1>2 DEF CondInv
  <1> QED
    BY <1>2, <1>3, <1>4, <1>5, <1>6, <1>7 DEF CondInv

\* Such a section keeps the invariant.
LEMMA QuietAtRest ==
    ASSUME AtRestInv, NEW w, Reports(pc, w, pc'), QuietStep,
           "Ready" \notin w, pc' = "api" /\ run.spec.topology => "Topology" \in w,
           w \subseteq Condition,
           \A x \in Condition : run'.cond[x] = IF x \in w THEN "True" ELSE run.cond[x]
    PROVE  AtRestInv'
  <1>1. DeployInv /\ ReportedInv /\ CondInv /\ Undisturbed /\ SameBehind(pc, pc')
    BY DEF AtRestInv, PassInv, QuietStep
  <1>2. DeployInv' /\ Undisturbed'
    BY <1>1, QuietDeploy, QuietUndisturbed
  <1>3. ReportedInv'
    BY <1>1, ReportedStep
  <1>4. CondInv'
    BY <1>1, CondStep
  <1>5. pc # "idle" /\ pc' # "idle"
    BY DEF QuietStep, Quiet
  <1> QED
    BY <1>2, <1>3, <1>4, <1>5, OnAtRest DEF PassInv

\* A plain section, on success and on every failure.
Follows(here, w, next) ==
    /\ here # "idle" /\ next \notin {"idle", "hash", "api"}
    /\ SameBehind(here, next) /\ Reports(here, w, next)
    /\ w \subseteq Condition /\ w \cap {"TLS", "Deployment", "RPC", "Worker", "Ready"} = {}

\* So does a section that goes on to the next one,
LEMMA ProceedAtRest ==
    ASSUME KnownInv, NEW w, NEW next, Proceed(w, next), Follows(pc, w, next),
           UNCHANGED <<spec, tls, config, depl, synced, job>>
    PROVE  AtRestInv'
  <1>0. pc # "idle" /\ TypeOK /\ AtRestInv
    BY DEF KnownInv, TypeInv, Follows
  <1>1. /\ pc' = next /\ status' = status /\ queued' = queued
        /\ run'.spec = run.spec /\ run'.hash = run.hash /\ run'.dbsync = run.dbsync
        /\ run'.wsgi = run.wsgi
        /\ \A x \in Condition : run'.cond[x] = IF x \in w THEN "True" ELSE run.cond[x]
    BY <1>0, ProceedFacts DEF Proceed
  <1>2. QuietStep
    BY <1>0, <1>1, Names DEF QuietStep, Quiet, Follows
  <1> QED
    BY <1>0, <1>1, <1>2, QuietAtRest DEF Follows

\* and so does a plain section, which goes on or gives up.
LEMMA SectionAtRest ==
    ASSUME KnownInv, NEW here, NEW w, NEW next, NEW f, Section(here, w, next, f), Follows(here, w, next)
    PROVE  AtRestInv'
  <1>0. pc = here /\ pc # "idle" /\ UNCHANGED <<spec, tls, config, depl, synced, job>> /\ PassInv
    BY DEF Section, KnownInv, AtRestInv, cluster, Follows
  <1>1. CASE \E g \in f : GiveUp(g)
    BY <1>0, <1>1, GiveUpAtRest
  <1>2. CASE Proceed(w, next)
    BY <1>0, <1>2, ProceedAtRest
  <1> QED
    BY <1>1, <1>2 DEF Section

\* The sections in their order.
LEMMA Order ==
    /\ Follows("rbac", {"RBAC"}, "transport")
    /\ Follows("transport", {}, "notifications")
    /\ Follows("transportSecret", {"TransportURL"}, "secret")
    /\ Follows("secret", {"Input"}, "memcached")
    /\ Follows("memcached", {"Memcached"}, "external")
    /\ Follows("external", {"ExternalConfigs"}, "nad")
    /\ Follows("nad", {}, "db")
    /\ Follows("db", {"DB"}, "config")
    /\ Follows("ac", {"ServiceConfig"}, "dbsync")
    /\ Follows("services", {"CreateService"}, "keystoneService")
    /\ Follows("keystoneService", {"KeystoneService"}, "keystoneEndpoint")
    /\ Follows("keystoneEndpoint", {"KeystoneEndpoint"}, "inputHash")
    /\ Follows("accounts", {}, "finalize")
    /\ Follows("finalize", {}, "done")
    /\ Follows("notifications", {"NotificationBus"}, "transportSecret")
    /\ Follows("inputHash", {}, "topology")
  <1> USE DEF Follows, SameBehind, Reports, AfterRbac, AfterBus, AfterTransport, AfterSecret,
              AfterMemcached, AfterExternal, AfterDB, Early, InInit
  <1>1. Follows("rbac", {"RBAC"}, "transport")
    BY Words
  <1>2. Follows("transport", {}, "notifications")
    BY Words
  <1>3. Follows("transportSecret", {"TransportURL"}, "secret")
    BY Words
  <1>4. Follows("secret", {"Input"}, "memcached")
    BY Words
  <1>5. Follows("memcached", {"Memcached"}, "external")
    BY Words
  <1>6. Follows("external", {"ExternalConfigs"}, "nad")
    BY Words
  <1>7. Follows("nad", {}, "db")
    BY Words
  <1>8. Follows("db", {"DB"}, "config")
    BY Words
  <1>9. Follows("ac", {"ServiceConfig"}, "dbsync")
    BY Words
  <1>10. Follows("services", {"CreateService"}, "keystoneService")
    BY Words
  <1>11. Follows("keystoneService", {"KeystoneService"}, "keystoneEndpoint")
    BY Words
  <1>12. Follows("keystoneEndpoint", {"KeystoneEndpoint"}, "inputHash")
    BY Words
  <1>13. Follows("accounts", {}, "finalize")
    BY Words
  <1>14. Follows("finalize", {}, "done")
    BY Words
  <1>15. Follows("notifications", {"NotificationBus"}, "transportSecret")
    BY Words
  <1>16. Follows("inputHash", {}, "topology")
    BY Words
  <1> HIDE DEF Follows
  <1> QED
    BY <1>1, <1>2, <1>3, <1>4, <1>5, <1>6, <1>7, <1>8, <1>9, <1>10, <1>11, <1>12, <1>13,
       <1>14, <1>15, <1>16

\* The sections that read other objects and report one condition.
LEMMA PlainSectionsAtRest ==
    ASSUME KnownInv,
           \/ ReconcileRbac \/ TransportURLCreateOrUpdate \/ VerifyTransportSecret
           \/ VerifyServiceSecret \/ GetMemcached \/ ReconcileExternalSecrets
           \/ EnsureNetworks \/ EnsureDB \/ ManageACFinalizer \/ ExposeService
           \/ KeystoneService \/ KeystoneEndpoint
           \/ DeleteUnusedAccountFinalizers \/ FinalizeRotations
    PROVE  AtRestInv'
  <1>1. CASE ReconcileRbac
    BY <1>1, Order, SectionAtRest DEF ReconcileRbac
  <1>2. CASE TransportURLCreateOrUpdate
    BY <1>2, Order, SectionAtRest DEF TransportURLCreateOrUpdate
  <1>3. CASE VerifyTransportSecret
    BY <1>3, Order, SectionAtRest DEF VerifyTransportSecret
  <1>4. CASE VerifyServiceSecret
    BY <1>4, Order, SectionAtRest DEF VerifyServiceSecret
  <1>5. CASE GetMemcached
    BY <1>5, Order, SectionAtRest DEF GetMemcached
  <1>6. CASE ReconcileExternalSecrets
    BY <1>6, Order, SectionAtRest DEF ReconcileExternalSecrets
  <1>7. CASE EnsureNetworks
    BY <1>7, Order, SectionAtRest DEF EnsureNetworks
  <1>8. CASE EnsureDB
    BY <1>8, Order, SectionAtRest DEF EnsureDB
  <1>9. CASE ManageACFinalizer
    BY <1>9, Order, SectionAtRest DEF ManageACFinalizer
  <1>10. CASE ExposeService
    BY <1>10, Order, SectionAtRest DEF ExposeService
  <1>11. CASE KeystoneService
    BY <1>11, Order, SectionAtRest DEF KeystoneService
  <1>12. CASE KeystoneEndpoint
    BY <1>12, Order, SectionAtRest DEF KeystoneEndpoint
  <1>13. CASE DeleteUnusedAccountFinalizers
    BY <1>13, Order, SectionAtRest DEF DeleteUnusedAccountFinalizers
  <1>14. CASE FinalizeRotations
    BY <1>14, Order, SectionAtRest DEF FinalizeRotations
  <1> QED
    BY <1>1, <1>2, <1>3, <1>4, <1>5, <1>6, <1>7, <1>8, <1>9, <1>10, <1>11, <1>12, <1>13, <1>14

-----------------------------------------------------------------------------
(* The start of a pass, and the sections that render, hash and synchronise. *)

\* Ahead of the Deployments.
LEMMA EarlyAtRest ==
    ASSUME AtRestInv, pc # "idle", pc' # "idle", pc' \notin Late,
           NEW w, NEW v \in {"True", Absent}, Reports(pc, w, pc'), w \subseteq Condition,
           "TLS" \in w => v = "True", w \cap {"Ready", "Topology"} = {},
           \A x \in Condition : run'.cond[x] = IF x \in w THEN v ELSE run.cond[x],
           UNCHANGED <<status, queued, spec>>, run'.spec = run.spec,
           pc' \in AfterSync => run'.dbsync = run.spec.image,
           ~queued => TLSInv' /\ ProbeInv'
    PROVE  AtRestInv'
  <1>1. ReportedInv'
    BY ReportedStep DEF AtRestInv, PassInv
  <1>2. DeployInv'
    BY DEF DeployInv, AfterAPIPatch, AfterRPC, AfterWorker
  <1>3. /\ run'.cond["Ready"] = run.cond["Ready"] /\ run'.cond["Topology"] = run.cond["Topology"]
        /\ status' = status
    BY Words
  <1>4. CondInv'
    BY <1>3 DEF AtRestInv, PassInv, CondInv
  <1>5. GateInv' /\ UpInv'
    BY DEF GateInv, UpInv, AfterRPC, AfterWorker
  <1>6. Undisturbed'
    BY <1>5 DEF AtRestInv, Undisturbed
  <1> QED
    BY <1>1, <1>2, <1>4, <1>6, OnAtRest DEF PassInv

\* Reconcile starts a pass with every condition at Unknown and an empty queue.
LEMMA StartAtRest ==
    ASSUME KnownInv, Reconcile
    PROVE  AtRestInv'
  <1>1. CASE status.cond["Ready"] = Absent
    <2>1. pc' = "idle" /\ queued' /\ status' = [status EXCEPT !.cond["Ready"] = "Unknown"]
      BY <1>1 DEF Reconcile
    <2>2. status'.cond["Topology"] = status.cond["Topology"]
      BY <2>1 DEF KnownInv, TypeInv, TypeOK, Status, Persisted, Unlisted
    <2> QED
      BY <2>1, <2>2, IdlePass, QueuedAtRest DEF KnownInv, AtRestInv, PassInv, CondInv
  <1>2. CASE status.cond["Ready"] # Absent
    <2>1. /\ pc = "idle" /\ pc' = "rbac" /\ status' = status /\ spec' = spec
          /\ run'.spec = spec /\ run'.cond = InitConditions(status.cond)
      BY <1>2 DEF Reconcile, cluster
    <2>2. run'.cond["Ready"] = "Unknown" /\ run'.cond["Topology"] = status.cond["Topology"]
      BY <2>1, Words DEF InitConditions, Listed
    <2>3. DeployInv'
      BY <2>1 DEF DeployInv, AfterAPIPatch, AfterRPC, AfterWorker
    <2>4. ReportedInv'
      BY <2>1 DEF ReportedInv, AfterRbac, AfterBus, AfterTransport, AfterSecret, AfterMemcached,
                  AfterExternal, AfterDB
    <2>5. CondInv'
      BY <2>1, <2>2 DEF CondInv, KnownInv, AtRestInv, PassInv
    <2>6. Undisturbed'
      BY <2>1 DEF Undisturbed, TLSInv, ProbeInv, GateInv, UpInv, AfterRPC, AfterWorker, AfterAPIPatch
    <2>7. pc' # "idle"
      BY <2>1
    <2> QED
      BY <2>3, <2>4, <2>5, <2>6, <2>7 DEF PassInv, AtRestInv, DeployedAtRest, ReadyAtRest, AtRest
  <1> QED
    BY <1>1, <1>2

\* A call of IsWSGIEffective: what it returns, and the Job it leaves.
LEMMA EffectiveFacts ==
    ASSUME TypeOK, pc # "idle", "probe" \notin Knobs, NEW w \in IsWSGIEffective, ProbeJob,
           run'.spec = run.spec
    PROVE  (w <=> Says') /\ Probed' /\ (Says <=> Says')
  <1> DEFINE new == [image |-> run.spec.image, result |-> "running", deleting |-> FALSE]
             marked == [job EXCEPT !.deleting = TRUE]
  <1>1. job' = IF ~run.spec.wsgi THEN job
               ELSE IF job = Absent THEN new
               ELSE IF job.image # run.spec.image THEN marked
               ELSE job
    BY DEF ProbeJob, ProbeFails
  <1>2. w <=> Says
    BY DEF IsWSGIEffective, ProbeFails, Says
  <1>3. run.spec.image \in Image /\ job \in Job \cup {Absent}
    BY DEF TypeOK, Run, SpecType
  <1>4. new \in Job /\ new.image = run.spec.image /\ new.result # "failed"
    BY <1>3 DEF Job
  <1>5. job # Absent => marked \in Job /\ marked.image = job.image /\ marked.deleting
    BY <1>3 DEF Job
  <1> HIDE DEF new, marked
  <1>6. Probed'
    BY <1>1, <1>4, <1>5, AbsentAssumption DEF Probed
  <1>7. Says <=> Says'
    BY <1>1, <1>4, <1>5, AbsentAssumption DEF Says, ProbeSaysWSGI
  <1> QED
    BY <1>2, <1>6, <1>7

\* The notifications bus is reported or its condition removed.
LEMMA BusAtRest ==
    ASSUME KnownInv, NotificationBus
    PROVE  AtRestInv'
  <1>1. CASE Section("notifications", {"NotificationBus"}, "transportSecret",
                     {{"NotificationBus"}, {"Input"}, {}})
    BY <1>1, Order, SectionAtRest
  <1>2. CASE /\ pc = "notifications" /\ pc' = "transportSecret"
             /\ run' = [run EXCEPT !.cond["NotificationBus"] = Absent]
             /\ UNCHANGED <<cluster, status, queued, config, depl, synced, job>>
    <2>1. run \in Run
      BY <1>2 DEF KnownInv, TypeInv, TypeOK
    <2>2. /\ run'.spec = run.spec
          /\ \A x \in Condition : run'.cond[x] = IF x \in {"NotificationBus"} THEN Absent ELSE run.cond[x]
      BY <1>2, <2>1 DEF Run
    <2>3. Reports(pc, {"NotificationBus"}, pc')
      BY <1>2, Order DEF Follows
    <2>4. TLSInv' /\ ProbeInv'
      BY <1>2 DEF TLSInv, ProbeInv, AfterAPIPatch
    <2>5. {"NotificationBus"} \subseteq Condition
      BY Words DEF Early
    <2>6. pc # "idle" /\ pc' # "idle" /\ pc' \notin Late /\ pc' \notin AfterSync
      BY <1>2
    <2>7. UNCHANGED <<status, queued, spec>>
      BY <1>2 DEF cluster
    <2> HIDE DEF Late, AfterSync
    <2> QED
      BY <2>2, <2>3, <2>4, <2>5, <2>6, <2>7, EarlyAtRest DEF KnownInv
  <1> QED
    BY <1>1, <1>2 DEF NotificationBus

\* generateServiceSecrets probes the image and picks the strategy.
LEMMA ConfigAtRest ==
    ASSUME KnownInv, GenerateServiceSecrets
    PROVE  AtRestInv'
  <1>0. pc = "config" /\ UNCHANGED <<spec, tls>> /\ PassInv /\ TypeOK
    BY DEF GenerateServiceSecrets, cluster, KnownInv, AtRestInv, TypeInv
  <1>1. CASE \E w : GiveUp(w)
    BY <1>0, <1>1, GiveUpAtRest
  <1>2. ASSUME Proceed({}, "tls"), ProbeJob, NEW w \in IsWSGIEffective,
               config' = [bus |-> run.spec.bus, rpc |-> run.spec.rpc, wsgi |-> w]
        PROVE  AtRestInv'
    <2>1. /\ pc' = "tls" /\ UNCHANGED <<status, queued, spec>> /\ run'.spec = run.spec
          /\ \A x \in Condition : run'.cond[x] = IF x \in {} THEN "True" ELSE run.cond[x]
      BY <1>0, <1>2, ProceedFacts DEF Proceed
    <2>2. Reports(pc, {}, pc')
      BY <1>0, <2>1 DEF Reports, AfterRbac, AfterBus, AfterTransport, AfterSecret,
                        AfterMemcached, AfterExternal, AfterDB
    <2>3. "probe" \notin Knobs => (config'.wsgi <=> Says') /\ Probed'
      BY <1>0, <1>2, <2>1, EffectiveFacts
    <2>4. TLSInv' /\ ProbeInv'
      BY <2>1, <2>3 DEF TLSInv, ProbeInv, AfterAPIPatch
    <2>5. pc # "idle" /\ pc' # "idle" /\ pc' \notin Late /\ pc' \notin AfterSync
      BY <1>0, <2>1
    <2> HIDE DEF Late, AfterSync
    <2> QED
      BY <2>1, <2>2, <2>4, <2>5, EarlyAtRest DEF KnownInv
  <1> QED
    BY <1>1, <1>2 DEF GenerateServiceSecrets

\* The TLS secrets are read once per pass, and their watch queues a change.
LEMMA TLSAtRest ==
    ASSUME KnownInv, ValidateTLS
    PROVE  AtRestInv'
  <1>0. pc = "tls" /\ UNCHANGED <<spec, tls, config, job>> /\ PassInv /\ TypeOK /\ run \in Run
    BY DEF ValidateTLS, cluster, KnownInv, AtRestInv, TypeInv, TypeOK
  <1>1. CASE \E w : GiveUp(w)
    BY <1>0, <1>1, GiveUpAtRest
  <1>2. CASE tls /\ Proceed({"TLS"}, "hash")
    <2>1. /\ pc' = "hash" /\ UNCHANGED <<status, queued, spec>> /\ run'.spec = run.spec
          /\ \A x \in Condition : run'.cond[x] = IF x \in {"TLS"} THEN "True" ELSE run.cond[x]
      BY <1>0, <1>2, ProceedFacts DEF Proceed
    <2>2. Reports(pc, {"TLS"}, pc')
      BY <1>0, <2>1 DEF Reports, AfterRbac, AfterBus, AfterTransport, AfterSecret,
                        AfterMemcached, AfterExternal, AfterDB
    <2>3. ~queued => ProbeInv
      BY <1>0 DEF KnownInv, AtRestInv, Undisturbed
    <2>4. ~queued => TLSInv' /\ ProbeInv'
      BY <1>0, <1>2, <2>1, <2>3 DEF TLSInv, ProbeInv, AfterAPIPatch, Says, Probed, ProbeSaysWSGI
    <2>5. pc # "idle" /\ pc' # "idle" /\ pc' \notin Late /\ pc' \notin AfterSync
      BY <1>0, <2>1
    <2>6. {"TLS"} \subseteq Condition
      BY Names
    <2> HIDE DEF Late, AfterSync
    <2> QED
      BY <2>1, <2>2, <2>4, <2>5, <2>6, EarlyAtRest DEF KnownInv
  <1>3. CASE /\ ~tls /\ pc' = "inputHash" /\ run' = [run EXCEPT !.cond["TLS"] = "False"]
             /\ UNCHANGED <<status, queued>>
    <2>1. /\ run'.spec = run.spec
          /\ \A x \in Condition : run'.cond[x] = IF x = "TLS" THEN "False" ELSE run.cond[x]
      BY <1>0, <1>3 DEF Run
    <2>2. run'.cond["TLS"] = "False" /\ \A x \in Early \cup {"Ready", "Topology"} : run'.cond[x] = run.cond[x]
      BY <2>1, Names, Words DEF Early
    <2>3. DeployInv'
      BY <1>3, <2>2 DEF DeployInv, AfterAPIPatch, AfterRPC, AfterWorker, Skipped
    <2>4. ReportedInv'
      BY <1>3 DEF ReportedInv, AfterRbac, AfterBus, AfterTransport, AfterSecret,
                  AfterMemcached, AfterExternal, AfterDB
    <2>5. \A c \in Early : Fine(c)'
      <3>1. \A c \in Early : Fine(c)
        BY <1>0 DEF PassInv, ReportedInv, Early, AfterRbac, AfterBus, AfterTransport, AfterSecret,
                    AfterMemcached, AfterExternal, AfterDB
      <3> QED
        BY <2>2, <3>1 DEF Fine
    <2>6. CondInv'
      BY <1>0, <1>3, <2>2, <2>5 DEF PassInv, CondInv, Skipped
    <2>7. ~queued => run.spec = spec /\ ProbeInv
      BY <1>0 DEF KnownInv, AtRestInv, Undisturbed
    <2>8. ~queued => TLSInv' /\ ProbeInv'
      BY <1>0, <1>3, <2>1, <2>2, <2>7 DEF TLSInv, ProbeInv, AfterAPIPatch, Says, Probed, ProbeSaysWSGI
    <2>9. GateInv' /\ UpInv'
      BY <1>3 DEF GateInv, UpInv, AfterRPC, AfterWorker
    <2>10. Undisturbed'
      BY <1>0, <1>3, <2>1, <2>7, <2>8, <2>9 DEF Undisturbed
    <2>11. pc # "idle" /\ pc' # "idle"
      BY <1>0, <1>3
    <2> QED
      BY <2>3, <2>4, <2>6, <2>10, <2>11, OnAtRest DEF PassInv
  <1> QED
    BY <1>1, <1>2, <1>3 DEF ValidateTLS

\* The input hash, and the database sync job it guards.
LEMMA HashAtRest ==
    ASSUME KnownInv, CreateHashOfInputHashes \/ DbSyncJob
    PROVE  AtRestInv'
  <1>0. /\ pc \in {"hash", "dbsync"} /\ UNCHANGED <<spec, tls, config, job>>
        /\ PassInv /\ TypeOK /\ run \in Run
    BY DEF CreateHashOfInputHashes, DbSyncJob, cluster, KnownInv, AtRestInv, TypeInv, TypeOK
  <1>1. CASE \E w : GiveUp(w)
    BY <1>0, <1>1, GiveUpAtRest
  <1>2. ASSUME NEW w \in {{}, {"DBSync"}}, UNCHANGED <<status, queued>>, run'.spec = run.spec,
               \A x \in Condition : run'.cond[x] = IF x \in w THEN "True" ELSE run.cond[x],
               \/ pc = "hash" /\ pc' = "ac"
               \/ pc = "dbsync" /\ pc' = "services" /\ w = {"DBSync"} /\ run'.dbsync = run.spec.image
        PROVE  AtRestInv'
    <2>1. Reports(pc, w, pc')
      BY <1>2 DEF Reports, AfterRbac, AfterBus, AfterTransport, AfterSecret,
                  AfterMemcached, AfterExternal, AfterDB
    <2>2. ~queued => TLSInv /\ ProbeInv
      BY <1>0 DEF KnownInv, AtRestInv, Undisturbed
    <2>3. ~queued => TLSInv' /\ ProbeInv'
      BY <1>0, <1>2, <2>2 DEF TLSInv, ProbeInv, AfterAPIPatch, Says, Probed, ProbeSaysWSGI
    <2>4. w \subseteq Condition
      BY Words DEF InInit
    <2>5. pc # "idle" /\ pc' # "idle" /\ pc' \notin Late /\ (pc' \in AfterSync => run'.dbsync = run.spec.image)
      BY <1>2
    <2> HIDE DEF Late, AfterSync
    <2> QED
      BY <1>0, <1>2, <2>1, <2>3, <2>4, <2>5, EarlyAtRest DEF KnownInv
  <1>3. CASE pc = "hash" /\ pc' = "ac" /\ run' = [run EXCEPT !.hash = config] /\ UNCHANGED <<status, queued>>
    <2>1. run'.spec = run.spec /\ run'.cond = run.cond
      BY <1>0, <1>3 DEF Run
    <2> QED
      BY <1>2, <1>3, <2>1
  <1>4. CASE /\ pc = "dbsync" /\ pc' = "services" /\ UNCHANGED <<status, queued>>
             /\ run' = [run EXCEPT !.cond["DBSync"] = "True", !.dbsync = run.spec.image]
    <2>1. /\ run'.spec = run.spec /\ run'.dbsync = run.spec.image
          /\ \A x \in Condition : run'.cond[x] = IF x \in {"DBSync"} THEN "True" ELSE run.cond[x]
      BY <1>0, <1>4 DEF Run
    <2> QED
      BY <1>2, <1>4, <2>1
  <1> QED
    BY <1>1, <1>3, <1>4 DEF CreateHashOfInputHashes, DbSyncJob

\* The saved hash, and the topology the Deployments will use.
LEMMA TopologyAtRest ==
    ASSUME KnownInv, InputHash \/ EnsureServiceTopology
    PROVE  AtRestInv'
  <1>0. /\ pc \in {"inputHash", "topology"} /\ UNCHANGED <<spec, tls, config, depl, synced, job>>
        /\ AtRestInv /\ TypeOK
    BY DEF InputHash, EnsureServiceTopology, cluster, KnownInv, AtRestInv, TypeInv
  <1>1. CASE Return(run.cond, TRUE) \/ Return(Set(run.cond, "False", {"Topology"}), TRUE)
             \/ GiveUp({"Topology"})
    <2>1. run.cond["Topology"] # "Unknown" /\ Set(run.cond, "False", {"Topology"})["Topology"] # "Unknown"
      BY <1>0, Words DEF AtRestInv, PassInv, CondInv, Set
    <2> QED
      BY <1>0, <1>1, <2>1, RetryAtRest, GiveUpAtRest DEF AtRestInv
  <1>2. CASE pc = "inputHash" /\ Proceed({}, "topology")
    BY <1>0, <1>2, Order, ProceedAtRest
  <1>3. CASE pc = "topology" /\ Proceed(IF run.spec.topology THEN {"Topology"} ELSE {}, "api")
    <2> DEFINE w == IF run.spec.topology THEN {"Topology"} ELSE {}
    <2>1. /\ pc' = "api" /\ status' = status /\ queued' = queued
          /\ run'.spec = run.spec /\ run'.hash = run.hash /\ run'.dbsync = run.dbsync
          /\ run'.wsgi = run.wsgi
          /\ \A x \in Condition : run'.cond[x] = IF x \in w THEN "True" ELSE run.cond[x]
      BY <1>0, <1>3, ProceedFacts DEF Proceed
    <2>2. /\ w \subseteq Condition /\ "Ready" \notin w /\ w \cap {"TLS", "Deployment", "RPC", "Worker"} = {}
          /\ run.spec.topology => "Topology" \in w
      BY Words
    <2> HIDE DEF w
    <2>3. Reports(pc, w, pc') /\ SameBehind(pc, pc')
      BY <1>3, <2>1 DEF Reports, SameBehind, AfterRbac, AfterBus, AfterTransport, AfterSecret,
                        AfterMemcached, AfterExternal, AfterDB
    <2>4. QuietStep
      BY <1>0, <2>1, <2>2, <2>3, Names DEF QuietStep, Quiet
    <2> QED
      BY <1>0, <2>1, <2>2, <2>3, <2>4, QuietAtRest
  <1> QED
    BY <1>1, <1>2, <1>3 DEF InputHash, EnsureServiceTopology
=============================================================================
