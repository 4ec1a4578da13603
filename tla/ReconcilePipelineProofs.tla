---------------------- MODULE ReconcilePipelineProofs ----------------------
(***************************************************************************)
(* Proofs about ReconcilePipeline for every set of images, every edit      *)
(* bound and every behaviour of the environment: the type invariant, and   *)
(* that only an image with the Eventlet binary falls back to it.           *)
(***************************************************************************)
EXTENDS ReconcilePipeline, TLAPS

\* Sections behind the check of the input hash.
Checked == {"topology", "api", "apiCheck", "rpc", "rpcCheck", "worker",
            "workerCheck", "eventlet", "accounts", "finalize", "done"}

\* TypeOK is not inductive: a template holds a hash, which is there because
\* InputHash has looked.
TypeInv == TypeOK /\ (pc \in Checked => run.hash \in Config)

\* Set keeps the conditions a function of condition values.
LEMMA SetType ==
    ASSUME NEW c \in [Condition -> Value], NEW v \in Value, NEW w
    PROVE  Set(c, v, w) \in [Condition -> Value]
  BY DEF Set

\* Mirror yields a condition value.
LEMMA MirrorType ==
    ASSUME NEW c
    PROVE  Mirror(c) \subseteq Value
  BY DEF Mirror, Value

\* The names the sections use are conditions.
LEMMA Names ==
    /\ Persisted \subseteq Condition /\ "Ready" \in Persisted
    /\ {"TLS", "Topology", "RPC", "Worker", "Deployment", "NetworkAttachments",
        "NotificationBus", "DBSync"} \subseteq Condition
    /\ Absent \in Value /\ "True" \in Value /\ "False" \in Value /\ "Unknown" \in Value
  BY DEF Persisted, Condition, Listed, Unlisted, Value

\* A return of Reconcile.
LEMMA ReturnType ==
    ASSUME TypeOK, pc # "idle", NEW c \in [Condition -> Value], NEW q \in BOOLEAN,
           Return(c, q)
    PROVE  status' \in Status /\ queued' \in BOOLEAN /\ pc' = "idle" /\ run' = Idle
  <1>1. PICK r \in IF c["Ready"] = "Unknown" THEN Mirror(c) ELSE {c["Ready"]} :
            /\ status' = [cond |-> [x \in Persisted |-> IF x = "Ready" THEN r ELSE c[x]],
                          hash |-> run.hash, dbsync |-> run.dbsync]
            /\ queued' \in {queued \/ q \/ status' # status, TRUE}
            /\ pc' = "idle"
            /\ run' = Idle
    BY DEF Return
  <1>2. r \in Value
    BY MirrorType, Names
  <1>3. run.hash \in Hash /\ run.dbsync \in Image \cup {Absent}
    BY DEF TypeOK, Run
  <1>4. [x \in Persisted |-> IF x = "Ready" THEN r ELSE c[x]] \in [Persisted -> Value]
    BY <1>2, Names
  <1>5. queued' \in BOOLEAN
    BY <1>1 DEF TypeOK
  <1> QED
    BY <1>1, <1>3, <1>4, <1>5 DEF Status

\* An early return.
LEMMA GiveUpType ==
    ASSUME TypeOK, pc # "idle", NEW w, GiveUp(w)
    PROVE  status' \in Status /\ queued' \in BOOLEAN /\ pc' = "idle" /\ run' = Idle
  <1>1. Set(run.cond, "False", w) \in [Condition -> Value]
    BY SetType, Names DEF TypeOK, Run
  <1> QED
    BY <1>1, ReturnType DEF GiveUp

\* A section that succeeds.
LEMMA ProceedType ==
    ASSUME TypeOK, pc # "idle", NEW w, NEW next \in PC \ {"idle"}, Proceed(w, next)
    PROVE  /\ status' \in Status /\ queued' \in BOOLEAN
           /\ pc' = next /\ run' \in Run /\ run'.hash = run.hash
  <1>1. Set(run.cond, "True", w) \in [Condition -> Value]
    BY SetType, Names DEF TypeOK, Run
  <1> QED
    BY <1>1 DEF Proceed, TypeOK, Run

\* A plain section.
LEMMA SectionType ==
    ASSUME TypeInv, NEW here \in PC \ {"idle"}, NEW w, NEW next \in PC \ {"idle"}, NEW f,
           Section(here, w, next, f), next \in Checked => here \in Checked
    PROVE  TypeInv'
  <1>1. pc # "idle" /\ UNCHANGED <<cluster, config, depl, synced, job>>
    BY DEF Section
  <1>2. CASE Proceed(w, next)
    <2>1. /\ status' \in Status /\ queued' \in BOOLEAN
          /\ pc' = next /\ run' \in Run /\ run'.hash = run.hash
      BY <1>1, <1>2, ProceedType DEF TypeInv
    <2> QED
      BY <1>1, <2>1 DEF TypeInv, TypeOK, cluster, Section
  <1>3. CASE \E g \in f : GiveUp(g)
    <2>1. status' \in Status /\ queued' \in BOOLEAN /\ pc' = "idle" /\ run' = Idle
      BY <1>1, <1>3, GiveUpType DEF TypeInv
    <2> QED
      BY <1>1, <2>1 DEF TypeInv, TypeOK, cluster, PC, Checked
  <1> QED
    BY <1>2, <1>3 DEF Section

\* IsWSGIEffective returns a Boolean.
LEMMA StrategyType ==
    ASSUME TypeOK, pc # "idle"
    PROVE  IsWSGIEffective \subseteq BOOLEAN
  BY DEF TypeOK, Run, IsWSGIEffective, ProbeSaysWSGI

\* IsWSGIEffective leaves a Job or none.
LEMMA ProbeJobType ==
    ASSUME TypeOK, pc # "idle", ProbeJob
    PROVE  job' \in Job \cup {Absent}
  <1>1. run.spec.image \in Image
    BY DEF TypeOK, Run, SpecType
  <1>2. [image |-> run.spec.image, result |-> "running", deleting |-> FALSE] \in Job
    BY <1>1 DEF Job
  <1>3. job # Absent => [job EXCEPT !.deleting = TRUE] \in Job
    BY DEF TypeOK, Job
  <1> QED
    BY <1>2, <1>3 DEF TypeOK, ProbeJob

\* CreateOrPatch with the template of the pass.
LEMMA PatchType ==
    ASSUME TypeInv, pc \in Checked, NEW w \in BOOLEAN, NEW d \in Deployments,
           CreateOrPatch(d, TemplateFor(w))
    PROVE  /\ depl' \in [Deployments -> Deployment \cup {Absent}]
           /\ Gate(d, TemplateFor(w)) \in {"closed", "open", "ready"}
  <1> DEFINE t == TemplateFor(w)
  <1>1. run \in Run /\ run.hash \in Config
    BY DEF TypeInv, TypeOK, Checked
  <1>2. t \in Template
    BY <1>1 DEF TemplateFor, Template, Run, SpecType
  <1> HIDE DEF t
  <1>3. [tmpl |-> t, observed |-> FALSE, done |-> FALSE, old |-> depl[d] # Absent] \in Deployment
    BY <1>2 DEF Deployment
  <1>4. depl' \in [Deployments -> Deployment \cup {Absent}]
    BY <1>3 DEF CreateOrPatch, TypeInv, TypeOK, t
  <1>5. Gate(d, t) \in {"closed", "open", "ready"}
    BY DEF Gate
  <1> QED
    BY <1>4, <1>5 DEF t

\* The patch of the RPC or worker Deployment.
LEMMA PatchExtraType ==
    ASSUME TypeInv, pc \in Checked, NEW d \in Deployments, NEW c \in Condition,
           NEW next \in Checked, PatchExtra(d, c, next),
           UNCHANGED <<cluster, config, synced, job>>
    PROVE  TypeInv'
  <1>1. pc # "idle" /\ run \in Run /\ run.hash \in Config /\ next # "idle" /\ next \in PC
    BY DEF TypeInv, TypeOK, Checked, PC
  <1>2. CASE GiveUp({c}) /\ UNCHANGED depl
    <2>1. status' \in Status /\ queued' \in BOOLEAN /\ pc' = "idle" /\ run' = Idle
      BY <1>1, <1>2, GiveUpType DEF TypeInv
    <2> QED
      BY <1>2, <2>1 DEF TypeInv, TypeOK, cluster, PC, Checked
  <1>3. CASE /\ pc' = next
             /\ CreateOrPatch(d, TemplateFor(TRUE))
             /\ run' = [run EXCEPT !.cond[c] = "False", !.gate = Gate(d, TemplateFor(TRUE))]
             /\ UNCHANGED <<status, queued>>
    <2>1. /\ depl' \in [Deployments -> Deployment \cup {Absent}]
          /\ Gate(d, TemplateFor(TRUE)) \in {"closed", "open", "ready"}
      BY <1>3, PatchType
    <2>2. [run.cond EXCEPT ![c] = "False"] \in [Condition -> Value]
      BY <1>1, Names DEF Run
    <2>3. run' \in Run /\ run'.hash = run.hash
      BY <1>1, <1>3, <2>1, <2>2 DEF Run
    <2> QED
      BY <1>1, <1>3, <2>1, <2>3 DEF TypeInv, TypeOK, cluster
  <1> QED
    BY <1>2, <1>3 DEF PatchExtra

\* The readiness of the RPC or worker Deployment.
LEMMA CheckExtraType ==
    ASSUME TypeInv, pc \in Checked, NEW d \in Deployments, NEW c \in Condition,
           NEW next \in Checked, CheckExtra(d, c, next),
           UNCHANGED <<cluster, config, depl, synced, job>>
    PROVE  TypeInv'
  <1>1. pc # "idle" /\ run \in Run /\ run.hash \in Config /\ next \in PC \ {"idle"}
    BY DEF TypeInv, TypeOK, Checked, PC
  <1>2. CASE GiveUp({})
    <2>1. status' \in Status /\ queued' \in BOOLEAN /\ pc' = "idle" /\ run' = Idle
      BY <1>1, <1>2, GiveUpType DEF TypeInv
    <2> QED
      BY <2>1 DEF TypeInv, TypeOK, cluster, PC, Checked
  <1>3. CASE Proceed(IF run.gate # "closed" /\ IsReadyForInput(d) THEN {c} ELSE {}, next)
    <2>1. /\ status' \in Status /\ queued' \in BOOLEAN
          /\ pc' = next /\ run' \in Run /\ run'.hash = run.hash
      BY <1>1, <1>3, ProceedType DEF TypeInv
    <2> QED
      BY <1>1, <2>1 DEF TypeInv, TypeOK, cluster
  <1> QED
    BY <1>2, <1>3 DEF CheckExtra

\* The sections that are a Section.
LEMMA PlainSectionsType ==
    ASSUME TypeInv,
           \/ ReconcileRbac \/ TransportURLCreateOrUpdate \/ VerifyTransportSecret
           \/ VerifyServiceSecret \/ GetMemcached \/ ReconcileExternalSecrets
           \/ EnsureNetworks \/ EnsureDB \/ ManageACFinalizer \/ ExposeService
           \/ KeystoneService \/ KeystoneEndpoint
           \/ DeleteUnusedAccountFinalizers \/ FinalizeRotations
    PROVE  TypeInv'
  <1> USE DEF PC, Checked
  <1>1. CASE ReconcileRbac
    BY <1>1, SectionType DEF ReconcileRbac
  <1>2. CASE TransportURLCreateOrUpdate
    BY <1>2, SectionType DEF TransportURLCreateOrUpdate
  <1>3. CASE VerifyTransportSecret
    BY <1>3, SectionType DEF VerifyTransportSecret
  <1>4. CASE VerifyServiceSecret
    BY <1>4, SectionType DEF VerifyServiceSecret
  <1>5. CASE GetMemcached
    BY <1>5, SectionType DEF GetMemcached
  <1>6. CASE ReconcileExternalSecrets
    BY <1>6, SectionType DEF ReconcileExternalSecrets
  <1>7. CASE EnsureNetworks
    BY <1>7, SectionType DEF EnsureNetworks
  <1>8. CASE EnsureDB
    BY <1>8, SectionType DEF EnsureDB
  <1>9. CASE ManageACFinalizer
    BY <1>9, SectionType DEF ManageACFinalizer
  <1>10. CASE ExposeService
    BY <1>10, SectionType DEF ExposeService
  <1>11. CASE KeystoneService
    BY <1>11, SectionType DEF KeystoneService
  <1>12. CASE KeystoneEndpoint
    BY <1>12, SectionType DEF KeystoneEndpoint
  <1>13. CASE DeleteUnusedAccountFinalizers
    BY <1>13, SectionType DEF DeleteUnusedAccountFinalizers
  <1>14. CASE FinalizeRotations
    BY <1>14, SectionType DEF FinalizeRotations
  <1> QED
    BY <1>1, <1>2, <1>3, <1>4, <1>5, <1>6, <1>7, <1>8, <1>9, <1>10, <1>11,
       <1>12, <1>13, <1>14

\* The start of a pass, and the sections that render, hash and synchronise.
LEMMA InitSectionsType ==
    ASSUME TypeInv,
           \/ Reconcile \/ NotificationBus \/ GenerateServiceSecrets \/ ValidateTLS
           \/ CreateHashOfInputHashes \/ DbSyncJob
    PROVE  TypeInv'
  <1> DEFINE Returned == status' \in Status /\ queued' \in BOOLEAN /\ pc' = "idle" /\ run' = Idle
             Went(next) == /\ status' \in Status /\ queued' \in BOOLEAN
                           /\ pc' = next /\ run' \in Run
  <1>a. TypeOK
    BY DEF TypeInv
  <1>1. CASE Reconcile
    <2>1. UNCHANGED <<cluster, config, depl, synced, job>> /\ pc = "idle"
      BY <1>1 DEF Reconcile
    <2>2. CASE status.cond["Ready"] = Absent
      <3>1. status' \in Status
        BY <1>1, <1>a, <2>2, Names DEF Reconcile, TypeOK, Status
      <3> QED
        BY <1>1, <1>a, <2>1, <2>2, <3>1 DEF Reconcile, TypeInv, TypeOK, cluster, Checked
    <2>3. CASE status.cond["Ready"] # Absent
      <3>1. InitConditions(status.cond) \in [Condition -> Value]
        BY <1>a, Names DEF InitConditions, TypeOK, Status, Persisted, Condition
      <3>2. /\ spec \in SpecType /\ status.hash \in Hash
            /\ status.dbsync \in Image \cup {Absent}
        BY <1>a DEF TypeOK, Status
      <3>3. run' = [spec |-> spec, cond |-> InitConditions(status.cond),
                    hash |-> status.hash, dbsync |-> status.dbsync,
                    wsgi |-> FALSE, gate |-> "closed"]
        BY <1>1, <2>3 DEF Reconcile
      <3>4. run' \in Run
        BY <3>1, <3>2, <3>3 DEF Run
      <3> QED
        BY <1>1, <1>a, <2>1, <2>3, <3>4 DEF Reconcile, TypeInv, TypeOK, cluster, Checked, PC
    <2> QED
      BY <2>2, <2>3
  <1>2. CASE NotificationBus
    <2>1. CASE Section("notifications", {"NotificationBus"}, "transportSecret",
                       {{"NotificationBus"}, {"Input"}, {}})
      BY <2>1, SectionType DEF PC, Checked
    <2>2. CASE /\ pc = "notifications"
               /\ pc' = "transportSecret"
               /\ run' = [run EXCEPT !.cond["NotificationBus"] = Absent]
               /\ UNCHANGED <<cluster, status, queued, config, depl, synced, job>>
      <3>1. run' \in Run
        BY <1>a, <2>2, Names DEF TypeOK, Run
      <3> QED
        BY <1>a, <2>2, <3>1 DEF TypeInv, TypeOK, cluster, PC, Checked
    <2> QED
      BY <1>2, <2>1, <2>2 DEF NotificationBus
  <1>3. CASE GenerateServiceSecrets
    <2>0. pc = "config" /\ UNCHANGED <<cluster, depl, synced>>
      BY <1>3 DEF GenerateServiceSecrets
    <2>1. CASE /\ Proceed({}, "tls")
               /\ \E w \in IsWSGIEffective :
                     config' = [bus |-> run.spec.bus, rpc |-> run.spec.rpc, wsgi |-> w]
               /\ ProbeJob
      <3>1. Went("tls")
        BY <1>a, <2>0, <2>1, ProceedType DEF PC
      <3>2. config' \in Hash
        BY <1>a, <2>0, <2>1, StrategyType DEF TypeOK, Run, SpecType, Hash, Config
      <3>3. job' \in Job \cup {Absent}
        BY <1>a, <2>0, <2>1, ProbeJobType
      <3> QED
        BY <1>a, <2>0, <3>1, <3>2, <3>3 DEF TypeInv, TypeOK, cluster, PC, Checked
    <2>2. CASE /\ GiveUp({"ServiceConfig"}) \/ GiveUp({"ServiceConfig", "Input"})
               /\ \/ UNCHANGED config
                  \/ \E w \in IsWSGIEffective :
                       config' = [bus |-> run.spec.bus, rpc |-> run.spec.rpc, wsgi |-> w]
               /\ ProbeJob \/ UNCHANGED job
      <3>1. Returned
        BY <1>a, <2>0, <2>2, GiveUpType
      <3>2. config' \in Hash
        BY <1>a, <2>0, <2>2, StrategyType DEF TypeOK, Run, SpecType, Hash, Config
      <3>3. job' \in Job \cup {Absent}
        BY <1>a, <2>0, <2>2, ProbeJobType DEF TypeOK
      <3> QED
        BY <1>a, <2>0, <3>1, <3>2, <3>3 DEF TypeInv, TypeOK, cluster, PC, Checked
    <2> QED
      BY <1>3, <2>1, <2>2 DEF GenerateServiceSecrets
  <1>4. CASE ValidateTLS
    <2>0. pc = "tls" /\ UNCHANGED <<cluster, config, depl, synced, job>>
      BY <1>4 DEF ValidateTLS
    <2>1. CASE Proceed({"TLS"}, "hash")
      <3>1. Went("hash")
        BY <1>a, <2>0, <2>1, ProceedType DEF PC
      <3> QED
        BY <1>a, <2>0, <3>1 DEF TypeInv, TypeOK, cluster, PC, Checked
    <2>2. CASE /\ pc' = "inputHash"
               /\ run' = [run EXCEPT !.cond["TLS"] = "False"]
               /\ UNCHANGED <<status, queued>>
      <3>1. run' \in Run
        BY <1>a, <2>0, <2>2, Names DEF TypeOK, Run
      <3> QED
        BY <1>a, <2>0, <2>2, <3>1 DEF TypeInv, TypeOK, cluster, PC, Checked
    <2>3. CASE GiveUp({"TLS"})
      <3>1. Returned
        BY <1>a, <2>0, <2>3, GiveUpType
      <3> QED
        BY <1>a, <2>0, <3>1 DEF TypeInv, TypeOK, cluster, PC, Checked
    <2> QED
      BY <1>4, <2>1, <2>2, <2>3 DEF ValidateTLS
  <1>5. CASE CreateHashOfInputHashes
    <2>0. pc = "hash" /\ UNCHANGED <<cluster, config, depl, synced, job>>
      BY <1>5 DEF CreateHashOfInputHashes
    <2>1. CASE /\ pc' = "ac" /\ run' = [run EXCEPT !.hash = config]
               /\ UNCHANGED <<status, queued>>
      <3>1. run' \in Run
        BY <1>a, <2>0, <2>1 DEF TypeOK, Run
      <3> QED
        BY <1>a, <2>0, <2>1, <3>1 DEF TypeInv, TypeOK, cluster, PC, Checked
    <2>2. CASE GiveUp({"ServiceConfig"})
      <3>1. Returned
        BY <1>a, <2>0, <2>2, GiveUpType
      <3> QED
        BY <1>a, <2>0, <3>1 DEF TypeInv, TypeOK, cluster, PC, Checked
    <2> QED
      BY <1>5, <2>1, <2>2 DEF CreateHashOfInputHashes
  <1>6. CASE DbSyncJob
    <2>0. pc = "dbsync" /\ UNCHANGED <<cluster, config, depl, job>>
      BY <1>6 DEF DbSyncJob
    <2>1. CASE /\ pc' = "services"
               /\ run' = [run EXCEPT !.cond["DBSync"] = "True", !.dbsync = run.spec.image]
               /\ synced' = IF run.dbsync = run.spec.image THEN synced
                            ELSE synced \cup {run.spec.image}
               /\ UNCHANGED <<status, queued>>
      <3>1. run.spec.image \in Image
        BY <1>a, <2>0 DEF TypeOK, Run, SpecType
      <3>2. run' \in Run
        BY <1>a, <2>0, <2>1, <3>1, Names DEF TypeOK, Run
      <3> QED
        BY <1>a, <2>0, <2>1, <3>1, <3>2 DEF TypeInv, TypeOK, cluster, PC, Checked
    <2>2. CASE GiveUp({"DBSync"}) /\ UNCHANGED synced
      <3>1. Returned
        BY <1>a, <2>0, <2>2, GiveUpType
      <3> QED
        BY <1>a, <2>0, <2>2, <3>1 DEF TypeInv, TypeOK, cluster, PC, Checked
    <2> QED
      BY <1>6, <2>1, <2>2 DEF DbSyncJob
  <1> QED
    BY <1>1, <1>2, <1>3, <1>4, <1>5, <1>6

\* The Deployments, the end of a pass, a crash.
LEMMA DeploySectionsType ==
    ASSUME TypeInv,
           \/ InputHash \/ EnsureServiceTopology \/ PatchAPI \/ CheckAPI \/ PatchRPC
           \/ CheckRPC \/ PatchWorker \/ CheckWorker \/ CleanUpWSGI \/ Done \/ Crash
    PROVE  TypeInv'
  <1> DEFINE Returned == status' \in Status /\ queued' \in BOOLEAN /\ pc' = "idle" /\ run' = Idle
             Went(next) == /\ status' \in Status /\ queued' \in BOOLEAN
                           /\ pc' = next /\ run' \in Run /\ run'.hash = run.hash
             Typed(d) == d \in [Deployments -> Deployment \cup {Absent}]
  <1>a. TypeOK
    BY DEF TypeInv
  <1>b. ASSUME Returned, UNCHANGED <<cluster, config, synced, job>>, Typed(depl')
        PROVE  TypeInv'
    BY <1>a, <1>b DEF TypeInv, TypeOK, cluster, PC, Checked
  <1>c. ASSUME NEW next \in Checked, Went(next), run.hash \in Config,
               UNCHANGED <<cluster, config, synced, job>>, Typed(depl')
        PROVE  TypeInv'
    BY <1>a, <1>c DEF TypeInv, TypeOK, cluster, PC, Checked
  <1>d. Typed(depl)
    BY <1>a DEF TypeOK
  <1>e. pc # "idle" => run \in Run /\ run.cond \in [Condition -> Value]
    BY <1>a DEF TypeOK, Run
  <1>f. pc \in Checked => run.hash \in Config
    BY DEF TypeInv
  <1> HIDE DEF Typed
  <1>1. CASE InputHash
    <2>0. pc = "inputHash" /\ UNCHANGED <<cluster, config, depl, synced, job>>
      BY <1>1 DEF InputHash
    <2>1. CASE run.hash = Absent
      <3>1. Returned
        BY <1>1, <1>a, <1>e, <2>0, <2>1, ReturnType DEF InputHash
      <3> QED
        BY <1>b, <1>d, <2>0, <3>1
    <2>2. CASE run.hash # Absent
      <3>1. run.hash \in Config
        BY <1>e, <2>0, <2>2 DEF Run, Hash
      <3>2. Went("topology")
        BY <1>1, <1>a, <2>0, <2>2, ProceedType DEF InputHash, PC
      <3> QED
        BY <1>c, <1>d, <2>0, <3>1, <3>2 DEF Checked
    <2> QED
      BY <2>1, <2>2
  <1>2. CASE EnsureServiceTopology
    <2>0. pc = "topology" /\ UNCHANGED <<cluster, config, depl, synced, job>>
      BY <1>2 DEF EnsureServiceTopology
    <2>1. Set(run.cond, "False", {"Topology"}) \in [Condition -> Value]
      BY <1>e, <2>0, SetType, Names
    <2>2. Returned \/ Went("api")
      BY <1>2, <1>a, <2>0, <2>1, ReturnType, GiveUpType, ProceedType
         DEF EnsureServiceTopology, PC
    <2> QED
      BY <1>b, <1>c, <1>d, <1>f, <2>0, <2>2 DEF Checked
  <1>3. CASE PatchAPI
    <2>0. pc = "api" /\ UNCHANGED <<cluster, config, synced>> /\ ProbeJob
      BY <1>3 DEF PatchAPI
    <2>1. job' \in Job \cup {Absent}
      BY <1>a, <2>0, ProbeJobType
    <2>2. CASE GiveUp({"Deployment"}) /\ UNCHANGED depl
      <3>1. Returned
        BY <1>a, <2>0, <2>2, GiveUpType
      <3> QED
        BY <1>a, <2>0, <2>1, <2>2, <3>1 DEF TypeInv, TypeOK, cluster, PC, Checked
    <2>3. ASSUME NEW w \in IsWSGIEffective, pc' = "apiCheck",
                 CreateOrPatch("neutron", TemplateFor(w)),
                 run' = [run EXCEPT !.wsgi = w, !.gate = Gate("neutron", TemplateFor(w))],
                 UNCHANGED <<status, queued>>
          PROVE  TypeInv'
      <3>1. w \in BOOLEAN
        BY <1>a, <2>0, StrategyType
      <3>2. Typed(depl') /\ Gate("neutron", TemplateFor(w)) \in {"closed", "open", "ready"}
        BY <2>0, <2>3, <3>1, PatchType DEF Checked, Deployments, Typed
      <3>3. run' \in Run /\ run'.hash = run.hash
        BY <1>e, <2>0, <2>3, <3>1, <3>2 DEF Run
      <3> QED
        BY <1>a, <1>f, <2>0, <2>1, <2>3, <3>2, <3>3
           DEF TypeInv, TypeOK, cluster, PC, Checked, Typed
    <2> QED
      BY <1>3, <2>2, <2>3 DEF PatchAPI
  <1>4. CASE CheckAPI
    <2>0. pc = "apiCheck" /\ UNCHANGED <<cluster, config, depl, synced, job>>
      BY <1>4 DEF CheckAPI
    <2>1. Set(run.cond, "True", {"NetworkAttachments"}) \in [Condition -> Value]
      BY <1>e, <2>0, SetType, Names
    <2>2. AfterAPI \in Checked /\ AfterAPI \in PC \ {"idle"}
      BY DEF AfterAPI, Checked, PC
    <2>3. CASE \E w : Proceed(w, AfterAPI)
      <3>1. Went(AfterAPI)
        BY <1>a, <2>0, <2>2, <2>3, ProceedType
      <3> QED
        BY <1>c, <1>d, <1>f, <2>0, <2>2, <3>1 DEF Checked
    <2>4. CASE /\ pc' = AfterAPI
               /\ run' = [run EXCEPT !.cond["NetworkAttachments"] = "True",
                                     !.cond["Deployment"] = "False"]
               /\ UNCHANGED <<status, queued>>
      <3>1. [[run.cond EXCEPT !["NetworkAttachments"] = "True"]
               EXCEPT !["Deployment"] = "False"] \in [Condition -> Value]
        BY <1>e, <2>0, Names
      <3>2. run' \in Run /\ run'.hash = run.hash
        BY <1>e, <2>0, <2>4, <3>1 DEF Run
      <3>3. Went(AfterAPI)
        BY <1>a, <2>4, <3>2 DEF TypeOK
      <3> QED
        BY <1>c, <1>d, <1>f, <2>0, <2>2, <3>3 DEF Checked
    <2>5. CASE (\E w : GiveUp(w)) \/ Return(Set(run.cond, "True", {"NetworkAttachments"}), TRUE)
      <3>1. Returned
        BY <1>a, <2>0, <2>1, <2>5, GiveUpType, ReturnType
      <3> QED
        BY <1>b, <1>d, <2>0, <3>1
    <2> QED
      BY <1>4, <2>3, <2>4, <2>5 DEF CheckAPI
  <1>5. CASE PatchRPC
    <2>0. pc = "rpc" /\ UNCHANGED <<cluster, config, synced, job>>
      BY <1>5 DEF PatchRPC
    <2>1. CASE PatchExtra("rpc", "RPC", "rpcCheck")
      BY <2>0, <2>1, PatchExtraType, Names DEF Checked, Deployments
    <2>2. CASE Proceed({"RPC"}, "worker") /\ depl' = [depl EXCEPT !["rpc"] = Absent]
      <3>1. Went("worker")
        BY <1>a, <2>0, <2>2, ProceedType DEF PC
      <3>2. Typed(depl')
        BY <1>d, <2>2 DEF Typed
      <3> QED
        BY <1>c, <1>f, <2>0, <3>1, <3>2 DEF Checked
    <2>3. CASE GiveUp({}) /\ UNCHANGED depl
      <3>1. Returned
        BY <1>a, <2>0, <2>3, GiveUpType
      <3> QED
        BY <1>b, <1>d, <2>0, <2>3, <3>1
    <2> QED
      BY <1>5, <2>1, <2>2, <2>3 DEF PatchRPC
  <1>6. CASE CheckRPC
    BY <1>6, CheckExtraType, Names DEF CheckRPC, Checked, Deployments
  <1>7. CASE PatchWorker
    BY <1>7, PatchExtraType, Names DEF PatchWorker, Checked, Deployments
  <1>8. CASE CheckWorker
    BY <1>8, CheckExtraType, Names DEF CheckWorker, Checked, Deployments
  <1>9. CASE CleanUpWSGI
    <2>0. pc = "eventlet" /\ UNCHANGED <<cluster, config, synced, job>>
      BY <1>9 DEF CleanUpWSGI
    <2>1. CASE /\ pc' = "accounts"
               /\ depl' = [depl EXCEPT !["rpc"] = Absent, !["worker"] = Absent]
               /\ run' = [run EXCEPT !.cond["RPC"] = Absent, !.cond["Worker"] = Absent]
               /\ UNCHANGED <<status, queued>>
      <3>1. [[run.cond EXCEPT !["RPC"] = Absent] EXCEPT !["Worker"] = Absent]
              \in [Condition -> Value]
        BY <1>e, <2>0, Names
      <3>2. run' \in Run /\ run'.hash = run.hash
        BY <1>e, <2>0, <2>1, <3>1 DEF Run
      <3>3. Went("accounts")
        BY <1>a, <2>1, <3>2 DEF TypeOK
      <3>4. Typed(depl')
        BY <1>d, <2>1 DEF Typed
      <3> QED
        BY <1>c, <1>f, <2>0, <3>3, <3>4 DEF Checked
    <2>2. CASE \E d \in {depl, [depl EXCEPT !["rpc"] = Absent]} : GiveUp({}) /\ depl' = d
      <3>1. Returned
        BY <1>a, <2>0, <2>2, GiveUpType
      <3>2. Typed(depl')
        BY <1>d, <2>2 DEF Typed
      <3> QED
        BY <1>b, <2>0, <3>1, <3>2
    <2> QED
      BY <1>9, <2>1, <2>2 DEF CleanUpWSGI
  <1>10. CASE Done
    <2>0. pc = "done" /\ UNCHANGED <<cluster, config, depl, synced, job>>
      BY <1>10 DEF Done
    <2>1. Set(run.cond, "True", {"Ready"}) \in [Condition -> Value]
      BY <1>e, <2>0, SetType, Names
    <2>2. Returned
      BY <1>10, <1>a, <1>e, <2>0, <2>1, ReturnType DEF Done
    <2> QED
      BY <1>b, <1>d, <2>0, <2>2
  <1>11. CASE Crash
    BY <1>11, <1>a, <1>b, <1>d DEF Crash, TypeOK
  <1> QED
    BY <1>1, <1>2, <1>3, <1>4, <1>5, <1>6, <1>7, <1>8, <1>9, <1>10, <1>11

\* The cluster and the user.
LEMMA ClusterType ==
    ASSUME TypeInv, Progress \/ TLSSecrets \/ TopologyObject \/ CalmDown
                    \/ (\E s \in SpecType : Edit(s)) \/ (\E d \in Deployments : PodLost(d))
    PROVE  TypeInv'
  <1>a. TypeOK /\ (pc \in Checked => run.hash \in Config)
    BY DEF TypeInv
  <1>b. ASSUME UNCHANGED controller, spec' \in SpecType, edits' \in 0..MaxEdits,
               tls' \in BOOLEAN, topo' \in BOOLEAN, queued' \in BOOLEAN, calm' \in BOOLEAN,
               depl' \in [Deployments -> Deployment \cup {Absent}],
               job' \in Job \cup {Absent}
        PROVE  TypeInv'
    BY <1>a, <1>b DEF TypeInv, TypeOK, controller
  <1>1. CASE ProbeEnds
    <2>1. job' \in Job \cup {Absent}
      BY <1>1, <1>a DEF ProbeEnds, TypeOK, Job
    <2> QED
      BY <1>1, <1>a, <1>b, <2>1 DEF ProbeEnds, TypeOK, cluster
  <1>2. CASE ProbeGone
    BY <1>2, <1>a, <1>b DEF ProbeGone, TypeOK, cluster
  <1>3. ASSUME NEW d \in Deployments, Observe(d) \/ Rollout(d) \/ PodLost(d)
        PROVE  TypeInv'
    <2>1. depl[d] \in Deployment
      BY <1>3, <1>a DEF Observe, Rollout, PodLost, TypeOK
    <2> DEFINE x == depl[d]
    <2>2. /\ [x EXCEPT !.observed = TRUE] \in Deployment
          /\ [x EXCEPT !.done = TRUE, !.old = FALSE] \in Deployment
          /\ [x EXCEPT !.done = FALSE] \in Deployment
      BY <2>1 DEF Deployment
    <2>3. \/ depl' = [depl EXCEPT ![d] = [x EXCEPT !.observed = TRUE]]
          \/ depl' = [depl EXCEPT ![d] = [x EXCEPT !.done = TRUE, !.old = FALSE]]
          \/ depl' = [depl EXCEPT ![d] = [x EXCEPT !.done = FALSE]]
      BY <1>3, <1>a DEF Observe, Rollout, PodLost, TypeOK
    <2> HIDE DEF x
    <2>4. depl' \in [Deployments -> Deployment \cup {Absent}]
      BY <1>a, <2>2, <2>3 DEF TypeOK
    <2> QED
      BY <1>3, <1>a, <1>b, <2>4 DEF Observe, Rollout, PodLost, TypeOK, cluster
  <1>4. CASE TLSSecrets
    BY <1>4, <1>a, <1>b DEF TLSSecrets, TypeOK
  <1>5. CASE TopologyObject
    BY <1>5, <1>a, <1>b DEF TopologyObject, TypeOK
  <1>6. CASE CalmDown
    BY <1>6, <1>a, <1>b DEF CalmDown, TypeOK
  <1>7. ASSUME NEW s \in SpecType, Edit(s)
        PROVE  TypeInv'
    <2>1. edits' \in 0..MaxEdits
      BY <1>7, <1>a, EditsAssumption DEF Edit, TypeOK
    <2> QED
      BY <1>7, <1>a, <1>b, <2>1 DEF Edit, TypeOK
  <1> QED
    BY <1>1, <1>2, <1>3, <1>4, <1>5, <1>6, <1>7 DEF Progress

\* Every step preserves the types.
LEMMA TypeStep == TypeInv /\ [Next]_vars => TypeInv'
  <1> SUFFICES ASSUME TypeInv, [Next]_vars
               PROVE  TypeInv'
    OBVIOUS
  <1>1. CASE Normal
    BY <1>1, PlainSectionsType, InitSectionsType DEF Normal
  <1>2. CASE ReconcileInit
    BY <1>2, PlainSectionsType, InitSectionsType DEF ReconcileInit
  <1>3. CASE Deploy
    BY <1>3, PlainSectionsType, DeploySectionsType DEF Deploy
  <1>4. CASE Progress
    BY <1>4, ClusterType
  <1>5. CASE Environment
    BY <1>5, ClusterType, DeploySectionsType DEF Environment
  <1>6. CASE UNCHANGED vars
    BY <1>6 DEF vars, TypeInv, TypeOK
  <1> QED
    BY <1>1, <1>2, <1>3, <1>4, <1>5, <1>6 DEF Next, Pass

\* A new resource.
LEMMA TypeInit == Init => TypeInv
  <1> SUFFICES ASSUME Init PROVE TypeInv
    OBVIOUS
  <1>1. spec \in SpecType
    BY ImageAssumption DEF Init, SpecType
  <1>2. status \in Status
    BY DEF Init, Status, Hash, Value
  <1>3. /\ edits \in 0..MaxEdits
        /\ config \in Hash /\ synced \subseteq Image /\ job \in Job \cup {Absent}
        /\ depl \in [Deployments -> Deployment \cup {Absent}]
    BY EditsAssumption DEF Init, Hash
  <1>4. /\ tls \in BOOLEAN /\ topo \in BOOLEAN /\ queued \in BOOLEAN /\ calm \in BOOLEAN
        /\ pc = "idle" /\ run = Idle
    BY DEF Init
  <1> QED
    BY <1>1, <1>2, <1>3, <1>4 DEF TypeInv, TypeOK, PC, Checked

\* TypeOK holds for every set of images and every edit bound; in particular a
\* Deployment is never given a template without an input hash.
THEOREM PipelineTypeCorrect == Spec => []TypeOK
  <1>1. TypeInv => TypeOK
    BY DEF TypeInv
  <1> QED
    BY <1>1, TypeInit, TypeStep, PTL DEF Spec

-----------------------------------------------------------------------------
(* The fall back to the Eventlet strategy *)

\* A probe that failed has found the binary.
FallbackInv ==
    /\ job # Absent /\ job.result = "failed" => job.image \in Legacy
    /\ FallbackOnlyForLegacy

\* A step that leaves the Job and does not reach the API Deployment.
Aloof == job' = job /\ (pc' # "apiCheck" \/ UNCHANGED <<pc, run>>)

\* A plain section is such a step,
LEMMA SectionAloof ==
    ASSUME NEW here, NEW w, NEW next, NEW f, Section(here, w, next, f), next # "apiCheck"
    PROVE  Aloof
  BY DEF Section, Proceed, GiveUp, Return, Aloof

\* as are all sections written that way,
LEMMA SectionsAloof ==
    ASSUME \/ ReconcileRbac \/ TransportURLCreateOrUpdate \/ VerifyTransportSecret
           \/ VerifyServiceSecret \/ GetMemcached \/ ReconcileExternalSecrets
           \/ EnsureNetworks \/ EnsureDB \/ ManageACFinalizer \/ ExposeService
           \/ KeystoneService \/ KeystoneEndpoint
           \/ DeleteUnusedAccountFinalizers \/ FinalizeRotations
    PROVE  Aloof
  <1>1. \E here, w, next, f : Section(here, w, next, f) /\ next # "apiCheck"
    BY DEF ReconcileRbac, TransportURLCreateOrUpdate, VerifyTransportSecret,
           VerifyServiceSecret, GetMemcached, ReconcileExternalSecrets,
           EnsureNetworks, EnsureDB, ManageACFinalizer, ExposeService,
           KeystoneService, KeystoneEndpoint, DeleteUnusedAccountFinalizers,
           FinalizeRotations
  <1> QED
    BY <1>1, SectionAloof

\* the other sections but the two that probe the image,
LEMMA PassAloof ==
    ASSUME \/ Reconcile \/ NotificationBus \/ ValidateTLS \/ CreateHashOfInputHashes
           \/ DbSyncJob \/ InputHash \/ EnsureServiceTopology \/ Done \/ Crash
           \/ CheckAPI \/ PatchRPC \/ CheckRPC \/ PatchWorker \/ CheckWorker \/ CleanUpWSGI
    PROVE  Aloof
  <1> USE DEF Aloof, Proceed, GiveUp, Return
  <1>1. CASE Reconcile \/ Done \/ Crash
    BY <1>1 DEF Reconcile, Done, Crash
  <1>2. CASE NotificationBus
    BY <1>2, SectionAloof DEF NotificationBus
  <1>3. CASE ValidateTLS \/ CreateHashOfInputHashes \/ DbSyncJob
    BY <1>3 DEF ValidateTLS, CreateHashOfInputHashes, DbSyncJob
  <1>4. CASE InputHash \/ EnsureServiceTopology
    BY <1>4 DEF InputHash, EnsureServiceTopology
  <1>5. CASE CheckAPI
    BY <1>5 DEF CheckAPI, AfterAPI
  <1>6. CASE PatchRPC \/ PatchWorker
    BY <1>6 DEF PatchRPC, PatchWorker, PatchExtra
  <1>7. CASE CheckRPC \/ CheckWorker
    BY <1>7 DEF CheckRPC, CheckWorker, CheckExtra
  <1>8. CASE CleanUpWSGI
    BY <1>8 DEF CleanUpWSGI
  <1> QED
    BY <1>1, <1>2, <1>3, <1>4, <1>5, <1>6, <1>7, <1>8

\* and the steps of the cluster but the end of the Job.
LEMMA ClusterAloof ==
    ASSUME \/ TLSSecrets \/ TopologyObject \/ CalmDown \/ UNCHANGED vars
           \/ (\E s \in SpecType : Edit(s))
           \/ (\E d \in Deployments : Observe(d) \/ Rollout(d) \/ PodLost(d))
    PROVE  Aloof
  BY DEF TLSSecrets, TopologyObject, CalmDown, vars, Edit, Observe, Rollout, PodLost,
         controller, Aloof

\* The two calls of IsWSGIEffective: a new probe has no result yet.
LEMMA ProbeJobFallback ==
    ASSUME TypeOK, pc # "idle", FallbackInv, ProbeJob
    PROVE  job' # Absent /\ job'.result = "failed" => job'.image \in Legacy
  <1>1. job # Absent => job \in Job
    BY DEF TypeOK
  <1>2. \/ job' = job
        \/ job' = [image |-> run.spec.image, result |-> "running", deleting |-> FALSE]
        \/ job # Absent /\ job' = [job EXCEPT !.deleting = TRUE]
    BY DEF ProbeJob
  <1> QED
    BY <1>1, <1>2 DEF FallbackInv, Job

\* Unless a probe's pod or a call on its Job fails, the operator does not
\* fall back to the Eventlet strategy for an image without its binary,
\* however edits of the image and results of older probes interleave.
THEOREM PipelineFallbackOnlyForLegacy ==
    ASSUME "probe" \notin Knobs
    PROVE  Spec => []FallbackOnlyForLegacy
  <1>1. Init => FallbackInv
    BY DEF Init, FallbackInv, FallbackOnlyForLegacy
  <1>2. TypeInv /\ FallbackInv /\ [Next]_vars => FallbackInv'
    <2> SUFFICES ASSUME TypeInv, FallbackInv, [Next]_vars PROVE FallbackInv'
      OBVIOUS
    <2>1. CASE Aloof
      BY <2>1 DEF Aloof, FallbackInv, FallbackOnlyForLegacy
    <2>2. CASE GenerateServiceSecrets
      <3>1. pc = "config" /\ pc' # "apiCheck"
        BY <2>2 DEF GenerateServiceSecrets, Proceed, GiveUp, Return
      <3>2. ProbeJob \/ job' = job
        BY <2>2 DEF GenerateServiceSecrets
      <3> QED
        BY <3>1, <3>2, ProbeJobFallback DEF FallbackInv, FallbackOnlyForLegacy, TypeInv
    <2>3. CASE PatchAPI
      <3>1. pc = "api" /\ ProbeJob /\ run \in Run
        BY <2>3 DEF PatchAPI, TypeInv, TypeOK
      <3>2. CASE pc' # "apiCheck"
        BY <3>1, <3>2, ProbeJobFallback DEF FallbackInv, FallbackOnlyForLegacy, TypeInv
      <3>3. CASE pc' = "apiCheck"
        <4>1. PICK w \in IsWSGIEffective :
                run' = [run EXCEPT !.wsgi = w, !.gate = Gate("neutron", TemplateFor(w))]
          BY <2>3, <3>3 DEF PatchAPI, GiveUp, Return
        <4>2. run'.wsgi = w /\ run'.spec = run.spec
          BY <3>1, <4>1 DEF Run
        <4>3. run.spec.wsgi /\ ~w => run.spec.image \in Legacy
          BY DEF IsWSGIEffective, ProbeSaysWSGI, ProbeFails, FallbackInv
        <4> QED
          BY <3>1, <4>2, <4>3, ProbeJobFallback DEF FallbackInv, FallbackOnlyForLegacy, TypeInv
      <3> QED
        BY <3>2, <3>3
    <2>4. CASE ProbeEnds \/ ProbeGone
      <3>1. UNCHANGED <<pc, run>>
        BY <2>4 DEF ProbeEnds, ProbeGone, controller
      <3>2. job' # Absent /\ job'.result = "failed" => job'.image \in Legacy
        BY <2>4 DEF ProbeEnds, ProbeGone, ProbeFails, TypeInv, TypeOK, Job
      <3> QED
        BY <3>1, <3>2 DEF FallbackInv, FallbackOnlyForLegacy
    <2> QED
      BY <2>1, <2>2, <2>3, <2>4, SectionsAloof, PassAloof, ClusterAloof
         DEF Next, Pass, Normal, ReconcileInit, Deploy, Progress, Environment
  <1>3. FallbackInv => FallbackOnlyForLegacy
    BY DEF FallbackInv
  <1> QED
    BY <1>1, <1>2, <1>3, TypeInit, TypeStep, PTL DEF Spec
=============================================================================
