------------------------- MODULE ReadyHonestProofs -------------------------
(***************************************************************************)
(* ReadyIsHonest for every set of images, every edit bound and every       *)
(* behaviour of the environment ReconcilePipeline knows.                   *)
(*                                                                         *)
(* ReadyIsHonest speaks of the end of a pass only.  The invariant says     *)
(* what each condition stands for from the section that writes it up to    *)
(* the end: a condition that a section skips must already differ from True.*)
(***************************************************************************)
EXTENDS ReconcilePipelineProofs

\* Sections, by what lies behind them.
AfterSync == {"services", "keystoneService", "keystoneEndpoint"}
AfterHash == {"ac", "dbsync"} \cup AfterSync
Late == {"inputHash"} \cup Checked
AfterConfig == {"tls", "hash"} \cup AfterHash \cup Late
End == {"accounts", "finalize", "done"}
Extra == {"rpc", "rpcCheck", "worker", "workerCheck"}
AfterCheck == {"eventlet"} \cup Extra \cup End

Fresh(d) == depl[d] # Absent /\ depl[d].tmpl = TemplateFor(run.wsgi)
Rolled(d) == Fresh(d) /\ ~depl[d].old

\* Configuration, hash and schema are this pass's, unless a TLS secret is
\* missing: then TLS is False and the pass went round the rest of reconcileInit.
InputsInv ==
    /\ pc \in AfterConfig => config.bus = run.spec.bus /\ config.rpc = run.spec.rpc
    /\ pc \in AfterHash \/ (pc \in Late /\ run.cond["TLS"] # "False") => run.hash = config
    /\ pc \in AfterSync \/ (pc \in Late /\ run.cond["TLS"] # "False") =>
          run.spec.image \in synced

\* A db-sync on record has completed.
RecordInv ==
    /\ status.dbsync \in synced \cup {Absent}
    /\ pc # "idle" => run.dbsync \in synced \cup {Absent}

\* A complete rollout leaves no old pod.
RolloutInv == \A d \in Deployments : depl[d] # Absent /\ depl[d].done => ~depl[d].old

\* The condition of the API Deployment.
APIInv ==
    /\ pc \notin AfterCheck \cup {"idle"} => run.cond["Deployment"] = "Unknown"
    /\ pc = "apiCheck" => Fresh("neutron")
    /\ pc \in AfterCheck => run.cond["Deployment"] # Absent
    /\ pc \in AfterCheck /\ run.cond["Deployment"] = "True" => Rolled("neutron")

\* The conditions of the other two, which no pass resets.
ExtraInv ==
    /\ pc \in Extra => run.wsgi
    /\ pc = "eventlet" => ~run.wsgi
    /\ pc = "rpcCheck" => run.spec.rpc /\ run.cond["RPC"] = "False" /\ Fresh("rpc")
    /\ pc \in {"worker", "workerCheck"} \/ (pc \in End /\ run.wsgi) =>
          /\ run.cond["RPC"] # Absent
          /\ run.cond["RPC"] = "True" => IF run.spec.rpc THEN Rolled("rpc")
                                         ELSE depl["rpc"] = Absent
    /\ pc = "workerCheck" => run.cond["Worker"] = "False" /\ Fresh("worker")
    /\ pc \in End /\ run.wsgi =>
          /\ run.cond["Worker"] # Absent
          /\ run.cond["Worker"] = "True" => Rolled("worker")
    /\ pc \in End /\ ~run.wsgi => depl["rpc"] = Absent /\ depl["worker"] = Absent

HonestInv == InputsInv /\ RecordInv /\ RolloutInv /\ APIInv /\ ExtraInv

-----------------------------------------------------------------------------
(* Returns. *)

\* Between passes only the record and the Deployments matter.
LEMMA IdleHonest ==
    ASSUME HonestInv, pc' = "idle", synced' = synced,
           status'.dbsync \in synced \cup {Absent},
           \A d \in Deployments : depl'[d] = depl[d] \/ depl'[d] = Absent
    PROVE  HonestInv'
  <1>1. InputsInv'
    BY DEF InputsInv, AfterSync, AfterHash, Late, AfterConfig, Checked
  <1>2. RecordInv'
    BY DEF RecordInv
  <1>3. RolloutInv'
    BY DEF HonestInv, RolloutInv
  <1>4. APIInv'
    BY DEF APIInv, AfterCheck, Extra, End
  <1>5. ExtraInv'
    BY DEF ExtraInv, Extra, End
  <1> QED
    BY <1>1, <1>2, <1>3, <1>4, <1>5 DEF HonestInv

\* A return of Reconcile, whatever conditions it persists.
LEMMA ReturnHonest ==
    ASSUME HonestInv, pc # "idle", NEW c, NEW q, Return(c, q), synced' = synced,
           \A d \in Deployments : depl'[d] = depl[d] \/ depl'[d] = Absent
    PROVE  HonestInv'
  <1>1. pc' = "idle" /\ status'.dbsync = run.dbsync
    BY DEF Return
  <1>2. run.dbsync \in synced \cup {Absent}
    BY DEF HonestInv, RecordInv
  <1> QED
    BY <1>1, <1>2, IdleHonest

\* An early return.
LEMMA GiveUpHonest ==
    ASSUME HonestInv, pc # "idle", NEW w, GiveUp(w), synced' = synced, UNCHANGED depl
    PROVE  HonestInv'
  BY ReturnHonest DEF GiveUp

-----------------------------------------------------------------------------
(* Sections. *)

\* What a section that succeeds leaves in the pass's copy.
LEMMA ProceedFacts ==
    ASSUME TypeOK, pc # "idle", NEW w, NEW next, Proceed(w, next)
    PROVE  /\ pc' = next /\ status' = status
           /\ run'.spec = run.spec /\ run'.hash = run.hash /\ run'.dbsync = run.dbsync
           /\ run'.wsgi = run.wsgi
           /\ \A x \in Condition : run'.cond[x] = IF x \in w THEN "True" ELSE run.cond[x]
  <1>1. run' = [run EXCEPT !.cond = Set(run.cond, "True", w)] /\ run \in Run
    BY DEF Proceed, TypeOK
  <1>2. /\ run'.spec = run.spec /\ run'.hash = run.hash /\ run'.dbsync = run.dbsync
        /\ run'.wsgi = run.wsgi /\ run'.cond = Set(run.cond, "True", w)
    BY <1>1 DEF Run
  <1> QED
    BY <1>2 DEF Proceed, Set

\* A section that leaves the cluster as it is and writes no condition the
\* invariant reads.
Quiet ==
    /\ UNCHANGED <<config, depl, synced>>
    /\ pc # "idle" /\ status'.dbsync = status.dbsync
    /\ run'.spec = run.spec /\ run'.hash = run.hash /\ run'.dbsync = run.dbsync
    /\ run'.wsgi = run.wsgi
    /\ \A x \in {"TLS", "Deployment", "RPC", "Worker"} : run'.cond[x] = run.cond[x]

\* Such a section preserves the invariant if what lies behind it stays the same.
SameBehind(here, next) ==
    /\ next # "apiCheck" /\ next \notin Extra /\ next # "eventlet"
    /\ next \in AfterConfig => here \in AfterConfig
    /\ next \in AfterHash => here \in AfterHash
    /\ next \in AfterSync => here \in AfterSync
    /\ next \in Late => here \in Late \cup AfterSync
    /\ next \in AfterCheck <=> here \in AfterCheck
    /\ next \in End <=> here \in End

\* A quiet section preserves the invariant.
LEMMA QuietHonest ==
    ASSUME HonestInv, Quiet, SameBehind(pc, pc')
    PROVE  HonestInv'
  <1>1. \A d \in Deployments : Fresh(d)' = Fresh(d) /\ Rolled(d)' = Rolled(d)
    BY DEF Quiet, Fresh, Rolled, TemplateFor
  <1>2. InputsInv'
    BY DEF HonestInv, InputsInv, Quiet, SameBehind, AfterHash
  <1>3. RecordInv' /\ RolloutInv'
    BY DEF HonestInv, RecordInv, RolloutInv, Quiet
  <1>4. APIInv'
    BY <1>1 DEF HonestInv, APIInv, Quiet, SameBehind, Deployments
  <1>5. ExtraInv'
    BY <1>1 DEF HonestInv, ExtraInv, Quiet, SameBehind, Deployments, Extra
  <1> QED
    BY <1>2, <1>3, <1>4, <1>5 DEF HonestInv

\* So does a plain section, on success and on every failure.
LEMMA SectionHonest ==
    ASSUME TypeInv, HonestInv, NEW here \in PC \ {"idle"}, NEW w, NEW next, NEW f,
           Section(here, w, next, f), SameBehind(here, next),
           w \cap {"TLS", "Deployment", "RPC", "Worker"} = {}
    PROVE  HonestInv'
  <1>0. pc # "idle" /\ UNCHANGED <<config, depl, synced>> /\ TypeOK
    BY DEF Section, TypeInv
  <1>1. CASE \E g \in f : GiveUp(g)
    BY <1>0, <1>1, GiveUpHonest
  <1>2. CASE Proceed(w, next)
    <2>1. Quiet /\ pc = here /\ pc' = next
      BY <1>0, <1>2, ProceedFacts, Names DEF Quiet, Section
    <2> QED
      BY <2>1, QuietHonest
  <1> QED
    BY <1>1, <1>2 DEF Section

\* The sections of reconcileNormal and reconcileInit that only talk to other
\* operators.
LEMMA PlainSectionsHonest ==
    ASSUME TypeInv, HonestInv,
           \/ ReconcileRbac \/ TransportURLCreateOrUpdate \/ VerifyTransportSecret
           \/ VerifyServiceSecret \/ GetMemcached \/ ReconcileExternalSecrets
           \/ EnsureNetworks \/ EnsureDB \/ ManageACFinalizer \/ ExposeService
           \/ KeystoneService \/ KeystoneEndpoint
           \/ DeleteUnusedAccountFinalizers \/ FinalizeRotations
    PROVE  HonestInv'
  <1> USE DEF PC, SameBehind, AfterSync, AfterHash, Late, AfterConfig, End, Extra,
              AfterCheck, Checked
  <1>1. CASE ReconcileRbac
    BY <1>1, SectionHonest DEF ReconcileRbac
  <1>2. CASE TransportURLCreateOrUpdate
    BY <1>2, SectionHonest DEF TransportURLCreateOrUpdate
  <1>3. CASE VerifyTransportSecret
    BY <1>3, SectionHonest DEF VerifyTransportSecret
  <1>4. CASE VerifyServiceSecret
    BY <1>4, SectionHonest DEF VerifyServiceSecret
  <1>5. CASE GetMemcached
    BY <1>5, SectionHonest DEF GetMemcached
  <1>6. CASE ReconcileExternalSecrets
    BY <1>6, SectionHonest DEF ReconcileExternalSecrets
  <1>7. CASE EnsureNetworks
    BY <1>7, SectionHonest DEF EnsureNetworks
  <1>8. CASE EnsureDB
    BY <1>8, SectionHonest DEF EnsureDB
  <1>9. CASE ManageACFinalizer
    BY <1>9, SectionHonest DEF ManageACFinalizer
  <1>10. CASE ExposeService
    BY <1>10, SectionHonest DEF ExposeService
  <1>11. CASE KeystoneService
    BY <1>11, SectionHonest DEF KeystoneService
  <1>12. CASE KeystoneEndpoint
    BY <1>12, SectionHonest DEF KeystoneEndpoint
  <1>13. CASE DeleteUnusedAccountFinalizers
    BY <1>13, SectionHonest DEF DeleteUnusedAccountFinalizers
  <1>14. CASE FinalizeRotations
    BY <1>14, SectionHonest DEF FinalizeRotations
  <1> QED
    BY <1>1, <1>2, <1>3, <1>4, <1>5, <1>6, <1>7,
       <1>8, <1>9, <1>10, <1>11, <1>12, <1>13, <1>14

\* Up to the API Deployment no condition of a Deployment is written, and only
\* the facts about the inputs have to be shown.
Before(next) ==
    /\ pc # "idle" /\ pc \notin AfterCheck
    /\ next # "idle" /\ next \notin AfterCheck /\ next # "apiCheck"
    /\ pc' = next /\ UNCHANGED <<status, depl>>
    /\ run'.cond["Deployment"] = run.cond["Deployment"]

\* Ahead of the API Deployment it is enough to show the facts about the inputs.
LEMMA BeforeHonest ==
    ASSUME HonestInv, NEW next, Before(next), InputsInv',
           synced \subseteq synced', run'.dbsync \in synced' \cup {Absent}
    PROVE  HonestInv'
  <1>1. RecordInv'
    BY DEF HonestInv, RecordInv, Before
  <1>2. RolloutInv'
    BY DEF HonestInv, RolloutInv, Before
  <1>3. APIInv'
    BY DEF HonestInv, APIInv, Before
  <1>4. ExtraInv'
    BY DEF ExtraInv, Before, AfterCheck, Extra, End
  <1> QED
    BY <1>1, <1>2, <1>3, <1>4 DEF HonestInv

\* The start of a pass, and the sections that render, hash and synchronise.
LEMMA InitSectionsHonest ==
    ASSUME TypeInv, HonestInv,
           \/ Reconcile \/ NotificationBus \/ GenerateServiceSecrets \/ ValidateTLS
           \/ CreateHashOfInputHashes \/ DbSyncJob \/ InputHash \/ EnsureServiceTopology
    PROVE  HonestInv'
  <1>a. TypeOK /\ InputsInv /\ RecordInv
    BY DEF TypeInv, HonestInv
  <1>b. pc # "idle" => run \in Run
    BY <1>a DEF TypeOK
  <1> USE DEF AfterSync, AfterHash, Late, AfterConfig, AfterCheck, Checked, Extra, End
  <1>1. CASE Reconcile
    <2>1. CASE status.cond["Ready"] = Absent
      <3>1. pc' = "idle" /\ status'.dbsync = status.dbsync /\ UNCHANGED <<depl, synced>>
        BY <1>1, <1>a, <2>1 DEF Reconcile, TypeOK, Status
      <3> QED
        BY <1>a, <3>1, IdleHonest DEF RecordInv
    <2>2. CASE status.cond["Ready"] # Absent
      <3>1. /\ pc' = "rbac" /\ UNCHANGED <<status, depl, synced>>
            /\ run'.dbsync = status.dbsync
            /\ run'.cond = InitConditions(status.cond)
        BY <1>1, <2>2 DEF Reconcile
      <3>2. run'.cond["Deployment"] = "Unknown"
        BY <3>1, Names DEF InitConditions, Listed
      <3>3. InputsInv' /\ RecordInv'
        BY <1>a, <3>1 DEF InputsInv, RecordInv
      <3>4. RolloutInv'
        BY <3>1 DEF HonestInv, RolloutInv
      <3>5. APIInv' /\ ExtraInv'
        BY <3>1, <3>2 DEF APIInv, ExtraInv
      <3> QED
        BY <3>3, <3>4, <3>5 DEF HonestInv
    <2> QED
      BY <2>1, <2>2
  <1>2. CASE NotificationBus
    <2>1. CASE Section("notifications", {"NotificationBus"}, "transportSecret",
                       {{"NotificationBus"}, {"Input"}, {}})
      BY <2>1, SectionHonest DEF SameBehind, PC
    <2>2. CASE /\ pc = "notifications"
               /\ pc' = "transportSecret"
               /\ run' = [run EXCEPT !.cond["NotificationBus"] = Absent]
               /\ UNCHANGED <<cluster, status, queued, config, depl, synced, job>>
      <3>1. /\ run'.cond = [run.cond EXCEPT !["NotificationBus"] = Absent]
            /\ run'.spec = run.spec /\ run'.hash = run.hash /\ run'.dbsync = run.dbsync
            /\ run'.wsgi = run.wsgi /\ run.cond \in [Condition -> Value]
        BY <1>b, <2>2 DEF Run
      <3>2. Quiet
        BY <2>2, <3>1, Names DEF Quiet
      <3> QED
        BY <2>2, <3>2, QuietHonest DEF SameBehind
    <2> QED
      BY <1>2, <2>1, <2>2 DEF NotificationBus
  <1>3. CASE GenerateServiceSecrets
    <2>0. pc = "config" /\ UNCHANGED <<cluster, depl, synced>>
      BY <1>3 DEF GenerateServiceSecrets
    <2>1. CASE \E w : GiveUp(w)
      BY <2>0, <2>1, GiveUpHonest
    <2>2. CASE /\ Proceed({}, "tls")
               /\ \E w \in IsWSGIEffective :
                     config' = [bus |-> run.spec.bus, rpc |-> run.spec.rpc, wsgi |-> w]
      <3>1. Before("tls") /\ run'.spec = run.spec /\ run'.dbsync = run.dbsync
        BY <1>a, <2>0, <2>2, ProceedFacts, Names DEF Before
      <3>2. InputsInv'
        BY <2>2, <3>1 DEF InputsInv, Before
      <3> QED
        BY <1>a, <2>0, <3>1, <3>2, BeforeHonest DEF RecordInv
    <2> QED
      BY <1>3, <2>1, <2>2 DEF GenerateServiceSecrets
  <1>4. CASE ValidateTLS
    <2>0. pc = "tls" /\ UNCHANGED <<config, depl, synced>>
      BY <1>4 DEF ValidateTLS
    <2>1. CASE \E w : GiveUp(w)
      BY <2>0, <2>1, GiveUpHonest
    <2>2. CASE Proceed({"TLS"}, "hash")
      <3>1. Before("hash") /\ run'.spec = run.spec /\ run'.dbsync = run.dbsync
        BY <1>a, <2>0, <2>2, ProceedFacts, Names DEF Before
      <3>2. InputsInv'
        BY <1>a, <2>0, <3>1 DEF InputsInv, Before
      <3> QED
        BY <1>a, <2>0, <3>1, <3>2, BeforeHonest DEF RecordInv
    <2>3. CASE /\ pc' = "inputHash" /\ run' = [run EXCEPT !.cond["TLS"] = "False"]
               /\ UNCHANGED <<status, queued>>
      <3>1. /\ run'.cond = [run.cond EXCEPT !["TLS"] = "False"]
            /\ run'.spec = run.spec /\ run'.dbsync = run.dbsync
            /\ run.cond \in [Condition -> Value]
        BY <1>b, <2>0, <2>3 DEF Run
      <3>2. Before("inputHash") /\ run'.cond["TLS"] = "False"
        BY <2>0, <2>3, <3>1, Names DEF Before
      <3>3. InputsInv'
        BY <1>a, <2>0, <3>1, <3>2 DEF InputsInv, Before
      <3> QED
        BY <1>a, <2>0, <3>1, <3>2, <3>3, BeforeHonest DEF RecordInv
    <2> QED
      BY <1>4, <2>1, <2>2, <2>3 DEF ValidateTLS
  <1>5. CASE CreateHashOfInputHashes
    <2>0. pc = "hash" /\ UNCHANGED <<config, depl, synced>>
      BY <1>5 DEF CreateHashOfInputHashes
    <2>1. CASE \E w : GiveUp(w)
      BY <2>0, <2>1, GiveUpHonest
    <2>2. CASE /\ pc' = "ac" /\ run' = [run EXCEPT !.hash = config]
               /\ UNCHANGED <<status, queued>>
      <3>1. /\ Before("ac") /\ run'.spec = run.spec /\ run'.dbsync = run.dbsync
            /\ run'.hash = config
        BY <1>b, <2>0, <2>2 DEF Before, Run
      <3>2. InputsInv'
        BY <1>a, <2>0, <3>1 DEF InputsInv, Before
      <3> QED
        BY <1>a, <2>0, <3>1, <3>2, BeforeHonest DEF RecordInv
    <2> QED
      BY <1>5, <2>1, <2>2 DEF CreateHashOfInputHashes
  <1>6. CASE DbSyncJob
    <2>0. pc = "dbsync" /\ UNCHANGED <<config, depl>>
      BY <1>6 DEF DbSyncJob
    <2>1. CASE GiveUp({"DBSync"}) /\ UNCHANGED synced
      BY <2>0, <2>1, GiveUpHonest
    <2>2. CASE /\ pc' = "services"
               /\ run' = [run EXCEPT !.cond["DBSync"] = "True", !.dbsync = run.spec.image]
               /\ synced' = IF run.dbsync = run.spec.image THEN synced
                            ELSE synced \cup {run.spec.image}
               /\ UNCHANGED <<status, queued>>
      <3>1. /\ run'.cond = [run.cond EXCEPT !["DBSync"] = "True"]
            /\ run'.spec = run.spec /\ run'.hash = run.hash
            /\ run'.dbsync = run.spec.image /\ run.spec.image \in Image
            /\ run.cond \in [Condition -> Value]
        BY <1>b, <2>0, <2>2 DEF Run, SpecType
      <3>2. run.spec.image \in synced'
        BY <1>a, <2>0, <2>2, <3>1, AbsentAssumption DEF RecordInv
      <3>3. Before("services")
        BY <2>0, <2>2, <3>1, Names DEF Before
      <3>4. InputsInv'
        BY <1>a, <2>0, <2>2, <3>1, <3>2 DEF InputsInv
      <3>5. synced \subseteq synced'
        BY <2>2
      <3> QED
        BY <3>1, <3>2, <3>3, <3>4, <3>5, BeforeHonest
    <2> QED
      BY <1>6, <2>1, <2>2 DEF DbSyncJob
  <1>7. CASE InputHash
    <2>0. pc = "inputHash" /\ UNCHANGED <<config, depl, synced>>
      BY <1>7 DEF InputHash
    <2>1. CASE Return(run.cond, TRUE)
      BY <2>0, <2>1, ReturnHonest
    <2>2. CASE Proceed({}, "topology")
      <3>1. Quiet /\ pc' = "topology"
        BY <1>a, <2>0, <2>2, ProceedFacts, Names DEF Quiet
      <3> QED
        BY <2>0, <3>1, QuietHonest DEF SameBehind
    <2> QED
      BY <1>7, <2>1, <2>2 DEF InputHash
  <1>8. CASE EnsureServiceTopology
    <2>0. pc = "topology" /\ UNCHANGED <<config, depl, synced>>
      BY <1>8 DEF EnsureServiceTopology
    <2>1. CASE Return(Set(run.cond, "False", {"Topology"}), TRUE) \/ GiveUp({"Topology"})
      BY <2>0, <2>1, ReturnHonest, GiveUpHonest
    <2>2. CASE Proceed(IF run.spec.topology THEN {"Topology"} ELSE {}, "api")
      <3>1. Quiet /\ pc' = "api"
        BY <1>a, <2>0, <2>2, ProceedFacts, Names DEF Quiet
      <3> QED
        BY <2>0, <3>1, QuietHonest DEF SameBehind
    <2> QED
      BY <1>8, <2>1, <2>2 DEF EnsureServiceTopology
  <1> QED
    BY <1>1, <1>2, <1>3, <1>4, <1>5, <1>6, <1>7, <1>8

-----------------------------------------------------------------------------
(* The Deployments. *)

\* A patched Deployment has the template of the pass; the others are untouched.
LEMMA PatchFacts ==
    ASSUME TypeInv, RolloutInv, pc \in Checked, NEW d \in Deployments, NEW w \in BOOLEAN,
           CreateOrPatch(d, TemplateFor(w))
    PROVE  /\ depl'[d] # Absent /\ depl'[d].tmpl = TemplateFor(w)
           /\ RolloutInv'
           /\ \A e \in Deployments \ {d} : depl'[e] = depl[e]
  <1> DEFINE t == TemplateFor(w)
  <1>1. DOMAIN depl = Deployments
    BY DEF TypeInv, TypeOK
  <1>2. t \in Template
    BY DEF TypeInv, TypeOK, Checked, TemplateFor, Template, Run, SpecType
  <1> HIDE DEF t
  <1> DEFINE new == [tmpl |-> t, observed |-> FALSE, done |-> FALSE, old |-> depl[d] # Absent]
  <1>3. new \in Deployment /\ new.tmpl = t /\ new.done = FALSE
    BY <1>2 DEF Deployment
  <1>4. /\ \A e \in Deployments \ {d} : depl'[e] = depl[e]
        /\ \/ depl'[d] = depl[d] /\ depl[d] # Absent /\ depl[d].tmpl = t
           \/ depl'[d] = new
    BY <1>1 DEF CreateOrPatch, t
  <1> HIDE DEF new
  <1>5. RolloutInv'
    BY <1>3, <1>4 DEF RolloutInv
  <1>6. depl'[d] # Absent /\ depl'[d].tmpl = t
    BY <1>3, <1>4, AbsentAssumption
  <1> QED
    BY <1>4, <1>5, <1>6 DEF t

\* Steps behind the API Deployment's patch that leave the inputs alone.
Behind ==
    /\ UNCHANGED <<config, synced, status>>
    /\ pc \in Checked /\ pc' \in Checked
    /\ run'.spec = run.spec /\ run'.hash = run.hash /\ run'.dbsync = run.dbsync
    /\ run'.cond["TLS"] = run.cond["TLS"]

\* Behind the input hash the facts about the inputs stay.
LEMMA BehindHonest ==
    ASSUME HonestInv, Behind
    PROVE  InputsInv' /\ RecordInv'
  <1>1. InputsInv'
    BY DEF HonestInv, InputsInv, Behind, AfterSync, AfterHash, Late, AfterConfig, Checked
  <1>2. RecordInv'
    BY DEF HonestInv, RecordInv, Behind, Checked
  <1> QED
    BY <1>1, <1>2

\* CreateOrPatch of the API Deployment.
LEMMA PatchAPIHonest ==
    ASSUME TypeInv, HonestInv, PatchAPI
    PROVE  HonestInv'
  <1>0. pc = "api" /\ UNCHANGED <<config, synced>> /\ TypeOK /\ run \in Run
    BY DEF PatchAPI, TypeInv, TypeOK
  <1>1. CASE GiveUp({"Deployment"}) /\ UNCHANGED depl
    BY <1>0, <1>1, GiveUpHonest
  <1>2. ASSUME NEW w \in IsWSGIEffective, pc' = "apiCheck",
               CreateOrPatch("neutron", TemplateFor(w)),
               run' = [run EXCEPT !.wsgi = w, !.gate = Gate("neutron", TemplateFor(w))],
               UNCHANGED <<status, queued>>
        PROVE  HonestInv'
    <2>1. w \in BOOLEAN
      BY <1>0, StrategyType
    <2>2. /\ depl'["neutron"] # Absent /\ depl'["neutron"].tmpl = TemplateFor(w)
          /\ RolloutInv'
      BY <1>0, <1>2, <2>1, PatchFacts DEF HonestInv, Checked, Deployments
    <2>3. /\ run'.spec = run.spec /\ run'.hash = run.hash /\ run'.dbsync = run.dbsync
          /\ run'.wsgi = w /\ run'.cond = run.cond
      BY <1>0, <1>2 DEF Run
    <2>4. InputsInv' /\ RecordInv'
      BY <1>0, <1>2, <2>3, BehindHonest DEF Behind, Checked
    <2>5. APIInv'
      BY <1>0, <1>2, <2>2, <2>3
         DEF HonestInv, APIInv, Fresh, TemplateFor, AfterCheck, Extra, End
    <2>6. ExtraInv'
      BY <1>2 DEF ExtraInv, Extra, End
    <2> QED
      BY <2>2, <2>4, <2>5, <2>6 DEF HonestInv
  <1> QED
    BY <1>1, <1>2 DEF PatchAPI

\* Generation gate and IsReadyForInput of the API Deployment.
LEMMA CheckAPIHonest ==
    ASSUME TypeInv, HonestInv, CheckAPI
    PROVE  HonestInv'
  <1>0. /\ pc = "apiCheck" /\ UNCHANGED <<config, depl, synced>> /\ TypeOK
        /\ run \in Run /\ run.cond \in [Condition -> Value]
    BY DEF CheckAPI, TypeInv, TypeOK, Run
  <1>1. CASE (\E w : GiveUp(w)) \/ Return(Set(run.cond, "True", {"NetworkAttachments"}), TRUE)
    BY <1>0, <1>1, GiveUpHonest, ReturnHonest
  <1> DEFINE Kept == /\ pc' = AfterAPI /\ status' = status
                     /\ run'.spec = run.spec /\ run'.hash = run.hash
                     /\ run'.dbsync = run.dbsync /\ run'.wsgi = run.wsgi
                     /\ run'.cond["TLS"] = run.cond["TLS"]
  <1>2. ASSUME Kept, run'.cond["Deployment"] \in {"True", "False", "Unknown"},
               run'.cond["Deployment"] = "True" => ~depl["neutron"].old
        PROVE  HonestInv'
    <2>1. InputsInv' /\ RecordInv'
      BY <1>0, <1>2, BehindHonest DEF Behind, Checked, AfterAPI
    <2>2. RolloutInv'
      BY <1>0 DEF HonestInv, RolloutInv
    <2>3. APIInv'
      BY <1>0, <1>2, AbsentAssumption
         DEF HonestInv, APIInv, Fresh, Rolled, TemplateFor, AfterCheck, Extra, End, AfterAPI
    <2>4. ExtraInv'
      BY <1>2 DEF ExtraInv, Extra, End, AfterAPI
    <2> QED
      BY <2>1, <2>2, <2>3, <2>4 DEF HonestInv
  <1>3. run.cond["Deployment"] = "Unknown"
    BY <1>0 DEF HonestInv, APIInv, AfterCheck, Extra, End
  <1>4. CASE Proceed({}, AfterAPI)
    <2>1. Kept /\ run'.cond["Deployment"] = "Unknown"
      BY <1>0, <1>3, <1>4, ProceedFacts, Names
    <2> QED
      BY <1>2, <2>1
  <1>5. CASE /\ IsReadyForInput("neutron")
             /\ Proceed({"NetworkAttachments", "Deployment"}, AfterAPI)
    <2>1. Kept /\ run'.cond["Deployment"] = "True"
      BY <1>0, <1>5, ProceedFacts, Names
    <2>2. ~depl["neutron"].old
      BY <1>5 DEF IsReadyForInput, HonestInv, RolloutInv, Deployments
    <2> QED
      BY <1>2, <2>1, <2>2
  <1>6. CASE /\ pc' = AfterAPI
             /\ run' = [run EXCEPT !.cond["NetworkAttachments"] = "True",
                                   !.cond["Deployment"] = "False"]
             /\ UNCHANGED <<status, queued>>
    <2>1. /\ run'.cond = [[run.cond EXCEPT !["NetworkAttachments"] = "True"]
                            EXCEPT !["Deployment"] = "False"]
          /\ run'.spec = run.spec /\ run'.hash = run.hash
          /\ run'.dbsync = run.dbsync /\ run'.wsgi = run.wsgi
      BY <1>0, <1>6 DEF Run
    <2>2. Kept /\ run'.cond["Deployment"] = "False"
      BY <1>0, <1>6, <2>1, Names
    <2> QED
      BY <1>2, <2>2
  <1> QED
    BY <1>1, <1>4, <1>5, <1>6 DEF CheckAPI

\* Steps behind the API Deployment's check: only the other two matter.
BehindAPI ==
    /\ Behind /\ pc \in AfterCheck /\ pc' \in AfterCheck
    /\ run'.wsgi = run.wsgi
    /\ run'.cond["Deployment"] = run.cond["Deployment"]
    /\ depl'["neutron"] = depl["neutron"]

\* Behind the API Deployment it is enough to look at the other two.
LEMMA BehindAPIHonest ==
    ASSUME HonestInv, BehindAPI, RolloutInv', ExtraInv'
    PROVE  HonestInv'
  <1>1. InputsInv' /\ RecordInv'
    BY BehindHonest DEF BehindAPI
  <1>2. Rolled("neutron") = Rolled("neutron")'
    BY DEF BehindAPI, Behind, Rolled, Fresh, TemplateFor
  <1>3. APIInv'
    BY <1>2 DEF HonestInv, APIInv, BehindAPI, AfterCheck, Extra, End
  <1> QED
    BY <1>1, <1>3 DEF HonestInv

\* The RPC Deployment is patched, or deleted for rpc_workers = 0.
LEMMA PatchRPCHonest ==
    ASSUME TypeInv, HonestInv, PatchRPC
    PROVE  HonestInv'
  <1>0. /\ pc = "rpc" /\ UNCHANGED <<config, synced>> /\ TypeOK
        /\ run \in Run /\ run.cond \in [Condition -> Value] /\ run.wsgi = TRUE
    BY DEF PatchRPC, TypeInv, TypeOK, Run, HonestInv, ExtraInv, Extra
  <1>1. CASE (\E w : GiveUp(w)) /\ UNCHANGED depl
    BY <1>0, <1>1, GiveUpHonest
  <1>2. CASE /\ run.spec.rpc /\ pc' = "rpcCheck"
             /\ CreateOrPatch("rpc", TemplateFor(TRUE))
             /\ run' = [run EXCEPT !.cond["RPC"] = "False",
                                   !.gate = Gate("rpc", TemplateFor(TRUE))]
             /\ UNCHANGED <<status, queued>>
    <2>1. /\ depl'["rpc"] # Absent /\ depl'["rpc"].tmpl = TemplateFor(TRUE)
          /\ RolloutInv' /\ depl'["neutron"] = depl["neutron"]
      BY <1>0, <1>2, PatchFacts DEF HonestInv, Checked, Deployments
    <2>2. /\ run'.cond = [run.cond EXCEPT !["RPC"] = "False"]
          /\ run'.spec = run.spec /\ run'.hash = run.hash
          /\ run'.dbsync = run.dbsync /\ run'.wsgi = run.wsgi
      BY <1>0, <1>2 DEF Run
    <2>3. BehindAPI /\ run'.cond["RPC"] = "False"
      BY <1>0, <1>2, <2>1, <2>2, Names
         DEF BehindAPI, Behind, Checked, AfterCheck, Extra, End
    <2>4. ExtraInv'
      BY <1>0, <1>2, <2>1, <2>2, <2>3 DEF ExtraInv, Extra, End, Fresh, TemplateFor
    <2> QED
      BY <2>1, <2>3, <2>4, BehindAPIHonest
  <1>3. CASE /\ ~run.spec.rpc /\ Proceed({"RPC"}, "worker")
             /\ depl' = [depl EXCEPT !["rpc"] = Absent]
    <2>1. /\ depl'["rpc"] = Absent /\ depl'["neutron"] = depl["neutron"]
          /\ depl'["worker"] = depl["worker"]
      BY <1>0, <1>3 DEF TypeOK, Deployments
    <2>2. RolloutInv'
      BY <2>1 DEF HonestInv, RolloutInv, Deployments
    <2>3. /\ BehindAPI /\ run'.cond["RPC"] = "True" /\ pc' = "worker"
          /\ run'.spec = run.spec /\ run'.wsgi = run.wsgi
      BY <1>0, <1>3, <2>1, ProceedFacts, Names
         DEF BehindAPI, Behind, Checked, AfterCheck, Extra, End
    <2>4. ExtraInv'
      BY <1>0, <1>3, <2>1, <2>3, AbsentAssumption DEF ExtraInv, Extra, End
    <2> QED
      BY <2>2, <2>3, <2>4, BehindAPIHonest
  <1> QED
    BY <1>1, <1>2, <1>3 DEF PatchRPC, PatchExtra

\* Readiness of the RPC Deployment.
LEMMA CheckRPCHonest ==
    ASSUME TypeInv, HonestInv, CheckRPC
    PROVE  HonestInv'
  <1>0. /\ pc = "rpcCheck" /\ UNCHANGED <<config, depl, synced>> /\ TypeOK
        /\ run.wsgi /\ run.spec.rpc /\ run.cond["RPC"] = "False" /\ Fresh("rpc")
    BY DEF CheckRPC, TypeInv, HonestInv, ExtraInv, Extra
  <1>1. CASE GiveUp({})
    BY <1>0, <1>1, GiveUpHonest
  <1> DEFINE ok == run.gate # "closed" /\ IsReadyForInput("rpc")
  <1>2. CASE Proceed(IF ok THEN {"RPC"} ELSE {}, "worker")
    <2>1. ok => Rolled("rpc")
      BY <1>0 DEF IsReadyForInput, HonestInv, RolloutInv, Rolled, Deployments
    <2> HIDE DEF ok
    <2>a. /\ pc' = "worker" /\ status' = status
          /\ run'.spec = run.spec /\ run'.hash = run.hash /\ run'.dbsync = run.dbsync
          /\ run'.wsgi = run.wsgi
          /\ \A x \in Condition : run'.cond[x] = IF x \in (IF ok THEN {"RPC"} ELSE {})
                                               THEN "True" ELSE run.cond[x]
      BY <1>0, <1>2, ProceedFacts
    <2>2. /\ BehindAPI /\ pc' = "worker" /\ run'.spec = run.spec
          /\ run'.wsgi = run.wsgi /\ run'.hash = run.hash
          /\ run'.cond["RPC"] = IF ok THEN "True" ELSE "False"
      BY <1>0, <2>a, Names
         DEF BehindAPI, Behind, Checked, AfterCheck, Extra, End
    <2>3. Rolled("rpc")' = Rolled("rpc")
      BY <1>0, <2>2 DEF Rolled, Fresh, TemplateFor
    <2>4. RolloutInv'
      BY <1>0 DEF HonestInv, RolloutInv
    <2>5. ExtraInv'
      BY <1>0, <2>1, <2>2, <2>3, AbsentAssumption DEF ExtraInv, Extra, End
    <2> QED
      BY <2>2, <2>4, <2>5, BehindAPIHonest
  <1> QED
    BY <1>1, <1>2 DEF CheckRPC, CheckExtra

\* The worker Deployment is patched.
LEMMA PatchWorkerHonest ==
    ASSUME TypeInv, HonestInv, PatchWorker
    PROVE  HonestInv'
  <1>0. /\ pc = "worker" /\ UNCHANGED <<config, synced>> /\ TypeOK
        /\ run \in Run /\ run.cond \in [Condition -> Value] /\ run.wsgi = TRUE
    BY DEF PatchWorker, TypeInv, TypeOK, Run, HonestInv, ExtraInv, Extra
  <1>1. CASE (\E w : GiveUp(w)) /\ UNCHANGED depl
    BY <1>0, <1>1, GiveUpHonest
  <1>2. CASE /\ pc' = "workerCheck"
             /\ CreateOrPatch("worker", TemplateFor(TRUE))
             /\ run' = [run EXCEPT !.cond["Worker"] = "False",
                                   !.gate = Gate("worker", TemplateFor(TRUE))]
             /\ UNCHANGED <<status, queued>>
    <2>1. /\ depl'["worker"] # Absent /\ depl'["worker"].tmpl = TemplateFor(TRUE)
          /\ RolloutInv' /\ depl'["neutron"] = depl["neutron"] /\ depl'["rpc"] = depl["rpc"]
      BY <1>0, <1>2, PatchFacts DEF HonestInv, Checked, Deployments
    <2>2. /\ run'.cond = [run.cond EXCEPT !["Worker"] = "False"]
          /\ run'.spec = run.spec /\ run'.hash = run.hash
          /\ run'.dbsync = run.dbsync /\ run'.wsgi = run.wsgi
      BY <1>0, <1>2 DEF Run
    <2>3. /\ BehindAPI /\ run'.cond["Worker"] = "False" /\ run'.cond["RPC"] = run.cond["RPC"]
      BY <1>0, <1>2, <2>1, <2>2, Names
         DEF BehindAPI, Behind, Checked, AfterCheck, Extra, End
    <2>4. Rolled("rpc")' = Rolled("rpc")
      BY <2>1, <2>2 DEF Rolled, Fresh, TemplateFor
    <2>5. Fresh("worker")'
      BY <1>0, <2>1, <2>2 DEF Fresh, TemplateFor
    <2>6. ExtraInv'
      BY <1>0, <1>2, <2>1, <2>2, <2>3, <2>4, <2>5 DEF HonestInv, ExtraInv, Extra, End
    <2> QED
      BY <2>1, <2>3, <2>6, BehindAPIHonest
  <1> QED
    BY <1>1, <1>2 DEF PatchWorker, PatchExtra

\* Readiness of the worker Deployment.
LEMMA CheckWorkerHonest ==
    ASSUME TypeInv, HonestInv, CheckWorker
    PROVE  HonestInv'
  <1>0. /\ pc = "workerCheck" /\ UNCHANGED <<config, depl, synced>> /\ TypeOK
        /\ run.wsgi /\ run.cond["Worker"] = "False" /\ Fresh("worker")
    BY DEF CheckWorker, TypeInv, HonestInv, ExtraInv, Extra
  <1>1. CASE GiveUp({})
    BY <1>0, <1>1, GiveUpHonest
  <1> DEFINE ok == run.gate # "closed" /\ IsReadyForInput("worker")
  <1>2. CASE Proceed(IF ok THEN {"Worker"} ELSE {}, "accounts")
    <2>1. ok => Rolled("worker")
      BY <1>0 DEF IsReadyForInput, HonestInv, RolloutInv, Rolled, Deployments
    <2> HIDE DEF ok
    <2>a. /\ pc' = "accounts" /\ status' = status
          /\ run'.spec = run.spec /\ run'.hash = run.hash /\ run'.dbsync = run.dbsync
          /\ run'.wsgi = run.wsgi
          /\ \A x \in Condition : run'.cond[x] = IF x \in (IF ok THEN {"Worker"} ELSE {})
                                               THEN "True" ELSE run.cond[x]
      BY <1>0, <1>2, ProceedFacts
    <2>2. /\ BehindAPI /\ pc' = "accounts" /\ run'.spec = run.spec
          /\ run'.wsgi = run.wsgi /\ run'.hash = run.hash
          /\ run'.cond["RPC"] = run.cond["RPC"]
          /\ run'.cond["Worker"] = IF ok THEN "True" ELSE "False"
      BY <1>0, <2>a, Names
         DEF BehindAPI, Behind, Checked, AfterCheck, Extra, End
    <2>3. Rolled("rpc")' = Rolled("rpc") /\ Rolled("worker")' = Rolled("worker")
      BY <1>0, <2>2 DEF Rolled, Fresh, TemplateFor
    <2>4. RolloutInv'
      BY <1>0 DEF HonestInv, RolloutInv
    <2>5. ExtraInv'
      BY <1>0, <2>1, <2>2, <2>3, AbsentAssumption DEF HonestInv, ExtraInv, Extra, End
    <2> QED
      BY <2>2, <2>4, <2>5, BehindAPIHonest
  <1> QED
    BY <1>1, <1>2 DEF CheckWorker, CheckExtra

\* The Eventlet strategy deletes the other two.
LEMMA CleanUpHonest ==
    ASSUME TypeInv, HonestInv, CleanUpWSGI
    PROVE  HonestInv'
  <1>0. /\ pc = "eventlet" /\ UNCHANGED <<config, synced>> /\ TypeOK
        /\ run \in Run /\ run.cond \in [Condition -> Value] /\ run.wsgi = FALSE
    BY DEF CleanUpWSGI, TypeInv, TypeOK, Run, HonestInv, ExtraInv
  <1>1. CASE /\ pc' = "accounts"
             /\ depl' = [depl EXCEPT !["rpc"] = Absent, !["worker"] = Absent]
             /\ run' = [run EXCEPT !.cond["RPC"] = Absent, !.cond["Worker"] = Absent]
             /\ UNCHANGED <<status, queued>>
    <2>1. /\ depl'["rpc"] = Absent /\ depl'["neutron"] = depl["neutron"]
          /\ depl'["worker"] = Absent
      BY <1>0, <1>1 DEF TypeOK, Deployments
    <2>2. RolloutInv'
      BY <2>1 DEF HonestInv, RolloutInv, Deployments
    <2>3. /\ run'.cond = [[run.cond EXCEPT !["RPC"] = Absent] EXCEPT !["Worker"] = Absent]
          /\ run'.spec = run.spec /\ run'.hash = run.hash
          /\ run'.dbsync = run.dbsync /\ run'.wsgi = run.wsgi
      BY <1>0, <1>1 DEF Run
    <2>4. BehindAPI
      BY <1>0, <1>1, <2>1, <2>3, Names
         DEF BehindAPI, Behind, Checked, AfterCheck, Extra, End
    <2>5. ExtraInv'
      BY <1>0, <1>1, <2>1, <2>3 DEF ExtraInv, Extra, End
    <2> QED
      BY <2>2, <2>4, <2>5, BehindAPIHonest
  <1>2. CASE \E d \in {depl, [depl EXCEPT !["rpc"] = Absent]} : GiveUp({}) /\ depl' = d
    <2>1. \A d \in Deployments : depl'[d] = depl[d] \/ depl'[d] = Absent
      BY <1>0, <1>2 DEF TypeOK
    <2> QED
      BY <1>0, <1>2, <2>1, ReturnHonest DEF GiveUp
  <1> QED
    BY <1>1, <1>2 DEF CleanUpWSGI

-----------------------------------------------------------------------------
(* The cluster, and the theorems. *)

\* The cluster changes no template, deletes no Deployment, brings back no old pod.
LEMMA RolloutFrame ==
    ASSUME TypeOK, RolloutInv, NEW d \in Deployments, Observe(d) \/ Rollout(d) \/ PodLost(d)
    PROVE  /\ RolloutInv'
           /\ \A e \in Deployments :
                 /\ (depl'[e] = Absent) = (depl[e] = Absent)
                 /\ depl[e] # Absent => /\ depl'[e].tmpl = depl[e].tmpl
                                        /\ ~depl[e].old => ~depl'[e].old
  <1> DEFINE x == depl[d]
  <1>1. x \in Deployment /\ x # Absent /\ DOMAIN depl = Deployments
    BY DEF Observe, Rollout, PodLost, TypeOK
  <1>2. \/ depl' = [depl EXCEPT ![d] = [x EXCEPT !.observed = TRUE]]
        \/ depl' = [depl EXCEPT ![d] = [x EXCEPT !.done = TRUE, !.old = FALSE]]
        \/ depl' = [depl EXCEPT ![d] = [x EXCEPT !.done = FALSE]]
    BY <1>1 DEF Observe, Rollout, PodLost
  <1> HIDE DEF x
  <1>3. \A y \in {[x EXCEPT !.observed = TRUE], [x EXCEPT !.done = TRUE, !.old = FALSE],
                  [x EXCEPT !.done = FALSE]} :
          /\ y \in Deployment /\ y.tmpl = x.tmpl
          /\ ~x.old => ~y.old
          /\ (x.done => ~x.old) => (y.done => ~y.old)
    BY <1>1 DEF Deployment
  <1>4. PICK y : /\ depl' = [depl EXCEPT ![d] = y]
                 /\ y \in Deployment /\ y.tmpl = x.tmpl
                 /\ ~x.old => ~y.old
                 /\ (x.done => ~x.old) => (y.done => ~y.old)
    BY <1>2, <1>3
  <1>5. depl'[d] = y /\ y # Absent /\ \A e \in Deployments \ {d} : depl'[e] = depl[e]
    BY <1>1, <1>4, AbsentAssumption
  <1>6. RolloutInv'
    BY <1>1, <1>4, <1>5 DEF RolloutInv, x
  <1> QED
    BY <1>1, <1>4, <1>5, <1>6 DEF x

\* The cluster and the user.
LEMMA ClusterHonest ==
    ASSUME TypeInv, HonestInv,
           Progress \/ TLSSecrets \/ TopologyObject \/ CalmDown
             \/ (\E s \in SpecType : Edit(s)) \/ (\E d \in Deployments : PodLost(d))
    PROVE  HonestInv'
  <1>1. UNCHANGED <<pc, run, status, config, synced>>
    BY DEF Progress, ProbeEnds, ProbeGone, Observe, Rollout, PodLost, TLSSecrets,
           TopologyObject, CalmDown, Edit, controller
  <1>2. /\ RolloutInv'
        /\ \A e \in Deployments :
              /\ (depl'[e] = Absent) = (depl[e] = Absent)
              /\ depl[e] # Absent => /\ depl'[e].tmpl = depl[e].tmpl
                                     /\ ~depl[e].old => ~depl'[e].old
    <2>1. CASE \E d \in Deployments : Observe(d) \/ Rollout(d) \/ PodLost(d)
      BY <2>1, RolloutFrame DEF TypeInv, HonestInv
    <2>2. CASE UNCHANGED depl
      BY <2>2 DEF HonestInv, RolloutInv
    <2> QED
      BY <2>1, <2>2 DEF Progress, ProbeEnds, ProbeGone, TLSSecrets, TopologyObject,
                        CalmDown, Edit
  <1>3. \A d \in Deployments : (Fresh(d) => Fresh(d)') /\ (Rolled(d) => Rolled(d)')
    BY <1>1, <1>2 DEF Fresh, Rolled, TemplateFor
  <1>4. InputsInv' /\ RecordInv'
    BY <1>1 DEF HonestInv, InputsInv, RecordInv
  <1>5. APIInv'
    BY <1>1, <1>3 DEF HonestInv, APIInv, Deployments
  <1>6. ExtraInv'
    BY <1>1, <1>2, <1>3 DEF HonestInv, ExtraInv, Deployments
  <1> QED
    BY <1>2, <1>4, <1>5, <1>6 DEF HonestInv

\* The invariant is inductive relative to the types.
LEMMA HonestStep == TypeInv /\ HonestInv /\ [Next]_vars => HonestInv'
  <1> SUFFICES ASSUME TypeInv, HonestInv, [Next]_vars
               PROVE  HonestInv'
    OBVIOUS
  <1>1. CASE Normal \/ ReconcileInit
    BY <1>1, PlainSectionsHonest, InitSectionsHonest DEF Normal, ReconcileInit
  <1>2. CASE Done
    BY <1>2, ReturnHonest DEF Done
  <1>3. CASE Deploy
    BY <1>2, <1>3, PlainSectionsHonest, InitSectionsHonest, PatchAPIHonest, CheckAPIHonest,
       PatchRPCHonest, CheckRPCHonest, PatchWorkerHonest, CheckWorkerHonest, CleanUpHonest
       DEF Deploy
  <1>4. CASE Crash
    <2>1. pc' = "idle" /\ UNCHANGED <<status, synced, depl>>
      BY <1>4 DEF Crash
    <2> QED
      BY <2>1, IdleHonest DEF HonestInv, RecordInv
  <1>5. CASE Progress \/ Environment
    BY <1>4, <1>5, ClusterHonest DEF Environment
  <1>6. CASE UNCHANGED vars
    <2>1. UNCHANGED <<status, pc, run, config, depl, synced>>
      BY <1>6 DEF vars
    <2>2. InputsInv' /\ RecordInv' /\ RolloutInv'
      BY <2>1 DEF HonestInv, InputsInv, RecordInv, RolloutInv
    <2>3. \A d \in Deployments : Fresh(d)' = Fresh(d) /\ Rolled(d)' = Rolled(d)
      BY <2>1 DEF Fresh, Rolled, TemplateFor
    <2>4. APIInv'
      BY <2>1, <2>3 DEF HonestInv, APIInv, Deployments
    <2>5. ExtraInv'
      BY <2>1, <2>3 DEF HonestInv, ExtraInv, Deployments
    <2> QED
      BY <2>2, <2>4, <2>5 DEF HonestInv
  <1> QED
    BY <1>1, <1>3, <1>5, <1>6 DEF Next, Pass

\* It holds before the first pass.
LEMMA HonestInit == Init => HonestInv
  <1> SUFFICES ASSUME Init PROVE HonestInv
    OBVIOUS
  <1>1. pc = "idle" /\ status.dbsync = Absent /\ \A d \in Deployments : depl[d] = Absent
    BY DEF Init
  <1>2. InputsInv /\ RecordInv /\ RolloutInv
    BY <1>1 DEF InputsInv, RecordInv, RolloutInv, AfterSync, AfterHash, Late, AfterConfig,
                Checked
  <1>3. APIInv /\ ExtraInv
    BY <1>1 DEF APIInv, ExtraInv, AfterCheck, Extra, End
  <1> QED
    BY <1>2, <1>3 DEF HonestInv

\* At the end of a pass it is ReadyIsHonest.
LEMMA HonestImplies == TypeInv /\ HonestInv => ReadyIsHonest
  <1> SUFFICES ASSUME TypeInv, HonestInv, pc = "done", AllSubConditionIsTrue(run.cond)
               PROVE  /\ \A d \in Deployments :
                            IF d \in Strategy(run.wsgi, run.spec.rpc)
                            THEN /\ depl[d] # Absent
                                 /\ depl[d].tmpl = TemplateFor(run.wsgi)
                                 /\ ~depl[d].old
                            ELSE depl[d] = Absent
                      /\ run.hash = config
                      /\ config.bus = run.spec.bus /\ config.rpc = run.spec.rpc
                      /\ run.spec.image \in synced
    BY DEF ReadyIsHonest
  <1>1. \A x \in {"TLS", "Deployment", "RPC", "Worker"} : run.cond[x] \in {"True", Absent}
    BY Names DEF AllSubConditionIsTrue, SubConditions
  <1>2. run.cond["TLS"] # "False" /\ run.cond["Deployment"] = "True"
    BY <1>1, AbsentAssumption DEF HonestInv, APIInv, AfterCheck, End
  <1>3. /\ run.hash = config /\ run.spec.image \in synced
        /\ config.bus = run.spec.bus /\ config.rpc = run.spec.rpc
    BY <1>2 DEF HonestInv, InputsInv, AfterConfig, Late, Checked
  <1>4. Rolled("neutron")
    BY <1>2 DEF HonestInv, APIInv, AfterCheck, End
  <1>5. run.wsgi => /\ Rolled("worker")
                    /\ IF run.spec.rpc THEN Rolled("rpc") ELSE depl["rpc"] = Absent
    BY <1>1 DEF HonestInv, ExtraInv, End
  <1>6. ~run.wsgi => depl["rpc"] = Absent /\ depl["worker"] = Absent
    BY DEF HonestInv, ExtraInv, End
  <1> QED
    BY <1>3, <1>4, <1>5, <1>6 DEF Strategy, Deployments, Rolled, Fresh

\* Whatever the environment does, when reconcileNormal finds every
\* sub-condition True and marks the resource Ready, exactly the Deployments of
\* the strategy in force exist, fully rolled out from this pass's template,
\* with this pass's configuration and a synchronised database.
THEOREM PipelineReadyIsHonest == Spec => []ReadyIsHonest
  <1>1. Init => TypeInv /\ HonestInv
    BY TypeInit, HonestInit
  <1>2. TypeInv /\ HonestInv /\ [Next]_vars => (TypeInv /\ HonestInv)'
    BY TypeStep, HonestStep
  <1> QED
    BY <1>1, <1>2, HonestImplies, PTL DEF Spec
=============================================================================
