------------------------- MODULE ReconcilePipeline -------------------------
(***************************************************************************)
(* One NeutronAPI resource and the passes of its controller, seen through  *)
(* the status conditions: the sections of reconcileNormal and              *)
(* reconcileInit in their order, what each reports on success and on every *)
(* early return, the aggregation into Ready, the work queue, the three     *)
(* Deployments with their rollouts, the db-sync Job and the image probe.   *)
(*                                                                         *)
(* Data are abstracted: a section that waits for another operator succeeds *)
(* or gives up, nondeterministically; the rendered configuration is a      *)
(* record of the inputs that change it, and its hash is that record (two   *)
(* different configurations never hash alike).  Secrets, credentials and   *)
(* finalizers are the subject of CredentialRotation.                       *)
(***************************************************************************)
EXTENDS Naturals, FiniteSets

CONSTANTS
    Image,      \* container images
    Legacy,     \* the images that hold NeutronServerBinaryPath
    FirstImage, \* the image of a new resource
    Asked,      \* the spec fields a new resource has set
    Knobs,      \* what the environment does: spec fields edited, "tls" and
                \* "topology" objects that come and go, "pods" lost, an image
                \* "probe" whose calls and pod may fail, "calm" at last
    MaxEdits,   \* bound on spec edits
    Absent      \* no such object, no such value

ASSUME ImageAssumption == FirstImage \in Image /\ Legacy \subseteq Image
ASSUME EditsAssumption == MaxEdits \in Nat

VARIABLES
    spec,     \* spec of the resource
    edits,    \* number of spec edits so far
    tls,      \* the TLS secrets the spec names exist
    topo,     \* the Topology the spec names exists
    status,   \* persisted: Persisted conditions, Status.Hash[input], Status.Hash[dbsync]
    queued,   \* the work queue holds the resource
    pc,       \* where the pass is
    run,      \* the pass's copy of the resource, and its locals
    config,   \* content of the config Secret
    depl,     \* the Deployments: template; observed and complete rollout; old pods
    synced,   \* images whose db-sync Job has completed
    job,      \* the image-probe Job
    calm      \* no call fails, nobody edits the resource any more

vars == <<spec, edits, tls, topo, status, queued, pc, run, config, depl,
          synced, job, calm>>
cluster == <<spec, edits, tls, topo, calm>>

Deployments == {"neutron", "rpc", "worker"}

\* The conditions a pass resets to Unknown, and those it leaves as they were.
\* Of the first nobody reads a persisted value, so `status' keeps only Ready.
Listed == {"Ready", "DB", "DBSync", "CreateService", "TransportURL",
           "Memcached", "Input", "ServiceConfig", "Deployment",
           "KeystoneService", "KeystoneEndpoint", "NetworkAttachments",
           "RBAC", "NotificationBus", "ExternalConfigs"}
Unlisted == {"TLS", "Topology", "RPC", "Worker"}
Condition == Listed \cup Unlisted
Persisted == Unlisted \cup {"Ready"}

SpecType == [bus : BOOLEAN, topology : BOOLEAN, rpc : BOOLEAN, wsgi : BOOLEAN,
          image : Image]
Config == [bus : BOOLEAN, rpc : BOOLEAN, wsgi : BOOLEAN]
Hash == Config \cup {Absent}
Template == [hash : Config, wsgi : BOOLEAN, topology : BOOLEAN, image : Image]
Value == {"True", "False", "Unknown", Absent}
Status == [cond : [Persisted -> Value], hash : Hash, dbsync : Image \cup {Absent}]
Deployment == [tmpl : Template, observed : BOOLEAN, done : BOOLEAN, old : BOOLEAN]
Job == [image : Image, result : {"running", "succeeded", "failed"},
        deleting : BOOLEAN]
ASSUME AbsentAssumption ==
    Absent \notin Image \cup Deployment \cup Job \cup {"True", "False", "Unknown"}
Run == [spec : SpecType, cond : [Condition -> Value], hash : Hash,
        dbsync : Image \cup {Absent}, wsgi : BOOLEAN,
        gate : {"closed", "open", "ready"}]
Idle == Absent

PC == {"idle", "rbac", "transport", "notifications", "transportSecret",
       "secret", "memcached", "external", "nad", "db", "config", "tls",
       "hash", "ac", "dbsync", "services", "keystoneService",
       "keystoneEndpoint", "inputHash", "topology", "api", "apiCheck", "rpc",
       "rpcCheck", "worker", "workerCheck", "eventlet", "accounts",
       "finalize", "done"}

Set(c, value, which) == [x \in Condition |-> IF x \in which THEN value ELSE c[x]]

\* Conditions.Init: Unknown for the listed conditions, the others persist.
InitConditions(c) == [x \in Condition |-> IF x \in Listed THEN "Unknown" ELSE c[x]]

SubConditions(c) == {c[x] : x \in Condition \ {"Ready"}}

\* Absent conditions are ignored.
AllSubConditionIsTrue(c) == SubConditions(c) \subseteq {"True", Absent}

\* Mirror: the worst sub-condition.  When every one is True the result is
\* left open: True, or still Unknown.
Mirror(c) ==
    IF "False" \in SubConditions(c) THEN {"False"}
    ELSE IF "Unknown" \in SubConditions(c) THEN {"Unknown"}
    ELSE {"True", "Unknown"}

\* The deferred function of Reconcile: Ready mirrors the sub-conditions
\* unless the pass has set it, the status is patched, and a status that
\* changed comes back as an event of the resource itself (a change of a
\* condition that is not kept here may bring one too).
Return(c, requeue) ==
    \E r \in IF c["Ready"] = "Unknown" THEN Mirror(c) ELSE {c["Ready"]} :
        /\ status' = [cond |-> [x \in Persisted |-> IF x = "Ready" THEN r ELSE c[x]],
                      hash |-> run.hash, dbsync |-> run.dbsync]
        /\ queued' \in {queued \/ requeue \/ status' # status, TRUE}
        /\ pc' = "idle"
        /\ run' = Idle

\* An early return: the conditions in `which' are False, the pass is retried.
GiveUp(which) == ~calm /\ Return(Set(run.cond, "False", which), TRUE)

\* The pass goes on to `next' with the conditions in `which' True.
Proceed(which, next) ==
    /\ pc' = next
    /\ run' = [run EXCEPT !.cond = Set(@, "True", which)]
    /\ UNCHANGED <<status, queued>>

\* A section that only talks to other operators: it succeeds, or returns
\* with one of `failures' (each a set of conditions reported False).
Section(here, which, next, failures) ==
    /\ pc = here
    /\ Proceed(which, next) \/ \E f \in failures : GiveUp(f)
    /\ UNCHANGED <<cluster, config, depl, synced, job>>

-----------------------------------------------------------------------------
(* Start of a pass. *)

Init ==
    /\ spec = [bus |-> "bus" \in Asked, topology |-> "topology" \in Asked,
               rpc |-> "rpc" \in Asked, wsgi |-> "wsgi" \in Asked,
               image |-> FirstImage]
    /\ edits = 0 /\ tls = TRUE /\ topo = TRUE /\ calm = FALSE
    /\ status = [cond |-> [c \in Persisted |-> Absent], hash |-> Absent,
                 dbsync |-> Absent]
    /\ queued = TRUE /\ pc = "idle" /\ run = Idle
    /\ config = Absent /\ synced = {} /\ job = Absent
    /\ depl = [d \in Deployments |-> Absent]

\* The first pass adds the finalizer, every later one runs reconcileNormal.
Reconcile ==
    /\ pc = "idle" /\ queued
    /\ LET c == InitConditions(status.cond)
       IN IF status.cond["Ready"] = Absent
          THEN /\ status' = [status EXCEPT !.cond["Ready"] = "Unknown"]
               /\ UNCHANGED <<queued, pc, run>>
          ELSE /\ queued' = FALSE
               /\ pc' = "rbac"
               /\ run' = [spec |-> spec, cond |-> c, hash |-> status.hash,
                          dbsync |-> status.dbsync, wsgi |-> FALSE, gate |-> "closed"]
               /\ UNCHANGED status
    /\ UNCHANGED <<cluster, config, depl, synced, job>>

-----------------------------------------------------------------------------
(* reconcileNormal, up to the call of reconcileInit. *)

ReconcileRbac == Section("rbac", {"RBAC"}, "transport", {{"RBAC"}})

TransportURLCreateOrUpdate ==
    Section("transport", {}, "notifications", {{"TransportURL"}, {}})

\* With a bus: its TransportURL and its secret; without: the condition goes.
NotificationBus ==
    \/ /\ pc = "notifications" /\ run.spec.bus
       /\ Section("notifications", {"NotificationBus"}, "transportSecret",
                  {{"NotificationBus"}, {"Input"}, {}})
    \/ /\ pc = "notifications" /\ ~run.spec.bus
       /\ pc' = "transportSecret"
       /\ run' = [run EXCEPT !.cond["NotificationBus"] = Absent]
       /\ UNCHANGED <<cluster, status, queued, config, depl, synced, job>>

VerifyTransportSecret ==
    Section("transportSecret", {"TransportURL"}, "secret", {{"Input"}})

VerifyServiceSecret == Section("secret", {"Input"}, "memcached", {{"Input"}})

GetMemcached == Section("memcached", {"Memcached"}, "external", {{"Memcached"}})

ReconcileExternalSecrets ==
    Section("external", {"ExternalConfigs"}, "nad", {{"ExternalConfigs"}})

EnsureNetworks == Section("nad", {}, "db", {{"NetworkAttachments"}, {}})

-----------------------------------------------------------------------------
(* The image probe. *)

\* Faulty: the result of a probe of another image counts.
ProbeOfAnyImage == job = Absent \/ job.result # "failed"

\* IsWSGIEffective reads the Job's result for the image of this pass.
ProbeSaysWSGI == job = Absent \/ job.image # run.spec.image \/ job.result # "failed"

\* A call on the Job fails, which is only logged, or its pod does.
ProbeFails == ~calm /\ "probe" \in Knobs

\* The strategies a call may return: the annotation, unless the probe found
\* the binary.  A Job that cannot be read counts as no result.
IsWSGIEffective ==
    IF run.spec.wsgi THEN {ProbeSaysWSGI} \cup (IF ProbeFails THEN {TRUE} ELSE {})
                     ELSE {FALSE}

\* What the same call does to the Job: create a missing one, delete one
\* for another image.
ProbeJob ==
    job' \in (IF ProbeFails THEN {job} ELSE {})
        \cup {IF ~run.spec.wsgi THEN job
              ELSE IF job = Absent
                   THEN [image |-> run.spec.image, result |-> "running",
                         deleting |-> FALSE]
              ELSE IF job.image # run.spec.image THEN [job EXCEPT !.deleting = TRUE]
              ELSE job}

-----------------------------------------------------------------------------
(* reconcileInit. *)

\* The account's condition is folded into the database's: the two calls of
\* ensureDB are adjacent and every complete pass writes both.
EnsureDB == Section("db", {"DB"}, "config", {{"DB"}})

\* The configuration is rendered into two Secrets, the hashed one first.  A
\* call may fail before the probe, before the first Secret is written, or
\* after it; a transport URL that is gone also takes Input back.
GenerateServiceSecrets ==
    /\ pc = "config"
    /\ \/ /\ Proceed({}, "tls") \/ GiveUp({"ServiceConfig"})
          /\ \E w \in IsWSGIEffective :
                config' = [bus |-> run.spec.bus, rpc |-> run.spec.rpc, wsgi |-> w]
          /\ ProbeJob
       \/ GiveUp({"ServiceConfig"}) /\ (ProbeJob \/ UNCHANGED job) /\ UNCHANGED config
       \/ GiveUp({"ServiceConfig", "Input"}) /\ UNCHANGED <<config, job>>
    /\ UNCHANGED <<cluster, depl, synced>>

\* A missing secret ends reconcileInit with an empty result and no error, so
\* reconcileNormal goes on, past the rest of reconcileInit.
ValidateTLS ==
    /\ pc = "tls"
    /\ \/ tls /\ Proceed({"TLS"}, "hash")
       \/ /\ ~tls
          /\ pc' = "inputHash"
          /\ run' = [run EXCEPT !.cond["TLS"] = "False"]
          /\ UNCHANGED <<status, queued>>
       \/ GiveUp({"TLS"})
    /\ UNCHANGED <<cluster, config, depl, synced, job>>

CreateHashOfInputHashes ==
    /\ pc = "hash"
    /\ \/ /\ pc' = "ac"
          /\ run' = [run EXCEPT !.hash = config]
          /\ UNCHANGED <<status, queued>>
       \/ GiveUp({"ServiceConfig"})
    /\ UNCHANGED <<cluster, config, depl, synced, job>>

ManageACFinalizer == Section("ac", {"ServiceConfig"}, "dbsync", {{"ServiceConfig"}})

\* Faulty: the pass does not wait for the Job.
DbSyncUnawaited ==
    /\ pc = "dbsync"
    /\ pc' = "services"
    /\ run' = [run EXCEPT !.cond["DBSync"] = "True", !.dbsync = run.spec.image]
    /\ UNCHANGED <<cluster, status, queued, config, depl, synced, job>>

\* Faulty: the wrong hash is recorded.
DbSyncWrongHash ==
    /\ pc = "dbsync"
    /\ pc' = "services"
    /\ run' = [run EXCEPT !.cond["DBSync"] = "True", !.dbsync = run.hash]
    /\ synced' = synced \cup {run.spec.image}
    /\ UNCHANGED <<cluster, status, queued, config, depl, job>>

\* The Job runs when its definition, here the image, differs from the
\* recorded one; the pass gives up until it has completed.
DbSyncJob ==
    /\ pc = "dbsync"
    /\ \/ /\ pc' = "services"
          /\ run' = [run EXCEPT !.cond["DBSync"] = "True",
                                !.dbsync = run.spec.image]
          /\ synced' = IF run.dbsync = run.spec.image THEN synced
                       ELSE synced \cup {run.spec.image}
          /\ UNCHANGED <<status, queued>>
       \/ GiveUp({"DBSync"}) /\ UNCHANGED synced
    /\ UNCHANGED <<cluster, config, depl, job>>

ExposeService == Section("services", {"CreateService"}, "keystoneService",
                         {{"CreateService"}, {}})

KeystoneService == Section("keystoneService", {"KeystoneService"},
                           "keystoneEndpoint", {{"KeystoneService"}, {}})

KeystoneEndpoint == Section("keystoneEndpoint", {"KeystoneEndpoint"},
                            "inputHash", {{"KeystoneEndpoint"}, {}})

-----------------------------------------------------------------------------
(* reconcileNormal, the Deployments. *)

\* Without an input hash the pass is an error.
InputHash ==
    /\ pc = "inputHash"
    /\ IF run.hash = Absent THEN Return(run.cond, TRUE) ELSE Proceed({}, "topology")
    /\ UNCHANGED <<cluster, config, depl, synced, job>>

\* The condition is written only where there is a reference or an error.
EnsureServiceTopology ==
    /\ pc = "topology"
    /\ \/ /\ run.spec.topology => topo
          /\ Proceed(IF run.spec.topology THEN {"Topology"} ELSE {}, "api")
       \/ /\ run.spec.topology /\ ~topo
          /\ Return(Set(run.cond, "False", {"Topology"}), TRUE)
       \/ /\ run.spec.topology \/ run.cond["Topology"] # Absent
          /\ GiveUp({"Topology"})
    /\ UNCHANGED <<cluster, config, depl, synced, job>>

\* Faulty: the template follows the annotation, whatever the probe has found.
TemplateForAnnotation(wsgi) == [hash |-> run.hash, wsgi |-> run.spec.wsgi,
                      topology |-> run.spec.topology, image |-> run.spec.image]

TemplateFor(wsgi) == [hash |-> run.hash, wsgi |-> wsgi,
                      topology |-> run.spec.topology, image |-> run.spec.image]

\* CreateOrPatch, and the status of the object it returns: after a change
\* the Deployment's generation is ahead of the observed one.
CreateOrPatch(d, t) ==
    depl' = [depl EXCEPT ![d] = IF @ # Absent /\ @.tmpl = t THEN @
                                ELSE [tmpl |-> t, observed |-> FALSE, done |-> FALSE,
                                      old |-> @ # Absent]]

Gate(d, t) ==
    IF depl[d] = Absent \/ depl[d].tmpl # t \/ ~depl[d].observed THEN "closed"
    ELSE IF depl[d].done THEN "ready" ELSE "open"

\* Uncached: the rollout of the template with this input hash is complete.
IsReadyForInput(d) ==
    /\ depl[d] # Absent
    /\ depl[d].observed /\ depl[d].done
    /\ depl[d].tmpl.hash = run.hash

PatchAPI ==
    /\ pc = "api"
    /\ \/ \E w \in IsWSGIEffective :
          /\ pc' = "apiCheck"
          /\ CreateOrPatch("neutron", TemplateFor(w))
          /\ run' = [run EXCEPT !.wsgi = w, !.gate = Gate("neutron", TemplateFor(w))]
          /\ UNCHANGED <<status, queued>>
       \/ GiveUp({"Deployment"}) /\ UNCHANGED depl
    /\ ProbeJob
    /\ UNCHANGED <<cluster, config, synced>>

AfterAPI == IF ~run.wsgi THEN "eventlet" ELSE "rpc"

\* Faulty: a Deployment that exists counts as ready.
CheckAPIUngated ==
    /\ pc = "apiCheck"
    /\ Proceed({"NetworkAttachments", "Deployment"}, AfterAPI)
    /\ UNCHANGED <<cluster, config, depl, synced, job>>

\* Behind the generation gate: network attachments, then readiness.
CheckAPI ==
    /\ pc = "apiCheck"
    /\ \/ run.gate = "closed" /\ Proceed({}, AfterAPI)
       \/ /\ run.gate # "closed"
          /\ \/ /\ run.gate = "ready" /\ IsReadyForInput("neutron")
                /\ Proceed({"NetworkAttachments", "Deployment"}, AfterAPI)
             \/ /\ ~(run.gate = "ready" /\ IsReadyForInput("neutron"))
                /\ pc' = AfterAPI
                /\ run' = [run EXCEPT !.cond["NetworkAttachments"] = "True",
                                      !.cond["Deployment"] = "False"]
                /\ UNCHANGED <<status, queued>>
             \/ GiveUp({"NetworkAttachments"})
             \/ GiveUp({})
             \/ ~calm /\ Return(Set(run.cond, "True", {"NetworkAttachments"}), TRUE)
    /\ UNCHANGED <<cluster, config, depl, synced, job>>

\* Faulty: the condition is not seeded.
PatchExtraUnseeded(d, c, next) ==
    \/ /\ pc' = next
       /\ CreateOrPatch(d, TemplateFor(TRUE))
       /\ run' = [run EXCEPT !.gate = Gate(d, TemplateFor(TRUE))]
       /\ UNCHANGED <<status, queued>>
    \/ GiveUp({c}) /\ UNCHANGED depl

\* The RPC and worker Deployments: the condition is seeded False, and becomes
\* True only behind the generation gate.
PatchExtra(d, c, next) ==
    \/ /\ pc' = next
       /\ CreateOrPatch(d, TemplateFor(TRUE))
       /\ run' = [run EXCEPT !.cond[c] = "False", !.gate = Gate(d, TemplateFor(TRUE))]
       /\ UNCHANGED <<status, queued>>
    \/ GiveUp({c}) /\ UNCHANGED depl

CheckExtra(d, c, next) ==
    \/ Proceed(IF run.gate # "closed" /\ IsReadyForInput(d) THEN {c} ELSE {}, next)
    \/ run.gate # "closed" /\ GiveUp({})

\* rpc_workers = 0 removes the RPC Deployment.
PatchRPC ==
    /\ pc = "rpc"
    /\ \/ run.spec.rpc /\ PatchExtra("rpc", "RPC", "rpcCheck")
       \/ /\ ~run.spec.rpc
          /\ \/ /\ Proceed({"RPC"}, "worker")
                /\ depl' = [depl EXCEPT !["rpc"] = Absent]
             \/ GiveUp({}) /\ UNCHANGED depl
    /\ UNCHANGED <<cluster, config, synced, job>>

CheckRPC ==
    /\ pc = "rpcCheck"
    /\ CheckExtra("rpc", "RPC", "worker")
    /\ UNCHANGED <<cluster, config, depl, synced, job>>

PatchWorker ==
    /\ pc = "worker"
    /\ PatchExtra("worker", "Worker", "workerCheck")
    /\ UNCHANGED <<cluster, config, synced, job>>

CheckWorker ==
    /\ pc = "workerCheck"
    /\ CheckExtra("worker", "Worker", "accounts")
    /\ UNCHANGED <<cluster, config, depl, synced, job>>

\* Eventlet: both Deployments are deleted, in order, and their conditions go.
CleanUpWSGI ==
    /\ pc = "eventlet"
    /\ \/ /\ pc' = "accounts"
          /\ depl' = [depl EXCEPT !["rpc"] = Absent, !["worker"] = Absent]
          /\ run' = [run EXCEPT !.cond["RPC"] = Absent, !.cond["Worker"] = Absent]
          /\ UNCHANGED <<status, queued>>
       \/ \E d \in {depl, [depl EXCEPT !["rpc"] = Absent]} : GiveUp({}) /\ depl' = d
    /\ UNCHANGED <<cluster, config, synced, job>>

DeleteUnusedAccountFinalizers == Section("accounts", {}, "finalize", {{}})

FinalizeRotations == Section("finalize", {}, "done", {{}})

Done ==
    /\ pc = "done"
    /\ Return(IF AllSubConditionIsTrue(run.cond) THEN Set(run.cond, "True", {"Ready"})
              ELSE run.cond, FALSE)
    /\ UNCHANGED <<cluster, config, depl, synced, job>>

\* The operator's process stops; on restart every resource is queued.
Crash ==
    /\ pc # "idle" /\ ~calm
    /\ pc' = "idle" /\ run' = Idle /\ queued' = TRUE
    /\ UNCHANGED <<cluster, status, config, depl, synced, job>>

-----------------------------------------------------------------------------
(* The cluster.  An event of a watched or owned object queues the resource. *)

controller == <<status, pc, run, config, synced>>

\* A step of the cluster is taken between passes, or where the pass is about
\* to look at what the step changes; at any other point it commutes with the
\* section the pass is in.
At(sections) == pc \in sections \cup {"idle"}

Looks == [neutron |-> {"api", "apiCheck"}, rpc |-> {"rpc", "rpcCheck"},
          worker |-> {"worker", "workerCheck"}]

Edit(s) ==
    /\ At({}) /\ ~calm /\ edits < MaxEdits
    /\ \E k \in Knobs \cap DOMAIN spec : \A f \in DOMAIN spec : (f = k) = (s[f] # spec[f])
    /\ spec' = s /\ edits' = edits + 1 /\ queued' = TRUE
    /\ UNCHANGED <<controller, tls, topo, depl, job, calm>>

\* Faulty: the TLS secrets are not watched.
TLSSecretsUnwatched ==
    /\ At({"tls"}) /\ ~calm /\ "tls" \in Knobs
    /\ tls' = ~tls
    /\ UNCHANGED <<controller, spec, edits, topo, queued, depl, job, calm>>

\* The TLS secrets are deleted or created; findObjectsForSrc watches them.
TLSSecrets ==
    /\ At({"tls"}) /\ ~calm /\ "tls" \in Knobs
    /\ tls' = ~tls /\ queued' = TRUE
    /\ UNCHANGED <<controller, spec, edits, topo, depl, job, calm>>

TopologyObject ==
    /\ At({"topology"}) /\ ~calm /\ "topology" \in Knobs
    /\ topo' = ~topo /\ queued' = (queued \/ spec.topology)
    /\ UNCHANGED <<controller, spec, edits, tls, depl, job, calm>>

\* Faulty: the Jobs are not watched.
ProbeEndsUnwatched ==
    /\ At({"config", "api"}) /\ job # Absent /\ job.result = "running"
    /\ job' = [job EXCEPT !.result = IF job.image \in Legacy THEN "failed" ELSE "succeeded"]
    /\ UNCHANGED <<cluster, controller, queued, depl>>

\* The probe exits 0 on an image without the binary.  Its pod may also be
\* lost, and the Job has no retries.
ProbeEnds ==
    /\ At({"config", "api"}) /\ job # Absent /\ job.result = "running"
    /\ \E r \in {IF job.image \in Legacy THEN "failed" ELSE "succeeded"}
             \cup (IF ProbeFails THEN {"failed"} ELSE {}) :
          job' = [job EXCEPT !.result = r]
    /\ queued' = TRUE
    /\ UNCHANGED <<cluster, controller, depl>>

ProbeGone ==
    /\ At({"config", "api"}) /\ job # Absent /\ job.deleting
    /\ job' = Absent /\ queued' = TRUE
    /\ UNCHANGED <<cluster, controller, depl>>

\* An image serves the Eventlet strategy exactly if it has the binary.
Runs(t) == t.wsgi # (t.image \in Legacy)

Observe(d) ==
    /\ At(Looks[d]) /\ depl[d] # Absent /\ ~depl[d].observed
    /\ depl' = [depl EXCEPT ![d].observed = TRUE] /\ queued' = TRUE
    /\ UNCHANGED <<cluster, controller, job>>

\* Faulty: the Deployments are not watched.
RolloutUnwatched(d) ==
    /\ At(Looks[d]) /\ depl[d] # Absent /\ depl[d].observed /\ ~depl[d].done
    /\ Runs(depl[d].tmpl)
    /\ depl' = [depl EXCEPT ![d].done = TRUE, ![d].old = FALSE]
    /\ UNCHANGED <<cluster, controller, queued, job>>

Rollout(d) ==
    /\ At(Looks[d]) /\ depl[d] # Absent /\ depl[d].observed /\ ~depl[d].done /\ Runs(depl[d].tmpl)
    /\ depl' = [depl EXCEPT ![d].done = TRUE, ![d].old = FALSE] /\ queued' = TRUE
    /\ UNCHANGED <<cluster, controller, job>>

PodLost(d) ==
    /\ At(Looks[d]) /\ ~calm /\ "pods" \in Knobs /\ depl[d] # Absent /\ depl[d].done
    /\ depl' = [depl EXCEPT ![d].done = FALSE] /\ queued' = TRUE
    /\ UNCHANGED <<cluster, controller, job>>

\* From here on the environment is well-behaved.
CalmDown ==
    /\ At({}) /\ "calm" \in Knobs /\ ~calm /\ tls /\ topo
    /\ spec.wsgi \/ spec.image \in Legacy
    /\ calm' = TRUE
    /\ UNCHANGED <<spec, edits, tls, topo, controller, queued, depl, job>>

Normal ==
    \/ Reconcile \/ ReconcileRbac \/ TransportURLCreateOrUpdate
    \/ NotificationBus \/ VerifyTransportSecret \/ VerifyServiceSecret
    \/ GetMemcached \/ ReconcileExternalSecrets \/ EnsureNetworks

ReconcileInit ==
    \/ EnsureDB \/ GenerateServiceSecrets \/ ValidateTLS
    \/ CreateHashOfInputHashes \/ ManageACFinalizer \/ DbSyncJob
    \/ ExposeService \/ KeystoneService \/ KeystoneEndpoint

Deploy ==
    \/ InputHash \/ EnsureServiceTopology \/ PatchAPI \/ CheckAPI \/ PatchRPC
    \/ CheckRPC \/ PatchWorker \/ CheckWorker \/ CleanUpWSGI
    \/ DeleteUnusedAccountFinalizers \/ FinalizeRotations \/ Done

Pass == Normal \/ ReconcileInit \/ Deploy

\* What the cluster does on its own: Deployments roll out, the probe ends.
Progress ==
    \/ ProbeEnds \/ ProbeGone
    \/ \E d \in Deployments : Observe(d) \/ Rollout(d)

Environment ==
    \/ Crash \/ TLSSecrets \/ TopologyObject \/ CalmDown
    \/ \E s \in SpecType : Edit(s)
    \/ \E d \in Deployments : PodLost(d)

Next == Pass \/ Progress \/ Environment

Spec == Init /\ [][Next]_vars

\* The controller works its queue and the cluster makes progress.  Strong
\* fairness for the latter, since At postpones its steps: what it makes
\* intermittently enabled is continuously enabled in the cluster.
Fairness == WF_vars(Pass) /\ SF_vars(Progress)

FairSpec == Spec /\ Fairness

-----------------------------------------------------------------------------
(* Properties. *)

\* Every variable has its type.
TypeOK ==
    /\ spec \in SpecType
    /\ edits \in 0..MaxEdits
    /\ tls \in BOOLEAN /\ topo \in BOOLEAN /\ queued \in BOOLEAN /\ calm \in BOOLEAN
    /\ status \in Status
    /\ pc \in PC
    /\ run \in IF pc = "idle" THEN {Idle} ELSE Run
    /\ config \in Hash
    /\ depl \in [Deployments -> Deployment \cup {Absent}]
    /\ synced \subseteq Image
    /\ job \in Job \cup {Absent}

Strategy(wsgi, rpc) ==
    {"neutron"} \cup (IF wsgi THEN {"worker"} ELSE {})
               \cup (IF wsgi /\ rpc THEN {"rpc"} ELSE {})

\* When reconcileNormal marks the resource Ready (and when the credential
\* rotation guard holds), the Deployments of the strategy in force, and only
\* those, exist; each has the template of this pass, has completed its
\* rollout, and has no pod of an earlier template left; the configuration
\* was rendered and the database synchronised by this pass.
ReadyIsHonest ==
    pc = "done" /\ AllSubConditionIsTrue(run.cond) =>
        /\ \A d \in Deployments :
              IF d \in Strategy(run.wsgi, run.spec.rpc)
              THEN /\ depl[d] # Absent
                   /\ depl[d].tmpl = TemplateFor(run.wsgi)
                   /\ ~depl[d].old
              ELSE depl[d] = Absent
        /\ run.hash = config
        /\ config.bus = run.spec.bus /\ config.rpc = run.spec.rpc
        /\ run.spec.image \in synced

\* While the TLS secrets stay in place, no Deployment is given an image whose
\* db-sync Job has not completed.  (A TLS secret that goes missing ends
\* reconcileInit before the Job, and the pass deploys the image all the same.)
SyncedBeforeRollout ==
    \A d \in Deployments : depl[d] # Absent => depl[d].tmpl.image \in synced

\* With the wsgi annotation set, the pass falls back to the Eventlet strategy
\* only for an image that holds NeutronServerBinaryPath.
FallbackOnlyForLegacy ==
    pc = "apiCheck" /\ run.spec.wsgi /\ ~run.wsgi => run.spec.image \in Legacy

\* No reconcile runs or is queued: the controller waits for an event.
AtRest == pc = "idle" /\ ~queued

Running(d) == depl[d] # Absent /\ depl[d].observed /\ depl[d].done /\ ~depl[d].old

\* No wake-up is lost: at rest, with the TLS secrets there, the Deployments
\* of one strategy, and only those, have the template for the spec and the
\* rendered configuration, which the status has on record.  Unless calls on
\* its Job fail, the strategy is the one the image probe has found by now,
\* in the configuration as well, and a probe of the image is under way.
DeployedAtRest ==
    AtRest /\ tls =>
        LET wsgi == depl["neutron"].tmpl.wsgi
            found == job # Absent /\ job.image = spec.image /\ job.result = "failed"
        IN /\ depl["neutron"] # Absent
           /\ \A d \in Deployments :
                IF d \in Strategy(wsgi, spec.rpc)
                THEN /\ depl[d] # Absent
                     /\ depl[d].tmpl = [hash |-> config, wsgi |-> wsgi,
                                        topology |-> spec.topology, image |-> spec.image]
                ELSE depl[d] = Absent
           /\ config.bus = spec.bus /\ config.rpc = spec.rpc
           /\ status.hash = config /\ status.dbsync = spec.image
           /\ "probe" \notin Knobs =>
                /\ wsgi <=> config.wsgi
                /\ wsgi <=> spec.wsgi /\ ~found
                /\ spec.wsgi => job # Absent /\ (job.image = spec.image \/ job.deleting)

\* At rest Ready says whether the Deployments have rolled out: it is True
\* exactly if they have, the TLS secrets are there, and no False condition is
\* left of a TopologyRef that has been removed.
ReadyAtRest ==
    AtRest =>
        (status.cond["Ready"] = "True" <=>
           /\ tls /\ (spec.topology \/ status.cond["Topology"] # "False")
           /\ \A d \in Deployments : depl[d] # Absent => Running(d))

\* The Deployments that take RPC work off the API pods are not given up for
\* a strategy that the API Deployment has not been told of.
TakenOverBeforeCleanUp ==
    [][\A d \in {"rpc", "worker"} :
          depl[d] # Absent /\ depl'[d] = Absent =>
             \/ d = "rpc" /\ ~run.spec.rpc
             \/ depl["neutron"] # Absent /\ ~depl["neutron"].tmpl.wsgi]_vars

\* What the spec asks for is deployed: strategy, configuration, Deployments.
Converged ==
    LET wsgi == spec.wsgi /\ spec.image \notin Legacy
    IN /\ config = [bus |-> spec.bus, rpc |-> spec.rpc, wsgi |-> wsgi]
       /\ \A d \in Deployments :
            IF d \in Strategy(wsgi, spec.rpc)
            THEN /\ depl[d] # Absent
                 /\ depl[d].tmpl = [hash |-> config, wsgi |-> wsgi,
                                    topology |-> spec.topology, image |-> spec.image]
                 /\ depl[d].done
            ELSE depl[d] = Absent

\* Once the environment is well-behaved the Deployments converge to what the
\* spec and the image call for, whatever happened before.
EventuallyConverged == <>[](calm => Converged)

\* Once the environment is well-behaved the resource becomes and stays Ready.
EventuallyReady == <>[](calm => status.cond["Ready"] = "True")

\* The same, but for one case: a TopologyRef removed while its condition is
\* False.  No later pass writes that condition.
EventuallyReadyUnlessTopologyStale ==
    <>[](calm => \/ status.cond["Ready"] = "True"
                 \/ ~spec.topology /\ status.cond["Topology"] = "False")
=============================================================================
