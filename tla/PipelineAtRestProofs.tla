------------------------ MODULE PipelineAtRestProofs ------------------------
(***************************************************************************)
(* DeployedAtRest, ReadyAtRest and TakenOverBeforeCleanUp, for every set   *)
(* of images, every edit bound and every behaviour of the environment:     *)
(* AtRestInv through the Deployments and the end of a pass, and under the  *)
(* steps of the cluster.                                                   *)
(***************************************************************************)
EXTENDS PipelinePassProofs

USE DEF AfterSync, AfterHash, Late, AfterConfig, End, Extra, AfterCheck, Checked

-----------------------------------------------------------------------------
(* The Deployments. *)

\* The conditions that the Deployments have.
OfDeployments == {"NetworkAttachments", "Deployment", "RPC", "Worker"}

\* Steps among the Deployments leave everything before them alone.
LEMMA BehindAtRest ==
    ASSUME AtRestInv, pc \in Checked \ {"topology"}, pc' \in Checked \ {"topology"},
           UNCHANGED <<status, queued, spec, tls>>,
           run'.spec = run.spec, run'.dbsync = run.dbsync,
           \A x \in Condition \ OfDeployments : run'.cond[x] = run.cond[x],
           pc' \in AfterAPIPatch => Fresh("neutron")', ExtraDeployed',
           NetworkInv', EventletInv',
           ~queued => ProbeInv' /\ GateInv' /\ UpInv'
    PROVE  AtRestInv'
  <1>1. \A x \in Early \cup InInit \cup {"TLS", "Topology", "Ready"} : run'.cond[x] = run.cond[x]
    BY Words, Names DEF OfDeployments, Early, InInit
  <1>2. Skipped' = Skipped
    BY <1>1 DEF Skipped
  <1>3. DeployInv'
    BY <1>2 DEF AtRestInv, PassInv, DeployInv
  <1>4. ReportedInv'
    BY DEF ReportedInv, AfterRbac, AfterBus, AfterTransport, AfterSecret,
           AfterMemcached, AfterExternal, AfterDB
  <1>5. CondInv'
    BY <1>1, <1>2 DEF AtRestInv, PassInv, CondInv, Fine
  <1>6. ~queued => run.spec = spec /\ TLSInv
    BY DEF AtRestInv, Undisturbed
  <1>7. ~queued => TLSInv'
    BY <1>1, <1>6 DEF TLSInv
  <1>8. Undisturbed'
    BY <1>6, <1>7 DEF Undisturbed
  <1>9. pc # "idle" /\ pc' # "idle"
    OBVIOUS
  <1> QED
    BY <1>3, <1>4, <1>5, <1>8, <1>9, OnAtRest DEF PassInv

\* CreateOrPatch, and what the gate says of its outcome.
LEMMA GateFacts ==
    ASSUME TypeInv, pc \in Checked, NEW d \in Deployments, NEW w \in BOOLEAN,
           CreateOrPatch(d, TemplateFor(w))
    PROVE  /\ Gate(d, TemplateFor(w)) = "ready" <=> depl'[d].observed /\ depl'[d].done
           /\ Gate(d, TemplateFor(w)) # "closed" <=> depl'[d].observed
  <1> DEFINE t == TemplateFor(w)
             new == [tmpl |-> t, observed |-> FALSE, done |-> FALSE, old |-> depl[d] # Absent]
  <1>1. DOMAIN depl = Deployments
    BY DEF TypeInv, TypeOK
  <1>2. depl'[d] = IF depl[d] # Absent /\ depl[d].tmpl = t THEN depl[d] ELSE new
    BY <1>1 DEF CreateOrPatch
  <1>3. ~new.observed
    OBVIOUS
  <1> HIDE DEF new, t
  <1>4. /\ Gate(d, t) = "ready" <=> depl'[d].observed /\ depl'[d].done
        /\ Gate(d, t) # "closed" <=> depl'[d].observed
    BY <1>2, <1>3 DEF Gate
  <1> QED
    BY <1>4 DEF t

\* The API Deployment is written with the template of the strategy.
LEMMA PatchAPIAtRest ==
    ASSUME KnownInv, PatchAPI
    PROVE  AtRestInv'
  <1>0. /\ pc = "api" /\ UNCHANGED <<spec, tls, config>> /\ TypeInv /\ TypeOK /\ run \in Run
        /\ AtRestInv /\ RolloutInv
    BY DEF PatchAPI, KnownInv, TypeInv, TypeOK, HonestInv, cluster
  <1>1. CASE \E w : GiveUp(w)
    BY <1>0, <1>1, GiveUpAtRest DEF AtRestInv
  <1>2. ASSUME NEW w \in IsWSGIEffective, pc' = "apiCheck", ProbeJob,
               CreateOrPatch("neutron", TemplateFor(w)),
               run' = [run EXCEPT !.wsgi = w, !.gate = Gate("neutron", TemplateFor(w))],
               UNCHANGED <<status, queued>>
        PROVE  AtRestInv'
    <2>1. w \in BOOLEAN
      BY <1>0, StrategyType
    <2>2. depl'["neutron"] # Absent /\ depl'["neutron"].tmpl = TemplateFor(w)
      BY <1>0, <1>2, <2>1, PatchFacts DEF Deployments
    <2>3. /\ run'.spec = run.spec /\ run'.hash = run.hash /\ run'.dbsync = run.dbsync
          /\ run'.wsgi = w /\ run'.cond = run.cond /\ run'.gate = Gate("neutron", TemplateFor(w))
      BY <1>0, <1>2 DEF Run
    <2>4. Fresh("neutron")'
      BY <2>2, <2>3 DEF Fresh, TemplateFor
    <2>5. run'.gate = "ready" <=> Up("neutron")'
      BY <1>0, <1>2, <2>1, <2>3, GateFacts DEF Deployments, Up
    <2>6. ExtraDeployed' /\ NetworkInv' /\ EventletInv' /\ ExtraGate' /\ ExtraUp'
      BY <1>2 DEF ExtraDeployed, NetworkInv, EventletInv, ExtraGate, ExtraUp, AfterRPC, AfterWorker
    <2>7. ~queued => ProbeInv
      BY <1>0 DEF AtRestInv, Undisturbed
    <2>8. "probe" \notin Knobs => (w <=> Says') /\ Probed' /\ (Says <=> Says')
      BY <1>0, <1>2, <2>3, EffectiveFacts
    <2>9. ~queued => ProbeInv'
      BY <1>0, <1>2, <2>3, <2>7, <2>8 DEF ProbeInv
    <2>10. ~queued => GateInv' /\ UpInv'
      BY <1>2, <2>5, <2>6 DEF GateInv, UpInv
    <2> QED
      BY <1>0, <1>2, <2>3, <2>4, <2>6, <2>9, <2>10, BehindAtRest
  <1> QED
    BY <1>1, <1>2 DEF PatchAPI

\* The strategy stays what the probe says while Job and configuration stay.
LEMMA ProbeKept ==
    ASSUME ProbeInv, pc \in AfterAPIPatch, pc' \in AfterAPIPatch,
           run'.spec = run.spec, run'.wsgi = run.wsgi, UNCHANGED <<config, job>>
    PROVE  ProbeInv'
  <1>1. pc \in AfterConfig /\ pc' \in AfterConfig
    BY DEF AfterAPIPatch
  <1>2. (Says' <=> Says) /\ (Probed' <=> Probed)
    BY DEF Says, Probed, ProbeSaysWSGI
  <1> HIDE DEF AfterConfig
  <1> QED
    BY <1>1, <1>2 DEF ProbeInv

\* Readiness of the API Deployment.
LEMMA CheckAPIAtRest ==
    ASSUME KnownInv, CheckAPI
    PROVE  AtRestInv'
  <1>0. /\ pc = "apiCheck" /\ UNCHANGED <<spec, tls, config, depl, job>> /\ TypeOK
        /\ run \in Run /\ run.cond \in [Condition -> Value]
        /\ AtRestInv /\ PassInv /\ Fresh("neutron")
    BY DEF CheckAPI, KnownInv, TypeInv, TypeOK, Run, cluster, AtRestInv, PassInv, DeployInv,
           AfterAPIPatch
  <1>1. CASE \E w : GiveUp(w)
    BY <1>0, <1>1, GiveUpAtRest
  <1>2. CASE Return(Set(run.cond, "True", {"NetworkAttachments"}), TRUE)
    <2>1. Set(run.cond, "True", {"NetworkAttachments"})["Topology"] # "Unknown"
      BY <1>0, Words DEF Set, PassInv, CondInv
    <2> QED
      BY <1>2, <2>1, RetryAtRest
  <1>3. run.cond["Deployment"] = "Unknown"
    BY <1>0 DEF KnownInv, HonestInv, APIInv
  <1>4. ~queued => (run.gate = "ready" <=> Up("neutron")) /\ ProbeInv
    BY <1>0 DEF AtRestInv, Undisturbed, GateInv
  <1>5. IsReadyForInput("neutron") <=> Up("neutron")
    BY <1>0 DEF IsReadyForInput, Up, Fresh, TemplateFor
  <1> DEFINE Onward == /\ pc' = AfterAPI /\ UNCHANGED <<status, queued>>
                       /\ run'.spec = run.spec /\ run'.hash = run.hash
                       /\ run'.dbsync = run.dbsync /\ run'.wsgi = run.wsgi
                       /\ \A x \in Condition \ OfDeployments : run'.cond[x] = run.cond[x]
  <1>6. ASSUME Onward,
               run'.cond["Deployment"] = "True" => run'.cond["NetworkAttachments"] = "True",
               ~queued => (run'.cond["Deployment"] = "True" <=> Up("neutron"))
        PROVE  AtRestInv'
    <2>1. pc' \in {"eventlet", "rpc"}
      BY <1>6 DEF AfterAPI
    <2>2. Fresh("neutron")'
      BY <1>0, <1>6 DEF Fresh, TemplateFor
    <2>3. ExtraDeployed' /\ EventletInv' /\ ExtraUp' /\ GateInv'
      BY <2>1 DEF ExtraDeployed, EventletInv, ExtraUp, GateInv, ExtraGate, AfterRPC, AfterWorker
    <2>4. NetworkInv'
      BY <1>6 DEF NetworkInv, Fine
    <2>5. Up("neutron")' <=> Up("neutron")
      BY <1>0 DEF Up
    <2>6. ~queued => UpInv'
      BY <1>6, <2>3, <2>5 DEF UpInv
    <2>7. ~queued => ProbeInv'
      BY <1>0, <1>4, <1>6, <2>1, ProbeKept DEF AfterAPIPatch
    <2> HIDE DEF AfterCheck
    <2>8. pc \in Checked \ {"topology"} /\ pc' \in Checked \ {"topology"}
      BY <1>0, <2>1
    <2> QED
      BY <1>0, <1>6, <2>2, <2>3, <2>4, <2>6, <2>7, <2>8, BehindAtRest
  <1>7. CASE run.gate = "closed" /\ Proceed({}, AfterAPI)
    <2>1. Onward /\ run'.cond["Deployment"] = "Unknown"
      BY <1>0, <1>3, <1>7, ProceedFacts, Names DEF Proceed, OfDeployments
    <2> QED
      BY <1>4, <1>6, <1>7, <2>1
  <1>8. CASE /\ run.gate = "ready" /\ IsReadyForInput("neutron")
             /\ Proceed({"NetworkAttachments", "Deployment"}, AfterAPI)
    <2>1. Onward /\ run'.cond["Deployment"] = "True" /\ run'.cond["NetworkAttachments"] = "True"
      BY <1>0, <1>8, ProceedFacts, Names DEF Proceed, OfDeployments, Condition, Listed
    <2> QED
      BY <1>5, <1>6, <1>8, <2>1
  <1>9. CASE /\ ~(run.gate = "ready" /\ IsReadyForInput("neutron"))
             /\ pc' = AfterAPI
             /\ run' = [run EXCEPT !.cond["NetworkAttachments"] = "True",
                                   !.cond["Deployment"] = "False"]
             /\ UNCHANGED <<status, queued>>
    <2>1. /\ run'.cond = [[run.cond EXCEPT !["NetworkAttachments"] = "True"]
                            EXCEPT !["Deployment"] = "False"]
          /\ run'.spec = run.spec /\ run'.hash = run.hash
          /\ run'.dbsync = run.dbsync /\ run'.wsgi = run.wsgi
      BY <1>0, <1>9 DEF Run
    <2>2. Onward /\ run'.cond["Deployment"] = "False"
      BY <1>0, <1>9, <2>1, Names DEF OfDeployments
    <2> QED
      BY <1>4, <1>5, <1>6, <1>9, <2>2
  <1> QED
    BY <1>1, <1>2, <1>7, <1>8, <1>9 DEF CheckAPI

\* Behind the API Deployment's check only the other two matter.
LEMMA BehindAPIAtRest ==
    ASSUME KnownInv, pc \in AfterCheck, pc' \in AfterCheck,
           UNCHANGED <<status, queued, spec, tls, config, job>>,
           depl'["neutron"] = depl["neutron"],
           run'.spec = run.spec, run'.hash = run.hash,
           run'.dbsync = run.dbsync, run'.wsgi = run.wsgi,
           \A x \in Condition \ {"RPC", "Worker"} : run'.cond[x] = run.cond[x],
           ExtraDeployed', EventletInv', ~queued => ExtraGate' /\ ExtraUp'
    PROVE  AtRestInv'
  <1>0. AtRestInv /\ PassInv /\ Undisturbed /\ pc \in AfterAPIPatch /\ pc' \in AfterAPIPatch
    BY DEF KnownInv, AtRestInv, AfterAPIPatch
  <1>1. /\ \A x \in Condition \ OfDeployments : run'.cond[x] = run.cond[x]
        /\ run'.cond["Deployment"] = run.cond["Deployment"]
        /\ run'.cond["NetworkAttachments"] = run.cond["NetworkAttachments"]
    BY DEF OfDeployments, Condition, Listed, Unlisted
  <1>2. Fresh("neutron")'
    BY <1>0 DEF PassInv, DeployInv, Fresh, TemplateFor
  <1>3. NetworkInv'
    BY <1>0, <1>1 DEF PassInv, CondInv, NetworkInv, Fine
  <1>4. ~queued => ProbeInv /\ UpInv
    BY <1>0 DEF Undisturbed
  <1>5. ~queued => ProbeInv'
    BY <1>0, <1>4, ProbeKept
  <1>6. ~queued => UpInv'
    BY <1>1, <1>4 DEF UpInv, Up
  <1>7. ~queued => GateInv'
    BY DEF GateInv
  <1>8. pc \in Checked \ {"topology"} /\ pc' \in Checked \ {"topology"}
    OBVIOUS
  <1> HIDE DEF AfterCheck
  <1> QED
    BY <1>0, <1>1, <1>2, <1>3, <1>5, <1>6, <1>7, <1>8, BehindAtRest

\* The RPC Deployment is patched, or deleted for rpc_workers = 0.
LEMMA PatchRPCAtRest ==
    ASSUME KnownInv, PatchRPC
    PROVE  AtRestInv'
  <1>0. /\ pc = "rpc" /\ UNCHANGED <<spec, tls, config, job>> /\ TypeOK /\ TypeInv /\ RolloutInv
        /\ run \in Run /\ run.cond \in [Condition -> Value] /\ run.wsgi = TRUE /\ PassInv
    BY DEF PatchRPC, KnownInv, TypeInv, TypeOK, Run, HonestInv, ExtraInv, AtRestInv, cluster
  <1>1. CASE \E w : GiveUp(w)
    BY <1>0, <1>1, GiveUpAtRest
  <1>2. CASE /\ run.spec.rpc /\ pc' = "rpcCheck"
             /\ CreateOrPatch("rpc", TemplateFor(TRUE))
             /\ run' = [run EXCEPT !.cond["RPC"] = "False",
                                   !.gate = Gate("rpc", TemplateFor(TRUE))]
             /\ UNCHANGED <<status, queued>>
    <2>1. depl'["neutron"] = depl["neutron"]
      BY <1>0, <1>2, PatchFacts DEF Deployments
    <2>2. /\ run'.cond = [run.cond EXCEPT !["RPC"] = "False"]
          /\ run'.spec = run.spec /\ run'.hash = run.hash
          /\ run'.dbsync = run.dbsync /\ run'.wsgi = run.wsgi
          /\ run'.gate = Gate("rpc", TemplateFor(TRUE))
      BY <1>0, <1>2 DEF Run
    <2>3. \A x \in Condition \ {"RPC", "Worker"} : run'.cond[x] = run.cond[x]
      BY <1>0, <2>2
    <2>4. run'.gate # "closed" <=> depl'["rpc"].observed
      BY <1>0, <1>2, <2>2, GateFacts DEF Deployments
    <2>5. ExtraDeployed' /\ EventletInv' /\ ExtraGate' /\ ExtraUp'
      BY <1>2, <2>4 DEF ExtraDeployed, EventletInv, ExtraGate, ExtraUp, AfterRPC, AfterWorker
    <2> QED
      BY <1>0, <1>2, <2>1, <2>2, <2>3, <2>5, BehindAPIAtRest
  <1>3. CASE /\ ~run.spec.rpc /\ Proceed({"RPC"}, "worker")
             /\ depl' = [depl EXCEPT !["rpc"] = Absent]
    <2>1. depl'["rpc"] = Absent /\ depl'["neutron"] = depl["neutron"]
      BY <1>0, <1>3 DEF TypeOK, Deployments
    <2>2. /\ pc' = "worker" /\ UNCHANGED <<status, queued>>
          /\ run'.spec = run.spec /\ run'.hash = run.hash
          /\ run'.dbsync = run.dbsync /\ run'.wsgi = run.wsgi
          /\ run'.cond["RPC"] = "True"
          /\ \A x \in Condition \ {"RPC", "Worker"} : run'.cond[x] = run.cond[x]
      BY <1>0, <1>3, ProceedFacts, Names DEF Proceed
    <2>3. ExtraDeployed' /\ EventletInv' /\ ExtraGate' /\ ExtraUp'
      BY <1>3, <2>1, <2>2
         DEF ExtraDeployed, EventletInv, ExtraGate, ExtraUp, AfterRPC, AfterWorker
    <2> QED
      BY <1>0, <2>1, <2>2, <2>3, BehindAPIAtRest
  <1> QED
    BY <1>1, <1>2, <1>3 DEF PatchRPC, PatchExtra

\* Readiness of the RPC Deployment.
LEMMA CheckRPCAtRest ==
    ASSUME KnownInv, CheckRPC
    PROVE  AtRestInv'
  <1>0. /\ pc = "rpcCheck" /\ UNCHANGED <<spec, tls, config, depl, job>> /\ TypeOK /\ PassInv
        /\ run.wsgi /\ run.spec.rpc /\ run.cond["RPC"] = "False" /\ Fresh("rpc")
        /\ ~queued => (run.gate # "closed" <=> depl["rpc"].observed)
    BY DEF CheckRPC, KnownInv, TypeInv, HonestInv, ExtraInv, AtRestInv, Undisturbed, GateInv,
           ExtraGate, cluster
  <1>1. CASE GiveUp({})
    BY <1>0, <1>1, GiveUpAtRest
  <1> DEFINE ok == run.gate # "closed" /\ IsReadyForInput("rpc")
  <1>2. CASE Proceed(IF ok THEN {"RPC"} ELSE {}, "worker")
    <2>1. ~queued => (ok <=> Up("rpc"))
      BY <1>0 DEF IsReadyForInput, Up, Fresh, TemplateFor
    <2> HIDE DEF ok
    <2>a. UNCHANGED <<status, queued>>
      BY <1>2 DEF Proceed
    <2>b. /\ pc' = "worker"
          /\ run'.spec = run.spec /\ run'.hash = run.hash /\ run'.dbsync = run.dbsync
          /\ run'.wsgi = run.wsgi
          /\ \A x \in Condition : run'.cond[x] = IF x \in (IF ok THEN {"RPC"} ELSE {})
                                               THEN "True" ELSE run.cond[x]
      BY <1>0, <1>2, ProceedFacts
    <2>2. /\ pc' = "worker" /\ UNCHANGED <<status, queued>>
          /\ run'.spec = run.spec /\ run'.hash = run.hash /\ run'.dbsync = run.dbsync
          /\ run'.wsgi = run.wsgi
      BY <2>a, <2>b
    <2>3. /\ \A x \in Condition \ {"RPC", "Worker"} : run'.cond[x] = run.cond[x]
          /\ run'.cond["RPC"] = IF ok THEN "True" ELSE "False"
      BY <1>0, <2>b, Names
    <2>4. Fresh("rpc")' /\ (Up("rpc")' <=> Up("rpc"))
      BY <1>0, <2>2 DEF Fresh, TemplateFor, Up
    <2>5. ExtraDeployed' /\ EventletInv' /\ ExtraGate'
      BY <1>0, <2>2, <2>4 DEF ExtraDeployed, EventletInv, ExtraGate, AfterRPC, AfterWorker
    <2>6. ~queued => ExtraUp'
      BY <1>0, <2>1, <2>2, <2>3, <2>4 DEF ExtraUp, AfterWorker
    <2> QED
      BY <1>0, <2>2, <2>3, <2>5, <2>6, BehindAPIAtRest
  <1> QED
    BY <1>1, <1>2 DEF CheckRPC, CheckExtra

\* The worker Deployment is patched.
LEMMA PatchWorkerAtRest ==
    ASSUME KnownInv, PatchWorker
    PROVE  AtRestInv'
  <1>0. /\ pc = "worker" /\ UNCHANGED <<spec, tls, config, job>> /\ TypeOK /\ TypeInv /\ RolloutInv
        /\ run \in Run /\ run.cond \in [Condition -> Value] /\ run.wsgi = TRUE /\ PassInv
        /\ ExtraDeployed /\ (~queued => ExtraUp)
    BY DEF PatchWorker, KnownInv, TypeInv, TypeOK, Run, HonestInv, ExtraInv, AtRestInv, cluster,
           PassInv, DeployInv, Undisturbed, UpInv
  <1>1. CASE \E w : GiveUp(w)
    BY <1>0, <1>1, GiveUpAtRest
  <1>2. CASE /\ pc' = "workerCheck"
             /\ CreateOrPatch("worker", TemplateFor(TRUE))
             /\ run' = [run EXCEPT !.cond["Worker"] = "False",
                                   !.gate = Gate("worker", TemplateFor(TRUE))]
             /\ UNCHANGED <<status, queued>>
    <2>1. /\ depl'["worker"] # Absent /\ depl'["worker"].tmpl = TemplateFor(TRUE)
          /\ depl'["neutron"] = depl["neutron"] /\ depl'["rpc"] = depl["rpc"]
      BY <1>0, <1>2, PatchFacts DEF Deployments
    <2>2. /\ run'.cond = [run.cond EXCEPT !["Worker"] = "False"]
          /\ run'.spec = run.spec /\ run'.hash = run.hash
          /\ run'.dbsync = run.dbsync /\ run'.wsgi = run.wsgi
          /\ run'.gate = Gate("worker", TemplateFor(TRUE))
      BY <1>0, <1>2 DEF Run
    <2>3. /\ \A x \in Condition \ {"RPC", "Worker"} : run'.cond[x] = run.cond[x]
          /\ run'.cond["RPC"] = run.cond["RPC"]
      BY <1>0, <2>2, Names
    <2>4. run'.gate # "closed" <=> depl'["worker"].observed
      BY <1>0, <1>2, <2>2, GateFacts DEF Deployments
    <2>5. Fresh("worker")' /\ (Fresh("rpc")' <=> Fresh("rpc")) /\ (Up("rpc")' <=> Up("rpc"))
      BY <1>0, <2>1, <2>2 DEF Fresh, TemplateFor, Up
    <2>6. AfterRPC /\ AfterRPC' /\ ~AfterWorker'
      BY <1>0, <1>2 DEF AfterRPC, AfterWorker
    <2>7. ExtraDeployed'
      BY <1>0, <2>1, <2>2, <2>5, <2>6 DEF ExtraDeployed
    <2>8. EventletInv' /\ ExtraGate'
      BY <1>2, <2>4 DEF EventletInv, ExtraGate
    <2>9. ~queued => ExtraUp'
      BY <1>0, <2>2, <2>3, <2>5, <2>6 DEF ExtraUp
    <2> QED
      BY <1>0, <1>2, <2>1, <2>2, <2>3, <2>7, <2>8, <2>9, BehindAPIAtRest
  <1> QED
    BY <1>1, <1>2 DEF PatchWorker, PatchExtra

\* Readiness of the worker Deployment.
LEMMA CheckWorkerAtRest ==
    ASSUME KnownInv, CheckWorker
    PROVE  AtRestInv'
  <1>0. /\ pc = "workerCheck" /\ UNCHANGED <<spec, tls, config, depl, job>> /\ TypeOK /\ PassInv
        /\ run.wsgi /\ run.cond["Worker"] = "False" /\ Fresh("worker")
        /\ ~queued => (run.gate # "closed" <=> depl["worker"].observed)
        /\ ExtraDeployed /\ (~queued => ExtraUp)
    BY DEF CheckWorker, KnownInv, TypeInv, HonestInv, ExtraInv, AtRestInv, Undisturbed, GateInv,
           ExtraGate, cluster, PassInv, DeployInv, UpInv
  <1>1. CASE GiveUp({})
    BY <1>0, <1>1, GiveUpAtRest
  <1> DEFINE ok == run.gate # "closed" /\ IsReadyForInput("worker")
  <1>2. CASE Proceed(IF ok THEN {"Worker"} ELSE {}, "accounts")
    <2>1. ~queued => (ok <=> Up("worker"))
      BY <1>0 DEF IsReadyForInput, Up, Fresh, TemplateFor
    <2> HIDE DEF ok
    <2>a. UNCHANGED <<status, queued>>
      BY <1>2 DEF Proceed
    <2>b. /\ pc' = "accounts"
          /\ run'.spec = run.spec /\ run'.hash = run.hash /\ run'.dbsync = run.dbsync
          /\ run'.wsgi = run.wsgi
          /\ \A x \in Condition : run'.cond[x] = IF x \in (IF ok THEN {"Worker"} ELSE {})
                                               THEN "True" ELSE run.cond[x]
      BY <1>0, <1>2, ProceedFacts
    <2>2. /\ pc' = "accounts" /\ UNCHANGED <<status, queued>>
          /\ run'.spec = run.spec /\ run'.hash = run.hash /\ run'.dbsync = run.dbsync
          /\ run'.wsgi = run.wsgi
      BY <2>a, <2>b
    <2>3. /\ \A x \in Condition \ {"RPC", "Worker"} : run'.cond[x] = run.cond[x]
          /\ run'.cond["Worker"] = IF ok THEN "True" ELSE "False"
          /\ run'.cond["RPC"] = run.cond["RPC"]
      BY <1>0, <2>b, Names
    <2>4. \A d \in Deployments : (Fresh(d)' <=> Fresh(d)) /\ (Up(d)' <=> Up(d))
      BY <1>0, <2>2 DEF Fresh, TemplateFor, Up
    <2>5. AfterRPC /\ AfterRPC' /\ AfterWorker'
      BY <1>0, <2>2 DEF AfterRPC, AfterWorker
    <2>6. ExtraDeployed'
      BY <1>0, <2>2, <2>4, <2>5 DEF ExtraDeployed, Deployments
    <2>7. EventletInv' /\ ExtraGate'
      BY <1>0, <2>2 DEF EventletInv, ExtraGate
    <2>8. ~queued => ExtraUp'
      BY <1>0, <2>1, <2>2, <2>3, <2>4, <2>5 DEF ExtraUp, Deployments
    <2> QED
      BY <1>0, <2>2, <2>3, <2>6, <2>7, <2>8, BehindAPIAtRest
  <1> QED
    BY <1>1, <1>2 DEF CheckWorker, CheckExtra

\* The Eventlet strategy deletes the other two.
LEMMA CleanUpAtRest ==
    ASSUME KnownInv, CleanUpWSGI
    PROVE  AtRestInv'
  <1>0. /\ pc = "eventlet" /\ UNCHANGED <<spec, tls, config, job>> /\ TypeOK /\ PassInv
        /\ run \in Run /\ run.cond \in [Condition -> Value] /\ run.wsgi = FALSE
    BY DEF CleanUpWSGI, KnownInv, TypeInv, TypeOK, Run, HonestInv, ExtraInv, AtRestInv, cluster
  <1>1. CASE /\ pc' = "accounts"
             /\ depl' = [depl EXCEPT !["rpc"] = Absent, !["worker"] = Absent]
             /\ run' = [run EXCEPT !.cond["RPC"] = Absent, !.cond["Worker"] = Absent]
             /\ UNCHANGED <<status, queued>>
    <2>1. depl'["neutron"] = depl["neutron"]
      BY <1>0, <1>1 DEF TypeOK, Deployments
    <2>2. /\ run'.cond = [[run.cond EXCEPT !["RPC"] = Absent] EXCEPT !["Worker"] = Absent]
          /\ run'.spec = run.spec /\ run'.hash = run.hash
          /\ run'.dbsync = run.dbsync /\ run'.wsgi = run.wsgi
      BY <1>0, <1>1 DEF Run
    <2>3. /\ \A x \in Condition \ {"RPC", "Worker"} : run'.cond[x] = run.cond[x]
          /\ run'.cond["RPC"] = Absent /\ run'.cond["Worker"] = Absent
      BY <1>0, <2>2, Names
    <2>4. ExtraDeployed' /\ EventletInv' /\ ExtraGate' /\ ExtraUp'
      BY <1>0, <1>1, <2>2, <2>3
         DEF ExtraDeployed, EventletInv, ExtraGate, ExtraUp, AfterRPC, AfterWorker
    <2> QED
      BY <1>0, <1>1, <2>1, <2>2, <2>3, <2>4, BehindAPIAtRest
  <1>2. CASE GiveUp({})
    BY <1>0, <1>2, GiveUpAtRest
  <1> QED
    BY <1>1, <1>2 DEF CleanUpWSGI

-----------------------------------------------------------------------------
(* The end of a pass. *)

\* What the end of an undisturbed pass knows of the API Deployment, and of the
\* other two under each strategy.
LEMMA APIEnd ==
    ASSUME KnownInv, pc = "done", ~queued
    PROVE  /\ run.spec = spec /\ (run.cond["TLS"] # "False" <=> tls)
           /\ Fresh("neutron") /\ (run.cond["Deployment"] = "True" <=> Up("neutron"))
  <1>1. run.spec = spec /\ TLSInv /\ UpInv /\ DeployInv
    BY DEF KnownInv, AtRestInv, Undisturbed, PassInv
  <1>2. Fresh("neutron")
    BY <1>1 DEF DeployInv, AfterAPIPatch
  <1> QED
    BY <1>1, <1>2 DEF TLSInv, UpInv

\* An undisturbed pass of the WSGI strategy has rpc and worker as its spec asks.
LEMMA WSGIEnd ==
    ASSUME KnownInv, pc = "done", ~queued, run.wsgi
    PROVE  /\ run.spec.rpc => Fresh("rpc")
           /\ ~run.spec.rpc => depl["rpc"] = Absent
           /\ Fresh("worker")
           /\ run.cond["RPC"] = "True" <=> (run.spec.rpc => Up("rpc"))
           /\ run.cond["Worker"] = "True" <=> Up("worker")
  <1>1. UpInv /\ DeployInv
    BY DEF KnownInv, AtRestInv, Undisturbed, PassInv
  <1>2. AfterRPC /\ AfterWorker
    BY DEF AfterRPC, AfterWorker
  <1> QED
    BY <1>1, <1>2 DEF UpInv, DeployInv, ExtraDeployed, ExtraUp

\* A pass of the eventlet strategy has neither of them.
LEMMA EventletEnd ==
    ASSUME KnownInv, pc = "done", ~run.wsgi
    PROVE  /\ depl["rpc"] = Absent /\ depl["worker"] = Absent
           /\ run.cond["RPC"] = Absent /\ run.cond["Worker"] = Absent
  BY DEF KnownInv, AtRestInv, PassInv, CondInv, HonestInv, EventletInv, ExtraInv

\* Every sub-condition is True exactly if the Deployments have rolled out.
LEMMA SubConditionsAtRest ==
    ASSUME KnownInv, pc = "done", ~queued
    PROVE  AllSubConditionIsTrue(run.cond) <=>
              /\ tls /\ (spec.topology \/ run.cond["Topology"] # "False")
              /\ \A d \in Deployments : depl[d] # Absent => Running(d)
  <1>0. /\ run.cond \in [Condition -> Value] /\ run.wsgi \in BOOLEAN
        /\ CondInv /\ APIInv /\ ExtraInv /\ RolloutInv
    BY DEF KnownInv, TypeInv, TypeOK, Run, AtRestInv, PassInv, HonestInv
  <1>1. Condition \ {"Ready"} = Early \cup InInit \cup {"TLS", "Topology"} \cup OfDeployments
    BY DEF Condition, Listed, Unlisted, Early, InInit, OfDeployments
  <1>2. AllSubConditionIsTrue(run.cond) <=> \A x \in Condition \ {"Ready"} : Fine(x)
    BY DEF AllSubConditionIsTrue, SubConditions, Fine
  <1>3. \A d \in Deployments : depl[d] # Absent => (Running(d) <=> Up(d))
    BY <1>0 DEF Running, Up, RolloutInv
  <1>4. ASSUME AllSubConditionIsTrue(run.cond)
        PROVE  /\ tls /\ (spec.topology \/ run.cond["Topology"] # "False")
               /\ \A d \in Deployments : depl[d] # Absent => Running(d)
    <2>1. \A x \in {"TLS", "Topology"} \cup OfDeployments : run.cond[x] \in {"True", Absent}
      BY <1>1, <1>2, <1>4 DEF Fine
    <2>2. /\ run.cond["TLS"] # "False" /\ run.cond["Topology"] # "False"
          /\ run.cond["Deployment"] \in {"True", Absent}
          /\ run.cond["RPC"] \in {"True", Absent} /\ run.cond["Worker"] \in {"True", Absent}
      BY <2>1, Words DEF OfDeployments
    <2>3. /\ run.cond["Deployment"] # Absent
          /\ run.wsgi => run.cond["RPC"] # Absent /\ run.cond["Worker"] # Absent
      BY <1>0 DEF APIInv, ExtraInv
    <2>4. /\ Up("neutron")
          /\ run.wsgi => (run.spec.rpc => Up("rpc")) /\ Up("worker")
      BY <2>2, <2>3, APIEnd, WSGIEnd
    <2>5. \A d \in Deployments : depl[d] # Absent => Up(d)
      BY <2>4, WSGIEnd, EventletEnd DEF Deployments
    <2> QED
      BY <1>3, <2>2, <2>5, APIEnd
  <1>5. ASSUME tls, spec.topology \/ run.cond["Topology"] # "False",
               \A d \in Deployments : depl[d] # Absent => Running(d)
        PROVE  AllSubConditionIsTrue(run.cond)
    <2>1. run.cond["TLS"] = "True" /\ (\A x \in Early \cup InInit : Fine(x))
      BY <1>0, <1>5, APIEnd DEF CondInv, Skipped
    <2>2. Fine("Topology")
      BY <1>0, <1>5, APIEnd, Words DEF CondInv, Fine, Value
    <2>3. \A d \in Deployments : depl[d] # Absent => Up(d)
      BY <1>3, <1>5
    <2>4. run.cond["Deployment"] = "True"
      BY <2>3, APIEnd DEF Fresh, Deployments
    <2>5. Fine("NetworkAttachments")
      BY <1>0, <2>4 DEF CondInv, NetworkInv
    <2>6. run.cond["RPC"] \in {"True", Absent} /\ run.cond["Worker"] \in {"True", Absent}
      BY <2>3, WSGIEnd, EventletEnd DEF Fresh, Deployments
    <2>7. \A x \in OfDeployments : Fine(x)
      BY <2>4, <2>5, <2>6 DEF OfDeployments, Fine
    <2> QED
      BY <1>1, <1>2, <2>1, <2>2, <2>7 DEF Fine
  <1> QED
    BY <1>4, <1>5

\* The Deployments are those of the spec.
LEMMA DeployedAtEnd ==
    ASSUME KnownInv, pc = "done", ~queued, tls,
           UNCHANGED <<spec, config, depl, job>>,
           status'.hash = run.hash, status'.dbsync = run.dbsync
    PROVE  DeployedAtRest'
  <1>0. run.cond["TLS"] # "False" /\ InputsInv /\ ProbeInv /\ DeployInv /\ run.wsgi \in BOOLEAN
    BY APIEnd DEF KnownInv, AtRestInv, PassInv, HonestInv, Undisturbed, TypeInv, TypeOK, Run
  <1>1. /\ run.hash = config /\ config.bus = spec.bus /\ config.rpc = spec.rpc
        /\ status'.hash = config /\ status'.dbsync = spec.image
    BY <1>0, APIEnd DEF InputsInv, DeployInv, Skipped
  <1> DEFINE t == [hash |-> config, wsgi |-> run.wsgi,
                   topology |-> spec.topology, image |-> spec.image]
  <1>2. TemplateFor(run.wsgi) = t
    BY <1>1, APIEnd DEF TemplateFor
  <1>3. t.wsgi = run.wsgi
    OBVIOUS
  <1> HIDE DEF t
  <1>4. depl["neutron"] # Absent /\ depl["neutron"].tmpl = t /\ depl["neutron"].tmpl.wsgi = run.wsgi
    BY <1>2, <1>3, APIEnd DEF Fresh
  <1>5. \A d \in Deployments :
           IF d \in Strategy(run.wsgi, spec.rpc) THEN depl[d] # Absent /\ depl[d].tmpl = t
           ELSE depl[d] = Absent
    BY <1>0, <1>2, <1>4, APIEnd, WSGIEnd, EventletEnd DEF Fresh, Strategy, Deployments
  <1>6. "probe" \notin Knobs =>
           /\ run.wsgi <=> config.wsgi
           /\ run.wsgi <=> spec.wsgi /\ ~(job # Absent /\ job.image = spec.image
                                             /\ job.result = "failed")
           /\ spec.wsgi => job # Absent /\ (job.image = spec.image \/ job.deleting)
    BY <1>0, APIEnd DEF ProbeInv, Says, Probed, ProbeSaysWSGI, AfterAPIPatch
  <1> QED
    BY <1>1, <1>4, <1>5, <1>6 DEF DeployedAtRest, t

\* Ready is True exactly if every sub-condition is.
LEMMA MirrorFacts ==
    ASSUME run.cond \in [Condition -> Value], run.cond["Ready"] = "Unknown", NEW q,
           Return(IF AllSubConditionIsTrue(run.cond) THEN Set(run.cond, "True", {"Ready"})
                  ELSE run.cond, q)
    PROVE  /\ status'.cond["Ready"] = "True" <=> AllSubConditionIsTrue(run.cond)
           /\ status'.cond["Topology"] = run.cond["Topology"]
           /\ status'.hash = run.hash /\ status'.dbsync = run.dbsync
           /\ ~queued' => ~queued /\ ~q /\ status' = status
  <1> DEFINE c == IF AllSubConditionIsTrue(run.cond) THEN Set(run.cond, "True", {"Ready"})
                  ELSE run.cond
  <1>1. /\ c["Topology"] = run.cond["Topology"]
        /\ c["Ready"] = IF AllSubConditionIsTrue(run.cond) THEN "True" ELSE "Unknown"
    BY Words DEF Set
  <1>2. ~AllSubConditionIsTrue(run.cond) => c = run.cond /\ "True" \notin Mirror(c)
    BY Words DEF AllSubConditionIsTrue, SubConditions, Mirror, Value
  <1> HIDE DEF c
  <1>3. Return(c, q)
    BY DEF c
  <1>4. PICK r \in IF c["Ready"] = "Unknown" THEN Mirror(c) ELSE {c["Ready"]} :
            /\ status' = [cond |-> [x \in Persisted |-> IF x = "Ready" THEN r ELSE c[x]],
                          hash |-> run.hash, dbsync |-> run.dbsync]
            /\ queued' \in {queued \/ q \/ status' # status, TRUE}
    BY <1>3 DEF Return
  <1>5. "Ready" \in Persisted /\ "Topology" \in Persisted
    BY DEF Persisted, Unlisted
  <1>6. status'.cond["Ready"] = r /\ status'.cond["Topology"] = c["Topology"]
    BY <1>4, <1>5
  <1>7. r = "True" <=> AllSubConditionIsTrue(run.cond)
    BY <1>1, <1>2, <1>4
  <1>8. ~queued' => ~queued /\ ~q /\ status' = status
    BY <1>4
  <1> QED
    BY <1>1, <1>4, <1>6, <1>7, <1>8

\* The end of a pass that nothing disturbed leaves the cluster as the spec asks.
LEMMA DoneAtRest ==
    ASSUME KnownInv, Done
    PROVE  AtRestInv'
  <1>0. /\ pc = "done" /\ UNCHANGED <<spec, tls, config, depl, job>>
        /\ run.cond \in [Condition -> Value]
        /\ run.cond["Ready"] = "Unknown" /\ run.cond["Topology"] # "Unknown"
    BY DEF Done, KnownInv, TypeInv, TypeOK, Run, AtRestInv, PassInv, CondInv, cluster
  <1>1. /\ status'.cond["Ready"] = "True" <=> AllSubConditionIsTrue(run.cond)
        /\ status'.cond["Topology"] = run.cond["Topology"]
        /\ status'.hash = run.hash /\ status'.dbsync = run.dbsync
        /\ ~queued' => ~queued
    BY <1>0, MirrorFacts DEF Done
  <1>2. pc' = "idle"
    BY DEF Done, Return
  <1>3. PassInv' /\ Undisturbed'
    BY <1>0, <1>1, <1>2, IdlePass
  <1>4. CASE queued'
    BY <1>3, <1>4, QueuedAtRest
  <1>5. CASE ~queued'
    <2>1. DeployedAtRest'
      <3>1. CASE tls
        BY <1>0, <1>1, <1>5, <3>1, DeployedAtEnd
      <3>2. CASE ~tls
        BY <1>0, <3>2 DEF DeployedAtRest
      <3> QED
        BY <3>1, <3>2
    <2>2. ReadyAtRest'
      BY <1>0, <1>1, <1>5, SubConditionsAtRest DEF ReadyAtRest, Running
    <2> QED
      BY <1>3, <2>1, <2>2 DEF AtRestInv
  <1> QED
    BY <1>4, <1>5

-----------------------------------------------------------------------------
(* The cluster, and the theorems. *)

\* A step that changes nothing the invariant speaks of.
LEMMA SameAtRest ==
    ASSUME AtRestInv, UNCHANGED <<spec, tls, status, queued, pc, run, config, depl, job>>
    PROVE  AtRestInv'
  <1>1. \A d \in Deployments : (Fresh(d)' <=> Fresh(d)) /\ (Up(d)' <=> Up(d))
                              /\ (Running(d)' <=> Running(d))
    BY DEF Fresh, TemplateFor, Up, Running
  <1>2. DeployInv'
    BY <1>1 DEF AtRestInv, PassInv, DeployInv, ExtraDeployed, AfterRPC, AfterWorker, Skipped,
                Deployments
  <1>3. ReportedInv'
    BY DEF AtRestInv, PassInv, ReportedInv, Fine
  <1>4. CondInv'
    BY DEF AtRestInv, PassInv, CondInv, NetworkInv, EventletInv, Fine, Skipped
  <1>5. TLSInv <=> TLSInv'
    BY DEF TLSInv
  <1>6. ProbeInv <=> ProbeInv'
    BY DEF ProbeInv, Says, Probed, ProbeSaysWSGI
  <1>7. (GateInv <=> GateInv') /\ (UpInv <=> UpInv')
    BY <1>1 DEF GateInv, ExtraGate, UpInv, ExtraUp, AfterRPC, AfterWorker, Deployments
  <1>8. Undisturbed'
    BY <1>5, <1>6, <1>7 DEF AtRestInv, Undisturbed
  <1>9. DeployedAtRest'
    BY DEF AtRestInv, DeployedAtRest, AtRest
  <1>10. ReadyAtRest'
    BY <1>1 DEF AtRestInv, ReadyAtRest, AtRest
  <1> QED
    BY <1>2, <1>3, <1>4, <1>8, <1>9, <1>10 DEF AtRestInv, PassInv

\* The cluster changes nothing of what a pass has done and reported.
LEMMA ClusterPass ==
    ASSUME KnownInv,
           Progress \/ TLSSecrets \/ TopologyObject \/ CalmDown
             \/ (\E s \in SpecType : Edit(s)) \/ (\E d \in Deployments : PodLost(d))
    PROVE  PassInv'
  <1>0. TypeOK /\ RolloutInv /\ DeployInv /\ ReportedInv /\ CondInv
    BY DEF KnownInv, TypeInv, HonestInv, AtRestInv, PassInv
  <1>1. UNCHANGED <<pc, run, status, config>>
    BY DEF Progress, ProbeEnds, ProbeGone, Observe, Rollout, PodLost, TLSSecrets,
           TopologyObject, CalmDown, Edit, controller
  <1>2. \A e \in Deployments : /\ (depl'[e] = Absent) = (depl[e] = Absent)
                               /\ depl[e] # Absent => depl'[e].tmpl = depl[e].tmpl
    <2>1. CASE \E d \in Deployments : Observe(d) \/ Rollout(d) \/ PodLost(d)
      BY <1>0, <2>1, RolloutFrame
    <2>2. CASE UNCHANGED depl
      BY <2>2
    <2> QED
      BY <2>1, <2>2 DEF Progress, ProbeEnds, ProbeGone, TLSSecrets, TopologyObject,
                        CalmDown, Edit
  <1>3. \A d \in Deployments : Fresh(d) => Fresh(d)'
    BY <1>1, <1>2 DEF Fresh, TemplateFor
  <1>4. DeployInv'
    BY <1>0, <1>1, <1>2, <1>3
       DEF DeployInv, ExtraDeployed, AfterRPC, AfterWorker, Skipped, Deployments
  <1>5. ReportedInv'
    BY <1>0, <1>1 DEF ReportedInv, Fine
  <1>6. CondInv'
    BY <1>0, <1>1 DEF CondInv, NetworkInv, EventletInv, Fine, Skipped
  <1> QED
    BY <1>4, <1>5, <1>6 DEF PassInv

\* Each of its changes that a pass could have counted on queues the resource.
LEMMA ClusterAtRest ==
    ASSUME KnownInv,
           Progress \/ TLSSecrets \/ TopologyObject \/ CalmDown
             \/ (\E s \in SpecType : Edit(s)) \/ (\E d \in Deployments : PodLost(d))
    PROVE  AtRestInv'
  <1>1. CASE queued'
    BY <1>1, ClusterPass, QueuedAtRest
  <1>2. CASE TopologyObject /\ ~queued'
    <2>1. queued \in BOOLEAN /\ AtRestInv
      BY DEF KnownInv, TypeInv, TypeOK
    <2>2. UNCHANGED <<spec, tls, status, pc, run, config, depl, job>> /\ ~queued
      BY <1>2 DEF TopologyObject, controller
    <2>3. queued' = queued
      BY <1>2, <2>1, <2>2 DEF TopologyObject
    <2> QED
      BY <2>1, <2>2, <2>3, SameAtRest
  <1>3. CASE CalmDown
    BY <1>3, SameAtRest DEF CalmDown, controller, KnownInv
  <1>4. queued' \/ (TopologyObject /\ ~queued') \/ CalmDown
    BY DEF Progress, ProbeEnds, ProbeGone, Observe, Rollout, PodLost, TLSSecrets, Edit
  <1> QED
    BY <1>1, <1>2, <1>3, <1>4

\* The invariant is inductive.
LEMMA AtRestStep == KnownInv /\ [Next]_vars => KnownInv'
  <1> SUFFICES ASSUME KnownInv, [Next]_vars
               PROVE  KnownInv'
    OBVIOUS
  <1>0. TypeInv' /\ HonestInv'
    BY TypeStep, HonestStep DEF KnownInv
  <1>1. CASE Normal \/ ReconcileInit
    <2>1. AtRestInv'
      BY <1>1, StartAtRest, PlainSectionsAtRest, BusAtRest, ConfigAtRest, TLSAtRest, HashAtRest
         DEF Normal, ReconcileInit
    <2> QED
      BY <1>0, <2>1 DEF KnownInv
  <1>2. CASE Deploy
    <2>1. AtRestInv'
      BY <1>2, TopologyAtRest, PatchAPIAtRest, CheckAPIAtRest, PatchRPCAtRest, CheckRPCAtRest,
         PatchWorkerAtRest, CheckWorkerAtRest, CleanUpAtRest, PlainSectionsAtRest, DoneAtRest
         DEF Deploy
    <2> QED
      BY <1>0, <2>1 DEF KnownInv
  <1>3. CASE Crash
    <2>1. pc' = "idle" /\ queued' /\ status' = status /\ status.cond["Topology"] # "Unknown"
      BY <1>3 DEF Crash, KnownInv, AtRestInv, PassInv, CondInv
    <2> QED
      BY <1>0, <2>1, IdlePass, QueuedAtRest DEF KnownInv
  <1>4. CASE Progress \/ Environment
    BY <1>0, <1>3, <1>4, ClusterAtRest DEF Environment, KnownInv
  <1>5. CASE UNCHANGED vars
    BY <1>0, <1>5, SameAtRest DEF vars, KnownInv
  <1> QED
    BY <1>1, <1>2, <1>4, <1>5 DEF Next, Pass

\* It holds before the first pass, which is queued.
LEMMA AtRestInit == Init => KnownInv
  <1> SUFFICES ASSUME Init PROVE AtRestInv
    BY TypeInit, HonestInit DEF KnownInv
  <1>1. pc = "idle" /\ queued /\ status.cond["Topology"] = Absent
    BY DEF Init, Persisted, Unlisted
  <1>2. DeployInv
    BY <1>1 DEF DeployInv, ExtraDeployed, AfterAPIPatch, AfterRPC, AfterWorker
  <1>3. ReportedInv
    BY <1>1 DEF ReportedInv, AfterRbac, AfterBus, AfterTransport, AfterSecret, AfterMemcached,
           AfterExternal, AfterDB
  <1>4. CondInv
    BY <1>1, Words DEF CondInv, NetworkInv, EventletInv
  <1> QED
    BY <1>1, <1>2, <1>3, <1>4
       DEF AtRestInv, PassInv, Undisturbed, DeployedAtRest, ReadyAtRest, AtRest

\* No wake-up of the controller is lost: whenever it waits for an event, with
\* the TLS secrets there, Deployments, configuration and status are those the
\* spec and the image probe call for.
THEOREM PipelineDeployedAtRest == Spec => []DeployedAtRest
  <1>1. KnownInv => DeployedAtRest
    BY DEF KnownInv, AtRestInv
  <1> QED
    BY <1>1, AtRestInit, AtRestStep, PTL DEF Spec

\* Whenever the controller waits for an event, the Ready condition it last
\* wrote says whether the Deployments have rolled out.
THEOREM PipelineReadyAtRest == Spec => []ReadyAtRest
  <1>1. KnownInv => ReadyAtRest
    BY DEF KnownInv, AtRestInv
  <1> QED
    BY <1>1, AtRestInit, AtRestStep, PTL DEF Spec

\* A step of the controller or the cluster that takes a Deployment away.
LEMMA CleanUpStep ==
    ASSUME KnownInv, [Next]_vars, NEW d \in {"rpc", "worker"},
           depl[d] # Absent, depl'[d] = Absent
    PROVE  \/ d = "rpc" /\ ~run.spec.rpc
           \/ depl["neutron"] # Absent /\ ~depl["neutron"].tmpl.wsgi
  <1>0. TypeOK /\ TypeInv /\ RolloutInv /\ d \in Deployments /\ depl' # depl
    BY DEF KnownInv, TypeInv, HonestInv, Deployments
  <1>1. CASE PatchAPI
    <2>1. PICK w \in BOOLEAN : CreateOrPatch("neutron", TemplateFor(w))
      BY <1>0, <1>1, StrategyType DEF PatchAPI
    <2>2. depl'[d] = depl[d]
      BY <1>0, <1>1, <2>1, PatchFacts DEF Deployments, PatchAPI
    <2> QED
      BY <2>2
  <1>2. CASE PatchRPC \/ PatchWorker
    <2>1. CASE \E e \in Deployments : CreateOrPatch(e, TemplateFor(TRUE))
      <3>1. pc \in Checked
        BY <1>2 DEF PatchRPC, PatchWorker
      <3>2. PICK e \in Deployments : CreateOrPatch(e, TemplateFor(TRUE))
        BY <2>1
      <3>3. depl'[e] # Absent /\ \A f \in Deployments \ {e} : depl'[f] = depl[f]
        BY <1>0, <3>1, <3>2, PatchFacts
      <3> QED
        BY <1>0, <3>3
    <2>2. CASE ~run.spec.rpc /\ depl' = [depl EXCEPT !["rpc"] = Absent]
      BY <1>0, <2>2 DEF TypeOK, Deployments
    <2> QED
      BY <1>0, <1>2, <2>1, <2>2 DEF PatchRPC, PatchWorker, PatchExtra, Deployments
  <1>3. CASE CleanUpWSGI
    <2>1. Fresh("neutron") /\ ~run.wsgi
      BY <1>3 DEF CleanUpWSGI, KnownInv, AtRestInv, PassInv, DeployInv, AfterAPIPatch,
                  HonestInv, ExtraInv
    <2> QED
      BY <2>1 DEF Fresh, TemplateFor
  <1>4. CASE \E e \in Deployments : Observe(e) \/ Rollout(e) \/ PodLost(e)
    BY <1>0, <1>4, RolloutFrame
  <1>5. CASE Normal \/ ReconcileInit
    BY <1>0, <1>5
       DEF Normal, ReconcileInit, Section, Reconcile, ReconcileRbac, TransportURLCreateOrUpdate,
           NotificationBus, VerifyTransportSecret, VerifyServiceSecret, GetMemcached,
           ReconcileExternalSecrets, EnsureNetworks, EnsureDB, GenerateServiceSecrets,
           ValidateTLS, CreateHashOfInputHashes, ManageACFinalizer, DbSyncJob, ExposeService,
           KeystoneService, KeystoneEndpoint
  <1>6. CASE Deploy
    BY <1>0, <1>1, <1>2, <1>3, <1>6
       DEF Deploy, InputHash, EnsureServiceTopology, CheckAPI, CheckRPC, CheckWorker,
           DeleteUnusedAccountFinalizers, FinalizeRotations, Done, Section
  <1>7. CASE Progress \/ Environment
    BY <1>0, <1>4, <1>7
       DEF Progress, Environment, ProbeEnds, ProbeGone, Crash, TLSSecrets, TopologyObject,
           CalmDown, Edit
  <1> QED
    BY <1>0, <1>5, <1>6, <1>7 DEF Next, Pass, vars

\* The RPC and worker Deployments go only for rpc_workers = 0 or once the API
\* Deployment has the Eventlet template.
THEOREM PipelineTakenOver == Spec => TakenOverBeforeCleanUp
  <1>1. KnownInv /\ [Next]_vars =>
           [\A d \in {"rpc", "worker"} :
              depl[d] # Absent /\ depl'[d] = Absent =>
                 \/ d = "rpc" /\ ~run.spec.rpc
                 \/ depl["neutron"] # Absent /\ ~depl["neutron"].tmpl.wsgi]_vars
    BY CleanUpStep
  <1> QED
    BY <1>1, AtRestInit, AtRestStep, PTL DEF Spec, TakenOverBeforeCleanUp
=============================================================================
