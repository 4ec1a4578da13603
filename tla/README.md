# A TLA+ verification of the neutron-operator

The operator turns one `NeutronAPI` resource into a running OpenStack Neutron
service. Each pass of its controller is a long sequence of calls to the
Kubernetes API. Anything may happen between two of them: other operators rotate
credentials, users edit the resource, pods restart, calls fail, the operator
dies. This directory models that controller in TLA+, checks it with TLC on
small instances, and proves its main safety properties with TLAPS for all
instances.

Line numbers without a file refer to
`src/internal/controller/neutronapi_controller.go`.

## 1. Inventory

### Parts, state and operations

| Part | State | Operations | Where |
|---|---|---|---|
| Reconcile | conditions, `Status.Hash`, finalizer | reset of the conditions, dispatch, deferred patch with the mirrored Ready | 124-233 |
| reconcileNormal | the pass's copy of the resource | RBAC, transport URLs, inputs, memcached, external secrets, networks, Deployments, rotation, Ready | 970-1758 |
| reconcileInit | config Secrets, input hash | database, configuration, TLS, hash, application credential, db-sync, services, keystone | 556-946 |
| Credential rotation | consumer finalizers on Secrets, names tracked in the status | manage, finalize, prune, tear down the bus | 996-1123, 703-718, 1647-1748 |
| Deployments | template, generation, rollout | create or patch, readiness, removal on a change of strategy | 1385-1636, `internal/neutronapi/deployment.go`, `workers.go` |
| Image probe | one Job | create, read, delete when the image changes | `internal/neutronapi/imageprobe.go` |
| reconcileDelete | finalizers on eight kinds of object | release them in order | 438-554 |
| External agent secrets | five Secrets | create, update, delete | 1841-2190 |
| Watches | field indexes | map an event to resources | 236-436, 2419-2450 |
| Webhooks | none | default, validate | `api/v1beta1/neutronapi_webhook.go`, `internal/webhook/v1beta1` |
| API helpers | none | `GetRPCWorkers`, `IsWSGI`, `Propagate` | `api/v1beta1/neutronapi_types.go` |

The parts meet in three places. The *status conditions* join them all: a pass
resets some of them, every section writes its own, and both Ready and the guard
of a credential rotation are computed from the result. The *input hash* joins
configuration and Deployments: a changed hash is what makes pods roll out. The
*consumer finalizers* join this operator with the owners of the credentials: an
owner may revoke a superseded credential once no consumer finalizer is left.

### What is hard

- A credential changes while pods with the old one, the new one, and a mixture
  (a pod of the old template that restarted with the new configuration) run.
- The status that names a Secret is persisted at the end of a pass, the
  finalizer is put on the Secret in the middle of it.
- Some conditions are not reset by a pass: an old True, an old False or an
  absence persists.
- After a patch the Deployment's status is about its previous generation.
- A missing TLS secret ends reconcileInit without an error; the caller goes on.
- The image probe is asked twice in a pass and its result may change in between.
- A pass ends without a requeue; only an event starts the next one.
- A pass reads the resource from a cache that may lag behind what the previous
  pass wrote, and patches what is stored.
- The old database account is released on the count of ready pods, whichever
  account these use.

`PROJECT.json` lists these hazards, and the few that no property covers, at
their lines.

## 2. Modules

### CredentialRotation

The rotation of three credentials (`Slot`): the transport URL, the
notifications transport URL and the application credential. One action per call
of the pass that changes the cluster, in program order through `pc`.

| Code | Model |
|---|---|
| `Status.SecretName` of the TransportURLs, `spec.auth.applicationCredentialSecret` | `src` |
| the tracked names in `NeutronAPI.Status` | `status`; the pass's copy: `st` |
| `Status.Hash[input]` | `inputHash`; the pass's copy: `hash` |
| consumer finalizers | `fin`, a set of pairs of slot and Secret |
| the `<name>-config` Secret | `config`, the credentials it was rendered from |
| `CONFIG_HASH` of the pod template | `depl[d]` |
| running pods | `pods[d]`: the template's hash and the credentials mounted |
| `guardReady` (1659) | `GuardReady`: TLS found, all Deployments seen rolled out |
| every other early return or error | `Bail`, which persists the status reached so far |
| operator crash, failed `PatchInstance` | `Crash`, which persists nothing |

Revocation is modelled from its contract: an owner may delete a Secret it no
longer names when no consumer finalizer is left (`Revoke`). `base` is a ghost
variable: the credentials wanted when the system last settled.

With `Rapid = FALSE` a credential changes again only after the previous change
has settled (Ready is True and the status names the wanted Secrets, as a user
would observe), or back to where it stands. With `Rapid = TRUE` it changes any
time.

Abstractions: hashes do not collide, so a hash is what was hashed; pods mount
their configuration by SubPath, so they keep the one they started with; a
terminating pod no longer counts as a user (IsReadyForInput does not see it
either). The generation gate is left out: it can only withhold readiness.

`CredentialProtection` is the abstract specification: only a protected
credential comes into use, one in use stays protected, only an unprotected one
is revoked. `ProtectedRotation` maps CredentialRotation to it: a credential is
protected by the consumer finalizer or because its owner still issues it.
`ImplementsProtection` is the abstract specification under that mapping. Rapid
rotations do not implement it (finding 1).

`AgentTransport` adds the Secrets of the external SR-IOV and DHCP agents
(1960-2011, 2015-2190), which embed the transport URL: a pass writes them
between its read of the TransportURL and its end, each with a step of its own.

`CredentialRotationLive` adds the work queue, a moment from which the environment
is calm, and fairness. A reconcile starts only when the resource is queued. It is
queued by a change of what SetupWithManager (341-371) watches (`Watched`: the
NeutronAPI itself, TransportURLs, Deployments, the configuration and the agents'
Secrets, the Secret of the application credential), by a return that asks for it (`Requeued`, `Interrupted`), or by a new
operator process. The Secrets of the transport URLs belong to others: a finalizer
taken or a Secret revoked wakes nobody. `MCCredentialRotation` adds the symmetry of Secrets; all its properties,
the refinement included, are safety properties that treat Secrets alike.

### ReconcilePipeline

The pass seen through the status conditions: every section of reconcileNormal
and reconcileInit, in order, with the conditions it sets on success and on each
early return; the deferred `Mirror`; the work queue; the three Deployments; the
db-sync Job; the image probe.

| Code | Model |
|---|---|
| spec fields that steer the pass | `spec`: notifications bus, topology, rpc_workers # 0, wsgi annotation, image |
| `condition.CreateList` and `Init` (187-208) | `Listed`, `InitConditions` |
| the pass's copy of the resource | `run` |
| an early return with conditions set False | `GiveUp` |
| `Generation == ObservedGeneration` | `observed`, read into `run.gate` by the patch |
| `IsReadyForInput` (uncached) | `IsReadyForInput`, read when the pass checks |
| work queue, watches | `queued`, set by every event of a watched or owned object |

A section that only waits for other operators is a `Section`: it succeeds or
returns with one of its sets of False conditions. ServiceAccount, Role and
RoleBinding are one condition, since ReconcileRbac writes them together; the
database and its account are one, since ensureDB writes both. Steps of the
cluster are taken between passes or where the pass is about to read what they
change (`At`); elsewhere they commute with the section the pass is in.

The library calls (`Conditions.Init`, `Mirror`, `AllSubConditionIsTrue`,
`IsReadyForInput`, `FinalizeSecretRotation`, ...) are not part of this
repository. They are modelled from their use and the comments at their call
sites, and marked external in the map.

### ServiceObjects, Admission, PodTemplates

`ServiceObjects` has the objects that the NeutronAPI holds on to with a
finalizer, from admission to deletion, and the Secrets for the OVN agents.

| Code | Model |
|---|---|
| finalizers on MariaDBDatabase, MariaDBAccounts, KeystoneService, KeystoneEndpoint, Topologies | `held` |
| `Status.LastAppliedTopology`, `ReadyCount > 0`, hashes | `status`; the pass's copy: `run.st` |
| the NeutronAPI in the informer cache | `cache`; what the pass read: `run.before` |
| `PatchInstance`, a merge patch of what the pass changed | `Merge`, `Patch` |
| ensureDB (2453-2535), DeleteUnusedMariaDBAccountFinalizers (1638-1646) | `EnsureAccount`, `EnsureDB`, `ReleaseUnused` |
| EnsureServiceTopology (1349-1381) | `ReleaseTopology`, `HoldTopology` |
| reconcileExternalSecrets for OVN (1841-1933) | `MetadataAgentSecret`, `LookUpNB`, `OVNAgentSecret` |
| reconcileDelete (438-554) | `DeleteDB` to `DeleteOwn` |
| the watches (344-371) | `queued` in every action of a watched object |

`stranded` is a ghost variable: the Topologies that carry the finalizer although
the status the pass started from does not name them, because it was lost in a
crash or is older than the stored one. Only the Topology is exposed to this: its
finalizer is found through the status alone.

`past` is another: the accounts that the spec named before.

`Admission` translates the webhooks: `Default`, `ValidateCreate` and
`ValidateUpdate` with the endpoints of `override.service`, the deprecated RabbitMQ
fields, the keys of `defaultConfigOverwrite` and the namespace of the Topology.
`PodTemplates` translates `volumes.go`, `deployment.go`, `workers.go` and
`dbsync.go`: the volumes, containers and mounts of the API, RPC, worker and
db-sync pods, with `dedupeVolumeMountsByPath` and `Propagate`. `Runnable` says what
Kubernetes and oslo.config expect of them: mount paths are unique, each mount has
its volume and each file its key, a process finds every configuration file that
its command names and parses the custom one once.

Two things are needed for that which nothing in the code checks, so they are
preconditions of the properties and theorems about pods:

- `ExtraFits`: `GetVolumes` and `GetVolumeMounts` append the user's ExtraMounts as
  they are. The volumes and paths they name must differ from each other and from
  the operator's. If they do not, the API server refuses the pod and the reconcile
  returns the error, in the db-sync Job, in the API Deployment or, after that one
  was patched, in the RPC and worker Deployments (`Refuse`). Under WSGI the API
  pod hides a clash of paths, since its mounts are deduplicated; the others do not.
- `ImageFits`: the Eventlet command names `neutron-dist.conf` and `neutron.conf`
  (`deployment.go:41-42`), which no Secret holds; the image has to bring them
  (`s.ships`). The WSGI strategy and the db-sync Job name no such file.

A behaviour of ServiceObjects varies one group of inputs (`focus`), the others
keep their first value:

| Group | Varies |
|---|---|
| `account` | the database account, the TLS certificates, lost pods |
| `topology` | the Topology reference |
| `cache` | account or Topology, read through a lagging cache |
| `agents` | the OVN driver, the endpoints of the OVN databases |
| `requests` | the fields that the webhooks look at |
| `pods` | all combinations of the switches that shape the pods; for some of them, ExtraMounts that fit or clash, and images without the files above |

The first four also have errors, crashes and deletion at every step.

### Proof modules

| Module | Content |
|---|---|
| `CredentialRotationProofs` | types; no finalizer is leaked; the agents' credential is protected |
| `SerialRotation` | the inductive invariant of serial rotations; definitions only |
| `SerialRotationProofs` | its preservation, the theorems about serial rotations, the refinement included |
| `ReconcilePipelineProofs` | types of the pipeline; Eventlet fallback |
| `ReadyHonestProofs` | Ready is honest |
| `PipelinePassProofs` | db-sync precedes the rollout; what a pass knows, up to the Deployments |
| `PipelineAtRestProofs` | the Deployments, the end of the pass and the cluster; no wake-up is lost, Ready at rest, the order of a change of strategy |
| `ServiceObjectsProofs` | types; the account is held; deletion releases; no wake-up is lost |
| `PodTemplatesProofs` | which specs give pods that run; what the webhooks let in |

`CredentialRotationProofs` ends with lemmas about the steps of a pass in a
serial rotation, which `SerialRotationProofs` goes on from.

## 3. Runs

| Run | Instance | Shows |
|---|---|---|
| `rot_transport_ac` | two Secrets per slot, one Deployment with two pods; transport and AC rotate serially | no pod is left with a revoked credential; a credential in use is protected; pods of a settled resource use the wanted credentials; CredentialProtection is implemented |
| `rot_bus` | two Deployments, two pods each; the bus is enabled, rotated, disabled | teardown of the bus happens when nobody uses it; CredentialProtection is implemented |
| `rot_live` | one Deployment, rapid rotation of the transport URL, errors, crashes, deletion, re-creation; reconciles start from the queue | rotation and deletion complete, the agents' Secrets follow; nothing leaks, the agents' credential is protected |
| `pipeline` | two images, of which one legacy; image or rpc_workers edited once | Ready is honest; db-sync first; Eventlet fallback only for legacy images; at rest the Deployments are those of the spec; RPC and worker Deployments go only after the API Deployment has been switched |
| `pipeline_live` | the image change, then calm | strategy, configuration and Deployments converge; Ready follows |
| `pipeline_inputs` | TLS secrets and Topology come and go, pods are lost, two edits | Ready is honest even when half of reconcileInit is skipped, says at rest what the Deployments are like, and comes back |
| `objects` | two accounts, two Topologies, one endpoint per OVN database, all six groups | the configured account is held; nothing is held by a deleted resource; an admitted spec gives pods that run, ExtraMounts and image permitting; at rest the latest inputs have been applied; the objects follow the spec; deletion completes |
| `rot_rapid` | three Secrets, rapid rotation | **violated** `NoRevokedCredentialInUse` |
| `rot_bus_toggle` | the bus toggled before it settles | **violated** `BusTeardownIsSafe` |
| `pipeline_topology` | TopologyRef removed while its Topology is missing | **violated** `EventuallyReady` |
| `account_release` | one change of the account | **violated** `OldAccountKeptUntilReady` |
| `pipeline_probe` | the probe's pod may be lost | **violated** `FallbackOnlyForLegacy` |

Every property of a passing run is also checked to fail when a plausible bug is
put into the code it is about (the operators marked "Faulty").

**Bounds.** Two Secrets per slot are enough for serial rotations: at most an old
and a new value exist, and revoked names are not reused; re-creation explores
the rest. Rapid rotation needs three. Two pods make a mixed rollout possible,
two Deployments a rollout of which one is behind. One edit of the image together
with errors, crashes and two calls of the probe reaches every combination of
strategy of configuration and of Deployments; the edit may fall before, between
or after any pass. In `objects` two edits change a value and change it again, or
back, at any step; the second may hit the pass that handles the first. The
webhooks see two further names of a RabbitMQ cluster, enough to set a deprecated
and a new field apart. Under a lagging cache one edit is enough: the lag itself
gives the passes in which old and new values mix (`MaxLagEdits`). Two endpoints
of one database would only add moves, which pass through the same steps as
coming and going. The counters bounded are `MaxEdits`, `MaxLagEdits` and
`MaxPods`.

**Deadlock** is checked for the runs of `MCCredentialRotation` and of
`ServiceObjects`, where `Done` says when the system may rest. In the other modules
the controller may rightly be idle for ever, once nothing is queued and the
environment is calm.

**Fairness.** The controller works its queue (weak fairness of the pass) and the
cluster makes progress: Deployments roll out, Jobs end. Users, failures,
crashes and rotations have no fairness. In `ReconcilePipeline` progress is
strongly fair because `At` lets it happen only at some points of a pass; what
`At` makes intermittent is continuously enabled in the cluster. The periodic
resynchronisation of informers is not assumed, and no reconcile starts unless the
resource is queued: liveness rests on the watches and requeues, in all three
systems. Without the watch on Deployments a rotation is never completed, without
the one on TransportURLs the agents keep the old URL; both are among the faults
that the properties are checked to catch.
"Calm" means what an operator can expect after an incident: calls succeed, the
inputs named by the spec exist, the image can run the strategy asked for. In
`ServiceObjects` the watch delivers what was written (`CacheCatchesUp`), which is
what an informer guarantees: no more than eventually.

## 4. What the violations say

1. **Rapid rotation.** The prune (1735-1748) is not guarded. With A -> B -> C it
   takes the finalizer off B while pods that mounted B still run.
2. **Bus enabled and disabled at once.** The input hash returns to its earlier
   value, so the template does not change and a pod that restarted in between,
   with the bus in its configuration, counts as rolled out.
3. **Stale Topology condition.** `cl.Set` at 224 comes after `Init` at 208 and
   has no effect; when the reference is removed (1378-1381) the condition is
   neither written nor removed. A False stays for ever and blocks Ready.
4. **Probe pod lost.** With `BackoffLimit: 0` any loss of the pod fails the Job,
   and a failed Job is taken to mean that the binary was found.
5. **Old account released before the rollout.** `ReadyCount > 0` (1638) is also
   true of pods of the previous account, and after the patch, with the
   generation not observed yet, it is the count an earlier pass left. The pass
   that patches the Deployment with the new account releases the old one while
   all pods use it. mariadb-operator is then free to drop it. There is also a
   lasting form of this, the analogue of 2: the account is switched there and
   back before a pass has patched the Deployment. A pod that mounted the
   configuration in between (582) has the right template, is never replaced, and
   keeps the other account after its finalizer is gone (1639). `ObjectsConverge`
   fails on it, and therefore says nothing of the account in use when the spec
   has returned to an earlier one (`past`).

`findings` in `PROJECT.json` quotes the comments these contradict.

Met on the way, and tolerated by the properties where they say so:

- A Topology keeps the finalizer for ever if the status that names it is lost in
  a crash and the reference is edited before the next pass, or if a deletion is
  reconciled from a cached status older than the last patch (488-495).
- A MariaDBDatabase keeps the finalizer if the resource is deleted after its
  account was changed to one that does not exist (443-453).
- Any error in the lookup of an OVN database counts as its absence (1854-1870,
  1892-1926): the agent's Secret is deleted.
- A failed call at 1550, 1644 or 1670 returns without writing a condition, and the
  deferred Mirror may report Ready for a pass that failed, until its retry.
- ExtraMounts that clash with the operator's names are admitted and then fail
  every reconcile; they are not told to the user at admission.
- `GetRPCWorkers` takes the first readable `rpc_workers` of `[DEFAULT]`, while
  oslo.config takes the last one.
- The comment at 1043 and the default in `neutronapi_webhook.go:82` disagree on
  the notifications bus.

## 5. Proofs

All theorems hold for every set of Secrets, Deployments, images and every bound.

**NoLeak** (`Spec => []NoFinalizerLeak`). Needs `LeakInv`: which finalizers are
left at each step of reconcileDelete. Holds for rapid rotations as well.

**Serial rotation** (`~Rapid` is assumed). None of the four properties is
inductive: whether a credential can be revoked depends on who may still start
to use it. `SerialInv` follows the new value through the system. Everything
that holds a credential holds the old value or the new one (`ValueInv`). The new
one spreads in one direction: the pass, the configuration, hashes and templates,
pods (`FreshInv`). So when all pods run a template with the new hash, they use
the new value, and nobody can return to the old one (`Done`). Until then the old
value keeps its finalizer and the status keeps its name (`ProtectInv`). The rest
records what the running pass has done. It fails exactly where finding 1 and 2
start: a third value, or an old value that becomes the wanted one again.

**PipelineReadyIsHonest.** `HonestInv` says what each condition stands for from
the section that writes it to the end of the pass. The point is the conditions
that no pass resets: after their sections they are not absent, and True only if
the Deployment is the one of this pass, completely rolled out. When a TLS secret
is missing, TLS is False and nothing is claimed of hash and schema.

**PipelineSyncedBeforeRollout** (`"tls" \notin Knobs`: the TLS secrets stay).
Adds that behind the TLS section TLS is True, so each patched image is in
`synced`. Without the assumption it does not hold: the pass that finds a TLS
secret missing skips the db-sync and patches the Deployments with the new image.

**SerialImplementsProtection** (`~Rapid`). The initial states map to initial
states, and every step maps to an abstract one: steps of pods to `Use`, steps
on finalizers and sources to `Protect`, `Revoke` to `Revoke`, all others to a
stutter. What is needed of the states is `SerialInv`: what a starting pod mounts
is protected, and what is released is not in use.

**AgentsProtected** (rapid rotations included). The SR-IOV and DHCP Secrets are
written by a pass that has just put the finalizer on the credential it writes;
the invariant adds that the finalizer stays while the pass goes on, and that the
steps that release other names come after both Secrets hold the current one.

**PipelineFallbackOnlyForLegacy** (`"probe" \notin Knobs`: a probe fails only
because the binary was found). `FallbackInv`: a finished probe tells the truth
about its image, and whoever holds the Eventlet strategy holds it of a legacy
image.

**ServiceObjects.** `ObjectsInv` strengthens the three properties. Of an active
resource, from `EnsureDB` to the release, the account of the pass is held, and
from `GenerateConfig` on it is the one in the configuration, so that what is
released is another one (`AccountInv`). The status of the pass names the
Topology held, up to `stranded` (`TopologyInv`). `DeleteInv` records which
finalizers are off at each step of reconcileDelete. `PhaseInv` says that the
spec of a resource under deletion does not change any more, so that a stale
cache cannot show the deletion another account than the stored one.

**PipelineDeployedAtRest, PipelineReadyAtRest.** A pass returns without a
requeue timer, so the controller may be at rest with nothing queued for ever;
what then stands in the cluster has to be right. The two properties speak of the
moments between passes only, so the invariant, `AtRestInv`, has to say what the
pass has established so far. `DeployInv` says which Deployments already
have this pass's template, `ReportedInv` and `CondInv` which conditions are True,
absent or possibly stale at each section. `Undisturbed` is the heart: *if nothing has
been queued since the pass began*, then its copy of the spec is the stored one,
and what it read (TLS secrets, probe, rollouts) still holds. Every step of the
environment must therefore either leave that alone or queue the resource, which
is what the watches are for; every early return with an error queues it. At the
end of an undisturbed pass (`APIEnd`, `WSGIEnd`, `EventletEnd`) the facts add up
to the two properties. The stale Topology condition (finding 3) is the
one exception that `ReadyAtRest` names, and the part of `DeployedAtRest` about the
strategy is stated for `"probe" \notin Knobs`: a failed call on the probe's Job
is only logged (`imageprobe.go:131-175`), counts as no result and is not retried.

**PipelineTakenOver** (`Spec => TakenOverBeforeCleanUp`) is an action property. The
pass asks for the strategy a second time after it has rendered the configuration;
the proof shows that the clean-up goes by the answer that the API Deployment was
patched with, and that no step between the two gives it another template.

**NoWakeUpLost** (`Spec => []AppliedAtRest`). The same argument in ServiceObjects,
with a cache that may lag. `RestInv`: a pass that nothing has disturbed has
applied, section by section, what the cache shows (`SoFar`); if a pass
ends without changing the status, nothing was left to do; if it changes it, the
patch is an event that queues the next pass. A stale cache is harmless because
the write that made it stale queues the resource when it arrives. The account
that was switched away from and `stranded` Topologies may still be held. A pod
that the API server refuses ends the pass with an error, hence with a requeue.

**PodsRun** (`Spec => []BuiltPodsRun`) has two parts. `EverySpecRuns` is about the
templates alone: for every spec, with any number of ExtraMounts, `ExtraFits` and
`ImageFits` imply `Runnable`. The lists of volumes and mounts are concatenations of
lists whose names and paths are pairwise disjoint, among the operator's own by
inspection, between these and the user's by `ExtraFits`. The exception is the CA
bundle, and there the proof rests on `dedupeVolumeMountsByPath` keeping the first
of each path. `AdmittedInv` says that
a spec reaches the store through `Default` and the validation only, the cache
through the store, and a pass through the cache.

Assumptions on constants: the values that stand for "nothing" differ from real
ones (`Absent` from every condition status, template and Job); the first image
is an image; `Deployments` is a non-empty subset of the three; `Rapid` is
Boolean; there is an account and a Topology, objects of different kinds have
different names, and bounds are naturals.

**Only model-checked:** the liveness properties `RotationConverges`,
`AgentsConverge`, `DeletionCompletes`, `EventuallyConverged`, `EventuallyReady`,
`EventuallyReadyUnlessTopologyStale` and `ObjectsConverge`; fairness is beyond
TLAPS. The theorems about rest are the safety half of three of them: a system
that stops has converged; that it stops is what TLC checks. Every invariant and
action property of a passing run has a theorem, with the assumptions given above.

## 6. Not modelled

- `GetRPCWorkers` (`neutronapi_types.go:401-428`): text parsing; its result is an
  input of ReconcilePipeline.
- `SetDefaultRouteAnnotations` and `validateDeprecatedFieldsCreate`: nothing in
  this repository calls them.
- The Service objects, endpoint URLs, routes and network annotations: functions of the
  spec with no state of their own. Their sections succeed or give up.
- Mount paths that lie below one another: a path is one name, and two of them are
  equal or unrelated.
- The contents of templates, probes, environment and resources of containers.
- The lists behind the mapping functions (373-436, 2419-2450): that an event of
  a watched object queues the resource is modelled, which of several resources
  it queues is not. Two NeutronAPIs share nothing but watched objects.
- Stale reads in `CredentialRotation` and `ReconcilePipeline`: these two read the
  last patched resource, so their results are for a cache that has caught up when
  a pass starts. Only ServiceObjects lets a pass read an older version.
- What external compute nodes do with the agents' Secrets: other operators copy
  them, and `guardReady` does not wait for them.
- `cmd/main.go` (flags and wiring) and generated code.
