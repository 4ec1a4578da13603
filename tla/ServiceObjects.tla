--------------------------- MODULE ServiceObjects ---------------------------
(***************************************************************************)
(* The objects of other operators that a NeutronAPI holds on to with a     *)
(* finalizer: the MariaDBDatabase and the MariaDBAccount, the              *)
(* KeystoneService and the KeystoneEndpoint, the Topology.  And the        *)
(* Secrets it publishes for the OVN agents of external compute nodes.      *)
(*                                                                         *)
(* The user's requests pass the webhooks of Admission; the pods that a     *)
(* Deployment asks for are those of PodTemplates.  One reconcile is a      *)
(* sequence of steps, one per call that changes the cluster, on the spec   *)
(* it read first; everything else interleaves between any two of them.     *)
(*                                                                         *)
(* Abstractions:                                                           *)
(* - a rendered configuration is the account it names, the input hash is   *)
(*   the configuration and the agents' Secrets (hashes do not collide);    *)
(* - the phases of a reconcile that touch none of these objects are the    *)
(*   early returns of Bail, an OVN database without an internal endpoint   *)
(*   included;                                                             *)
(* - focus: a behaviour varies one group of inputs, the others keep their  *)
(*   first value; the informer cache lags behind in one of the groups.     *)
(***************************************************************************)
EXTENDS Admission, PodTemplates, FiniteSets

CONSTANTS
  Account,     \* MariaDBAccount names
  Topology,    \* Topology names
  None,        \* no name, no Secret, no Deployment
  Endpoint,    \* external endpoints of an OVN database
  Focus,       \* the groups of inputs to vary
  MaxEdits,    \* bound on changes of the inputs and lost pods
  MaxLagEdits, \* the same where the informer cache lags behind
  MaxPods      \* replicas plus surge

ASSUME NonEmptyAssumption == Account # {} /\ Topology # {}
ASSUME NoneAssumption == None \notin Account \cup Topology \cup Endpoint
ASSUME DisjointAssumption == Account \cap Topology = {}
ASSUME BoundAssumption == MaxEdits \in Nat /\ MaxLagEdits \in Nat /\ MaxPods \in Nat

Keystone == {"KeystoneService", "KeystoneEndpoint"}
Object == {"MariaDBDatabase"} \cup Keystone \cup Account \cup Topology
ASSUME ObjectAssumption ==
  (Account \cup Topology \cup {None}) \cap ({"MariaDBDatabase"} \cup Keystone) = {}

Named(names) == names \cup {None}
Agent == {"metadata", "ovn"}
Cluster == {"nb", "sb"}
Connection == [Cluster -> Named(Endpoint)]
NoAgents == [a \in Agent |-> None]

\* The Secret of an agent: whether the database uses TLS, and where it is.
\* The metadata agent only talks to the southbound database.
AgentSecret(a, s, nb, sb) ==
  IF ~s.ovn \/ sb = None \/ (a = "ovn" /\ nb = None) THEN None
  ELSE [nb |-> IF a = "ovn" THEN nb ELSE None, sb |-> sb, tls |-> "ovnTLS" \in s.switches]

VARIABLES
  focus,      \* the group of inputs that vary
  phase,      \* the NeutronAPI: "none", "new", "active", "deleting", "gone"
  spec,       \* its stored spec
  endpoints,  \* external endpoint of each OVNDBCluster, None without one
  tls,        \* the certificates that the spec names exist
  edits,      \* changes of inputs and lost pods so far
  past,       \* ghost: accounts that the spec named before
  calm,       \* nothing disturbs the system any more
  made,       \* MariaDBAccounts that exist
  held,       \* objects that carry the NeutronAPI's finalizer
  stranded,   \* ghost: Topologies held that the status read does not name
  agents,     \* what each agent's Secret says, None if it does not exist
  status,     \* persisted status
  cache,      \* the NeutronAPI as the informer cache has it
  config,     \* the account in the <name>-config Secret
  depl,       \* pod template of the API Deployment
  observed,   \* the Deployment controller has seen it
  pods,       \* running pods: their template and the account they use
  queued,     \* a reconcile request is in the work queue
  pc,         \* next step of the running reconcile
  run         \* its copy of the spec and of the status

cluster == <<made, held, agents, config, depl, observed, pods>>
inputs == <<focus, spec, endpoints, tls, edits, past, calm>>
persisted == <<status, cache>>
vars == <<inputs, phase, cluster, stranded, persisted, queued, pc, run>>

\* The pod template: what Deployment of PodTemplates is built from, with the
\* placement and the CONFIG_HASH.
Template(s, hash) ==
  [ovn |-> s.ovn, overwrite |-> s.overwrite, switches |-> s.switches,
   extra |-> s.extra, ships |-> s.ships, topology |-> s.topology, hash |-> hash]

FirstAccount == CHOOSE a \in Account : TRUE
FirstTopology == CHOOSE t \in Topology : TRUE
Plain ==
  [account |-> FirstAccount, topology |-> None,
   topologyNamespace |-> "", ovn |-> TRUE,
   messagingBus |-> "", rabbitMqClusterName |-> "",
   notificationsBus |-> "", notificationsBusInstance |-> "",
   override |-> {}, overwrite |-> {}, switches |-> {},
   extra |-> << >>, ships |-> Elements(CommandFiles)]

NoStatus == [last |-> None, count |-> FALSE, hash |-> None, agentHash |-> NoAgents]
NoRun == [spec |-> Plain, before |-> NoStatus, st |-> NoStatus, nb |-> None]

\* The stored NeutronAPI.  Reconciles read the informer cache instead, which
\* may show an earlier version.
Stored == [phase |-> phase, spec |-> spec, st |-> status]
Lags == focus = "cache"
Written(ph, sp, st) == cache' = IF Lags THEN cache ELSE [phase |-> ph, spec |-> sp, st |-> st]

Init ==
  /\ focus \in Focus
  /\ spec = IF focus \in {"topology", "cache", "requests"}
            THEN [Plain EXCEPT !.topology = FirstTopology] ELSE Plain
  /\ phase = "none" /\ tls = TRUE /\ edits = 0 /\ past = {}
  /\ calm = (focus = "pods")
  /\ endpoints = [c \in Cluster |-> None]
  /\ made = {} /\ held = {} /\ stranded = {} /\ agents = NoAgents
  /\ status = NoStatus /\ config = None /\ depl = None /\ observed = FALSE /\ pods = {}
  /\ cache = Stored /\ queued = FALSE /\ pc = "idle" /\ run = NoRun

-----------------------------------------------------------------------------
(* The user and the other operators                                        *)

\* Errors, crashes and deletions are still to be expected.
Disturbed == ~calm /\ focus \in {"account", "topology", "cache", "agents"}

\* The specs a request may ask for, given the stored one: in the fields that
\* the webhooks look at, in those that the pods are built from, or in all.
WebhookRequests(s) ==
  {[s EXCEPT !.messagingBus = x] : x \in {"", "r1"}}
    \cup {[s EXCEPT !.rabbitMqClusterName = x] : x \in {"", "r1", "r2"}}
    \cup {[s EXCEPT !.notificationsBusInstance = x] : x \in {"", "r1", "r2"}}
    \cup {[s EXCEPT !.override = {x}] : x \in {"internal", "admin"}}
    \cup {[s EXCEPT !.overwrite = {x}] : x \in {"policy.yaml", "neutron.conf"}}
    \cup {[s EXCEPT !.topologyNamespace = x] : x \in {"", "own", "other"}}

\* ExtraMounts that keep out of the operator's way, that take the name of one
\* of its volumes or one of its paths, or that collide with each other in the
\* db-sync Job only.
Entry(to, volume, path) ==
  [to |-> to, volumes |-> <<volume>>, mounts |-> Mounts(volume, <<path>>)]
ExtraRequests ==
  {<<Entry(to, "user", "user.conf")>> : to \in {{}, {"NeutronAPI"}}}
    \cup {<<Entry(to, "config", "user.conf")>> : to \in {{"NeutronAPI"}, {"DBSync"}}}
    \cup {<<Entry(to, "user", "my.cnf")>> : to \in {{"NeutronAPI"}, {"DBSync"}}}
    \cup {<<Entry({}, "user", "user.conf"), Entry({"DBSync"}, "user", "more.conf")>>}

PodRequests(s) ==
  {[s EXCEPT !.switches = p[1], !.overwrite = p[2], !.ovn = p[3]] :
     p \in (SUBSET Switches) \X {{}, {"policy.yaml"}} \X BOOLEAN}
    \cup {[s EXCEPT !.switches = p[1], !.extra = p[2]] :
            p \in (SUBSET {"wsgi", "ca"}) \X ExtraRequests}
    \cup {[s EXCEPT !.switches = x, !.ships = {}] : x \in SUBSET {"wsgi", "ca"}}

Accounts(s) == {[s EXCEPT !.account = a] : a \in Account}
Topologies(s) == {[s EXCEPT !.topology = t] : t \in Named(Topology)}

Requests(s) ==
  IF focus = "account" THEN Accounts(s)
  ELSE IF focus = "topology" THEN Topologies(s)
  ELSE IF focus = "cache" THEN Accounts(s) \cup Topologies(s)
  ELSE IF focus = "agents" THEN {[s EXCEPT !.ovn = b] : b \in BOOLEAN}
  ELSE IF focus = "requests" THEN WebhookRequests(s)
  ELSE PodRequests(s)

\* Where the changes of the inputs matter, the first spec is the plain one.
Create ==
  /\ phase = "none"
  /\ \E r \in IF Disturbed THEN {spec} ELSE Requests(spec) : ValidateCreate(Default(r)) /\ spec' = Default(r)
  /\ phase' = "new" /\ queued' = ~Lags /\ Written("new", spec', status)
  /\ UNCHANGED <<focus, endpoints, tls, edits, past, calm, cluster, stranded, status, pc, run>>

\* The fields that only the webhooks read change between two reconciles.
Update ==
  /\ phase \in {"new", "active"} /\ ~calm
  /\ edits < IF Lags THEN MaxLagEdits ELSE MaxEdits
  /\ focus = "requests" => pc = "idle"
  /\ \E r \in Requests(spec) :
       Default(r) # spec /\ ValidateUpdate(spec, Default(r)) /\ spec' = Default(r)
  /\ edits' = edits + 1
  /\ past' = past \cup ({spec.account} \ {spec'.account})
  /\ queued' = (queued \/ ~Lags) /\ Written(phase, spec', status)
  /\ UNCHANGED <<focus, endpoints, tls, calm, phase, cluster, stranded, status, pc, run>>

\* A NeutronAPI without the finalizer goes at once.
DeleteCR ==
  /\ phase \in {"new", "active"} /\ Disturbed
  /\ phase' = IF phase = "new" THEN "gone" ELSE "deleting"
  /\ queued' = (queued \/ ~Lags) /\ Written(phase', spec, status)
  /\ UNCHANGED <<inputs, cluster, stranded, status, pc, run>>

\* The watch delivers what was written.
CacheCatchesUp ==
  /\ cache # Stored /\ cache' = Stored /\ queued' = TRUE
  /\ UNCHANGED <<inputs, phase, cluster, stranded, status, pc, run>>

\* Faulty: no watch on the OVN databases.
OVNDBClusterUnwatched ==
  /\ focus = "agents" /\ ~calm /\ edits < MaxEdits
  /\ \E c \in Cluster, e \in Named(Endpoint) :
       e # endpoints[c] /\ endpoints' = [endpoints EXCEPT ![c] = e]
  /\ edits' = edits + 1
  /\ UNCHANGED <<focus, spec, tls, past, calm, phase, cluster, stranded, persisted, queued, pc, run>>

\* The external endpoint of an OVN database comes, goes or moves.
OVNDBClusterChanges ==
  /\ focus = "agents" /\ ~calm /\ edits < MaxEdits
  /\ \E c \in Cluster, e \in Named(Endpoint) :
       e # endpoints[c] /\ endpoints' = [endpoints EXCEPT ![c] = e]
  /\ edits' = edits + 1 /\ queued' = TRUE
  /\ UNCHANGED <<focus, spec, tls, past, calm, phase, cluster, stranded, persisted, pc, run>>

\* A Secret that the spec names comes or goes; findObjectsForSrc watches it.
TLSSecretChanges ==
  /\ focus = "account" /\ ~calm /\ phase \in {"new", "active"} /\ edits < MaxEdits
  /\ tls' = ~tls /\ edits' = edits + 1 /\ queued' = TRUE
  /\ UNCHANGED <<focus, spec, endpoints, past, calm, phase, cluster, stranded, persisted, pc, run>>

CalmDown ==
  /\ ~calm /\ phase # "none" /\ (tls \/ phase \in {"deleting", "gone"}) /\ calm' = TRUE
  /\ UNCHANGED <<focus, spec, endpoints, tls, edits, past, phase, cluster, stranded,
                 persisted, queued, pc, run>>

Environment ==
  Create \/ Update \/ DeleteCR \/ OVNDBClusterChanges \/ TLSSecretChanges \/ CalmDown

\* The Deployment controller and the kubelet.
Rollout ==
  /\ \/ /\ depl # None /\ ~observed
        /\ observed' = TRUE /\ UNCHANGED pods
     \/ /\ observed /\ Cardinality(pods) < MaxPods /\ \A p \in pods : p.template # depl
        /\ pods' = pods \cup {[template |-> depl, uses |-> config]}
        /\ UNCHANGED observed
     \/ /\ observed /\ (Cardinality(pods) = MaxPods \/ \E p \in pods : p.template = depl)
        /\ \E p \in pods : p.template # depl /\ pods' = pods \ {p}
        /\ UNCHANGED observed
  /\ queued' = TRUE
  /\ UNCHANGED <<inputs, phase, made, held, agents, config, depl, stranded, persisted, pc, run>>

PodLost ==
  /\ focus = "account" /\ ~calm /\ edits < MaxEdits
  /\ \E p \in pods : pods' = pods \ {p}
  /\ edits' = edits + 1 /\ queued' = TRUE
  /\ UNCHANGED <<focus, spec, endpoints, tls, past, calm, phase, made, held, agents, config, depl,
                 observed, stranded, persisted, pc, run>>

-----------------------------------------------------------------------------
(* The beginning and the ends of a reconcile                               *)

\* The first reconcile adds the finalizer, later ones go on.  For one that
\* the cache shows when it is gone, the deletion would only be repeated.
Reconcile ==
  /\ pc = "idle" /\ queued
  /\ LET adds == cache.phase = "new" /\ phase = "new"
         starts == cache.phase \in {"active", "deleting"} /\ phase # "gone"
     IN  /\ phase' = IF adds THEN "active" ELSE phase
         /\ queued' = (adds /\ ~Lags)
         /\ pc' = IF starts THEN IF cache.phase = "active" THEN "metadata" ELSE "delDB"
                  ELSE "idle"
         /\ run' = IF starts
                   THEN [spec |-> cache.spec, before |-> cache.st, st |-> cache.st, nb |-> None]
                   ELSE NoRun
         /\ stranded' = IF starts THEN (held \cap Topology) \ {cache.st.last} ELSE stranded
  /\ Written(phase', spec, status)
  /\ UNCHANGED <<inputs, cluster, status>>

\* What a merge patch makes of the status: the fields that the reconcile
\* changed, the stored ones otherwise.
Merge(st, before) ==
  LET M(new, old, stored) == IF new = old THEN stored ELSE new
  IN  [last  |-> M(st.last, before.last, status.last),
       count |-> M(st.count, before.count, status.count),
       hash  |-> M(st.hash, before.hash, status.hash),
       agentHash |-> [a \in Agent |->
                        M(st.agentHash[a], before.agentHash[a], status.agentHash[a])]]

\* The deferred PatchInstance.  A changed status is an event of its own.
Patch(ph, requeue) ==
  /\ phase' = ph /\ status' = Merge(run.st, run.before)
  /\ Written(ph, spec, status')
  /\ queued' = (queued \/ requeue \/ (status' # status /\ ~Lags))
  /\ pc' = "idle" /\ run' = NoRun

\* An error, or waiting for another operator, before any of the steps.
Bail ==
  /\ Disturbed /\ pc # "idle" /\ Patch(phase, TRUE)
  /\ UNCHANGED <<inputs, cluster, stranded>>

\* The operator dies, or PatchInstance fails: the reconcile's status is lost.
Crash ==
  /\ Disturbed /\ pc # "idle"
  /\ queued' = TRUE /\ pc' = "idle" /\ run' = NoRun
  /\ UNCHANGED <<inputs, phase, cluster, stranded, persisted>>

-----------------------------------------------------------------------------
(* reconcileNormal                                                         *)

\* ensureExternalSecret or deleteExternalSecret: the Secret, and its hash in
\* the status.  The Secrets are owned: a change is an event.
Publish(a, secret, next) ==
  /\ agents' = [agents EXCEPT ![a] = secret]
  /\ run' = [run EXCEPT !.st.agentHash[a] = secret, !.nb = None]
  /\ queued' = (queued \/ agents' # agents)
  /\ pc' = next
  /\ UNCHANGED <<inputs, phase, made, held, config, depl, observed, pods, stranded, persisted>>

MetadataAgentSecret ==
  /\ pc = "metadata"
  /\ Publish("metadata", AgentSecret("metadata", run.spec, None, endpoints["sb"]), "nb")

\* The two databases are looked up one after the other.
LookUpNB ==
  /\ pc = "nb" /\ pc' = "ovn"
  /\ run' = [run EXCEPT !.nb = endpoints["nb"]]
  /\ UNCHANGED <<inputs, phase, cluster, stranded, persisted, queued>>

OVNAgentSecret ==
  /\ pc = "ovn"
  /\ Publish("ovn", AgentSecret("ovn", run.spec, run.nb, endpoints["sb"]), "account")

\* A step that changes the finalizers to h and goes on.
Hold(here, h, next) ==
  /\ pc = here /\ held' = h /\ pc' = next
  /\ UNCHANGED <<inputs, phase, made, agents, config, depl, observed, pods, stranded,
                 persisted, queued, run>>

\* ensureDB: the account is created if the cloud operator has not done so,
\* then CreateOrPatchAll puts the finalizer on the database and the account.
EnsureAccount ==
  /\ pc = "account" /\ made' = made \cup {run.spec.account} /\ pc' = "db"
  /\ UNCHANGED <<inputs, phase, held, agents, config, depl, observed, pods, stranded,
                 persisted, queued, run>>

EnsureDB == Hold("db", held \cup {"MariaDBDatabase", run.spec.account}, "config")

\* generateServiceSecrets, with the account that ensureDB returned.
GenerateConfig ==
  /\ pc = "config" /\ config' = run.spec.account /\ pc' = "hash"
  /\ UNCHANGED <<inputs, phase, made, held, agents, depl, observed, pods, stranded,
                 persisted, queued, run>>

\* Faulty: a changed hash ends the reconcile, for the next one to go on, but
\* is not put into the status.
InputHashNotStored ==
  /\ pc = "hash"
  /\ \/ /\ run.st.hash = [account |-> config, agents |-> run.st.agentHash]
        /\ pc' = "ksService" /\ UNCHANGED <<phase, persisted, queued, run>>
     \/ /\ run.st.hash # [account |-> config, agents |-> run.st.agentHash]
        /\ Patch(phase, TRUE)
  /\ UNCHANGED <<inputs, cluster, stranded>>

\* The TLS checks and createHashOfInputHashes.  If a certificate is missing
\* reconcileInit returns an empty result: reconcileNormal goes on with the
\* hash of an earlier reconcile, or fails for want of one.
InputHash ==
  /\ pc = "hash"
  /\ \/ /\ tls /\ pc' = "ksService"
        /\ run' = [run EXCEPT !.st.hash = [account |-> config, agents |-> run.st.agentHash]]
        /\ UNCHANGED <<phase, persisted, queued>>
     \/ /\ ~tls /\ run.st.hash # None /\ pc' = "topoRelease"
        /\ UNCHANGED <<phase, persisted, queued, run>>
     \/ ~tls /\ run.st.hash = None /\ Patch(phase, TRUE)
  /\ UNCHANGED <<inputs, cluster, stranded>>

\* The pods that the reconcile asks the API server for: the one of the db-sync
\* Job, before the Keystone objects, that of the API Deployment and, after it,
\* those of the other Deployments of the WSGI strategy.
Asked ==
  IF pc = "ksService" THEN {DbSyncJob(run.spec)}
  ELSE IF pc = "deploy" THEN {Deployment(run.spec)}
  ELSE IF pc = "unused" THEN WorkerPods(run.spec) ELSE {}
Refused == \E pod \in Asked : ~Accepted(pod)

\* The reconcile returns the error.
Refuse ==
  /\ Refused /\ Patch(phase, TRUE)
  /\ UNCHANGED <<inputs, cluster, stranded>>

EnsureKeystoneService ==
  ~Refused /\ Hold("ksService", held \cup {"KeystoneService"}, "ksEndpoint")
EnsureKeystoneEndpoint == Hold("ksEndpoint", held \cup {"KeystoneEndpoint"}, "topoRelease")

\* EnsureServiceTopology: the finalizer comes off the last applied Topology
\* if the spec names another one or none, then goes onto the one it names.
ReleaseTopology ==
  /\ pc = "topoRelease" /\ pc' = "topoHold"
  /\ LET gone == {run.st.last} \ {run.spec.topology}
     IN  held' = held \ gone /\ stranded' = stranded \ gone
  /\ UNCHANGED <<inputs, phase, made, agents, config, depl, observed, pods, persisted,
                 queued, run>>

\* Faulty: a spec without a Topology is not told apart.
HoldTopologyUnchecked ==
  /\ pc = "topoHold" /\ pc' = "deploy"
  /\ held' = held \cup {run.spec.topology}
  /\ run' = [run EXCEPT !.st.last = run.spec.topology]
  /\ UNCHANGED <<inputs, phase, made, agents, config, depl, observed, pods, stranded,
                 persisted, queued>>

HoldTopology ==
  /\ pc = "topoHold" /\ pc' = "deploy"
  /\ held' = held \cup ({run.spec.topology} \ {None})
  /\ run' = [run EXCEPT !.st.last = run.spec.topology]
  /\ UNCHANGED <<inputs, phase, made, agents, config, depl, observed, pods, stranded,
                 persisted, queued>>

\* The API Deployment.  ReadyCount follows it only while its status is up to
\* date; otherwise the count of an earlier reconcile stays.
Deploy ==
  /\ pc = "deploy" /\ ~Refused /\ pc' = "unused"
  /\ depl' = Template(run.spec, run.st.hash)
  /\ observed' = (observed /\ depl' = depl)
  /\ queued' = (queued \/ depl' # depl)
  /\ run' = [run EXCEPT !.st.count = IF observed' THEN pods # {} ELSE @]
  /\ UNCHANGED <<inputs, phase, made, held, agents, config, pods, stranded, persisted>>

\* Faulty: the account that the resource names by now is the one in use.
ReleaseUnusedByStoredSpec ==
  /\ ~Refused
  /\ Hold("unused", IF run.st.count THEN held \ (Account \ {spec.account}) ELSE held, "end")

\* DeleteUnusedMariaDBAccountFinalizers, if any API pod is ready.
ReleaseUnused ==
  /\ ~Refused
  /\ Hold("unused",
          IF run.st.count THEN held \ (Account \ {run.spec.account}) ELSE held, "end")

Return ==
  /\ pc = "end" /\ Patch(phase, FALSE)
  /\ UNCHANGED <<inputs, cluster, stranded>>

-----------------------------------------------------------------------------
(* reconcileDelete                                                         *)

\* Faulty: a database or an account that is not found is an error.
DeleteDBNeedsAccount ==
  /\ pc = "delDB"
  /\ IF run.spec.account \in made
     THEN Hold("delDB", held \ {"MariaDBDatabase", run.spec.account}, "delEndpoint")
     ELSE Patch(phase, TRUE) /\ UNCHANGED <<inputs, cluster, stranded>>

\* GetDatabaseByNameAndAccount finds nothing if the account does not exist;
\* the database then keeps its finalizer.
DeleteDB ==
  Hold("delDB",
       IF run.spec.account \in made THEN held \ {"MariaDBDatabase", run.spec.account} ELSE held,
       "delEndpoint")

DeleteEndpoint == Hold("delEndpoint", held \ {"KeystoneEndpoint"}, "delService")
DeleteService == Hold("delService", held \ {"KeystoneService"}, "delTopology")

\* Faulty: the Topology of the spec, not the last applied one.
DeleteTopologyOfSpec ==
  /\ pc = "delTopology" /\ pc' = "delOwn"
  /\ held' = held \ {run.spec.topology} /\ stranded' = stranded \ {run.spec.topology}
  /\ UNCHANGED <<inputs, phase, made, agents, config, depl, observed, pods, persisted,
                 queued, run>>

DeleteTopology ==
  /\ pc = "delTopology" /\ pc' = "delOwn"
  /\ held' = held \ {run.st.last} /\ stranded' = stranded \ {run.st.last}
  /\ UNCHANGED <<inputs, phase, made, agents, config, depl, observed, pods, persisted,
                 queued, run>>

\* The own finalizer goes, the NeutronAPI and all it owns with it.
DeleteOwn ==
  /\ pc = "delOwn" /\ Patch("gone", FALSE)
  /\ agents' = NoAgents /\ config' = None /\ depl' = None /\ observed' = FALSE /\ pods' = {}
  /\ UNCHANGED <<inputs, made, held, stranded>>

Steps ==
  \/ Reconcile \/ MetadataAgentSecret \/ LookUpNB \/ OVNAgentSecret \/ EnsureAccount
  \/ EnsureDB \/ GenerateConfig \/ InputHash \/ EnsureKeystoneService
  \/ EnsureKeystoneEndpoint \/ ReleaseTopology \/ HoldTopology \/ Deploy
  \/ ReleaseUnused \/ Refuse \/ Return
  \/ DeleteDB \/ DeleteEndpoint \/ DeleteService \/ DeleteTopology \/ DeleteOwn

Done ==
  /\ calm /\ pc = "idle" /\ ~queued /\ cache = Stored
  /\ (phase = "gone" \/ \E p \in pods : p.template = depl)
  /\ UNCHANGED vars

Next == Environment \/ CacheCatchesUp \/ Rollout \/ PodLost \/ Bail \/ Crash \/ Steps \/ Done

\* The work queue is served, watches deliver, the Deployment controller and
\* the kubelet work.
Spec ==
  Init /\ [][Next]_vars /\ WF_vars(Steps) /\ WF_vars(CacheCatchesUp) /\ WF_vars(Rollout)

-----------------------------------------------------------------------------
(* Properties                                                              *)

BusName == {"", "r1", "r2", "rabbitmq"}
ExtraName == {"user", "config", "user.conf", "my.cnf", "more.conf"}
ExtraType ==
  [to : SUBSET {"Neutron", "NeutronAPI", "DBSync"}, volumes : Seq(ExtraName),
   mounts : Seq([volume : ExtraName, path : ExtraName])]
SpecType ==
  [account : Account, topology : Named(Topology), topologyNamespace : {"", "own", "other"},
   ovn : BOOLEAN, messagingBus : BusName, rabbitMqClusterName : BusName,
   notificationsBus : BusName, notificationsBusInstance : BusName,
   override : SUBSET {"internal", "public", "admin"},
   overwrite : SUBSET {"policy.yaml", "neutron.conf"}, switches : SUBSET Switches,
   extra : Seq(ExtraType), ships : SUBSET Elements(CommandFiles)]
Secret == [nb : Named(Endpoint), sb : Endpoint, tls : BOOLEAN]
Secrets == [Agent -> Named(Secret)]
Hash == [account : Account, agents : Secrets]
StatusType ==
  [last : Named(Topology), count : BOOLEAN, hash : Named(Hash), agentHash : Secrets]
Passes ==
  [spec : SpecType, before : StatusType, st : StatusType, nb : Named(Endpoint)]
Phase == {"none", "new", "active", "deleting", "gone"}
Version == [phase : Phase, spec : SpecType, st : StatusType]

TypeOK ==
  /\ phase \in Phase
  /\ spec \in SpecType /\ endpoints \in Connection
  /\ made \subseteq Account /\ held \subseteq Object /\ stranded \subseteq Topology
  /\ agents \in Secrets /\ status \in StatusType /\ config \in Named(Account)
  /\ cache \in Version /\ run \in Passes

\* The account that neutron's configuration names carries the finalizer: a
\* rotation of the database account, at whatever step it meets an error, a
\* crash or the next rotation, never leaves a config Secret, which pods mount
\* as they start, whose account mariadb-operator is free to drop.  A pod that
\* started from an earlier configuration keeps that one's account.
ConfigAccountHeld == phase = "active" /\ config # None => config \in held

\* A NeutronAPI that is gone has left no finalizer behind, but on accounts
\* it had been switched away from without ReadyCount > 0, on the database if
\* its account was never created, and on a Topology that a lost or
\* stale status does not name.
NothingHeldWhenGone ==
  phase = "gone" =>
    held \subseteq (Account \ ({spec.account} \cap made)) \cup stranded
                     \cup IF spec.account \in made THEN {} ELSE {"MariaDBDatabase"}

\* The pods that a reconcile builds from a spec that the webhooks let in run,
\* if the user's ExtraMounts keep apart from the operator's names and paths,
\* which nothing checks, and an Eventlet image brings the files that the
\* command names: a RabbitMQ cluster is named, the Topology is a local one, the
\* overrides are for endpoints, and Kubernetes accepts every pod, with volumes
\* and files for all its mounts and a custom configuration that each process
\* parses once.
BuiltPodsRun ==
  pc = "deploy" =>
    /\ run.spec.messagingBus # "" /\ run.spec.topologyNamespace # "other"
    /\ "admin" \notin run.spec.override
    /\ ExtraFits(run.spec) /\ ImageFits(run.spec) => Runnable(run.spec)

\* What the NeutronAPI has to hold on to, what its status, the agents'
\* Secrets, the configuration and the Deployment have to say.
Wanted == {"MariaDBDatabase", spec.account} \cup Keystone \cup ({spec.topology} \ {None})
Applied ==
  /\ agents = [a \in Agent |-> AgentSecret(a, spec, endpoints["nb"], endpoints["sb"])]
  /\ status.agentHash = agents /\ status.last = spec.topology
  /\ config = spec.account
  /\ depl = Template(spec, [account |-> spec.account, agents |-> agents])

Settled ==
  /\ Applied /\ held = Wanted \cup stranded
  /\ {p.template : p \in pods} = {depl}
  /\ spec.account \in past \/ \A p \in pods : p.uses = spec.account

\* No wake-up is lost: when no reconcile runs or is queued and the cache is
\* up to date, the last reconcile has applied the spec, the endpoints and the
\* certificates as they are now.  Only accounts it was switched away from
\* and Topologies it has lost sight of are held beyond that.
AppliedAtRest ==
  phase = "active" /\ pc = "idle" /\ ~queued /\ cache = Stored /\ tls =>
    Applied /\ Wanted \subseteq held /\ held \ Wanted \subseteq Account \cup stranded

\* Once nothing disturbs it any more, the NeutronAPI holds on to exactly the
\* objects its spec names, the agents' Secrets say where the OVN databases
\* are, and the pods have the template of the spec and run with the account it
\* names.  Two cases are left out.  ExtraMounts that collide keep the pods from
\* being created.  And when the account has been switched there and back, a pod
\* that mounted the configuration in between (lines 582 and 1400) has the right
\* template, is never replaced and keeps the other account, which has lost its
\* finalizer (line 1639).
ObjectsConverge == <>[](calm /\ phase = "active" => Settled \/ ~ExtraFits(spec))

\* A deletion is not held up, whatever was unfinished when it was asked for.
DeletionCompletes == <>[](calm => phase # "deleting")

\* The API Deployment is ready with the pods the last reconcile asked for.
FullyReady == observed /\ {p.template : p \in pods} = {depl}

\* The finalizer of an account that the configuration no longer names comes
\* off only after the Deployment is fully ready, as the functional test of
\* the account rotation says.
OldAccountKeptUntilReady ==
  [][\A a \in held \cap Account : phase = "active" /\ a \notin held' => FullyReady]_vars
=============================================================================
