------------------------ MODULE ServiceObjectsProofs ------------------------
(***************************************************************************)
(* ConfigAccountHeld, NothingHeldWhenGone and AppliedAtRest, for any       *)
(* accounts, Topologies and endpoints, and any number of edits, lost pods, *)
(* errors, crashes and reads of a stale cache.                             *)
(***************************************************************************)
EXTENDS ServiceObjects, TLAPS

AfterConfig ==
  {"hash", "ksService", "ksEndpoint", "topoRelease", "topoHold", "deploy", "unused"}
AfterDB == AfterConfig \cup {"config"}
NormalPC == AfterDB \cup {"metadata", "nb", "ovn", "account", "db", "end"}
AfterDelDB == {"delEndpoint", "delService", "delTopology", "delOwn"}
DeletePC == AfterDelDB \cup {"delDB"}

\* A reconcile of each kind runs in its phase; a NeutronAPI without the
\* finalizer holds nothing.  The spec that the cache shows with a deletion is
\* the last one.
PhaseInv ==
  /\ pc \in {"idle"} \cup NormalPC \cup DeletePC
  /\ phase \in {"none", "new"} => held = {} /\ config = None
  /\ phase \in {"none", "new", "gone"} => pc = "idle"
  /\ pc \in DeletePC => phase = "deleting" /\ run.spec = spec
  /\ cache.phase \in {"active", "deleting", "gone"} => phase \notin {"none", "new"}
  /\ cache.phase \in {"deleting", "gone"} => phase # "active" /\ cache.spec = spec

\* A reconcile holds its account before it configures it, and only releases
\* others after that.
AccountInv ==
  /\ ConfigAccountHeld
  /\ phase = "active" /\ pc \in AfterDB => run.spec.account \in held
  /\ pc \in AfterConfig => config = run.spec.account

\* The running reconcile's status names the one Topology held, up to those
\* that the status it started from does not name.
TopologiesHeld == held \cap Topology
TopologyInv ==
  /\ pc # "idle" => TopologiesHeld \subseteq stranded \cup {run.st.last}
  /\ pc = "topoHold" => TopologiesHeld \subseteq stranded \cup {run.spec.topology}
  /\ pc = "delOwn" \/ phase = "gone" => TopologiesHeld \subseteq stranded

\* What a deletion has released stays released.
DeleteInv ==
  /\ pc \in AfterDelDB \/ phase = "gone" =>
       (spec.account \in made => {"MariaDBDatabase", spec.account} \cap held = {})
  /\ pc \in AfterDelDB \ {"delEndpoint"} \/ phase = "gone" => "KeystoneEndpoint" \notin held
  /\ pc \in {"delTopology", "delOwn"} \/ phase = "gone" => "KeystoneService" \notin held

ObjectsInv == TypeOK /\ PhaseInv /\ AccountInv /\ TopologyInv /\ DeleteInv

USE DEF AfterConfig, AfterDB, NormalPC, AfterDelDB, DeletePC, cluster, inputs, persisted,
        Named

\* The first account and the first Topology exist.
LEMMA FirstNames == FirstAccount \in Account /\ FirstTopology \in Topology
BY NonEmptyAssumption DEF FirstAccount, FirstTopology

\* The plain spec and the idle reconcile are well typed.
LEMMA PlainTyped == Plain \in SpecType /\ NoStatus \in StatusType /\ NoRun \in Passes
<1>1. Plain \in SpecType
  <2>1. << >> \in Seq(ExtraType)
    OBVIOUS
  <2> QED BY <2>1, FirstNames DEF Plain, SpecType, BusName
<1>2. NoAgents \in Secrets
  BY DEF NoAgents, Secrets
<1>3. NoStatus \in StatusType
  BY <1>2 DEF NoStatus, StatusType
<1> QED BY <1>1, <1>3 DEF NoRun, Passes

\* So is what a patch makes of the status.
LEMMA MergeTyped ==
  ASSUME TypeOK
  PROVE  Merge(run.st, run.before) \in StatusType
<1>1. run.st \in StatusType /\ run.before \in StatusType /\ status \in StatusType
  BY DEF TypeOK, Passes
<1>2. Merge(run.st, run.before).agentHash \in Secrets
  BY <1>1 DEF Merge, StatusType, Secrets
<1> QED BY <1>1, <1>2 DEF Merge, StatusType

\* The objects of different kinds have different names.
LEMMA Kinds ==
  /\ Account \cap Topology = {} /\ None \notin Account /\ None \notin Topology
  /\ "MariaDBDatabase" \notin Account \cup Topology
  /\ "KeystoneService" \notin Account \cup Topology
  /\ "KeystoneEndpoint" \notin Account \cup Topology
BY NoneAssumption, DisjointAssumption, ObjectAssumption DEF Keystone

\* Nothing has been created.
LEMMA InitObjects == Init => ObjectsInv
<1> SUFFICES ASSUME Init PROVE ObjectsInv
  OBVIOUS
<1>1. spec \in SpecType
  <2>1. CASE spec = Plain
    BY <2>1, PlainTyped
  <2>2. CASE spec = [Plain EXCEPT !.topology = FirstTopology]
    BY <2>2, PlainTyped, FirstNames DEF SpecType
  <2> QED BY <2>1, <2>2 DEF Init
<1>2. TypeOK
  BY <1>1, PlainTyped DEF Init, TypeOK, Connection, NoAgents, Secrets, Stored, Version, Phase
<1>3. PhaseInv /\ AccountInv /\ TopologyInv /\ DeleteInv
  BY DEF Init, Stored, PhaseInv, AccountInv, ConfigAccountHeld, TopologyInv, TopologiesHeld, DeleteInv
<1> QED BY <1>2, <1>3 DEF ObjectsInv

\* Short lists.
LEMMA Short ==
  ASSUME NEW S, NEW x \in S, NEW y \in S, NEW z \in S
  PROVE  <<x>> \in Seq(S) /\ <<x, y>> \in Seq(S) /\ <<x, y, z>> \in Seq(S)
OBVIOUS

\* The ExtraMounts of the requests are lists of well-typed entries.
LEMMA ExtraTyped == ExtraRequests \subseteq Seq(ExtraType)
<1> DEFINE To == {{}, {"NeutronAPI"}, {"DBSync"}}
<1>1. ASSUME NEW to \in To, NEW volume \in ExtraName, NEW path \in ExtraName
      PROVE  Entry(to, volume, path) \in ExtraType
  <2>1. to \in SUBSET {"Neutron", "NeutronAPI", "DBSync"}
    OBVIOUS
  <2> HIDE DEF To
  <2>2. Mounts(volume, <<path>>) = <<[volume |-> volume, path |-> path]>>
    BY DEF Mounts
  <2>3. [volume |-> volume, path |-> path] \in [volume : ExtraName, path : ExtraName]
    OBVIOUS
  <2>4. /\ <<volume>> \in Seq(ExtraName)
        /\ Mounts(volume, <<path>>) \in Seq([volume : ExtraName, path : ExtraName])
    BY <2>2, <2>3, Short
  <2> QED BY <2>1, <2>4 DEF Entry, ExtraType
<1>2. {"user", "config", "user.conf", "my.cnf", "more.conf"} \subseteq ExtraName
  BY DEF ExtraName
<1>3. \A to \in To : /\ <<Entry(to, "user", "user.conf")>> \in Seq(ExtraType)
                     /\ <<Entry(to, "config", "user.conf")>> \in Seq(ExtraType)
                     /\ <<Entry(to, "user", "my.cnf")>> \in Seq(ExtraType)
  <2> HIDE DEF To
  <2>1. \A to \in To, volume \in ExtraName, path \in ExtraName :
          <<Entry(to, volume, path)>> \in Seq(ExtraType)
    BY <1>1, Short
  <2> QED BY <1>2, <2>1
<1>4. <<Entry({}, "user", "user.conf"), Entry({"DBSync"}, "user", "more.conf")>> \in Seq(ExtraType)
  <2>1. {} \in To /\ {"DBSync"} \in To
    OBVIOUS
  <2> HIDE DEF To
  <2>2. Entry({}, "user", "user.conf") \in ExtraType /\ Entry({"DBSync"}, "user", "more.conf") \in ExtraType
    BY <1>1, <1>2, <2>1
  <2> QED BY <2>2, Short
<1> QED BY <1>3, <1>4 DEF ExtraRequests

\* Every request is a spec, and so is what the webhook makes of it.
LEMMA RequestsTyped ==
  ASSUME NEW s \in SpecType, NEW r \in Requests(s)
  PROVE  r \in SpecType
<1>1. CASE r \in Accounts(s)
  <2>1. PICK a \in Account : r = [s EXCEPT !.account = a]
    BY <1>1 DEF Accounts
  <2> QED BY <2>1 DEF SpecType
<1>2. CASE r \in Topologies(s)
  <2>1. PICK t \in Named(Topology) : r = [s EXCEPT !.topology = t]
    BY <1>2 DEF Topologies
  <2> QED BY <2>1 DEF SpecType
<1>3. CASE focus = "agents"
  <2>1. PICK b \in BOOLEAN : r = [s EXCEPT !.ovn = b]
    BY <1>3 DEF Requests
  <2> QED BY <2>1 DEF SpecType
<1>4. CASE focus = "requests"
  <2>1. r \in WebhookRequests(s)
    BY <1>4 DEF Requests
  <2>2. CASE \E x \in BusName : r = [s EXCEPT !.messagingBus = x]
    BY <2>2 DEF SpecType
  <2>3. CASE \E x \in BusName : r = [s EXCEPT !.rabbitMqClusterName = x]
    BY <2>3 DEF SpecType
  <2>4. CASE \E x \in BusName : r = [s EXCEPT !.notificationsBusInstance = x]
    BY <2>4 DEF SpecType
  <2>5. CASE \E x \in {"policy.yaml", "neutron.conf"} : r = [s EXCEPT !.overwrite = {x}]
    <3>1. PICK x \in SUBSET {"policy.yaml", "neutron.conf"} : r = [s EXCEPT !.overwrite = x]
      BY <2>5
    <3> QED BY <3>1 DEF SpecType
  <2>6. CASE \E x \in {"", "own", "other"} : r = [s EXCEPT !.topologyNamespace = x]
    <3>1. PICK x \in {"", "own", "other"} : r = [s EXCEPT !.topologyNamespace = x]
      BY <2>6
    <3> QED BY <3>1 DEF SpecType
  <2>7. CASE \E x \in {"internal", "admin"} : r = [s EXCEPT !.override = {x}]
    <3>1. PICK x \in SUBSET {"internal", "public", "admin"} : r = [s EXCEPT !.override = x]
      BY <2>7
    <3> QED BY <3>1 DEF SpecType
  <2> QED BY <2>1, <2>2, <2>3, <2>4, <2>5, <2>6, <2>7 DEF WebhookRequests, BusName
<1>5. CASE focus \notin {"account", "topology", "cache", "agents", "requests"}
  <2>1. r \in PodRequests(s)
    BY <1>5 DEF Requests
  <2>2. CASE \E p \in (SUBSET Switches) \X {{}, {"policy.yaml"}} \X BOOLEAN :
               r = [s EXCEPT !.switches = p[1], !.overwrite = p[2], !.ovn = p[3]]
    <3>1. PICK p \in (SUBSET Switches) \X {{}, {"policy.yaml"}} \X BOOLEAN :
            r = [s EXCEPT !.switches = p[1], !.overwrite = p[2], !.ovn = p[3]]
      BY <2>2
    <3>2. p[1] \in SUBSET Switches /\ p[2] \in {{}, {"policy.yaml"}} /\ p[3] \in BOOLEAN
      BY <3>1
    <3>3. p[2] \in SUBSET {"policy.yaml", "neutron.conf"}
      BY <3>2
    <3> QED BY <3>1, <3>2, <3>3 DEF SpecType
  <2>3. CASE \E p \in (SUBSET {"wsgi", "ca"}) \X ExtraRequests :
               r = [s EXCEPT !.switches = p[1], !.extra = p[2]]
    <3>1. PICK p \in (SUBSET {"wsgi", "ca"}) \X ExtraRequests :
            r = [s EXCEPT !.switches = p[1], !.extra = p[2]]
      BY <2>3
    <3>2. p[1] \in SUBSET Switches /\ p[2] \in ExtraRequests
      BY <3>1 DEF Switches
    <3>3. p[2] \in Seq(ExtraType)
      BY <3>2, ExtraTyped
    <3> QED BY <3>1, <3>2, <3>3 DEF SpecType
  <2>4. CASE \E x \in SUBSET {"wsgi", "ca"} : r = [s EXCEPT !.switches = x, !.ships = {}]
    <3>1. PICK x \in SUBSET {"wsgi", "ca"} : r = [s EXCEPT !.switches = x, !.ships = {}]
      BY <2>4
    <3>2. x \in SUBSET Switches
      BY DEF Switches
    <3> QED BY <3>1, <3>2 DEF SpecType
  <2> QED BY <2>1, <2>2, <2>3, <2>4 DEF PodRequests
<1> QED BY <1>1, <1>2, <1>3, <1>4, <1>5 DEF Requests

\* Default fills in a spec.
LEMMA DefaultTyped == ASSUME NEW s \in SpecType PROVE Default(s) \in SpecType
BY DEF Default, SpecType, BusName

-----------------------------------------------------------------------------
(* The environment                                                         *)

USE DEF ObjectsInv

\* Requests of the user change the spec, never what is held.
LEMMA UserStep == ASSUME ObjectsInv, Create \/ Update PROVE ObjectsInv'
<1>1. spec' \in SpecType
  <2>1. \A r \in Requests(spec) \cup {spec} : Default(r) \in SpecType
    BY RequestsTyped, DefaultTyped DEF TypeOK
  <2> QED BY <2>1 DEF Create, Update
<1>2. TypeOK'
  BY <1>1 DEF Create, Update, TypeOK, Written, Version, Phase
<1>3. phase' \in {"new", "active"} /\ phase \in {"none", "new", "active"}
  BY DEF Create, Update
<1>4. UNCHANGED <<cluster, stranded, status, pc, run>>
  BY DEF Create, Update
<1>5. phase' = "active" <=> phase = "active"
  BY DEF Create, Update
<1>6. PhaseInv' /\ AccountInv'
  BY <1>3, <1>4, <1>5 DEF PhaseInv, AccountInv, ConfigAccountHeld, Create, Update, Written
<1>7. TopologyInv' /\ DeleteInv'
  BY <1>3, <1>4 DEF PhaseInv, TopologyInv, TopologiesHeld, DeleteInv
<1> QED BY <1>2, <1>6, <1>7

\* A delete request marks the NeutronAPI, or removes one without finalizers.
LEMMA DeleteCRStep == ASSUME ObjectsInv, DeleteCR PROVE ObjectsInv'
<1> USE DEF DeleteCR, Written
<1>1. TypeOK'
  BY DEF TypeOK, Version, Phase
<1>2. phase' = "gone" => phase = "new" /\ held = {}
  BY DEF PhaseInv
<1>3. PhaseInv' /\ AccountInv'
  BY <1>2 DEF PhaseInv, AccountInv, ConfigAccountHeld
<1>4. TopologyInv' /\ DeleteInv'
  BY <1>2 DEF TopologyInv, TopologiesHeld, DeleteInv
<1> QED BY <1>1, <1>3, <1>4

\* Everything else the environment does leaves the objects alone.
Apart == <<phase, spec, made, held, stranded, agents, status, cache, config, pc, run>>

\* A step apart from the objects that the invariant speaks of.
LEMMA ApartStep ==
  ASSUME ObjectsInv, UNCHANGED Apart, endpoints' \in Connection
  PROVE  ObjectsInv'
<1> USE DEF Apart
<1>1. TypeOK'
  BY DEF TypeOK
<1>2. PhaseInv' /\ AccountInv'
  BY DEF PhaseInv, AccountInv, ConfigAccountHeld
<1>3. TopologyInv' /\ DeleteInv'
  BY DEF TopologyInv, TopologiesHeld, DeleteInv
<1> QED BY <1>1, <1>2, <1>3

\* The steps of the environment are such steps.
LEMMA OthersStep ==
  ASSUME ObjectsInv,
         \/ OVNDBClusterChanges \/ TLSSecretChanges \/ CalmDown
         \/ Rollout \/ PodLost \/ Done \/ UNCHANGED vars
  PROVE  ObjectsInv'
<1> USE DEF Apart
<1>1. CASE OVNDBClusterChanges
  <2>1. endpoints' \in Connection
    BY <1>1 DEF OVNDBClusterChanges, TypeOK, Connection
  <2> QED BY <1>1, <2>1, ApartStep DEF OVNDBClusterChanges
<1>2. endpoints \in Connection
  BY DEF TypeOK
<1>3. CASE TLSSecretChanges
  BY <1>2, <1>3, ApartStep DEF TLSSecretChanges
<1>4. CASE CalmDown
  BY <1>2, <1>4, ApartStep DEF CalmDown
<1>5. CASE Rollout
  BY <1>2, <1>5, ApartStep DEF Rollout
<1>6. CASE PodLost
  BY <1>2, <1>6, ApartStep DEF PodLost
<1>7. CASE Done \/ UNCHANGED vars
  BY <1>2, <1>7, ApartStep DEF Done, vars
<1> QED BY <1>1, <1>3, <1>4, <1>5, <1>6, <1>7

-----------------------------------------------------------------------------
(* The beginning and the ends of a reconcile                               *)

\* The cache shows what is stored.
LEMMA CacheStep == ASSUME ObjectsInv, CacheCatchesUp PROVE ObjectsInv'
<1> USE DEF CacheCatchesUp, Stored
<1>1. TypeOK'
  BY DEF TypeOK, Version
<1>2. PhaseInv' /\ AccountInv'
  BY DEF PhaseInv, AccountInv, ConfigAccountHeld
<1>3. TopologyInv' /\ DeleteInv'
  BY DEF TopologyInv, TopologiesHeld, DeleteInv
<1> QED BY <1>1, <1>2, <1>3

\* A reconcile starts from the cache, and adds or drops the finalizer.
LEMMA ReconcileStep == ASSUME ObjectsInv, Reconcile PROVE ObjectsInv'
<1> DEFINE starts == cache.phase \in {"active", "deleting"} /\ phase # "gone"
<1>1. /\ UNCHANGED <<inputs, cluster, status>>
      /\ phase' = IF cache.phase = "new" /\ phase = "new" THEN "active" ELSE phase
      /\ cache' \in {cache, [phase |-> phase', spec |-> spec, st |-> status]}
  BY DEF Reconcile, Written
<1>2. CASE starts
  <2>1. run' = [spec |-> cache.spec, before |-> cache.st, st |-> cache.st, nb |-> None]
    BY <1>2 DEF Reconcile
  <2>2. /\ pc' = (IF cache.phase = "active" THEN "metadata" ELSE "delDB") /\ phase' = phase
        /\ stranded' = (held \cap Topology) \ {cache.st.last}
    BY <1>2 DEF Reconcile
  <2>3. run' \in Passes /\ run'.spec = cache.spec /\ run'.st.last = cache.st.last
    BY <2>1 DEF TypeOK, Version, Passes
  <2>4. TypeOK'
    <3>1. cache' \in Version
      BY <1>1, <2>2 DEF TypeOK, Version
    <3> QED BY <1>1, <2>2, <2>3, <3>1 DEF TypeOK
  <2>5. PhaseInv' /\ AccountInv'
    BY <1>1, <1>2, <2>2, <2>3 DEF PhaseInv, AccountInv, ConfigAccountHeld, TypeOK, Phase
  <2>6. TopologyInv' /\ DeleteInv'
    BY <1>1, <1>2, <2>2, <2>3 DEF TopologyInv, TopologiesHeld, DeleteInv
  <2> QED BY <2>4, <2>5, <2>6
<1>3. CASE ~starts
  <2>1. pc' = "idle" /\ run' = NoRun /\ UNCHANGED stranded
    BY <1>3 DEF Reconcile
  <2>2. TypeOK'
    BY <1>1, <2>1, PlainTyped DEF TypeOK, Version, Phase
  <2>3. PhaseInv' /\ AccountInv'
    BY <1>1, <2>1 DEF PhaseInv, AccountInv, ConfigAccountHeld
  <2>4. TopologyInv' /\ DeleteInv'
    BY <1>1, <2>1 DEF TopologyInv, TopologiesHeld, DeleteInv, PhaseInv
  <2> QED BY <2>2, <2>3, <2>4
<1> QED BY <1>2, <1>3

\* A reconcile ends early or at its end, and its status is persisted.
LEMMA EndStep ==
  ASSUME ObjectsInv, NEW requeue, Patch(phase, requeue), pc # "idle",
         UNCHANGED <<inputs, cluster, stranded>>
  PROVE  ObjectsInv'
<1> USE DEF Patch, Written
<1>1. TypeOK'
  BY PlainTyped, MergeTyped DEF TypeOK, Version
<1>2. PhaseInv' /\ AccountInv'
  BY DEF PhaseInv, AccountInv, ConfigAccountHeld
<1>3. TopologyInv' /\ DeleteInv'
  BY DEF TopologyInv, TopologiesHeld, DeleteInv, PhaseInv
<1> QED BY <1>1, <1>2, <1>3

\* A crash keeps what is stored.
LEMMA CrashStep == ASSUME ObjectsInv, Crash PROVE ObjectsInv'
<1> USE DEF Crash
<1>1. TypeOK'
  BY PlainTyped DEF TypeOK
<1>2. PhaseInv' /\ AccountInv'
  BY DEF PhaseInv, AccountInv, ConfigAccountHeld
<1>3. TopologyInv' /\ DeleteInv'
  BY DEF TopologyInv, TopologiesHeld, DeleteInv, PhaseInv
<1> QED BY <1>1, <1>2, <1>3

-----------------------------------------------------------------------------
(* reconcileNormal                                                         *)

\* A step from one place of reconcileNormal to the next that keeps what is
\* held and the status' Topology.
LEMMA QuietStep ==
  ASSUME ObjectsInv, TypeOK', pc \in NormalPC, pc' \in NormalPC, pc' # "topoHold",
         pc' \in AfterDB => pc \in AfterDB,
         pc' \in AfterConfig => config' = run.spec.account,
         config' # config => config' = run.spec.account /\ pc \in AfterDB,
         run'.spec = run.spec, run'.st.last = run.st.last,
         UNCHANGED <<phase, spec, cache, made, held, stranded>>
  PROVE  ObjectsInv'
<1>1. PhaseInv' /\ AccountInv'
  BY DEF PhaseInv, AccountInv, ConfigAccountHeld
<1>2. TopologyInv' /\ DeleteInv'
  BY DEF TopologyInv, TopologiesHeld, DeleteInv, PhaseInv
<1> QED BY <1>1, <1>2

\* The parts of a reconcile's copy, and what a step may put there.
LEMMA PassTyped ==
  ASSUME TypeOK
  PROVE  /\ run.spec \in SpecType /\ run.st \in StatusType /\ run.nb \in Named(Endpoint)
         /\ run.spec.account \in Account /\ run.spec.topology \in Named(Topology)
         /\ run.st.last \in Named(Topology) /\ run.st.agentHash \in Secrets
BY DEF TypeOK, Passes, SpecType, StatusType

\* An agent secret is written from the spec of the pass.
LEMMA PublishStep ==
  ASSUME ObjectsInv, NEW a \in Agent, NEW secret \in Named(Secret), NEW next,
         Publish(a, secret, next),
         \/ pc = "metadata" /\ next = "nb"
         \/ pc = "ovn" /\ next = "account"
  PROVE  ObjectsInv'
<1> USE DEF Publish
<1>1. [agents EXCEPT ![a] = secret] \in Secrets
  BY DEF TypeOK, Secrets
<1>2. [run.st.agentHash EXCEPT ![a] = secret] \in Secrets
  BY PassTyped DEF Secrets
<1>3. run'.st = [run.st EXCEPT !.agentHash = [run.st.agentHash EXCEPT ![a] = secret]]
  BY DEF TypeOK, Passes, StatusType
<1>4. run'.st \in StatusType /\ run'.st.last = run.st.last
  BY <1>2, <1>3, PassTyped DEF StatusType
<1>5. run'.spec = run.spec /\ run'.nb = None
  BY DEF TypeOK, Passes
<1>6. run' \in Passes
  BY <1>4, <1>5, PassTyped DEF Passes, TypeOK
<1>7. TypeOK'
  BY <1>1, <1>6 DEF TypeOK
<1> QED BY <1>4, <1>5, <1>7, QuietStep

\* The sections of the two agents.
LEMMA AgentsStep ==
  ASSUME ObjectsInv, MetadataAgentSecret \/ LookUpNB \/ OVNAgentSecret
  PROVE  ObjectsInv'
<1>1. endpoints["nb"] \in Named(Endpoint) /\ endpoints["sb"] \in Named(Endpoint)
  BY DEF TypeOK, Connection, Cluster
<1>2. CASE MetadataAgentSecret
  <2>1. AgentSecret("metadata", run.spec, None, endpoints["sb"]) \in Named(Secret)
    BY <1>1 DEF AgentSecret, Secret
  <2> QED BY <1>2, <2>1, PublishStep DEF MetadataAgentSecret, Agent
<1>3. CASE OVNAgentSecret
  <2>1. AgentSecret("ovn", run.spec, run.nb, endpoints["sb"]) \in Named(Secret)
    BY <1>1, PassTyped DEF AgentSecret, Secret
  <2> QED BY <1>3, <2>1, PublishStep DEF OVNAgentSecret, Agent
<1>4. CASE LookUpNB
  <2>1. run'.spec = run.spec /\ run'.st = run.st /\ run' \in Passes
    BY <1>1, <1>4 DEF LookUpNB, TypeOK, Passes
  <2>2. TypeOK'
    BY <1>4, <2>1 DEF LookUpNB, TypeOK
  <2> QED BY <1>4, <2>1, <2>2, QuietStep DEF LookUpNB
<1> QED BY <1>2, <1>3, <1>4

\* ensureDB and generateServiceSecrets: created, held, and only then named
\* by the configuration.
LEMMA AccountStep ==
  ASSUME ObjectsInv, EnsureAccount \/ EnsureDB \/ GenerateConfig
  PROVE  ObjectsInv'
<1>1. CASE EnsureAccount
  <2> USE <1>1 DEF EnsureAccount
  <2>1. TypeOK'
    BY PassTyped DEF TypeOK
  <2>2. PhaseInv' /\ AccountInv'
    BY DEF PhaseInv, AccountInv, ConfigAccountHeld
  <2>3. TopologyInv' /\ DeleteInv'
    BY DEF TopologyInv, TopologiesHeld, DeleteInv, PhaseInv
  <2> QED BY <2>1, <2>2, <2>3
<1>2. CASE EnsureDB
  <2> USE <1>2 DEF EnsureDB, Hold
  <2>1. TypeOK'
    BY PassTyped DEF TypeOK, Object
  <2>2. PhaseInv' /\ AccountInv'
    BY DEF PhaseInv, AccountInv, ConfigAccountHeld
  <2>3. held' \cap Topology = held \cap Topology
    BY PassTyped, Kinds
  <2>4. TopologyInv' /\ DeleteInv'
    BY <2>3 DEF TopologyInv, TopologiesHeld, DeleteInv, PhaseInv
  <2> QED BY <2>1, <2>2, <2>4
<1>3. CASE GenerateConfig
  <2> USE <1>3 DEF GenerateConfig
  <2>1. TypeOK'
    BY PassTyped DEF TypeOK
  <2> QED BY <2>1, QuietStep
<1> QED BY <1>1, <1>2, <1>3

\* The input hash is computed, or the pass returns for want of the TLS secrets.
LEMMA InputHashStep == ASSUME ObjectsInv, InputHash PROVE ObjectsInv'
<1>1. config = run.spec.account
  BY DEF InputHash, AccountInv
<1>2. CASE tls /\ pc' = "ksService"
  <2>1. run' = [run EXCEPT !.st.hash = [account |-> config, agents |-> run.st.agentHash]]
    BY <1>2 DEF InputHash, Patch
  <2>2. [account |-> config, agents |-> run.st.agentHash] \in Hash
    BY <1>1, PassTyped DEF Hash
  <2>3. run'.spec = run.spec /\ run'.st.last = run.st.last /\ run' \in Passes
    BY <2>1, <2>2, PassTyped DEF Passes, StatusType, TypeOK
  <2>4. TypeOK'
    BY <1>2, <2>3 DEF InputHash, TypeOK, Patch
  <2> QED BY <1>1, <1>2, <2>3, <2>4, QuietStep DEF InputHash
<1>3. CASE ~tls /\ run.st.hash # None /\ pc' = "topoRelease" /\ UNCHANGED <<phase, persisted, queued, run>>
  <2>1. TypeOK'
    BY <1>3 DEF InputHash, TypeOK
  <2> QED BY <1>1, <1>3, <2>1, QuietStep DEF InputHash
<1>4. CASE Patch(phase, TRUE)
  BY <1>4, EndStep DEF InputHash
<1> QED BY <1>2, <1>3, <1>4 DEF InputHash

\* The Keystone objects.
LEMMA KeystoneStep ==
  ASSUME ObjectsInv, EnsureKeystoneService \/ EnsureKeystoneEndpoint
  PROVE  ObjectsInv'
<1> USE DEF EnsureKeystoneService, EnsureKeystoneEndpoint, Hold
<1>1. TypeOK'
  BY DEF TypeOK, Object, Keystone
<1>2. PhaseInv' /\ AccountInv'
  BY DEF PhaseInv, AccountInv, ConfigAccountHeld
<1>3. held' \cap Topology = held \cap Topology
  BY Kinds
<1>4. TopologyInv' /\ DeleteInv'
  BY <1>3 DEF TopologyInv, TopologiesHeld, DeleteInv, PhaseInv
<1> QED BY <1>1, <1>2, <1>4

\* EnsureServiceTopology: no account is touched, and at most the Topology of
\* the spec is left; then the status names it.
LEMMA ReleaseTopologyStep == ASSUME ObjectsInv, ReleaseTopology PROVE ObjectsInv'
<1> USE DEF ReleaseTopology
<1>1. TypeOK'
  BY DEF TypeOK
<1>2. held' \cap Account = held \cap Account
  BY PassTyped, Kinds
<1>3. PhaseInv' /\ AccountInv'
  BY <1>2, PassTyped DEF PhaseInv, AccountInv, ConfigAccountHeld, TypeOK
<1>4. held' \cap Topology \subseteq stranded' \cup {run.spec.topology}
  BY DEF TopologyInv, TopologiesHeld
<1>5. held' \cap Topology \subseteq stranded' \cup {run.st.last}
  BY DEF TopologyInv, TopologiesHeld
<1>6. TopologyInv' /\ DeleteInv'
  BY <1>4, <1>5 DEF TopologyInv, TopologiesHeld, DeleteInv, PhaseInv
<1> QED BY <1>1, <1>3, <1>6

\* The Topology of the spec is held before its name is saved.
LEMMA HoldTopologyStep == ASSUME ObjectsInv, HoldTopology PROVE ObjectsInv'
<1> USE DEF HoldTopology
<1>1. run'.spec = run.spec /\ run'.st.last = run.spec.topology /\ run' \in Passes
  BY PassTyped DEF Passes, StatusType, TypeOK
<1>2. TypeOK'
  BY <1>1, PassTyped DEF TypeOK, Object
<1>3. PhaseInv' /\ AccountInv'
  BY <1>1 DEF PhaseInv, AccountInv, ConfigAccountHeld
<1>4. TopologyInv' /\ DeleteInv'
  BY <1>1 DEF TopologyInv, TopologiesHeld, DeleteInv, PhaseInv
<1> QED BY <1>2, <1>3, <1>4

\* The Deployment gets what the pass computed.
LEMMA DeployStep == ASSUME ObjectsInv, Deploy PROVE ObjectsInv'
<1> DEFINE count == IF observed' THEN pods # {} ELSE run.st.count
<1>1. count \in BOOLEAN
  BY DEF TypeOK, Passes, StatusType
<1>2. run' = [run EXCEPT !.st.count = count]
  BY DEF Deploy, TypeOK, Passes, StatusType
<1> HIDE DEF count
<1>3. run'.spec = run.spec /\ run'.st.last = run.st.last /\ run' \in Passes
  BY <1>1, <1>2, PassTyped DEF Passes, StatusType, TypeOK
<1>4. TypeOK'
  BY <1>3 DEF Deploy, TypeOK
<1>5. config = run.spec.account
  BY DEF Deploy, AccountInv
<1> QED BY <1>3, <1>4, <1>5, QuietStep DEF Deploy

\* The one account that stays is the one the configuration names.
LEMMA ReleaseUnusedStep == ASSUME ObjectsInv, ReleaseUnused PROVE ObjectsInv'
<1> USE DEF ReleaseUnused, Hold
<1>1. TypeOK'
  BY DEF TypeOK
<1>2. run.spec.account \in held => run.spec.account \in held'
  OBVIOUS
<1>3. PhaseInv' /\ AccountInv'
  BY <1>2 DEF PhaseInv, AccountInv, ConfigAccountHeld
<1>4. TopologyInv' /\ DeleteInv'
  BY DEF TopologyInv, TopologiesHeld, DeleteInv, PhaseInv
<1> QED BY <1>1, <1>3, <1>4

-----------------------------------------------------------------------------
(* reconcileDelete                                                         *)

\* The sections of reconcileDelete that give up an object each.
LEMMA DeleteObjectStep ==
  ASSUME ObjectsInv, DeleteDB \/ DeleteEndpoint \/ DeleteService
  PROVE  ObjectsInv'
<1> USE DEF DeleteDB, DeleteEndpoint, DeleteService, Hold
<1>1. TypeOK'
  BY DEF TypeOK
<1>2. phase = "deleting" /\ run.spec = spec
  BY DEF PhaseInv
<1>3. PhaseInv' /\ AccountInv'
  BY <1>2 DEF PhaseInv, AccountInv, ConfigAccountHeld
<1>4. TopologyInv'
  BY <1>2 DEF TopologyInv, TopologiesHeld
<1>5. DeleteInv'
  BY <1>2 DEF DeleteInv
<1> QED BY <1>1, <1>3, <1>4, <1>5

\* reconcileDelete gives up the Topology that the status names.
LEMMA DeleteTopologyStep == ASSUME ObjectsInv, DeleteTopology PROVE ObjectsInv'
<1> USE DEF DeleteTopology
<1>1. TypeOK'
  BY DEF TypeOK
<1>2. phase = "deleting" /\ run.spec = spec
  BY DEF PhaseInv
<1>3. PhaseInv' /\ AccountInv'
  BY <1>2 DEF PhaseInv, AccountInv, ConfigAccountHeld
<1>4. TopologyInv' /\ DeleteInv'
  BY <1>2 DEF TopologyInv, TopologiesHeld, DeleteInv
<1> QED BY <1>1, <1>3, <1>4

\* The own finalizer goes last.
LEMMA DeleteOwnStep == ASSUME ObjectsInv, DeleteOwn PROVE ObjectsInv'
<1> USE DEF DeleteOwn, Patch, Written
<1>1. TypeOK'
  BY PlainTyped, MergeTyped DEF TypeOK, Version, Phase, NoAgents, Secrets
<1>2. PhaseInv' /\ AccountInv'
  BY DEF PhaseInv, AccountInv, ConfigAccountHeld
<1>3. TopologyInv' /\ DeleteInv'
  BY DEF TopologyInv, TopologiesHeld, DeleteInv
<1> QED BY <1>1, <1>2, <1>3

-----------------------------------------------------------------------------

\* Every step keeps the invariant.
LEMMA ObjectsStep == ObjectsInv /\ [Next]_vars => ObjectsInv'
<1> SUFFICES ASSUME ObjectsInv, [Next]_vars PROVE ObjectsInv'
  OBVIOUS
<1>1. CASE Bail \/ Return \/ Refuse
  BY <1>1, EndStep DEF Bail, Return, Refuse, Refused, Asked
<1>2. CASE Environment \/ Rollout \/ PodLost \/ Done \/ UNCHANGED vars
  BY <1>2, UserStep, DeleteCRStep, OthersStep DEF Environment
<1>3. CASE Crash \/ CacheCatchesUp
  BY <1>3, CrashStep, CacheStep
<1>4. CASE Steps /\ ~Return /\ ~Refuse
  BY <1>4, ReconcileStep, AgentsStep, AccountStep, InputHashStep, KeystoneStep,
     ReleaseTopologyStep, HoldTopologyStep, DeployStep, ReleaseUnusedStep,
     DeleteObjectStep, DeleteTopologyStep, DeleteOwnStep DEF Steps
<1> QED BY <1>1, <1>2, <1>3, <1>4 DEF Next

\* However a rotation of the database account is interrupted, the account in
\* neutron's configuration carries the finalizer: ensureDB runs before
\* generateServiceSecrets, and the release of unused accounts after both.
THEOREM AccountSafety == Spec => []ConfigAccountHeld
<1>1. ObjectsInv => ConfigAccountHeld
  BY DEF AccountInv
<1> QED BY <1>1, InitObjects, ObjectsStep, PTL DEF Spec

\* reconcileDelete leaves no finalizer on the objects of other operators,
\* up to the accounts and Topologies that the code has lost sight of.
THEOREM DeletionReleases == Spec => []NothingHeldWhenGone
<1>1. ObjectsInv => NothingHeldWhenGone
  BY DEF DeleteInv, TopologyInv, TopologiesHeld, TypeOK, Object, Keystone, NothingHeldWhenGone
<1> QED BY <1>1, InitObjects, ObjectsStep, PTL DEF Spec

\* The state stays well typed whatever the webhooks let in.
THEOREM ObjectsTyped == Spec => []TypeOK
<1>1. ObjectsInv => TypeOK
  OBVIOUS
<1> QED BY <1>1, InitObjects, ObjectsStep, PTL DEF Spec

-----------------------------------------------------------------------------
(* A controller at rest.  AppliedAtRest speaks of the pause between two    *)
(* reconciles; the invariant says how far a reconcile has come that        *)
(* nothing has disturbed since it started, and that a disturbance leaves a *)
(* request in the queue.                                                   *)

AfterHash ==
  {"ksService", "ksEndpoint", "topoRelease", "topoHold", "deploy", "unused", "end"}

Published(a) ==
  /\ agents[a] = AgentSecret(a, run.spec, endpoints["nb"], endpoints["sb"])
  /\ run.st.agentHash[a] = agents[a]

\* What a reconcile has done at each of its places.  A missing certificate
\* makes it skip the hash and Keystone.
DoneAgents ==
  /\ pc # "metadata" => Published("metadata")
  /\ pc = "ovn" => run.nb = endpoints["nb"]
  /\ pc \notin {"metadata", "nb", "ovn"} => Published("ovn")

DoneConfig ==
  /\ pc \in AfterDB \cup {"end"} => {"MariaDBDatabase", run.spec.account} \subseteq held
  /\ pc \in AfterConfig \cup {"end"} => config = run.spec.account
  /\ tls /\ pc \in AfterHash =>
       run.st.hash = [account |-> run.spec.account, agents |-> run.st.agentHash]

DoneObjects ==
  /\ tls /\ pc \in AfterHash \ {"ksService"} => "KeystoneService" \in held
  /\ tls /\ pc \in AfterHash \ {"ksService", "ksEndpoint"} => "KeystoneEndpoint" \in held
  /\ pc \in {"deploy", "unused", "end"} =>
       run.st.last = run.spec.topology /\ {run.spec.topology} \ {None} \subseteq held
  /\ pc \in {"unused", "end"} => depl = Template(run.spec, run.st.hash)

SoFar ==
  /\ run.spec = cache.spec /\ run.before = cache.st
  /\ DoneAgents /\ DoneConfig /\ DoneObjects

\* Applied, for the version of the NeutronAPI that the cache shows.
AppliedTo(s, st) ==
  /\ agents = [a \in Agent |-> AgentSecret(a, s, endpoints["nb"], endpoints["sb"])]
  /\ st.agentHash = agents /\ st.last = s.topology
  /\ config = s.account
  /\ depl = Template(s, [account |-> s.account, agents |-> agents])
  /\ {"MariaDBDatabase", s.account} \cup Keystone \cup ({s.topology} \ {None}) \subseteq held
  /\ held \cap Topology \subseteq stranded \cup {s.topology}

Fresh == ~Lags => cache = Stored
Resting ==
  pc = "idle" /\ ~queued /\ cache.phase = "active" /\ cache.st = status /\ tls /\ phase # "gone"
    => AppliedTo(cache.spec, status)
Running == pc \in NormalPC /\ ~queued => SoFar
Deleting == pc \in DeletePC => cache.phase \in {"deleting", "gone"}

RestInv == Fresh /\ Resting /\ Running /\ Deleting

\* Initially there is nothing to apply.
LEMMA InitRest == Init => RestInv
BY DEF Init, Stored, RestInv, Fresh, Resting, Running, Deleting

-----------------------------------------------------------------------------
(* Disturbances leave a request in the queue                               *)

\* With the resource queued nothing is claimed of what was applied.
LEMMA QueuedStep ==
  ASSUME RestInv, queued', Fresh', Deleting'
  PROVE  RestInv'
BY DEF RestInv, Resting, Running

\* What the invariant looks at.
Seen == <<focus, cache, status, endpoints, tls, held, stranded, agents, config, depl, pc, run>>

\* A step that touches none of it.
LEMMA SeenStep ==
  ASSUME RestInv, UNCHANGED Seen, Fresh', queued => queued', phase' # "gone" => phase # "gone"
  PROVE  RestInv'
<1> USE DEF Seen
<1>1. Running'
  BY DEF RestInv, Running, SoFar, DoneAgents, Published, DoneConfig, DoneObjects
<1>2. Resting'
  BY DEF RestInv, Resting, AppliedTo
<1>3. Deleting'
  BY DEF RestInv, Deleting
<1> QED BY <1>1, <1>2, <1>3 DEF RestInv

\* The environment queues the resource when it changes what a pass reads.
LEMMA RestEnvironment ==
  ASSUME ObjectsInv, RestInv,
         \/ Environment \/ CacheCatchesUp \/ Rollout \/ PodLost \/ Crash \/ Bail \/ Refuse
         \/ Done \/ UNCHANGED vars
  PROVE  RestInv'
<1>1. CASE Create \/ Update \/ DeleteCR
  <2>1. Fresh' /\ UNCHANGED pc /\ UNCHANGED focus
    BY <1>1 DEF Create, Update, DeleteCR, Written, RestInv, Fresh, Stored, Lags
  <2>2. CASE Lags
    <3>1. cache' = cache /\ UNCHANGED <<status, endpoints, tls, held, stranded, agents, config, depl, run>>
      BY <1>1, <2>2 DEF Create, Update, DeleteCR, Written
    <3>2. phase' # "gone" => phase # "gone"
      BY <1>1 DEF Create, Update, DeleteCR
    <3>3. CASE Create
      <4>1. pc = "idle" /\ cache.phase # "active"
        BY <3>3 DEF Create, PhaseInv
      <4> QED BY <2>1, <3>1, <4>1 DEF RestInv, Resting, Running, Deleting
    <3>4. CASE ~Create
      <4>1. queued => queued'
        BY <1>1, <3>4 DEF Update, DeleteCR
      <4> QED BY <2>1, <3>1, <3>2, <4>1, SeenStep DEF Seen
    <3> QED BY <3>3, <3>4
  <2>3. CASE ~Lags
    <3>1. queued'
      BY <1>1, <2>3 DEF Create, Update, DeleteCR
    <3>2. Deleting'
      <4>1. cache' = [phase |-> phase', spec |-> spec', st |-> status]
        BY <1>1, <2>3 DEF Create, Update, DeleteCR, Written
      <4>2. pc \in DeletePC => phase' = "deleting"
        BY <1>1 DEF Create, Update, DeleteCR, PhaseInv
      <4> QED BY <2>1, <4>1, <4>2 DEF Deleting
    <3> QED BY <2>1, <3>1, <3>2, QueuedStep
  <2> QED BY <2>2, <2>3
<1>2. CASE OVNDBClusterChanges \/ TLSSecretChanges \/ Rollout \/ PodLost \/ Crash
  <2>1. queued' /\ UNCHANGED <<focus, phase, spec, status, cache>> /\ pc' \in {pc, "idle"}
    BY <1>2 DEF OVNDBClusterChanges, TLSSecretChanges, Rollout, PodLost, Crash
  <2> QED BY <2>1, QueuedStep DEF RestInv, Fresh, Deleting, Stored, Lags
<1>3. CASE CacheCatchesUp
  <2>1. Fresh' /\ queued'
    BY <1>3 DEF CacheCatchesUp, Fresh, Stored
  <2>2. Deleting'
    BY <1>3 DEF CacheCatchesUp, Deleting, Stored, PhaseInv
  <2> QED BY <2>1, <2>2, QueuedStep
<1>4. CASE Bail \/ Refuse
  <2>1. queued' /\ pc' = "idle"
    BY <1>4 DEF Bail, Refuse, Patch
  <2>2. Fresh'
    BY <1>4 DEF Bail, Refuse, Patch, Written, RestInv, Fresh, Stored, Lags
  <2> QED BY <2>1, <2>2, QueuedStep DEF Deleting
<1>5. CASE CalmDown \/ Done \/ UNCHANGED vars
  <2>1. UNCHANGED Seen /\ UNCHANGED <<phase, spec, queued>>
    BY <1>5 DEF CalmDown, Done, vars, Seen
  <2>2. Fresh'
    BY <2>1 DEF RestInv, Fresh, Stored, Lags, Seen
  <2> QED BY <2>1, <2>2, SeenStep
<1> QED BY <1>1, <1>2, <1>3, <1>4, <1>5 DEF Environment

-----------------------------------------------------------------------------
(* A reconcile                                                             *)

\* A reconcile takes the resource off the queue and reads its spec.
LEMMA RestReconcile == ASSUME ObjectsInv, RestInv, Reconcile PROVE RestInv'
<1>1. /\ pc = "idle" /\ UNCHANGED <<spec, status, focus, endpoints, tls>>
      /\ phase' = IF cache.phase = "new" /\ phase = "new" THEN "active" ELSE phase
      /\ queued' = (cache.phase = "new" /\ phase = "new" /\ ~Lags)
      /\ cache' = IF Lags THEN cache ELSE [phase |-> phase', spec |-> spec, st |-> status]
  BY DEF Reconcile, Written
<1>2. Fresh'
  BY <1>1 DEF Fresh, Stored, Lags
<1>3. CASE cache.phase \in {"active", "deleting"} /\ phase # "gone"
  <2>1. cache' = cache
    BY <1>1, <1>3 DEF RestInv, Fresh, Stored
  <2>2. /\ run' = [spec |-> cache.spec, before |-> cache.st, st |-> cache.st, nb |-> None]
        /\ pc' = IF cache.phase = "active" THEN "metadata" ELSE "delDB"
    BY <1>3 DEF Reconcile
  <2>3. Running'
    BY <2>1, <2>2 DEF Running, SoFar, DoneAgents, DoneConfig, DoneObjects, AfterHash
  <2>4. Resting' /\ Deleting'
    BY <1>3, <2>1, <2>2 DEF Resting, Deleting
  <2> QED BY <1>2, <2>3, <2>4 DEF RestInv
<1>4. CASE ~(cache.phase \in {"active", "deleting"} /\ phase # "gone")
  <2>1. pc' = "idle"
    BY <1>4 DEF Reconcile
  <2>2. Resting'
    <3>1. CASE cache.phase = "new" /\ phase = "new"
      BY <1>1, <3>1 DEF Resting
    <3>2. CASE ~(cache.phase = "new" /\ phase = "new")
      <4>1. phase' = phase /\ cache' = cache
        BY <1>1, <3>2 DEF RestInv, Fresh, Stored
      <4> QED BY <1>4, <4>1 DEF Resting
    <3> QED BY <3>1, <3>2
  <2> QED BY <1>2, <2>1, <2>2 DEF RestInv, Running, Deleting
<1> QED BY <1>3, <1>4

\* A step of reconcileNormal to its next place.
LEMMA Onward ==
  ASSUME RestInv, pc \in NormalPC, pc' \in NormalPC, UNCHANGED <<focus, phase, spec, persisted>>,
         run'.spec = run.spec, run'.before = run.before,
         ~queued' => ~queued,
         SoFar /\ ~queued' => DoneAgents' /\ DoneConfig' /\ DoneObjects'
  PROVE  RestInv'
<1>1. Running'
  BY DEF RestInv, Running, SoFar
<1>2. Fresh' /\ Resting' /\ Deleting'
  BY DEF RestInv, Fresh, Stored, Lags, Resting, Deleting
<1> QED BY <1>1, <1>2 DEF RestInv

\* An agent secret is what the spec and the databases now ask for.
LEMMA RestPublish ==
  ASSUME ObjectsInv, RestInv, NEW a \in Agent, NEW secret, NEW next, Publish(a, secret, next),
         \/ pc = "metadata" /\ next = "nb" /\ a = "metadata"
         \/ pc = "ovn" /\ next = "account" /\ a = "ovn",
         ~queued => secret = AgentSecret(a, run.spec, endpoints["nb"], endpoints["sb"])
  PROVE  RestInv'
<1>1. run.st.agentHash \in [Agent -> Named(Secret)] /\ agents \in [Agent -> Named(Secret)]
  BY PassTyped DEF Secrets, TypeOK
<1>2. /\ run'.spec = run.spec /\ run'.before = run.before
      /\ run'.st.agentHash = [run.st.agentHash EXCEPT ![a] = secret]
      /\ agents' = [agents EXCEPT ![a] = secret] /\ pc' = next /\ UNCHANGED <<endpoints, tls>>
      /\ queued' = (queued \/ agents' # agents) /\ UNCHANGED <<focus, phase, spec, persisted>>
  BY DEF Publish, TypeOK, Passes, StatusType
<1>3. ~queued' => ~queued
  BY <1>2 DEF TypeOK
<1>4. ASSUME SoFar, ~queued' PROVE DoneAgents'
  <2>1. \A b \in Agent : b # a => (Published(b) => Published(b)')
    BY <1>1, <1>2 DEF Published
  <2>2. Published(a)'
    BY <1>1, <1>2, <1>3, <1>4 DEF Published
  <2> QED BY <1>2, <1>4, <2>1, <2>2 DEF SoFar, DoneAgents, Agent
<1>5. DoneConfig' /\ DoneObjects'
  BY <1>2 DEF DoneConfig, DoneObjects, AfterHash
<1> QED BY <1>2, <1>3, <1>4, <1>5, Onward

\* The sections of the two agents.
LEMMA RestAgents ==
  ASSUME ObjectsInv, RestInv, MetadataAgentSecret \/ LookUpNB \/ OVNAgentSecret
  PROVE  RestInv'
<1>1. CASE MetadataAgentSecret
  <2>1. AgentSecret("metadata", run.spec, None, endpoints["sb"]) =
        AgentSecret("metadata", run.spec, endpoints["nb"], endpoints["sb"])
    BY DEF AgentSecret
  <2> QED BY <1>1, <2>1, RestPublish DEF MetadataAgentSecret, Agent
<1>2. CASE OVNAgentSecret
  <2>1. ~queued => run.nb = endpoints["nb"]
    BY <1>2 DEF OVNAgentSecret, RestInv, Running, SoFar, DoneAgents
  <2> QED BY <1>2, <2>1, RestPublish DEF OVNAgentSecret, Agent
<1>3. CASE LookUpNB
  <2>1. /\ run'.spec = run.spec /\ run'.before = run.before /\ run'.st = run.st
        /\ run'.nb = endpoints["nb"]
    BY <1>3 DEF LookUpNB, TypeOK, Passes
  <2>2. pc = "nb" /\ pc' = "ovn" /\ UNCHANGED <<inputs, phase, cluster, stranded, persisted, queued>>
    BY <1>3 DEF LookUpNB
  <2>3. SoFar => DoneAgents'
    BY <2>1, <2>2 DEF SoFar, DoneAgents, Published
  <2>4. DoneConfig' /\ DoneObjects'
    BY <2>2 DEF DoneConfig, DoneObjects, AfterHash
  <2> QED BY <2>1, <2>2, <2>3, <2>4, Onward
<1> QED BY <1>1, <1>2, <1>3

\* The account of the spec reaches the configuration.
LEMMA RestDB ==
  ASSUME ObjectsInv, RestInv, EnsureAccount \/ EnsureDB \/ GenerateConfig
  PROVE  RestInv'
<1>1. /\ pc' = (IF pc = "account" THEN "db" ELSE IF pc = "db" THEN "config" ELSE "hash")
      /\ pc \in {"account", "db", "config"} /\ UNCHANGED <<run, queued, agents, endpoints, tls>>
      /\ UNCHANGED <<focus, phase, spec, persisted>>
  BY DEF EnsureAccount, EnsureDB, GenerateConfig, Hold
<1>2. pc \in {"db", "config"} => {"MariaDBDatabase", run.spec.account} \subseteq held' \/ pc = "config"
  BY DEF EnsureAccount, EnsureDB, GenerateConfig, Hold
<1>3. pc = "config" => held' = held /\ config' = run.spec.account
  BY DEF EnsureAccount, EnsureDB, GenerateConfig, Hold
<1>4. SoFar => DoneAgents'
  BY <1>1 DEF SoFar, DoneAgents, Published
<1>5. SoFar => DoneConfig'
  BY <1>1, <1>2, <1>3 DEF SoFar, DoneConfig, AfterHash
<1>6. DoneObjects'
  BY <1>1 DEF DoneObjects, AfterHash
<1> QED BY <1>1, <1>4, <1>5, <1>6, Onward

\* What concerns neither the agents nor the configuration.
LEMMA ConfigKept ==
  ASSUME SoFar, pc \in AfterHash, pc' \in AfterHash,
         UNCHANGED <<agents, endpoints, config, tls>>,
         run'.spec = run.spec, run'.st.agentHash = run.st.agentHash, run'.st.hash = run.st.hash,
         \A o \in {"MariaDBDatabase", run.spec.account} : o \in held => o \in held'
  PROVE  DoneAgents' /\ DoneConfig'
<1>1. DoneAgents'
  BY DEF SoFar, DoneAgents, Published, AfterHash
<1>2. DoneConfig'
  BY DEF SoFar, DoneConfig, AfterHash
<1> QED BY <1>1, <1>2

\* The hash is of the configuration and the agent secrets of this pass.
LEMMA RestHash == ASSUME ObjectsInv, RestInv, InputHash PROVE RestInv'
<1>1. pc = "hash" /\ UNCHANGED <<inputs, cluster, stranded>>
  BY DEF InputHash
<1>2. CASE tls /\ pc' = "ksService" /\ UNCHANGED <<phase, persisted, queued>>
           /\ run' = [run EXCEPT !.st.hash = [account |-> config, agents |-> run.st.agentHash]]
  <2>1. /\ run'.spec = run.spec /\ run'.before = run.before
        /\ run'.st.agentHash = run.st.agentHash
        /\ run'.st.hash = [account |-> config, agents |-> run.st.agentHash]
    BY <1>2 DEF TypeOK, Passes, StatusType
  <2>2. SoFar => DoneAgents'
    BY <1>1, <1>2, <2>1 DEF SoFar, DoneAgents, Published
  <2>3. SoFar => DoneConfig'
    BY <1>1, <1>2, <2>1 DEF SoFar, DoneConfig
  <2>4. DoneObjects'
    BY <1>2 DEF DoneObjects, AfterHash
  <2> QED BY <1>1, <1>2, <2>1, <2>2, <2>3, <2>4, Onward
<1>3. CASE ~tls /\ pc' = "topoRelease" /\ UNCHANGED <<phase, persisted, queued, run>>
  <2>1. SoFar => DoneAgents'
    BY <1>1, <1>3 DEF SoFar, DoneAgents, Published
  <2>2. SoFar => DoneConfig'
    BY <1>1, <1>3 DEF SoFar, DoneConfig
  <2>3. DoneObjects'
    BY <1>1, <1>3 DEF DoneObjects
  <2> QED BY <1>1, <1>3, <2>1, <2>2, <2>3, Onward
<1>4. CASE Patch(phase, TRUE)
  <2>1. queued' /\ pc' = "idle"
    BY <1>4 DEF Patch
  <2>2. Fresh'
    BY <1>1, <1>4 DEF Patch, Written, Fresh, Stored, Lags
  <2> QED BY <2>1, <2>2, QueuedStep DEF Deleting
<1> QED BY <1>2, <1>3, <1>4 DEF InputHash

\* The Keystone objects.
LEMMA RestKeystone ==
  ASSUME ObjectsInv, RestInv, EnsureKeystoneService \/ EnsureKeystoneEndpoint
  PROVE  RestInv'
<1> USE DEF EnsureKeystoneService, EnsureKeystoneEndpoint, Hold
<1>1. /\ pc \in {"ksService", "ksEndpoint"} /\ pc' \in {"ksEndpoint", "topoRelease"}
      /\ UNCHANGED <<run, queued, agents, endpoints, config, tls>>
      /\ UNCHANGED <<focus, phase, spec, persisted>>
      /\ held \subseteq held'
  OBVIOUS
<1>2. SoFar => DoneAgents' /\ DoneConfig'
  BY <1>1, ConfigKept DEF AfterHash
<1>3. SoFar => DoneObjects'
  BY DEF SoFar, DoneObjects, AfterHash
<1> QED BY <1>1, <1>2, <1>3, Onward

\* The Topology of the spec is the one that is held.
LEMMA RestTopology ==
  ASSUME ObjectsInv, RestInv, ReleaseTopology \/ HoldTopology
  PROVE  RestInv'
<1> USE DEF ReleaseTopology, HoldTopology
<1>1. /\ pc \in {"topoRelease", "topoHold"} /\ pc' \in {"topoHold", "deploy"}
      /\ UNCHANGED <<queued, agents, endpoints, config, tls>>
      /\ UNCHANGED <<focus, phase, spec, persisted>>
  OBVIOUS
<1>2. /\ run'.spec = run.spec /\ run'.before = run.before
      /\ run'.st.agentHash = run.st.agentHash /\ run'.st.hash = run.st.hash
      /\ pc' = "deploy" => run'.st.last = run.spec.topology
  BY DEF TypeOK, Passes, StatusType
<1>3. /\ \A o \in {"MariaDBDatabase", run.spec.account} \cup Keystone : o \in held => o \in held'
      /\ pc' = "deploy" => {run.spec.topology} \ {None} \subseteq held'
  <2>1. CASE ReleaseTopology
    <3>1. held \ Named(Topology) \subseteq held'
      BY <2>1, PassTyped
    <3>2. run.spec.account \notin Named(Topology)
      BY PassTyped, Kinds
    <3>3. \A o \in {"MariaDBDatabase"} \cup Keystone : o \notin Named(Topology)
      BY ObjectAssumption
    <3> QED BY <2>1, <3>1, <3>2, <3>3
  <2>2. CASE HoldTopology
    BY <2>2
  <2> QED BY <2>1, <2>2
<1>4. SoFar => DoneAgents' /\ DoneConfig'
  BY <1>1, <1>2, <1>3, ConfigKept DEF AfterHash
<1>5. SoFar => DoneObjects'
  BY <1>1, <1>2, <1>3 DEF SoFar, DoneObjects, AfterHash, Keystone
<1> QED BY <1>1, <1>2, <1>4, <1>5, Onward

\* The Deployment runs what the pass computed.
LEMMA RestDeploy == ASSUME ObjectsInv, RestInv, Deploy \/ ReleaseUnused PROVE RestInv'
<1> USE DEF Deploy, ReleaseUnused, Hold
<1>0. queued => queued'
  OBVIOUS
<1>1. /\ pc \in {"deploy", "unused"} /\ pc' \in {"unused", "end"}
      /\ UNCHANGED <<agents, endpoints, config, tls>>
      /\ UNCHANGED <<focus, phase, spec, persisted>>
  OBVIOUS
<1>2. /\ run'.spec = run.spec /\ run'.before = run.before /\ run'.st.last = run.st.last
      /\ run'.st.agentHash = run.st.agentHash /\ run'.st.hash = run.st.hash
  BY DEF TypeOK, Passes, StatusType
<1>3. /\ \A o \in {"MariaDBDatabase", run.spec.account} \cup Keystone \cup Topology :
           o \in held => o \in held'
      /\ pc = "unused" => pc' = "end" /\ depl' = depl
      /\ pc = "deploy" => depl' = Template(run.spec, run.st.hash)
  <2>1. CASE Deploy
    BY <2>1
  <2>2. CASE ReleaseUnused
    <3>1. held \ (Account \ {run.spec.account}) \subseteq held' /\ pc = "unused"
      BY <2>2
    <3> QED BY <2>2, <3>1, Kinds DEF Keystone
  <2> QED BY <2>1, <2>2
<1>4. SoFar => DoneAgents' /\ DoneConfig'
  BY <1>1, <1>2, <1>3, ConfigKept DEF AfterHash
<1>5. SoFar => DoneObjects'
  <2>1. run.spec.topology # None => run.spec.topology \in Topology
    BY PassTyped
  <2> QED BY <1>1, <1>2, <1>3, <2>1 DEF SoFar, DoneObjects, AfterHash, Keystone
<1> QED BY <1>0, <1>1, <1>2, <1>4, <1>5, Onward

-----------------------------------------------------------------------------
(* The end of a reconcile                                                  *)

\* If it patches nothing, its status is the one it started from.
LEMMA NoChange ==
  ASSUME TypeOK, Merge(run.st, run.before) = run.before
  PROVE  run.st = run.before
<1>1. run.st \in StatusType /\ run.before \in StatusType
  BY DEF TypeOK, Passes
<1>2. /\ run.st.last = run.before.last /\ run.st.count = run.before.count
      /\ run.st.hash = run.before.hash
  <2> DEFINE m == Merge(run.st, run.before)
  <2>1. m.last = IF run.st.last = run.before.last THEN status.last ELSE run.st.last
    BY DEF Merge
  <2>2. m.count = IF run.st.count = run.before.count THEN status.count ELSE run.st.count
    BY DEF Merge
  <2>3. m.hash = IF run.st.hash = run.before.hash THEN status.hash ELSE run.st.hash
    BY DEF Merge
  <2> HIDE DEF m
  <2>4. m = run.before
    BY DEF m
  <2> QED BY <2>1, <2>2, <2>3, <2>4
<1>3. \A a \in Agent : run.st.agentHash[a] = run.before.agentHash[a]
  <2> TAKE a \in Agent
  <2>1. Merge(run.st, run.before).agentHash[a] = run.before.agentHash[a]
    OBVIOUS
  <2> QED BY <2>1 DEF Merge
<1>4. run.st.agentHash = run.before.agentHash
  BY <1>1, <1>3 DEF StatusType, Secrets
<1> QED BY <1>1, <1>2, <1>4 DEF StatusType

\* A pass that returned without a change left nothing to do.
LEMMA RestReturn == ASSUME ObjectsInv, RestInv, Return PROVE RestInv'
<1>1. /\ pc = "end" /\ pc' = "idle" /\ UNCHANGED <<inputs, cluster, stranded, phase>>
      /\ status' = Merge(run.st, run.before)
      /\ cache' = IF Lags THEN cache ELSE [phase |-> phase, spec |-> spec, st |-> status']
      /\ queued' = (queued \/ (status' # status /\ ~Lags))
  BY DEF Return, Patch, Written
<1>2. Fresh'
  BY <1>1 DEF Fresh, Stored, Lags
<1>3. ASSUME ~queued', cache'.st = status', tls' PROVE AppliedTo(cache.spec, status)'
  <2>1. ~queued /\ SoFar
    BY <1>1, <1>3 DEF RestInv, Running
  <2>2. cache'.spec = run.spec /\ status' = run.before
    BY <1>1, <1>3, <2>1 DEF SoFar, RestInv, Fresh, Stored
  <2>3. run.st = status'
    BY <1>1, <2>2, NoChange
  <2>4. /\ Published("metadata") /\ Published("ovn")
        /\ {"MariaDBDatabase", run.spec.account} \subseteq held /\ config = run.spec.account
        /\ run.st.hash = [account |-> run.spec.account, agents |-> run.st.agentHash]
    BY <1>1, <1>3, <2>1 DEF SoFar, DoneAgents, DoneConfig, AfterHash
  <2>5. /\ Keystone \subseteq held
        /\ run.st.last = run.spec.topology /\ {run.spec.topology} \ {None} \subseteq held
        /\ depl = Template(run.spec, run.st.hash)
    BY <1>1, <1>3, <2>1 DEF SoFar, DoneObjects, AfterHash, Keystone
  <2>6. /\ agents = [a \in Agent |-> AgentSecret(a, run.spec, endpoints["nb"], endpoints["sb"])]
        /\ run.st.agentHash = agents
    <3>1. agents \in Secrets /\ run.st.agentHash \in Secrets
      BY PassTyped DEF TypeOK
    <3>2. \A a \in Agent : Published(a)
      BY <2>4 DEF Agent
    <3>3. agents = [a \in Agent |-> agents[a]]
      BY <3>1 DEF Secrets
    <3>4. run.st.agentHash = [a \in Agent |-> run.st.agentHash[a]]
      BY <3>1 DEF Secrets
    <3>5. run.st.agentHash = agents
      BY <3>2, <3>3, <3>4 DEF Published
    <3> QED BY <3>2, <3>3, <3>5 DEF Published
  <2>7. held \cap Topology \subseteq stranded \cup {run.spec.topology}
    BY <1>1, <2>5 DEF TopologyInv, TopologiesHeld
  <2>8. AppliedTo(run.spec, run.st)
    BY <2>4, <2>5, <2>6, <2>7 DEF AppliedTo
  <2> QED BY <1>1, <2>2, <2>3, <2>8 DEF AppliedTo
<1> QED BY <1>1, <1>2, <1>3 DEF RestInv, Resting, Running, Deleting

-----------------------------------------------------------------------------
(* Deletion, and the theorem                                               *)

\* A NeutronAPI that is being deleted is not claimed to be applied.
LEMMA RestDelete ==
  ASSUME ObjectsInv, RestInv,
         DeleteDB \/ DeleteEndpoint \/ DeleteService \/ DeleteTopology \/ DeleteOwn
  PROVE  RestInv'
<1>1. CASE DeleteDB \/ DeleteEndpoint \/ DeleteService \/ DeleteTopology
  <2>1. pc \in DeletePC /\ pc' \in DeletePC /\ UNCHANGED <<focus, phase, spec, persisted>>
    BY <1>1 DEF DeleteDB, DeleteEndpoint, DeleteService, DeleteTopology, Hold
  <2> QED BY <2>1 DEF RestInv, Fresh, Stored, Lags, Resting, Running, Deleting
<1>2. CASE DeleteOwn
  <2>1. phase' = "gone" /\ pc' = "idle"
    BY <1>2 DEF DeleteOwn, Patch
  <2>2. Fresh'
    BY <1>2 DEF DeleteOwn, Patch, Written, Fresh, Stored, Lags
  <2> QED BY <2>1, <2>2 DEF RestInv, Resting, Running, Deleting
<1> QED BY <1>1, <1>2

\* Every step keeps the invariant.
LEMMA RestStep == ObjectsInv /\ RestInv /\ [Next]_vars => RestInv'
<1> SUFFICES ASSUME ObjectsInv, RestInv, [Next]_vars PROVE RestInv'
  OBVIOUS
<1>1. CASE \/ Environment \/ CacheCatchesUp \/ Rollout \/ PodLost \/ Crash \/ Bail \/ Refuse
           \/ Done \/ UNCHANGED vars
  BY <1>1, RestEnvironment
<1>2. CASE Reconcile \/ Return
  BY <1>2, RestReconcile, RestReturn
<1>3. CASE MetadataAgentSecret \/ LookUpNB \/ OVNAgentSecret
  BY <1>3, RestAgents
<1>4. CASE EnsureAccount \/ EnsureDB \/ GenerateConfig
  BY <1>4, RestDB
<1>5. CASE InputHash \/ EnsureKeystoneService \/ EnsureKeystoneEndpoint
  BY <1>5, RestHash, RestKeystone
<1>6. CASE ReleaseTopology \/ HoldTopology \/ Deploy \/ ReleaseUnused
  BY <1>6, RestTopology, RestDeploy
<1>7. CASE DeleteDB \/ DeleteEndpoint \/ DeleteService \/ DeleteTopology \/ DeleteOwn
  BY <1>7, RestDelete
<1> QED BY <1>1, <1>2, <1>3, <1>4, <1>5, <1>6, <1>7 DEF Next, Steps

\* When no reconcile runs or is queued and the cache is up to date, the last
\* one has applied the spec, the OVN endpoints and the certificates as they
\* are now: whatever changed, failed or crashed while it ran, one of the
\* watches, the requeued error or the patched status has asked for another
\* (SetupWithManager, Reconcile and all of reconcileNormal).
THEOREM NoWakeUpLost == Spec => []AppliedAtRest
<1>1. ObjectsInv /\ RestInv => AppliedAtRest
  <2> SUFFICES ASSUME ObjectsInv, RestInv, phase = "active", pc = "idle", ~queued, cache = Stored, tls
               PROVE  Applied /\ Wanted \subseteq held /\ held \ Wanted \subseteq Account \cup stranded
    BY DEF AppliedAtRest
  <2>1. AppliedTo(spec, status)
    BY DEF RestInv, Resting, Stored
  <2>2. held \subseteq Object
    BY DEF TypeOK
  <2>3. held \ Wanted \subseteq Account \cup stranded
    BY <2>1, <2>2, NoneAssumption DEF AppliedTo, Wanted, Object
  <2> QED BY <2>1, <2>3 DEF AppliedTo, Applied, Wanted
<1> QED BY <1>1, InitObjects, InitRest, ObjectsStep, RestStep, PTL DEF Spec
=============================================================================
