---------------------------- MODULE PodTemplates ----------------------------
(***************************************************************************)
(* The pods that the controller asks for: the volumes, the containers and  *)
(* their mounts, as functions of the spec.  Deployment builds the API pod, *)
(* RPCDeployment and WorkerDeployment the other two pods of the WSGI       *)
(* strategy, DbSyncJob the pod of the db-sync Job.                         *)
(*                                                                         *)
(* A mount is the volume it takes its file from and the path it lands on;  *)
(* a path is named after its last part.  A spec s is a record with         *)
(*   s.switches   the optional features that are on,                       *)
(*   s.overwrite  the files of defaultConfigOverwrite,                     *)
(*   s.ovn        is ovn among the mechanism drivers?                      *)
(*   s.extra      ExtraMounts: a list of [to, volumes, mounts], the        *)
(*                services to propagate to and what the user adds to their *)
(*                pods, under names and paths of the user's choice,        *)
(*   s.ships      files that the container image brings along.             *)
(***************************************************************************)
EXTENDS Naturals, Sequences

Switches == {"wsgi", "ca", "mtls", "internal", "public", "ovnTLS"}

Opt(on, seq) == IF on THEN seq ELSE << >>
Mounts(volume, paths) == [i \in DOMAIN paths |-> [volume |-> volume, path |-> paths[i]]]

\* Propagate: an entry is for the services it lists; an empty list means
\* everyone.
Propagate(to, svc) == to = {} \/ to \cap svc # {}

NeutronAPIPropagation == {"Neutron", "NeutronAPI"}
DbsyncPropagation == {"DBSync"}

\* The volumes, or the mounts, of the entries for the services svc, one after
\* the other and unchecked.
ExtraVolMounts(s, svc, part) ==
  LET upto[n \in 0..Len(s.extra)] ==
        IF n = 0 THEN << >>
        ELSE upto[n - 1] \o Opt(Propagate(s.extra[n].to, svc), s.extra[n][part])
  IN  upto[Len(s.extra)]

GetVolumes(s, svc) == <<"config", "httpd-config">> \o ExtraVolMounts(s, svc, "volumes")

GetVolumeMounts(s, svc, policyOverwrite) ==
  Mounts("config", <<"01-neutron.conf", "02-neutron-custom.conf", "my.cnf">>
                     \o Opt(policyOverwrite, <<"policy.yaml">>))
    \o ExtraVolMounts(s, svc, "mounts")

GetHttpdVolumeMount ==
  Mounts("httpd-config", <<"httpd.conf", "10-neutron.conf", "ssl.conf">>)
    \o Mounts("run-httpd", <<"run-httpd">>)

\* The certificates, as the TLS and memcached libraries lay them out.
CaMounts(s) == Opt("ca" \in s.switches, Mounts("combined-ca-bundle", <<"ca-bundle.pem">>))
MTLSMounts(s) == Opt("mtls" \in s.switches, Mounts("mtls", <<"mtls.crt", "mtls.key">>))
EndpointMounts(s) ==
  Opt("internal" \in s.switches, Mounts("internal-tls", <<"internal.crt", "internal.key">>))
    \o Opt("public" \in s.switches, Mounts("public-tls", <<"public.crt", "public.key">>))
OVNMounts(s) ==
  Opt(s.ovn /\ "ovnTLS" \in s.switches,
      Mounts("ovndb", <<"ovndb.crt", "ovndb.key", "ovndbca.crt">>))

VolumesOf(s) ==
  Opt("ca" \in s.switches, <<"combined-ca-bundle">>)
    \o Opt("mtls" \in s.switches, <<"mtls">>)
EndpointVolumes(s) ==
  Opt("internal" \in s.switches, <<"internal-tls">>)
    \o Opt("public" \in s.switches, <<"public-tls">>)
OVNVolume(s) == Opt(s.ovn /\ "ovnTLS" \in s.switches, <<"ovndb">>)

PolicyOverwrite(s) == "policy.yaml" \in s.overwrite

\* The configuration files a process parses: those that --config-file names,
\* those of --config-dir (or of oslo.config's own discovery of that
\* directory), then those that OS_NEUTRON_CONFIG_FILES lists.  Only
\* NeutronAPICommand, the command of the Eventlet strategy, names files.
CommandFiles == <<"neutron-dist.conf", "neutron.conf">>
ConfigDir == <<"01-neutron.conf", "02-neutron-custom.conf">>
ConfigFiles == <<"01-neutron.conf">>

\* Faulty: nothing is dropped.
DedupeNothing(mounts) == mounts

\* dedupeVolumeMountsByPath: the first mount of a path stays, at its place
\* in the list; the later ones are struck out.
Dedupe(mounts) ==
  LET First(i) == \A j \in 1..(i - 1) : mounts[j].path # mounts[i].path
  IN  [i \in {i \in DOMAIN mounts : First(i)} |-> mounts[i]]

\* Deployment.  Under WSGI httpd runs the API itself and needs its mounts.
Deployment(s) ==
  LET wsgi == "wsgi" \in s.switches
      api == GetVolumeMounts(s, NeutronAPIPropagation, PolicyOverwrite(s))
               \o CaMounts(s) \o MTLSMounts(s) \o OVNMounts(s)
      httpd == GetHttpdVolumeMount \o CaMounts(s) \o EndpointMounts(s)
  IN  [volumes |-> GetVolumes(s, NeutronAPIPropagation) \o <<"run-httpd">> \o VolumesOf(s)
                     \o EndpointVolumes(s) \o OVNVolume(s),
       containers |->
         Opt(~wsgi, <<[name |-> "neutron-api", mounts |-> api,
                       parses |-> CommandFiles \o ConfigDir]>>)
           \o <<[name   |-> "neutron-httpd",
                 mounts |-> IF wsgi THEN Dedupe(httpd \o api) ELSE httpd,
                 parses |-> Opt(wsgi, ConfigDir \o ConfigFiles)]>>]

\* workerVolumesAndMounts: what the other pods of the WSGI strategy share.
WorkerVolumes(s) == GetVolumes(s, NeutronAPIPropagation) \o VolumesOf(s) \o OVNVolume(s)
WorkerMounts(s) ==
  GetVolumeMounts(s, NeutronAPIPropagation, PolicyOverwrite(s))
    \o CaMounts(s) \o MTLSMounts(s) \o OVNMounts(s)
WorkerContainer(s, name) ==
  [name |-> name, mounts |-> WorkerMounts(s), parses |-> ConfigDir \o ConfigFiles]

RPCDeployment(s) ==
  [volumes |-> WorkerVolumes(s), containers |-> <<WorkerContainer(s, "neutron-rpc")>>]

WorkerDeployment(s) ==
  [volumes    |-> WorkerVolumes(s),
   containers |-> <<WorkerContainer(s, "neutron-periodic-workers")>>
                    \o Opt(s.ovn, <<WorkerContainer(s, "neutron-ovn-maintenance-worker")>>)]

DbSyncJob(s) ==
  [volumes    |-> GetVolumes(s, DbsyncPropagation) \o Opt("ca" \in s.switches, <<"combined-ca-bundle">>),
   containers |-> <<[name   |-> "neutron-db-sync",
                     mounts |-> GetVolumeMounts(s, DbsyncPropagation, FALSE) \o CaMounts(s),
                     parses |-> ConfigDir]>>]

\* The other pods of the strategy, and all pods of one spec.
WorkerPods(s) ==
  IF "wsgi" \in s.switches THEN {RPCDeployment(s), WorkerDeployment(s)} ELSE {}
PodsOf(s) == {Deployment(s), DbSyncJob(s)} \cup WorkerPods(s)

-----------------------------------------------------------------------------
(* What Kubernetes and neutron expect of a pod                             *)

Elements(seq) == {seq[i] : i \in DOMAIN seq}
Distinct(seq) == \A i, j \in DOMAIN seq : seq[i] = seq[j] => i = j

\* The API server accepts the pod: no volume and no mount path occurs twice,
\* and every mount names a volume of the pod.
Accepted(pod) ==
  /\ Distinct(pod.volumes)
  /\ Distinct([i \in DOMAIN pod.containers |-> pod.containers[i].name])
  /\ \A c \in Elements(pod.containers) :
       /\ Distinct([i \in DOMAIN c.mounts |-> c.mounts[i].path])
       /\ \A m \in Elements(c.mounts) : m.volume \in Elements(pod.volumes)

\* The pod starts: every file it mounts from the config Secret is there.
\* generateServiceSecrets adds policy.yaml only if the user overwrites it.
Mountable(pod, files) ==
  \A c \in Elements(pod.containers) :
    \A m \in Elements(c.mounts) : m.volume = "config" => m.path \in files

\* A process finds every configuration file it names, mounted or in the image
\* (oslo.config aborts on a missing one), and parses the custom part once: a
\* second time would repeat its multi-valued options.
ParsesOnce(pod, ships) ==
  \A c \in Elements(pod.containers) :
    LET times(f) == {i \in DOMAIN c.parses : c.parses[i] = f}
    IN  c.parses # << >> =>
          /\ \E i \in DOMAIN c.parses : times("02-neutron-custom.conf") = {i}
          /\ Elements(c.parses) \subseteq {m.path : m \in Elements(c.mounts)} \cup ships

ConfigSecret(s) == {"01-neutron.conf", "02-neutron-custom.conf", "my.cnf"} \cup s.overwrite

Runnable(s) ==
  \A pod \in PodsOf(s) :
    Accepted(pod) /\ Mountable(pod, ConfigSecret(s)) /\ ParsesOnce(pod, s.ships)

-----------------------------------------------------------------------------
(* What nothing in the code checks                                         *)

OwnVolumes ==
  {"config", "httpd-config", "run-httpd", "combined-ca-bundle", "mtls",
   "internal-tls", "public-tls", "ovndb"}
OwnPaths ==
  {"01-neutron.conf", "02-neutron-custom.conf", "my.cnf", "policy.yaml",
   "httpd.conf", "10-neutron.conf", "ssl.conf", "run-httpd", "ca-bundle.pem",
   "mtls.crt", "mtls.key", "internal.crt", "internal.key", "public.crt", "public.key",
   "ovndb.crt", "ovndb.key", "ovndbca.crt"}

\* The user's additions to a pod keep out of each other's way and of the
\* operator's: no volume or path occurs twice or is one of the operator's, and
\* every mount is of one of the user's own volumes.
KeepsApart(volumes, mounts) ==
  LET paths == {mounts[i].path : i \in DOMAIN mounts}
  IN  /\ volumes \in Seq(Elements(volumes)) /\ Distinct(volumes)
      /\ Elements(volumes) \cap OwnVolumes = {}
      /\ mounts \in Seq([volume : Elements(volumes), path : paths])
      /\ \A i, j \in DOMAIN mounts : mounts[i].path = mounts[j].path => i = j
      /\ paths \cap OwnPaths = {}

ExtraFits(s) ==
  \A svc \in {NeutronAPIPropagation, DbsyncPropagation} :
    KeepsApart(ExtraVolMounts(s, svc, "volumes"), ExtraVolMounts(s, svc, "mounts"))

\* An image for the Eventlet strategy brings the files that its command names.
ImageFits(s) == "wsgi" \in s.switches \/ Elements(CommandFiles) \subseteq s.ships
=============================================================================
