------------------------------ MODULE Admission ------------------------------
(***************************************************************************)
(* The admission webhooks of a NeutronAPI: the spec that is stored for a   *)
(* request, and the requests that are refused.  A spec s is a record with  *)
(*   s.messagingBus, s.rabbitMqClusterName            the RabbitMQ cluster *)
(*   s.notificationsBus, s.notificationsBusInstance   and the other one    *)
(*   s.override    the endpoints that override.service has entries for     *)
(*   s.overwrite   the files of defaultConfigOverwrite                     *)
(*   s.topology    the referenced Topology, or None                        *)
(*   s.topologyNamespace   the namespace of that reference                 *)
(* An empty name is "".  rabbitMqClusterName and notificationsBusInstance  *)
(* are the deprecated fields.                                              *)
(***************************************************************************)

\* Default, on create and on update.  The image and the API timeout get
\* their defaults in the same way; the notifications bus gets none.
Default(s) ==
  [s EXCEPT !.messagingBus = IF @ = "" THEN "rabbitmq" ELSE @]

\* ValidateRoutedOverrides: an entry is for one of the two endpoints.
ValidateRoutedOverrides(s) == s.override \subseteq {"internal", "public"}

ValidateDefaultConfigOverwrite(s) == s.overwrite \subseteq {"policy.yaml"}

\* The Topology must be in the NeutronAPI's own namespace.
ValidateTopology(s) == s.topologyNamespace \in {"", "own"}

\* ValidateCreate does not look at the deprecated fields, and nothing looks at
\* extraMounts.
ValidateCreate(s) ==
  ValidateRoutedOverrides(s) /\ ValidateDefaultConfigOverwrite(s) /\ ValidateTopology(s)

getDeprecatedFields(s) ==
  [rabbitMqClusterName |-> s.rabbitMqClusterName,
   notificationsBusInstance |-> s.notificationsBusInstance]

\* A deprecated field keeps its value or is cleared.
validateDeprecatedFieldsUpdate(old, new) ==
  \A f \in DOMAIN getDeprecatedFields(new) :
    getDeprecatedFields(new)[f] \in {"", getDeprecatedFields(old)[f]}

ValidateUpdate(old, new) ==
  /\ validateDeprecatedFieldsUpdate(old, new) /\ ValidateRoutedOverrides(new)
  /\ ValidateDefaultConfigOverwrite(new) /\ ValidateTopology(new)
=============================================================================
