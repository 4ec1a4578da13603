--------------------------- MODULE AgentTransport ---------------------------
(***************************************************************************)
(* The Secrets for the SR-IOV and DHCP agents of the external compute      *)
(* nodes.  They embed the transport URL, so they too are consumers of the  *)
(* credential that CredentialRotation rotates.  reconcileNormal writes     *)
(* them, one after the other, between the finalizers of the transport URLs *)
(* and the configuration of the Neutron pods.                              *)
(***************************************************************************)
EXTENDS CredentialRotation, Sequences

VARIABLES
  agents,  \* the Secret whose transport URL each agent's Secret embeds
  done     \* how many of them the running reconcile has handled

agentVars == <<agents, done>>

\* The order of reconcileExternalSecrets.
Agents == <<"sriov", "dhcp">>
Agent == {"sriov", "dhcp"}
NoAgents == [a \in Agent |-> None]

AgentsInit == Init /\ agents = NoAgents /\ done = 0

\* Faulty: the agents get the credential that the status tracks.
ReconcileAgentFromStatus ==
  /\ pc = "config" /\ done < Len(Agents)
  /\ agents' = [agents EXCEPT ![Agents[done + 1]] = st["transport"]]
  /\ done' = done + 1
  /\ UNCHANGED vars

\* Write the next agent's Secret, or delete it when the transport URL cannot
\* be read.
ReconcileAgent ==
  /\ pc = "config" /\ done < Len(Agents)
  /\ agents' = [agents EXCEPT ![Agents[done + 1]] =
                  IF <<"transport", cur["transport"]>> \in revoked
                  THEN None ELSE cur["transport"]]
  /\ done' = done + 1
  /\ UNCHANGED vars

\* Every other step: the configuration waits for the agents, a Secret of an
\* agent is garbage-collected with the NeutronAPI that owns it.
WithAgents(step) ==
  /\ step
  /\ pc = "config" /\ pc' = "tls" => done = Len(Agents)
  /\ done' = IF pc' = "config" THEN done ELSE 0
  /\ agents' = IF crPhase = "gone" /\ crPhase' = "new" THEN NoAgents ELSE agents

AgentsNext == ReconcileAgent \/ WithAgents(Next)

AgentsSpec == AgentsInit /\ [][AgentsNext]_<<vars, agentVars>>

\* The credential in an agent's Secret carries the consumer finalizer, so its
\* owner does not revoke it, even through rapid rotations:
\* reconcileExternalSecrets runs after the finalizer is on the current
\* Secret and before any other one is released (lines 1116-1121, 1242).
AgentsAreProtected ==
  crPhase = "active" =>
    \A a \in Agent : agents[a] # None => <<"transport", agents[a]>> \in fin
=============================================================================
