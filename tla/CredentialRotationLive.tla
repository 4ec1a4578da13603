----------------------- MODULE CredentialRotationLive -----------------------
(***************************************************************************)
(* Liveness of credential rotation.  The environment may disturb the       *)
(* system in every way CredentialRotation allows, rapid rotations          *)
(* included, until it calms down; from then on nobody rotates, deletes or  *)
(* kills anything, no call fails and every TLS input exists.               *)
(*                                                                         *)
(* A reconcile starts only when the NeutronAPI is in the work queue, and   *)
(* starting takes it out.  It gets there by a change of an object that     *)
(* SetupWithManager watches, by a return that asks for a requeue, or when  *)
(* the operator restarts.                                                  *)
(***************************************************************************)
EXTENDS AgentTransport

VARIABLES
  queued,  \* the NeutronAPI is in the controller's work queue
  calm     \* the environment has stopped disturbing the system

liveVars == <<vars, agentVars, queued, calm>>

\* The step changes the NeutronAPI itself (spec, finalizers and status), the
\* configuration and the agents' Secrets, which it owns, or the Secret of the
\* application credential, which its spec names (findObjectsForSrc).
Finalizes(key) == (key \in fin) # (key \in fin')
OwnEvents ==
  \/ <<crVars, busOn, src["ac"], config, agents>>' # <<crVars, busOn, src["ac"], config, agents>>
  \/ Finalizes(<<"ac", src["ac"]>>)

\* Faulty: TransportURLs are not watched.
WatchedButTransportURLs == OwnEvents \/ podVars' # podVars

\* Faulty: Deployments are not watched.
WatchedButDeployments == OwnEvents \/ src' # src

\* The step changes a watched object: one of the above, a TransportURL or a
\* Deployment, whose status follows its pods.  The Secrets of the transport
\* URLs belong to others: what happens to them wakes nobody.
Watched == OwnEvents \/ src' # src \/ podVars' # podVars

\* The reconcile ends, and will be called again: it waits for a credential,
\* with RequeueAfter, or reading one failed.  After a missing TLS input it is
\* the arrival of that Secret that wakes it, through findObjectsForSrc.
Requeued == pc' = "idle" /\ (Blocked \/ ~tls)

\* A worker takes the NeutronAPI from the queue.  Its first sight only adds
\* the finalizer.
Dequeue ==
  /\ queued /\ pc = "idle"
  /\ WithAgents(Normal)
  /\ queued' = Watched

\* The running reconcile takes its next step.
Proceed ==
  /\ pc # "idle"
  /\ WithAgents(Normal \/ Delete) \/ ReconcileAgent
  /\ queued' = (queued \/ Watched \/ Requeued)

Controller == Dequeue \/ Proceed

\* An early return is an error, a RequeueAfter or a wait for a watched object;
\* a new operator process queues every NeutronAPI.
Interrupted == WithAgents(Bail \/ Crash) /\ queued' = TRUE

\* A step of anybody else.
Outside(step) == WithAgents(step) /\ queued' = (queued \/ Watched)

\* The Deployment controller retires a pod of an outdated template.
ScaleDown(d) ==
  \E p \in pods[d] : p.template # depl[d] /\ StopPod(d, p)

\* What the Deployment controller and the credentials' owners still do when
\* the environment is calm.
Others ==
  \/ \E d \in Deployments : StartPod(d) \/ ScaleDown(d)
  \/ \E s \in Slot, x \in Secret : Revoke(s, x)

\* The controller, finding every TLS input.
CalmController == Controller /\ (tls => tls')

CalmDown ==
  /\ ~calm /\ calm' = TRUE
  \* what the other operators still owe: the transport URLs in use are issued
  /\ src["transport"] # None /\ (busOn => src["notifications"] # None)
  /\ UNCHANGED <<vars, agentVars, queued>>

\* The creation of the NeutronAPI has queued it.
LiveInit == AgentsInit /\ queued = TRUE /\ calm = FALSE

LiveNext ==
  \/ ~calm /\ (Controller \/ Interrupted \/ Outside(Pods \/ Environment)) /\ UNCHANGED calm
  \/ CalmDown
  \/ calm /\ (CalmController \/ Outside(Others)) /\ UNCHANGED calm

\* Fairness: the worker takes what is queued, a reconcile that is neither
\* interrupted nor blocked goes on, and Deployments roll out.  Nothing makes a
\* reconcile start that no event, requeue or restart asked for.
Fairness ==
  /\ WF_liveVars(CalmController /\ UNCHANGED calm)
  /\ \A d \in Deployments :
       /\ WF_liveVars(Outside(StartPod(d)) /\ UNCHANGED calm)
       /\ WF_liveVars(Outside(ScaleDown(d)) /\ UNCHANGED calm)

LiveSpec == LiveInit /\ [][LiveNext]_liveVars /\ Fairness

WantedKeys == {<<s, Wanted[s]>> : s \in Slot} \cap Key

\* However wildly the credentials changed before, once the environment is
\* calm the events that the watches delivered, and the requeues asked for, are
\* enough: a NeutronAPI ends up Ready, and exactly the wanted credentials keep a
\* consumer finalizer: every superseded one is released, the ones that a
\* rapid rotation skipped included (FinalizeSecretRotation and the prune that
\* follows it).
RotationConverges ==
  <>[](calm /\ crPhase \in {"new", "active"} => Settled /\ fin = WantedKeys)

\* Then the agents' Secrets embed the current transport URL too, whatever step
\* of a reconcile the last change of the TransportURL fell into.
AgentsConverge ==
  <>[](calm /\ crPhase \in {"new", "active"} =>
         \A a \in Agent : agents[a] = src["transport"])

\* A NeutronAPI that is being deleted disappears: reconcileDelete never waits
\* for a resource that it alone can release.
DeletionCompletes == <>[](calm => crPhase # "deleting")
=============================================================================
